----------------------------- MODULE Interfaces ----------------------------
(***************************************************************************)
(* The analyzer's two passes over the Objective-C declarations of a unit   *)
(* (analyzer/analyzer.go, analyzer/objc.go, analyzer/impl.go,              *)
(* analyzer/message.go): pass 1 links the hierarchy, pass 2 reads members, *)
(* checks implementations against what was promised, and resolves sends.   *)
(*                                                                         *)
(* A declaration is [form, name, super, category, protocols, ivars,        *)
(* members]; a checker c is [h, errors, warnings, hung, sends], h the      *)
(* hierarchy of Hierarchy.tla.  What a pass does to one declaration is an  *)
(* operator from checkers to checkers; hung is set where a search the code *)
(* makes would never return.                                               *)
(***************************************************************************)
EXTENDS Hierarchy

Report(c, what) == [c EXCEPT !.errors = @ \cup {what}]
Warn(c, what) == [c EXCEPT !.warnings = @ \cup {what}]
Searched(c, found) == [c EXCEPT !.hung = @ \/ found = Endless]

ClassOf(d) == Place("class", d.name)
Update(c, pl, rec) == [c EXCEPT !.h = SetAt(c.h, pl, rec)]

----------------------------------------------------------------------------
(* Pass 1.                                                                 *)

\* declareObjC: only links, whatever pass 2 will say of the declaration.
DeclareObjC(c, d) ==
    LET k == c.h.class[d.name]
        p == c.h.protocol[d.name]
    IN  CASE d.form = "interface" ->
               LET linked == Update(c, ClassOf(d), [k EXCEPT
                       !.super = IF d.super \in {None, d.name} THEN @ ELSE d.super,
                       !.protocols = @ \o d.protocols])
               IN  IF d.super = d.name THEN Report(linked, "its own superclass") ELSE linked
          [] d.form \in {"category", "extension"} ->
               Update(c, ClassOf(d), [k EXCEPT !.protocols = @ \o d.protocols])
          [] d.form = "protocol" ->
               Update(c, Place("protocol", d.name),
                      [p EXCEPT !.declared = TRUE, !.protocols = @ \o d.protocols])
          [] OTHER -> c

----------------------------------------------------------------------------
(* Members.                                                                *)

Owner(d) == IF d.form \in {"category", "category implementation"}
            THEN <<d.name, d.category>> ELSE <<d.name>>

MethodSig(m, owner, optional) ==
    [sel |-> m.sel, class |-> m.class, ret |-> m.type, params |-> m.params,
     optional |-> optional, fromProperty |-> FALSE, owner |-> owner]

Append1(c, pl, field, x) ==
    LET rec == At(c.h, pl)
    IN  Update(c, pl, CASE field = "methods"    -> [rec EXCEPT !.methods = Append(@, x)]
                        [] field = "properties" -> [rec EXCEPT !.properties = Append(@, x)]
                        [] field = "ivars"      -> [rec EXCEPT !.ivars = Append(@, x)])

\* addMethod: a declared method stands for the accessor a property implied.
AddMethod(c, pl, sig) ==
    LET rec == At(c.h, pl)
        i   == MethodIndex(rec, sig.sel, sig.class)
    IN  IF i = 0 THEN Append1(c, pl, "methods", sig)
        ELSE IF rec.methods[i].fromProperty
        THEN Update(c, pl, [rec EXCEPT !.methods[i] = sig])
        ELSE Report(c, "duplicate method")

\* One accessor, unless the walk already finds a method for its selector.
DeclareAccessor(c, pl, p, sel, ret, params, optional) ==
    LET found == LookupPlace(c.h, Walk(c.h, pl), sel, p.class)
    IN  IF IsFound(found) THEN c
        ELSE Searched(Append1(c, pl, "methods",
                 [sel |-> sel, class |-> p.class, ret |-> ret, params |-> params,
                  optional |-> optional, fromProperty |-> pl.kind = "class",
                  owner |-> p.owner]), found)

DeclareAccessors(c, pl, p, optional) ==
    LET got == DeclareAccessor(c, pl, p, p.getter, p.type, <<>>, optional)
    IN  IF p.readonly THEN got
        ELSE DeclareAccessor(got, pl, p, p.setter, "void", <<p.type>>, optional)

\* addProperties.  A category, an extension and an implementation redeclare a
\* property in place; the new declaration replaces the whole record.
AddProperty(c, pl, m, owner, optional, inCategory) ==
    LET p == [name |-> m.name, type |-> m.type, readonly |-> m.readonly, class |-> m.class,
              getter |-> IF m.getter = "" THEN m.name ELSE m.getter,
              setter |-> "set " \o m.name, owner |-> owner, ivar |-> "", dynamic |-> FALSE]
        rec == At(c.h, pl)
        prev == SelectInSeq(rec.properties, LAMBDA q : q.name = p.name /\ q.class = p.class)
    IN  IF pl.kind = "class" /\ prev # 0
        THEN IF ~inCategory THEN Report(c, "duplicate property")
             ELSE DeclareAccessors(Update(c, pl, [rec EXCEPT !.properties[prev] = p]),
                                   pl, p, optional)
        ELSE DeclareAccessors(Append1(c, pl, "properties", p), pl, p, optional)

\* addMembers: @required and @optional carry over to what follows them.
AddMembers(c, pl, members, owner, inCategory) ==
    LET add(acc, m) ==
            CASE m.what \in {"optional", "required"} ->
                   IF pl.kind = "class"
                   THEN [acc EXCEPT !.c = Report(@, "requirement outside a protocol")]
                   ELSE [acc EXCEPT !.optional = m.what = "optional"]
              [] m.what = "method" ->
                   [acc EXCEPT !.c = AddMethod(@, pl, MethodSig(m, owner, acc.optional))]
              [] m.what = "property" ->
                   [acc EXCEPT !.c = AddProperty(@, pl, m, owner, acc.optional, inCategory)]
              [] OTHER -> acc
    IN  FoldLeft(add, [c |-> c, optional |-> FALSE], members).c

\* addIvars: a name of the class or of a superclass is not declared again.
AddIvars(c, k, ivars, private) ==
    LET add(acc, v) ==
            LET found == FindIvar(acc.h, k, v.name)
            IN  IF IsFound(found) THEN Report(acc, "duplicate instance variable")
                ELSE Searched(Append1(acc, Place("class", k), "ivars",
                         [name |-> v.name, type |-> v.type, private |-> private,
                          synthesized |-> FALSE]), found)
    IN  FoldLeft(add, c, ivars)

----------------------------------------------------------------------------
(* Interfaces, categories, protocols.                                      *)

CheckInterface(c, d) ==
    LET k == c.h.class[d.name]
        opened == Update(c, ClassOf(d), [k EXCEPT !.complete = TRUE, !.root = d.super = None])
        shaped == IF d.super # None /\ ~opened.h.class[d.super].complete
                  THEN Report(opened, "forward superclass") ELSE opened
    IN  IF k.complete THEN Report(c, "duplicate interface")
        ELSE AddMembers(AddIvars(shaped, d.name, d.ivars, FALSE),
                        ClassOf(d), d.members, Owner(d), FALSE)

CheckCategory(c, d) ==
    IF ~c.h.class[d.name].complete THEN Report(c, "category of a forward class")
    ELSE LET widened == IF d.form = "extension" THEN AddIvars(c, d.name, d.ivars, TRUE)
                        ELSE IF d.ivars = <<>> THEN c
                        ELSE Report(c, "instance variables in a category")
         IN  AddMembers(widened, ClassOf(d), d.members, Owner(d), TRUE)

CheckProtocol(c, d) ==
    LET pl == Place("protocol", d.name)
        p == c.h.protocol[d.name]
    IN  IF p.complete THEN Report(c, "duplicate protocol")
        ELSE AddMembers(Update(c, pl, [p EXCEPT !.complete = TRUE]), pl, d.members, Owner(d), FALSE)

----------------------------------------------------------------------------
(* Implementations.                                                        *)

Defined(members) == {<<members[i].sel, members[i].class>> :
                         i \in {j \in DOMAIN members : members[j].what = "method"}}

SameType(a, b) == a = b \/ (IsObject(a) /\ IsObject(b))

\* checkOverride; other parameters in number are not compared.
Overrides(declared, m) ==
    /\ SameType(declared.ret, m.type)
    /\ Len(declared.params) = Len(m.params)
       => \A i \in DOMAIN m.params : SameType(declared.params[i], m.params[i])

\* A mutant: the class's own declarations only.
EnterDefinitionsOwn(c, k, members, owner) ==
    LET pl == Place("class", k)
        enter(acc, m) ==
            IF m.what # "method" \/ MethodIndex(At(acc.h, pl), m.sel, m.class) # 0 THEN acc
            ELSE Append1(acc, pl, "methods", MethodSig(m, owner, FALSE))
    IN  FoldLeft(enter, c, members)

\* The definitions of an implementation, entered before any body is read.
EnterDefinitions(c, k, members, owner) ==
    LET pl == Place("class", k)
        enter(acc, i) ==
            LET m == members[i]
                earlier == {j \in 1..i - 1 : /\ members[j].what = "method"
                                             /\ members[j].sel = m.sel /\ members[j].class = m.class}
                found == LookupPlace(acc.h, Walk(acc.h, pl), m.sel, m.class)
            IN  IF m.what # "method" THEN acc
                ELSE IF earlier # {} THEN Report(acc, "duplicate definition")
                ELSE IF ~IsFound(found)
                THEN Searched(Append1(acc, pl, "methods", MethodSig(m, owner, FALSE)), found)
                ELSE IF Overrides(MethodAt(acc.h, found, m.sel, m.class), m) THEN acc
                ELSE Report(acc, "definition disagrees")
    IN  FoldLeft(enter, c, [i \in DOMAIN members |-> i])

\* synthesize: storage and accessors for the property at index i of place pl.
\* What an unmentioned property disagrees with is reported at no position,
\* which report drops.
Synthesize(c, k, pl, i, ivar, explicit, defined) ==
    LET at == Place("class", k)
        p == At(c.h, pl).properties[i]
        found == FindIvar(c.h, k, ivar)
        stored == IF IsFound(found)
                  THEN IF explicit /\ ~SameType(IvarAt(c.h, found, ivar).type, p.type)
                       THEN Report(c, "instance variable of another type") ELSE c
                  ELSE Searched(Append1(c, at, "ivars",
                           [name |-> ivar, type |-> p.type, private |-> TRUE,
                            synthesized |-> TRUE]), found)
        backed == Update(stored, pl, [At(stored.h, pl) EXCEPT !.properties[i].ivar = ivar])
        accessor(acc, sel, ret, params) ==
            LET seen == LookupPlace(acc.h, Walk(acc.h, at), sel, FALSE)
            IN  IF <<sel, FALSE>> \in defined \/ IsFound(seen) THEN acc
                ELSE Searched(Append1(acc, at, "methods",
                         [sel |-> sel, class |-> FALSE, ret |-> ret, params |-> params,
                          optional |-> FALSE, fromProperty |-> FALSE, owner |-> <<k>>]), seen)
        got == accessor(backed, p.getter, p.type, <<>>)
    IN  IF p.ivar # "" THEN IF explicit THEN Report(c, "already synthesized") ELSE c
        ELSE IF p.readonly THEN got ELSE accessor(got, p.setter, "void", <<p.type>>)

\* propertyImpls: @synthesize and @dynamic name a property any search finds.
PropertyImpls(c, k, members) ==
    LET apply(acc, m) ==
            LET pl == FindProperty(acc.h, ClassWalk(acc.h, k, {}), m.name)
                i == PropertyIndex(At(acc.h, pl), m.name)
            IN  IF m.what \notin {"synthesize", "dynamic"} THEN acc
                ELSE IF ~IsFound(pl) THEN Searched(Report(acc, "no such property"), pl)
                ELSE IF m.what = "dynamic"
                THEN Update(acc, pl, [At(acc.h, pl) EXCEPT !.properties[i].dynamic = TRUE])
                ELSE Synthesize(acc, k, pl, i,
                         IF m.ivar = "" THEN "_" \o m.name ELSE m.ivar, TRUE, Defined(members))
    IN  FoldLeft(apply, c, members)

\* autoSynthesize: the class's own properties that nothing mentioned.
AutoSynthesize(c, k, members) ==
    LET pl == Place("class", k)
        defined == Defined(members)
        mentioned == {members[i].name : i \in {j \in DOMAIN members :
                          members[j].what \in {"synthesize", "dynamic"}}}
        make(acc, i) ==
            LET p == acc.h.class[k].properties[i]
            IN  IF \/ p.name \in mentioned \/ p.dynamic \/ p.class
                   \/ /\ <<p.getter, FALSE>> \in defined
                      /\ p.readonly \/ <<p.setter, FALSE>> \in defined
                THEN acc
                ELSE Synthesize(acc, k, pl, i, "_" \o p.name, FALSE, defined)
    IN  FoldLeft(make, c, [i \in DOMAIN c.h.class[k].properties |-> i])

\* orderSynthesizedIvars: the declared ones first, then by size.
Size(t) == IF t = "int" THEN 4 ELSE 8
OrderSynthesizedIvars(c, k) ==
    LET ivars == c.h.class[k].ivars
        made(n) == SelectSeq(ivars, LAMBDA v : v.synthesized /\ Size(v.type) = n)
    IN  Update(c, Place("class", k), [c.h.class[k] EXCEPT
            !.ivars = SelectSeq(ivars, LAMBDA v : ~v.synthesized) \o made(4) \o made(8)])

----------------------------------------------------------------------------
(* Sends.  A send is [to, sel], to the receiver's object type.             *)

PlainID(o) == o.base = None /\ o.protocols = <<>>

\* poolMethod: what the declarations read so far say of a selector, if they
\* all say the same of how it is called.
Places(h) == {Place("class", k) : k \in DOMAIN h.class}
             \cup {Place("protocol", p) : p \in DOMAIN h.protocol}
Declared(h, sel, class) ==
    {MethodAt(h, pl, sel, class) : pl \in {q \in Places(h) : MethodIndex(At(h, q), sel, class) # 0}}
PoolShapes(h, sel, class) == {MethodShape(m) : m \in Declared(h, sel, class)}

\* resolveSend and unresolvedSend; a send nothing is known of stays typed id.
ResolveSend(c, s) ==
    LET walk == ReceiverWalk(c.h, s.to)
        found == LookupPlace(c.h, walk, s.sel, s.to.meta)
        pool == PoolShapes(c.h, s.sel, s.to.meta)
        sent(by, shape) == [c EXCEPT !.sends = @ \cup {[to |-> s.to, sel |-> s.sel,
                                                      by |-> by, shape |-> shape]}]
        known == pool # {} \/ Declared(c.h, s.sel, ~s.to.meta) # {}
    IN  IF IsFound(found)
        THEN sent("type", MethodShape(MethodAt(c.h, found, s.sel, s.to.meta)))
        ELSE IF ~PlainID(s.to) THEN Searched(Report(c, "no such method"), found)
        ELSE IF Cardinality(pool) = 1 THEN sent("pool", CHOOSE x \in pool : TRUE)
        ELSE IF known THEN sent("nothing", <<"pointer", <<>>>>)
        ELSE Warn(sent("nothing", <<"pointer", <<>>>>), "unknown selector")

----------------------------------------------------------------------------
(* What an implementation owes.                                            *)

\* A mutant: a method the class was told of counts as one it has.
CheckPromisesTold(c, k, members) ==
    LET own == {m \in ToSet(c.h.class[k].methods) :
                    m.owner = <<k>> /\ ~Understands(c.h, ClassWalk(c.h, k, {}), m.sel, m.class)}
    IN  IF own = {} THEN c ELSE Warn(c, "declared and not implemented")

\* checkPromises: the class's own declarations and the required methods of
\* what it adopts, less what this implementation or a superclass has.
CheckPromises(c, k, members) ==
    LET rec == c.h.class[k]
        made == {p \in ToSet(rec.properties) : p.ivar # "" \/ p.dynamic}
        implemented == Defined(members) \cup {<<p.getter, FALSE>> : p \in made}
                                       \cup {<<p.setter, FALSE>> : p \in made}
        own == {m \in ToSet(rec.methods) :
                    m.owner = <<k>> /\ <<m.sel, m.class>> \notin implemented}
        adopted == FlattenSeq([i \in DOMAIN rec.protocols |-> ProtocolWalk(c.h, rec.protocols[i], {})])
        asked == UNION {ToSet(At(c.h, pl).methods) : pl \in ToSet(adopted) \ {Endless}}
        super == ClassWalk(c.h, rec.super, {})
        missing == {m \in asked : /\ ~m.optional /\ <<m.sel, m.class>> \notin implemented
                                  /\ ~Understands(c.h, super, m.sel, m.class)}
        c1 == IF own = {} THEN c ELSE Warn(c, "declared and not implemented")
        c2 == IF missing = {} THEN c1 ELSE Warn(c1, "required and not implemented")
    IN  [c2 EXCEPT !.hung = @ \/ Endless \in ToSet(adopted)]

\* The steps of implement: storage for the properties, then the bodies, then,
\* of a class, what it promised.
StoreProperties(c, k, members, whole) ==
    OrderSynthesizedIvars(IF whole THEN AutoSynthesize(c, k, members) ELSE c, k)

ReadBodies(c, d) ==
    LET body(acc, m) ==
            CASE m.what = "method"   -> FoldLeft(ResolveSend, acc, m.sends)
              [] m.what = "property" -> AddProperty(acc, ClassOf(d), m, Owner(d), FALSE, TRUE)
              [] OTHER               -> acc
    IN  FoldLeft(body, c, d.members)

Owed(c, k, members, whole) == IF whole THEN CheckPromises(c, k, members) ELSE c

\* implement.
Implement(c, d, whole) ==
    LET k == d.name
        entered == PropertyImpls(EnterDefinitions(c, k, d.members, Owner(d)), k, d.members)
    IN  Owed(ReadBodies(StoreProperties(entered, k, d.members, whole), d), k, d.members, whole)

CheckClassImpl(c, d) ==
    LET k == c.h.class[d.name]
        named == IF d.super \notin {None, k.super} THEN Report(c, "superclass does not match") ELSE c
    IN  IF ~k.complete THEN Report(c, "no interface")
        ELSE Implement(AddIvars(named, d.name, d.ivars, TRUE), d, TRUE)

CheckCategoryImpl(c, d) ==
    IF ~c.h.class[d.name].complete THEN Report(c, "no interface") ELSE Implement(c, d, FALSE)

\* checkDecl: pass 2 on one declaration.
CheckDecl(c, d) ==
    CASE d.form = "interface"               -> CheckInterface(c, d)
      [] d.form \in {"category", "extension"} -> CheckCategory(c, d)
      [] d.form = "protocol"                -> CheckProtocol(c, d)
      [] d.form = "implementation"          -> CheckClassImpl(c, d)
      [] d.form = "category implementation" -> CheckCategoryImpl(c, d)
      [] OTHER                              -> c

=============================================================================
