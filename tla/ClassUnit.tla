----------------------------- MODULE ClassUnit -----------------------------
(***************************************************************************)
(* A unit of Objective-C declarations, from the parser's tree to the       *)
(* module: pass 1 over all of them, pass 2 one by one in written order,    *)
(* then, if nothing was an error, the implementations one by one           *)
(* (analyzer/analyzer.go Check, lower/lower.go Lower).  What an            *)
(* implementation emits is lower/meta.go's, lower/synth.go's and           *)
(* lower/decl.go's.                                                        *)
(***************************************************************************)
EXTENDS Interfaces

CONSTANTS
    Classes, Protocols,
    Decls,              \* the declarations a unit is made of
    MaxDecls,           \* bound on the declarations of a unit
    MayFollow(_, _)     \* which declaration may come after which unit

VARIABLES
    unit,       \* the declarations, in written order
    stage,      \* "writing", "checking", "lowering", "done"
    at,         \* the next declaration of the stage
    checker,    \* analyzer's checker
    module      \* lowering's module

vars == <<unit, stage, at, checker, module>>

(* ------------------------------- emission ------------------------------- *)

(* A module is [ivars, bodies, classes, categories]: the offset variables  *)
(* it defines as <<class, name>>, the method functions, and what it        *)
(* publishes.  A body is [class, category, sel, meta, ret, value, ivar];   *)
(* an accessor's value is what it loads or stores, ivar the variable.      *)

NoModule == [ivars |-> {}, bodies |-> <<>>, classes |-> <<>>, categories |-> <<>>]

\* declareFile, declareIvars: the offset variables exist before any body.
DeclareFile(h, decls) ==
    LET implemented == {decls[i].name : i \in {j \in DOMAIN decls : decls[j].form = "implementation"}}
    IN  [NoModule EXCEPT !.ivars = UNION {{<<k, v.name>> : v \in ToSet(h.class[k].ivars)} :
                                              k \in implemented}]

Emit(mo, body) == [mo EXCEPT !.bodies = Append(@, body)]

\* defineMethod: a body has the signature the search finds.
DefineMethod(h, mo, d, m) ==
    LET sig == Lookup(h, Walk(h, ClassOf(d)), m.sel, m.class)
    IN  Emit(mo, [class |-> d.name, category |-> d.category, sel |-> m.sel, meta |-> m.class,
                  ret |-> sig.ret, value |-> sig.ret, ivar |-> None])

\* A mutant: a written accessor is made again.
SynthesizeAccessorsAgain(h, mo, k, written) ==
    LET get(acc, p) ==
            IF p.ivar = "" THEN acc
            ELSE Emit(acc, [class |-> k, category |-> "", sel |-> p.getter, meta |-> FALSE,
                            ret |-> p.type, value |-> p.type, ivar |-> p.ivar])
    IN  FoldLeft(get, mo, h.class[k].properties)

\* synthesizeAccessors: for every property with storage, what nobody wrote.
SynthesizeAccessors(h, mo, k, written) ==
    LET walk == ClassWalk(h, k, {})
        accessor(acc, p, sel) ==
            IF sel \in written \/ ~Understands(h, walk, sel, FALSE) THEN acc
            ELSE Emit(acc, [class |-> k, category |-> "", sel |-> sel, meta |-> FALSE,
                            ret |-> Lookup(h, walk, sel, FALSE).ret,
                            value |-> p.type, ivar |-> p.ivar])
        both(acc, p) ==
            IF p.ivar = "" \/ p.dynamic \/ p.class THEN acc
            ELSE LET got == accessor(acc, p, p.getter)
                 IN  IF p.readonly THEN got ELSE accessor(got, p, p.setter)
    IN  FoldLeft(both, mo, h.class[k].properties)

\* defineImpl.
DefineImpl(h, mo, d) ==
    LET written == {d.members[i].sel : i \in {j \in DOMAIN d.members :
                        d.members[j].what = "method" /\ ~d.members[j].class}}
        define(acc, m) == IF m.what = "method" THEN DefineMethod(h, acc, d, m) ELSE acc
        defined == FoldLeft(define, mo, d.members)
    IN  IF d.form = "implementation"
        THEN [SynthesizeAccessors(h, defined, d.name, written) EXCEPT !.classes = Append(@, d.name)]
        ELSE [defined EXCEPT !.categories = Append(@, <<d.name, d.category>>)]

\* methodsOf: the list a class, its metaclass or a category publishes.
MethodsOf(mo, k, category, meta) ==
    SelectSeq(mo.bodies, LAMBDA b : b.class = k /\ b.category = category /\ b.meta = meta)

\* instanceLayout: where a class's own variables start and end.
RECURSIVE InstanceLayout(_, _)
InstanceLayout(h, k) ==
    LET start == IF h.class[k].super = None THEN 0
                 ELSE InstanceLayout(h, h.class[k].super).size
        place(off, v) == ((off + Size(v.type) - 1) \div Size(v.type)) * Size(v.type) + Size(v.type)
    IN  [start |-> start, size |-> FoldLeft(place, start, h.class[k].ivars)]

----------------------------------------------------------------------------
(* The runtime's search (libobjc), over classes this unit emits.           *)

\* The bodies that answer in one class: a category's stand before its class's.
AnswersIn(mo, k, sel, meta) ==
    LET of(cats) == UNION {{b \in ToSet(MethodsOf(mo, k, x, meta)) : b.sel = sel} : x \in cats}
        attached == of({c[2] : c \in {y \in ToSet(mo.categories) : y[1] = k}})
    IN  IF attached # {} THEN attached
        ELSE IF k \in ToSet(mo.classes) THEN of({""}) ELSE {}

\* The bodies a send to an instance of k (or to k itself) may reach.
RECURSIVE Answers(_, _, _, _, _)
Answers(h, mo, k, sel, meta) ==
    IF k = None THEN {}
    ELSE IF AnswersIn(mo, k, sel, meta) # {} THEN AnswersIn(mo, k, sel, meta)
    ELSE IF meta /\ h.class[k].super = None THEN AnswersIn(mo, k, sel, FALSE)
    ELSE Answers(h, mo, h.class[k].super, sel, meta)

(* --------------------------------- unit --------------------------------- *)

NewChecker == [h |-> [class    |-> [k \in Classes \cup Protocols |-> NoClass],
                      protocol |-> [p \in Classes \cup Protocols |-> NoProtocol]],
               errors |-> {}, warnings |-> {}, hung |-> FALSE, sends |-> {}]

Init ==
    /\ unit = <<>> /\ stage = "writing" /\ at = 1
    /\ checker = NewChecker
    /\ module = NoModule

Write(d) ==
    /\ stage = "writing" /\ Len(unit) < MaxDecls /\ MayFollow(unit, d)
    /\ unit' = Append(unit, d)
    /\ UNCHANGED <<stage, at, checker, module>>

\* Pass 1.
Collect ==
    /\ stage = "writing" /\ unit # <<>>
    /\ checker' = FoldLeft(DeclareObjC, checker, unit)
    /\ stage' = "checking"
    /\ UNCHANGED <<unit, at, module>>

\* Pass 2, one declaration; it goes no further once a search hangs.
Check ==
    /\ stage = "checking" /\ at <= Len(unit) /\ ~checker.hung
    /\ checker' = CheckDecl(checker, unit[at])
    /\ at' = at + 1
    /\ UNCHANGED <<unit, stage, module>>

\* A unit with an error is not lowered.
Lower ==
    /\ stage = "checking" /\ at > Len(unit) /\ ~checker.hung /\ checker.errors = {}
    /\ stage' = "lowering" /\ at' = 1
    /\ module' = DeclareFile(checker.h, unit)
    /\ UNCHANGED <<unit, checker>>

Implementation(d) == d.form \in {"implementation", "category implementation"}

Define ==
    /\ stage = "lowering" /\ at <= Len(unit)
    /\ module' = IF Implementation(unit[at]) THEN DefineImpl(checker.h, module, unit[at]) ELSE module
    /\ at' = at + 1
    /\ UNCHANGED <<unit, stage, checker>>

Finish ==
    /\ stage = "lowering" /\ at > Len(unit)
    /\ stage' = "done"
    /\ UNCHANGED <<unit, at, checker, module>>

Next == (\E d \in Decls : Write(d)) \/ Collect \/ Check \/ Lower \/ Define \/ Finish

Spec == Init /\ [][Next]_vars

----------------------------------------------------------------------------
(* What a unit that was accepted can rely on.                              *)

h == checker.h
Silent == stage = "done" /\ checker.warnings = {}
Emitted == ToSet(module.classes)

\* A class all of whose superclasses this unit emits.
WholeClass(k) == \A pl \in ToSet(Chain(h, k)) : pl.name \in Emitted

\* What a class's interface, extensions and adopted protocols ask of it, less
\* the accessors @dynamic leaves to run time.
Asked(k) ==
    LET own == {m \in ToSet(h.class[k].methods) : m.owner = <<k>>}
        adopted == UNION {ToSet(ProtocolWalk(h, p, {})) : p \in ToSet(h.class[k].protocols)}
        required == {m \in UNION {ToSet(At(h, pl).methods) : pl \in adopted} : ~m.optional}
        dynamic == {p \in UNION {ToSet(At(h, pl).properties) : pl \in ToSet(ClassWalk(h, k, {}))} :
                        p.dynamic}
    IN  {m \in own \cup required : \A p \in dynamic : m.sel \notin {p.getter, p.setter}}

\* Every search the analyzer makes over superclasses and protocols ends: what
\* a hierarchy that leads back to itself violates, and no other can.
LookupsEnd == ~checker.hung

\* A method the class said it would provide, and nothing warned of, is there:
\* the runtime finds a body for it in the class or a superclass.
PromisesKept ==
    Silent => \A k \in Emitted : WholeClass(k) =>
        \A m \in Asked(k) : Answers(h, module, k, m.sel, m.class) # {}

\* One selector of a class is called one way: an accessor's body returns or
\* takes what the declaration a send finds says it does, and dot syntax, which
\* goes by the property, reads what the body that answers hands back.
SelectorsAgree ==
    stage = "done" =>
        /\ \A b \in ToSet(module.bodies) : b.ivar # None =>
               LET m == Lookup(h, ClassWalk(h, b.class, {}), b.sel, b.meta)
               IN  AbiShape(b.value) = AbiShape(IF m.params = <<>> THEN m.ret ELSE m.params[1])
        /\ \A k \in Emitted, name \in {p.name : p \in UNION {ToSet(h.class[x].properties) : x \in Classes}} :
               LET pl == FindProperty(h, ClassWalk(h, k, {}), name)
                   p == PropertyAt(h, pl, name)
               IN  IsFound(pl) /\ ~p.class =>
                       \A b \in Answers(h, module, k, p.getter, FALSE) :
                           AbiShape(b.ret) = AbiShape(p.type)

\* An accessor reads and writes a variable of its property's type that a class
\* of the chain lays out, and defines where this unit emits that class; and no
\* function is defined twice.
AccessorsStored ==
    stage = "done" =>
        /\ \A b \in ToSet(module.bodies) : b.ivar # None =>
               LET pl == FindIvar(h, b.class, b.ivar)
               IN  /\ IsFound(pl)
                   /\ SameType(IvarAt(h, pl, b.ivar).type, b.value)
                   /\ pl.name \in Emitted => <<pl.name, b.ivar>> \in module.ivars
        /\ \A i, j \in DOMAIN module.bodies : i # j =>
               LET a == module.bodies[i]
                   b == module.bodies[j]
               IN  <<a.class, a.category, a.sel, a.meta>> # <<b.class, b.category, b.sel, b.meta>>

\* The classes this unit emits whose objects a receiver of type o may be.
Behind(o) == {k \in Emitted : WholeClass(k) /\
                 ObjectAssignable(h, o, [base |-> k, meta |-> FALSE, protocols |-> <<>>], FALSE)}


\* What may be stored without a cast understands what it is then known as:
\* every selector found on the destination's type is found on the source's.
ObjectTypes == [base : Classes, meta : {FALSE}, protocols : {<<>>} \cup {<<p>> : p \in Protocols}]
Substitutable ==
    stage = "done" =>
        \A l \in ObjectTypes \cup [base : {None}, meta : {FALSE}, protocols : {<<p>> : p \in Protocols}],
           r \in ObjectTypes :
            ObjectAssignable(h, l, r, FALSE) =>
                \A pl \in ToSet(ReceiverWalk(h, l)) \ {Endless} : \A m \in ToSet(At(h, pl).methods) :
                    Understands(h, ReceiverWalk(h, r), m.sel, m.class)

=============================================================================
