---------------------------- MODULE MCClassUnit ----------------------------
(***************************************************************************)
(* Units of at most MaxDecls declarations over two classes, Sub a subclass *)
(* of Base, and two protocols; those of more than five have members of one *)
(* name.  Shapes admits the units the code and its own account of them     *)
(* disagree about; each is one the passing run leaves out and the README's *)
(* list of disagreements names.                                            *)
(***************************************************************************)
EXTENDS ClassUnit

CONSTANT Shapes

MCClasses == {"Base", "Sub"}
MCProtocols == {"P", "Q"}

Member(what, name) == [what |-> what, name |-> name, sel |-> name, class |-> FALSE, type |-> "int",
                       params |-> <<>>, readonly |-> FALSE, getter |-> "", ivar |-> "",
                       sends |-> <<>>]
Method(sel) == Member("method", sel)
Property(name) == Member("property", name)
Readonly(p) == [p EXCEPT !.readonly = TRUE]
OfClass(m) == [m EXCEPT !.class = TRUE]
Typed(m, t) == [m EXCEPT !.type = t]
Optional == Member("optional", "")
Synthesize1(name, ivar) == [Member("synthesize", name) EXCEPT !.ivar = ivar]
Dynamic(name) == Member("dynamic", name)
Setter(name) == [Method("set " \o name) EXCEPT !.type = "void", !.params = <<"int">>]
Sending(m, to, sel) == [m EXCEPT !.sends = <<[to |-> to, sel |-> sel]>>]
ToBase == [ID EXCEPT !.base = "Base"]
ToSub == [ID EXCEPT !.base = "Sub"]
ToP == [ID EXCEPT !.protocols = <<"P">>]

Ivar(name, type) == [name |-> name, type |-> type]

Decl(form, name, super, category, protocols, ivars, members) ==
    [form |-> form, name |-> name, super |-> super, category |-> category,
     protocols |-> protocols, ivars |-> ivars, members |-> members]
Interface(name, super, protocols, ivars, members) ==
    Decl("interface", name, super, "", protocols, ivars, members)
Protocol(name, protocols, members) == Decl("protocol", name, None, "", protocols, <<>>, members)
Implement1(name, ivars, members) == Decl("implementation", name, None, "", <<>>, ivars, members)

ProtocolDecls ==
    {Protocol("P", <<>>, ms) : ms \in {<<Method("m")>>, <<Optional, Method("m")>>, <<Property("x")>>}}
    \cup {Protocol("Q", <<"P">>, <<>>), Protocol("P", <<"Q">>, <<>>),
          Protocol("Q", <<>>, <<Optional, Method("m")>>)}

BaseDecls ==
    {Interface("Base", None, ps, <<>>, ms) :
        ps \in {<<>>, <<"P">>}, ms \in {<<>>, <<Property("x")>>, <<Method("m")>>}}
    \cup {Interface("Base", None, <<"Q">>, <<>>, <<Readonly(Property("x"))>>),
          Interface("Base", None, <<"Q">>, <<>>, <<>>),
          Interface("Base", None, <<>>, <<>>, <<Readonly(Typed(Property("x"), "id"))>>),
          Interface("Base", None, <<>>, <<Ivar("_x", "int")>>, <<Property("x")>>),
          Interface("Base", None, <<>>, <<Ivar("_x", "id")>>, <<Property("x")>>),
          Interface("Base", None, <<>>, <<>>, <<Property("x"), Method("x")>>),
          Interface("Base", None, <<>>, <<>>, <<Property("x"), [Property("y") EXCEPT !.getter = "x"]>>),
          Interface("Base", None, <<>>, <<>>, <<OfClass(Typed(Property("x"), "id")), Property("x")>>),
          Interface("Base", None, <<>>, <<>>, <<Property("x"), Typed(Method("x"), "id")>>),
          Interface("Base", "Base", <<>>, <<>>, <<Property("x")>>),
          Interface("Base", "Sub", <<>>, <<>>, <<Method("m")>>)}

ExtensionDecls ==
    {Decl("extension", "Base", None, "", <<>>, <<>>, <<Property("x")>>),
     Decl("category", "Base", None, "C", <<"P">>, <<>>, <<>>),
     Decl("category", "Base", None, "C", <<>>, <<>>, <<Method("m")>>)}

SubDecls ==
    {Interface("Sub", "Base", ps, <<>>, ms) :
        ps \in {<<>>, <<"P">>},
        ms \in {<<>>, <<Property("x")>>, <<Method("m")>>, <<Typed(Method("x"), "id")>>}}

BaseImpls ==
    {Implement1("Base", <<>>, ms) : ms \in
        {<<>>, <<Sending(Method("n"), ToSub, "x")>>, <<Sending(Method("n"), ID, "m")>>,
         <<Method("m")>>, <<Typed(Method("m"), "id")>>, <<Method("x")>>, <<Method("x"), Setter("x")>>,
         <<Synthesize1("x", "")>>, <<Synthesize1("x", "_y")>>, <<Dynamic("x")>>}}
    \cup {Decl("category implementation", "Base", None, "C", <<>>, <<>>,
               <<Sending(Method("m"), ToP, "m")>>),
          Decl("category implementation", "Base", None, "C", <<>>, <<>>,
               <<Typed(Method("m"), "id")>>)}

SubImpls ==
    {Implement1("Sub", <<>>, ms) : ms \in
        {<<>>, <<Sending(Method("n"), ToBase, "x")>>, <<Sending(Method("n"), ToP, "m")>>,
         <<Sending(Method("n"), ToSub, "m")>>, <<Typed(Method("m"), "id")>>,
         <<Typed(Method("x"), "id")>>, <<Synthesize1("x", "")>>, <<Dynamic("x")>>}}

MCDecls == ProtocolDecls \cup BaseDecls \cup ExtensionDecls \cup SubDecls \cup BaseImpls \cup SubImpls

----------------------------------------------------------------------------
(* The units.                                                              *)

Rank(d) == IF d.form = "protocol" THEN 1
           ELSE IF Implementation(d) THEN 5
           ELSE IF d.form # "interface" THEN 3
           ELSE IF d.name = "Base" THEN 2 ELSE 4

Mentions(d) == d.protocols
               \o FlattenSeq([i \in DOMAIN d.members |->
                      FlattenSeq([j \in DOMAIN d.members[i].sends |-> d.members[i].sends[j].to.protocols])])

\* The members declared in a unit, each with the declaration it stands in.
Declarations(u) == UNION {{<<u[i], u[i].members[j]>> : j \in DOMAIN u[i].members} :
                              i \in {n \in DOMAIN u : ~Implementation(u[n])}}
Written(u) == {a \in Declarations(u) : a[2].what = "property"}

\* The methods of the protocols Sub adopts, and those Base's implementations have.
AdoptedBySub(u) == {a \in Declarations(u) :
    /\ a[1].form = "protocol" /\ a[2].what = "method"
    /\ \E i \in DOMAIN u : u[i].name = "Sub" /\ a[1].name \in ToSet(u[i].protocols)}
HadByBase(u) == UNION {{m \in ToSet(u[i].members) : m.what = "method"} :
    i \in {n \in DOMAIN u : Implementation(u[n]) /\ u[n].name = "Base"}}
Whole(u) == {u[i].name : i \in {n \in DOMAIN u : u[n].form = "implementation"}}

Shaped(u) ==
    {s \in {"cycle", "retyped", "readonly", "borrowed", "variable", "getter", "class", "late",
            "declared above", "typed above"} :
        \/ /\ s = "cycle"         \* A hierarchy that leads back to itself.
           /\ \/ \E i \in DOMAIN u : u[i].name = "Base" /\ u[i].super = "Sub"
              \/ \E i \in DOMAIN u : u[i].name = "P" /\ u[i].protocols = <<"Q">>
        \/ /\ s = "retyped"       \* A property or its getter declared with another type.
           /\ \E a \in Written(u), b \in Declarations(u) :
                                       /\ a[2].name = b[2].name /\ a[2].class = b[2].class
                                       /\ AbiShape(a[2].type) # AbiShape(b[2].type)
        \/ /\ s = "readonly"      \* readonly in the class, readwrite in a protocol.
           /\ \E a, b \in Written(u) : /\ a[1].form = "protocol" /\ b[1].form = "interface"
                                       /\ ~a[2].readonly /\ b[2].readonly
        \/ /\ s = "borrowed"      \* @synthesize or @dynamic of another's property.
           /\ \E i \in DOMAIN u : \E j \in DOMAIN u[i].members :
                  /\ u[i].members[j].what \in {"synthesize", "dynamic"}
                  /\ \A a \in Written(u) : a[1].form = "protocol" \/ a[1].name # u[i].name
        \/ /\ s = "variable"      \* A written variable of another type than its property.
           /\ \E i \in DOMAIN u : Ivar("_x", "id") \in ToSet(u[i].ivars)
        \/ /\ s = "getter"        \* Two properties of one getter.
           /\ \E a \in Written(u) : a[2].getter # ""
        \/ /\ s = "class"         \* A class property and an instance property of one name.
           /\ \E a \in Written(u) : a[2].class
        \/ /\ s = "declared above"  \* A requirement its superclass declares and nobody meets.
           /\ {"Base", "Sub"} \subseteq Whole(u)
           /\ \E a \in AdoptedBySub(u), b \in Declarations(u) :
                  /\ Optional \notin ToSet(a[1].members)
                  /\ b[2] = a[2] /\ b[1] # a[1]
                  /\ \E i \in DOMAIN u : u[i].name = "Base" /\ b[1].name \in {"Base"} \cup ToSet(u[i].protocols)
                  /\ \A m \in HadByBase(u) : m.sel # a[2].sel
        \/ /\ s = "typed above"     \* A protocol's method its superclass has with another type.
           /\ \E a \in AdoptedBySub(u), m \in HadByBase(u) :
                  m.sel = a[2].sel /\ AbiShape(m.type) # AbiShape(a[2].type)
        \/ /\ s = "late"          \* A selector declared otherwise after a send to id.
           /\ \E i, j \in DOMAIN u : /\ i < j /\ \E a \in DOMAIN u[i].members : u[i].members[a].sends # <<>>
                                     /\ \E b \in DOMAIN u[j].members : u[j].members[b].type = "id"}

\* What a unit speaks of, by the names of its members.
Named(u) == {n \in {"m", "x"} : \E i \in DOMAIN u : \E j \in DOMAIN u[i].members :
    \/ u[i].members[j].name = n
    \/ u[i].members[j].sends # <<>> /\ u[i].members[j].sends[1].sel = n}

\* Header order, one declaration of each kind, what is named declared, and room
\* left for two implementations; those in any order.  The largest units have
\* members of one name.
MCMayFollow(u, d) ==
    /\ \A i \in DOMAIN u : /\ Rank(u[i]) <= Rank(d)
                          /\ <<u[i].form, u[i].name>> # <<d.form, d.name>>
    /\ Rank(d) > 2 => \E i \in DOMAIN u : u[i].form = "interface" /\ u[i].name \in {d.name, d.super}
    /\ Rank(d) > 1 => ToSet(Mentions(d)) \subseteq {u[i].name : i \in DOMAIN u}
    /\ Implementation(d) \/ Len(u) < MaxDecls - 2
    /\ Len(u) > 4 => Cardinality(Named(Append(u, d))) < 2
    /\ Shaped(Append(u, d)) \subseteq Shapes

=============================================================================
