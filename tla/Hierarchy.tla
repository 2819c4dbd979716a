----------------------------- MODULE Hierarchy -----------------------------
(***************************************************************************)
(* Classes and protocols, and the searches over them (types/objc.go,       *)
(* types/compat.go).  A hierarchy h has                                    *)
(*   h.class[k]    = [super, complete, root, protocols, ivars, methods,    *)
(*                    properties]                                          *)
(*   h.protocol[p] = [declared, complete, protocols, methods, properties]. *)
(* A method is [sel, class, ret, params, optional, fromProperty, owner], a *)
(* property [name, type, readonly, class, getter, setter, owner, ivar,     *)
(* dynamic], an instance variable [name, type, private, synthesized].      *)
(*                                                                         *)
(* The code's searches walk pointers.  A walk here is the sequence of      *)
(* places a search visits, in its order; it ends in Endless where the      *)
(* pointers lead back to a place the walk is already below, from where on  *)
(* the code's search never returns.                                        *)
(***************************************************************************)
EXTENDS Integers, Sequences, FiniteSets, SequencesExt

None == "none"

NoClass == [super |-> None, complete |-> FALSE, root |-> FALSE, protocols |-> <<>>,
            ivars |-> <<>>, methods |-> <<>>, properties |-> <<>>]
NoProtocol == [declared |-> FALSE, complete |-> FALSE, protocols |-> <<>>,
               methods |-> <<>>, properties |-> <<>>]

Place(kind, name) == [kind |-> kind, name |-> name]
Endless == Place("endless", None)

At(h, pl) == IF pl.kind = "class" THEN h.class[pl.name] ELSE h.protocol[pl.name]
SetAt(h, pl, rec) ==
    IF pl.kind = "class" THEN [h EXCEPT !.class[pl.name] = rec]
                         ELSE [h EXCEPT !.protocol[pl.name] = rec]

----------------------------------------------------------------------------
(* The walks.                                                              *)

\* A protocol and what it inherits, depth first.
RECURSIVE ProtocolWalk(_, _, _)
ProtocolWalk(h, p, below) ==
    IF p \in below THEN <<Endless>>
    ELSE LET up == h.protocol[p].protocols
         IN  <<Place("protocol", p)>>
             \o FlattenSeq([i \in DOMAIN up |-> ProtocolWalk(h, up[i], below \cup {p})])

\* A class, the protocols it adopts, then its superclass and so on.
RECURSIVE ClassWalk(_, _, _)
ClassWalk(h, k, below) ==
    IF k = None THEN <<>>
    ELSE IF k \in below THEN <<Endless>>
    ELSE LET adopted == h.class[k].protocols
         IN  <<Place("class", k)>>
             \o FlattenSeq([i \in DOMAIN adopted |-> ProtocolWalk(h, adopted[i], {})])
             \o ClassWalk(h, h.class[k].super, below \cup {k})

Walk(h, pl) ==
    IF pl.kind = "class" THEN ClassWalk(h, pl.name, {}) ELSE ProtocolWalk(h, pl.name, {})

\* The superclasses alone, nearest first.
IsClassPlace(pl) == pl.kind \in {"class", "endless"}
Chain(h, k) ==
    LET bare == [h EXCEPT !.class = [x \in DOMAIN h.class |-> [h.class[x] EXCEPT !.protocols = <<>>]]]
    IN  ClassWalk(bare, k, {})

\* The first place of a walk that has what is sought; Endless if the search
\* never ends, Nowhere if it ends with nothing.
Nowhere == Place("nowhere", None)
FirstPlace(walk, Has(_)) ==
    LET i == SelectInSeq(walk, LAMBDA pl : pl = Endless \/ Has(pl))
    IN  IF i = 0 THEN Nowhere ELSE walk[i]
IsFound(pl) == pl.kind \in {"class", "protocol"}

----------------------------------------------------------------------------
(* Searches.                                                               *)

\* IsSubclassOf, Conforms.
IsSubclassOf(h, k, super) == Place("class", super) \in ToSet(Chain(h, k))
Conforms(h, pl, p) == Place("protocol", p) \in ToSet(Walk(h, pl))

MethodIndex(rec, sel, class) ==
    SelectInSeq(rec.methods, LAMBDA m : m.sel = sel /\ m.class = class)
PropertyIndex(rec, name) == SelectInSeq(rec.properties, LAMBDA p : p.name = name)
IvarIndex(rec, name) == SelectInSeq(rec.ivars, LAMBDA v : v.name = name)

\* Lookup: where the walk first finds the method, and the method there.
LookupPlace(h, walk, sel, class) ==
    FirstPlace(walk, LAMBDA pl : MethodIndex(At(h, pl), sel, class) # 0)
MethodAt(h, pl, sel, class) == At(h, pl).methods[MethodIndex(At(h, pl), sel, class)]
Understands(h, walk, sel, class) == IsFound(LookupPlace(h, walk, sel, class))
Lookup(h, walk, sel, class) == MethodAt(h, LookupPlace(h, walk, sel, class), sel, class)

FindProperty(h, walk, name) == FirstPlace(walk, LAMBDA pl : PropertyIndex(At(h, pl), name) # 0)
PropertyAt(h, pl, name) == At(h, pl).properties[PropertyIndex(At(h, pl), name)]

FindIvar(h, k, name) == FirstPlace(Chain(h, k), LAMBDA pl : IvarIndex(h.class[pl.name], name) # 0)
IvarAt(h, pl, name) == h.class[pl.name].ivars[IvarIndex(h.class[pl.name], name)]

----------------------------------------------------------------------------
(* Object types: [base, meta, protocols], base None for id and Class.      *)

ID == [base |-> None, meta |-> FALSE, protocols |-> <<>>]

\* Where lookupMethod searches for what a receiver of type o understands.
ReceiverWalk(h, o) ==
    (IF o.base = None THEN <<>> ELSE ClassWalk(h, o.base, {}))
    \o FlattenSeq([i \in DOMAIN o.protocols |-> ProtocolWalk(h, o.protocols[i], {})])

ObjectConforms(h, o, p) == Place("protocol", p) \in ToSet(ReceiverWalk(h, o))

\* A mutant: the superclass where the class is asked for.
ObjectAssignableDown(h, l, r, kindof) ==
    \/ l.base = None \/ r.base = None \/ IsSubclassOf(h, l.base, r.base)

\* objectAssignable without type arguments: may a value of type r be stored
\* where l is declared, r written with __kindof or not.
ObjectAssignable(h, l, r, kindof) ==
    IF l.meta # r.meta
    THEN \/ l.meta /\ r.base = None /\ r.protocols = <<>>
         \/ r.meta /\ l.base = None /\ l.protocols = <<>>
    ELSE /\ \/ l.base = None
            \/ r.base = None
            \/ IsSubclassOf(h, r.base, l.base)
            \/ kindof /\ IsSubclassOf(h, l.base, r.base)
         /\ \/ r.base = None /\ r.protocols = <<>>
            \/ \A p \in ToSet(l.protocols) : ObjectConforms(h, r, p)

----------------------------------------------------------------------------
(* How values travel.                                                      *)

IsObject(t) == t \notin {"int", "double", "void"}
AbiShape(t) == IF IsObject(t) THEN "pointer" ELSE t
MethodShape(m) == <<AbiShape(m.ret), [i \in DOMAIN m.params |-> AbiShape(m.params[i])]>>

=============================================================================
