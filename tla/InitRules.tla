----------------------------- MODULE InitRules -----------------------------
(***************************************************************************)
(* Initialization as the standard states it (C11 6.7.9), without a walk:   *)
(* the list in a brace is read item by item, and each item has a place, a  *)
(* path from the object the brace is for.  A designation names the place;  *)
(* without one it is the successor of the place before (p17).  If the item *)
(* cannot initialize the subobject there, the place moves to the first     *)
(* subobject of it (p20).  What is not initialized is zero (p21), and a    *)
(* later item overrides what it initializes again (p19).                   *)
(*                                                                         *)
(* A place is a sequence of positions from 1, <<>> past the last one.      *)
(***************************************************************************)
EXTENDS Initializers

RECURSIVE At(_, _)
At(t, p) ==
    IF p = <<>> THEN t
    ELSE At(IF IsArray(t) THEN t.elem ELSE t.fields[Head(p)].t, Tail(p))

\* The positions that take part: unnamed bit-fields do not (p9).
Takes(f) == IsRecord(f.t) \/ f.name # ""
Positions(t) == IF IsArray(t) THEN 1 .. t.len ELSE {i \in DOMAIN t.fields : Takes(t.fields[i])}
LeastOf(S) == CHOOSE x \in S : \A y \in S : x <= y

RECURSIVE Leaves(_)
Leaves(t) == IF t.k = "scalar" THEN {<<>>}
             ELSE UNION {{<<i>> \o p : p \in Leaves(At(t, <<i>>))} : i \in Positions(t)}

\* The cell of a leaf.
RECURSIVE CellOf(_, _)
CellOf(t, p) ==
    IF p = <<>> THEN 0
    ELSE CellOf(At(t, <<Head(p)>>), Tail(p))
         + (IF IsArray(t) THEN (Head(p) - 1) * SizeOf(t.elem) ELSE FieldOffset(t, Head(p)))

RECURSIVE Names(_, _)
Names(t, ds) ==
    \/ ds = <<>>
    \/ Head(ds).d = "index" /\ IsArray(t) /\ Head(ds).n < t.len /\ Names(t.elem, Tail(ds))
    \/ /\ Head(ds).d = "field" /\ IsRecord(t) /\ FindField(t, Head(ds).name)
       /\ \E f \in ToSet(t.fields) :
             \/ f.name = Head(ds).name /\ Names(f.t, Tail(ds))
             \/ f.name = "" /\ IsRecord(f.t) /\ Names(f.t, ds)

RECURSIVE Resolve(_, _)
Resolve(t, ds) ==
    IF ds = <<>> THEN <<>>
    ELSE IF Head(ds).d = "index" THEN <<Head(ds).n + 1>> \o Resolve(t.elem, Tail(ds))
    ELSE LET j == FieldNamed(t, Head(ds).name)
             a == AnonymousHolding(t, Head(ds).name)
         IN  IF j # 0 THEN <<j>> \o Resolve(t.fields[j].t, Tail(ds))
             ELSE <<a>> \o Resolve(t.fields[a].t, ds)

RECURSIVE Successor(_, _)
Successor(t, p) ==
    IF p = <<>> THEN <<>>
    ELSE LET within == At(t, Front(p))
             later  == {i \in Positions(within) : i > Last(p)}
         IN  IF later = {} \/ (IsRecord(within) /\ within.union) THEN Successor(t, Front(p))
             ELSE Append(Front(p), LeastOf(later))

IsCharArray(t) == IsArray(t) /\ t.elem.k = "scalar" /\ t.elem.s = "char"

\* A brace with nothing in it but a string literal stands for the literal.
StringIn(v) == IF v.v = "list" /\ Len(v.items) = 1 /\ v.items[1].desig = <<>>
                  /\ v.items[1].val.v = "string"
               THEN v.items[1].val ELSE v

Initializes(t, v) ==
    \/ t.k = "scalar" /\ v.v = (IF t.s = "ptr" THEN "string" ELSE "scalar")
    \/ v.v = "list"
    \/ v.v = "string" /\ IsCharArray(t)
    \/ v.v = "record" /\ v.t = t

\* Where the item's value goes: <<>> after a scalar it does not fit.
RECURSIVE Settle(_, _, _)
Settle(t, p, v) ==
    IF Initializes(At(t, p), v) THEN p
    ELSE IF ~IsAggregate(At(t, p)) \/ Positions(At(t, p)) = {} THEN <<>>
    ELSE Settle(t, Append(p, LeastOf(Positions(At(t, p)))), v)

----------------------------------------------------------------------------
(* An object: the leaves' values, the active member of each union in it,   *)
(* the leaves whose value no rule gives, the furthest position of the      *)
(* outermost array, whether a constraint is violated, and for each item    *)
(* which object its brace is for, where it was to go and where it went.    *)

Under(p, q) == Len(p) >= Len(q) /\ SubSeq(p, 1, Len(q)) = q

Fresh(t) ==
    [val |-> [p \in Leaves(t) |-> Zero], active |-> <<>>, any |-> {}, reach |-> 0, bad |-> FALSE,
     log |-> <<>>]

Active(o, q) == IF q \in DOMAIN o.active THEN o.active[q] ELSE 0

\* An assignment somewhere under p: it picks the members of the unions above,
\* and a member that takes another's place leaves the rest of it unspecified.
Touch(o, t, p) ==
    LET unions == {n \in 0 .. Len(p) - 1 : LET u == At(t, SubSeq(p, 1, n)) IN IsRecord(u) /\ u.union}
        torn   == {n \in unions : Active(o, SubSeq(p, 1, n)) \notin {0, p[n + 1]}}
        set    == {SubSeq(p, 1, n) : n \in unions}
    IN  [o EXCEPT !.active = [q \in DOMAIN @ \cup set |-> IF q \in set THEN p[Len(q) + 1] ELSE @[q]],
                  !.any    = @ \cup {l \in Leaves(t) : \E n \in torn : Under(l, SubSeq(p, 1, n))},
                  !.reach  = IF p # <<>> /\ p[1] > @ THEN p[1] ELSE @]

\* Everything at and under p starts again from zero.
Clear(o, p) ==
    [o EXCEPT !.val    = [l \in DOMAIN @ |-> IF Under(l, p) THEN Zero ELSE @[l]],
              !.active = [q \in {x \in DOMAIN @ : ~Under(x, p)} |-> @[q]],
              !.any    = {l \in @ : ~Under(l, p)}]

RECURSIVE Initialize(_, _, _, _), Items(_, _, _, _, _)

\* The subobject at p takes the value v, whole.
Initialize(o, t, p, v) ==
    LET whole == Clear(Touch(o, t, p), p)
        sub   == At(t, p)
        put(f(_)) == [whole EXCEPT !.val = [l \in DOMAIN @ |-> IF Under(l, p) THEN f(l) ELSE @[l]]]
        cell(l) == CellOf(t, l) - CellOf(t, p)
    IN  CASE IsCharArray(sub) /\ StringIn(v).v = "string" ->
                put(LAMBDA l : IF cell(l) < StringIn(v).len THEN <<StringIn(v).id, cell(l) + 1>> ELSE Zero)
          [] v.v = "record" -> put(LAMBDA l : <<v.id, cell(l) + 1>>)
          [] v.v = "list" /\ ~(IsCharArray(sub) /\ StringIn(v).v = "string") ->
                IF sub.k # "scalar"
                THEN Items(whole, t, p, v.items, IF Positions(sub) = {} THEN p
                                                 ELSE Append(p, LeastOf(Positions(sub))))
                ELSE IF Len(v.items) = 1 /\ v.items[1].desig = <<>>
                        /\ Initializes(sub, v.items[1].val)
                THEN Initialize(whole, t, p, v.items[1].val)
                ELSE [whole EXCEPT !.bad = TRUE]
          [] OTHER -> put(LAMBDA l : <<v.id, 0>>)

\* The rest of a brace for the object at p, the next item's place being pos:
\* p itself when nothing is left of the object.
Items(o, t, p, items, pos) ==
    IF items = <<>> THEN o
    ELSE IF ~Names(At(t, p), Head(items).desig) THEN [o EXCEPT !.bad = TRUE]
    ELSE LET it    == Head(items)
             there == IF it.desig = <<>> THEN pos ELSE p \o Resolve(At(t, p), it.desig)
             place == IF there = p THEN <<>> ELSE Settle(t, there, it.val)
             next  == Successor(t, place)
         IN  IF place = <<>> THEN [o EXCEPT !.bad = TRUE]
             ELSE Items(Initialize([o EXCEPT !.log = Append(@, [brace |-> p, from |-> there,
                                        place |-> place, it |-> it])],
                                   t, place, it.val), t, p, Tail(items),
                        IF next # <<>> /\ Under(next, p) THEN next ELSE p)

\* The object a declaration with this initializer declares.
Standard(t, v) == Initialize(Fresh(t), t, <<>>, v)

\* The leaves a program may read: those of active members with a value.
Readable(o, t) ==
    {l \in Leaves(t) \ o.any :
        \A n \in 0 .. Len(l) - 1 :
            LET q == SubSeq(l, 1, n)
            IN  (IsRecord(At(t, q)) /\ At(t, q).union) => Active(o, q) \in {0, l[n + 1]}}
=============================================================================
