---------------------------- MODULE Initializers ----------------------------
(***************************************************************************)
(* What the two walks over an initializer share: types, items, designators *)
(* and the cursor over one brace (lower/init.go, lower/lvalue.go,          *)
(* types/model.go, analyzer/decl.go).                                      *)
(*                                                                         *)
(* Every scalar and every bit-field is one cell of memory.  A type is      *)
(*   [k |-> "scalar", s |-> "int", "char" or "ptr"],                       *)
(*   [k |-> "array", len, elem], len -1 for one the initializer completes, *)
(*   [k |-> "record", union, fields], a field [name, t, bit, width], with  *)
(*   name "" for an anonymous member and an unnamed bit-field.             *)
(* An item is [desig, val]; a designator names a field or an index; a      *)
(* value is a scalar, a string of len characters, an expression of record  *)
(* type, or a braced list.  An expression is known by its id: cell k of    *)
(* what it stores is <<id, k>>, and <<id, 0>> is a value of one cell.      *)
(***************************************************************************)
EXTENDS Integers, Sequences, FiniteSets, SequencesExt

Zero == <<0, 0>>

IsArray(t) == t.k = "array"
IsRecord(t) == t.k = "record"
IsAggregate(t) == IsArray(t) \/ IsRecord(t)

RECURSIVE SizeOf(_)
SizeOf(t) ==
    CASE t.k = "scalar" -> 1
      [] t.k = "array"  -> t.len * SizeOf(t.elem)
      [] t.k = "record" ->
            LET sizes == [i \in DOMAIN t.fields |-> SizeOf(t.fields[i].t)]
            IN  IF t.union THEN FoldLeft(LAMBDA a, b : IF a > b THEN a ELSE b, 0, sizes)
                ELSE FoldLeft(+, 0, sizes)

\* The cell at which a member starts.
FieldOffset(r, i) ==
    IF r.union THEN 0
    ELSE SizeOf([k |-> "record", union |-> FALSE, fields |-> SubSeq(r.fields, 1, i - 1)])

----------------------------------------------------------------------------
(* Members by name.                                                        *)

\* The member of that name, 0 if the record itself has none.
FieldNamed(r, name) ==
    LET named == {j \in DOMAIN r.fields : r.fields[j].name = name}
    IN  IF named = {} THEN 0 ELSE CHOOSE j \in named : \A o \in named : j <= o

\* findField: the name is the record's, or that of an anonymous member of it.
RECURSIVE FindField(_, _)
FindField(r, name) ==
    \/ FieldNamed(r, name) # 0
    \/ \E f \in ToSet(r.fields) : f.name = "" /\ IsRecord(f.t) /\ FindField(f.t, name)

\* The first anonymous member through which the name is reachable, 0 if none.
AnonymousHolding(r, name) ==
    LET holding == {j \in DOMAIN r.fields : /\ r.fields[j].name = ""
                                            /\ IsRecord(r.fields[j].t)
                                            /\ FindField(r.fields[j].t, name)}
    IN  IF holding = {} THEN 0 ELSE CHOOSE j \in holding : \A o \in holding : j <= o

----------------------------------------------------------------------------
(* The cursor over one brace's items.                                      *)

Cursor(items) == [items |-> items, i |-> 1]
Done(c) == c.i > Len(c.items)
Peek(c) == c.items[c.i]
Advance(c) == [c EXCEPT !.i = @ + 1]

Designated(c) == Peek(c).desig # <<>>
Designator(c) == Head(Peek(c).desig)

\* The designator just applied is dropped, so that the object it names sees
\* the rest of the chain.
ConsumeDesignator(c) == [c EXCEPT !.items[c.i].desig = Tail(@)]

\* A mutant: every walk measures designations from itself.
HandsUpNever(c, owns, first, kind) == Designated(c) /\ Designator(c).d # kind

\* A designator that the walk of an object leaves to another: a walk that did
\* not open the brace has taken an item already, or the designator is of the
\* other kind.
HandsUp(c, owns, first, kind) ==
    Designated(c) /\ ((~owns /\ ~first) \/ Designator(c).d # kind)

\* What fill asks before it descends: the next item has no designators and
\* its value is for this object whole.
Braced(c) == ~Designated(c) /\ Peek(c).val.v = "list"
WholeString(c, t) == ~Designated(c) /\ Peek(c).val.v = "string" /\ IsArray(t)
WholeRecord(c, t) == ~Designated(c) /\ Peek(c).val.v = "record" /\ ~IsArray(t)

----------------------------------------------------------------------------
(* The length an initializer gives its array (analyzer/decl.go).           *)

\* The position an item leaves the count at: the last index its designators
\* name, or where the item before it left it, and one more.
NextIndex(next, it) ==
    LET indices == SelectSeq(it.desig, LAMBDA d : d.d = "index")
    IN  (IF indices = <<>> THEN next ELSE Last(indices).n) + 1

InferArrayLen(init) ==
    IF init.v = "string" THEN init.len + 1
    ELSE FoldLeft(LAMBDA acc, it : LET next == NextIndex(acc.next, it)
                                   IN  [next |-> next,
                                        max  |-> IF next > acc.max THEN next ELSE acc.max],
                  [next |-> 0, max |-> 0], init.items).max

CompleteArray(t, init) ==
    IF IsArray(t) /\ t.len = -1 THEN [t EXCEPT !.len = InferArrayLen(init)] ELSE t
=============================================================================
