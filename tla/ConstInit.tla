----------------------------- MODULE ConstInit -----------------------------
(***************************************************************************)
(* The walk over the initializer of a static object (lower/constinit.go).  *)
(* It builds a value: Zero, a literal, the characters of a string, a list  *)
(* of the subobjects' values, or the one member of a union.  A record's    *)
(* list has a slot for each member and one for each run of bit-fields,     *)
(* whose value is a buffer of cells, each the set of items or'd into it.   *)
(* Every operator returns the value and the cursor after it.               *)
(***************************************************************************)
EXTENDS Initializers

LOCAL Out(v, c) == [val |-> v, c |-> c]

ZeroInit == [init |-> "zero"]
Lit(x) == [init |-> "lit", x |-> x]
List(elems) == [init |-> "list", elems |-> elems]
Member(slot, v) == [init |-> "member", slot |-> slot, v |-> v]
StringInit(v, n) == [init |-> "string", id |-> v.id, len |-> IF v.len > n THEN n ELSE v.len]

\* virLayout: the run of bit-fields that a bit-field is in, named by the first.
RangeOf(r, i) == CHOOSE f \in 1 .. i :
    /\ \A j \in f .. i : r.fields[j].bit
    /\ f = 1 \/ ~r.fields[f - 1].bit

Slots(r) == Len(r.fields)

\* A mutant: the walk of a subobject starts from nothing.
PriorItemsNone(prior, n) == [i \in 1 .. n |-> ZeroInit]

\* priorItems: the n values a walk starts from.
PriorItems(prior, n) ==
    IF prior.init = "list" /\ Len(prior.elems) = n THEN prior.elems
    ELSE IF prior.init = "member" THEN [i \in 1 .. n |-> IF i = prior.slot THEN prior.v ELSE ZeroInit]
    ELSE [i \in 1 .. n |-> ZeroInit]

\* bitImage.pack: the item's bits are or'd into the buffer of the range.
Pack(bits, r, i, c) ==
    LET k == RangeOf(r, i)
    IN  [bits EXCEPT ![k] = [x \in DOMAIN r.fields |-> IF x = i THEN @[x] \cup {<<Peek(c).val.id, 0>>}
                                                        ELSE @[x]]]

NoBits(r) == [k \in DOMAIN r.fields |-> [x \in DOMAIN r.fields |-> {}]]

\* bitImage.emit: a buffer that something was written to is its range's value.
Emit(bits, items) ==
    [k \in DOMAIN items |-> IF \A x \in DOMAIN bits[k] : bits[k][x] = {} THEN items[k]
                            ELSE [init |-> "bytes", cells |-> bits[k]]]

\* constScalar, constStringArray.
ConstScalar(v, t) ==
    IF v.v = "string" /\ IsArray(t) THEN StringInit(v, t.len) ELSE Lit(<<v.id, 0>>)

RECURSIVE ConstFill(_, _, _, _), ConstDescend(_, _, _, _), ConstArray(_, _, _, _, _, _),
          ConstRecord(_, _, _, _, _, _, _), InitConst(_, _)

\* constInit, constOne.
InitConst(v, t) ==
    IF v.v = "list" THEN ConstDescend(t, Cursor(v.items), TRUE, ZeroInit).val ELSE ConstScalar(v, t)

ConstFill(t, c, owns, prior) ==
    CASE Done(c) -> Out(ZeroInit, c)
      [] ~Done(c) /\ ~IsAggregate(t) -> Out(InitConst(Peek(c).val, t), Advance(c))
      [] ~Done(c) /\ IsAggregate(t) ->
            IF Braced(c) THEN Out(InitConst(Peek(c).val, t), Advance(c))
            ELSE IF WholeString(c, t) THEN Out(StringInit(Peek(c).val, t.len), Advance(c))
            ELSE ConstDescend(t, c, owns, prior)

ConstDescend(t, c, owns, prior) ==
    CASE IsArray(t)  -> ConstArray(t, PriorItems(prior, t.len), c, owns, 0, TRUE)
      [] IsRecord(t) -> ConstRecord(t, PriorItems(prior, Slots(t)), NoBits(t), c, owns, 1, TRUE)
      [] OTHER       -> IF Done(c) THEN Out(ZeroInit, c)
                        ELSE Out(InitConst(Peek(c).val, t), Advance(c))

\* constArray from element idx on.
ConstArray(a, items, c, owns, idx, first) ==
    IF Done(c) \/ HandsUp(c, owns, first, "index") THEN Out(List(items), c)
    ELSE LET n  == IF Designated(c) THEN Designator(c).n ELSE idx
             c2 == IF Designated(c) THEN ConsumeDesignator(c) ELSE c
         IN  IF n >= a.len THEN Out(List(items), c2)
             ELSE LET elem == ConstFill(a.elem, c2, FALSE, items[n + 1])
                  IN  ConstArray(a, [items EXCEPT ![n + 1] = elem.val], elem.c, owns, n + 1, FALSE)

\* constRecord from member i on.
ConstRecord(r, items, bits, c, owns, i, first) ==
    IF Done(c) \/ HandsUp(c, owns, first, "field") THEN Out(List(Emit(bits, items)), c)
    ELSE LET d     == Designated(c)
             found == IF d THEN FieldNamed(r, Designator(c).name) ELSE i
             j     == IF found # 0 THEN found ELSE AnonymousHolding(r, Designator(c).name)
             c2    == IF d /\ found # 0 THEN ConsumeDesignator(c) ELSE c
         IN  IF j \notin DOMAIN r.fields THEN Out(List(Emit(bits, items)), c)
             ELSE IF r.fields[j].bit
             THEN LET empty == r.fields[j].width = 0
                      packed == IF empty THEN bits ELSE Pack(bits, r, j, c2)
                      after == IF empty THEN c2 ELSE Advance(c2)
                  IN  IF r.union THEN Out(List(Emit(packed, items)), after)
                      ELSE ConstRecord(r, items, packed, after, owns, j + 1, FALSE)
             ELSE LET one == ConstFill(r.fields[j].t, c2, FALSE, items[j])
                  IN  IF r.union THEN Out(Member(j, one.val), one.c)
                      ELSE ConstRecord(r, [items EXCEPT ![j] = one.val], bits, one.c, owns, j + 1, FALSE)

----------------------------------------------------------------------------

\* The cells of a value, as the program that reads the object finds them.
RECURSIVE Cells(_, _)
Cells(v, t) ==
    CASE v.init = "zero" -> [x \in 1 .. SizeOf(t) |-> {}]
      [] v.init = "lit"  -> <<{v.x}>>
      [] v.init = "string" -> [x \in 1 .. SizeOf(t) |-> IF x <= v.len THEN {<<v.id, x>>} ELSE {}]
      [] v.init = "member" ->
            LET one == Cells(v.v, t.fields[v.slot].t)
            IN  [x \in 1 .. SizeOf(t) |-> IF x \in DOMAIN one THEN one[x] ELSE {}]
      [] v.init = "list" /\ IsArray(t) ->
            FlattenSeq([e \in DOMAIN v.elems |-> Cells(v.elems[e], t.elem)])
      [] v.init = "list" /\ IsRecord(t) ->
            LET field(i) == IF ~t.fields[i].bit THEN Cells(v.elems[i], t.fields[i].t)
                            ELSE LET buf == v.elems[RangeOf(t, i)]
                                 IN  <<IF buf.init = "bytes" THEN buf.cells[i] ELSE {}>>
                parts == [i \in DOMAIN t.fields |-> field(i)]
            IN  IF ~t.union THEN FlattenSeq(parts)
                ELSE [x \in 1 .. SizeOf(t) |-> {}]
=============================================================================
