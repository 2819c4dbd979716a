----------------------------- MODULE LocalInit -----------------------------
(***************************************************************************)
(* The walk over the initializer of an automatic object (lower/init.go,    *)
(* fillBitField of lower/bitfield.go).  It writes into memory that exists: *)
(* mem is a function of cells, and every operator returns the memory and   *)
(* the cursor after it.                                                    *)
(***************************************************************************)
EXTENDS Initializers

LOCAL Out(m, c) == [mem |-> m, c |-> c]

\* zeroObject.
ZeroObject(m, at, t) == [x \in DOMAIN m |-> IF x \in at .. at + SizeOf(t) - 1 THEN Zero ELSE m[x]]

\* initFromString: the characters, cut to the object; what is left is zero.
InitFromString(m, at, t, v) ==
    [x \in DOMAIN m |-> IF x \notin at .. at + SizeOf(t) - 1 THEN m[x]
                        ELSE IF x - at < v.len THEN <<v.id, x - at + 1>> ELSE Zero]

\* copyAggregate: as many cells as the object has, from the value's address.
CopyAggregate(m, at, t, v) ==
    [x \in DOMAIN m |-> IF x \in at .. at + SizeOf(t) - 1 THEN <<v.id, x - at + 1>> ELSE m[x]]

InitScalarOrCopy(m, at, t, v) ==
    CASE v.v = "string" /\ IsArray(t) -> InitFromString(m, at, t, v)
      [] IsAggregate(t)               -> CopyAggregate(m, at, t, v)
      [] OTHER                        -> [m EXCEPT ![at] = <<v.id, 0>>]

\* fillBitField, with storeBitField: the bits around the field stay.
FillBitField(m, at, r, i, c) ==
    Out([m EXCEPT ![at + FieldOffset(r, i)] = <<Peek(c).val.id, 0>>], Advance(c))

RECURSIVE Fill(_, _, _, _, _), Descend(_, _, _, _, _), FillOne(_, _, _, _),
          FillArray(_, _, _, _, _, _, _), FillRecord(_, _, _, _, _, _, _), InitLocal(_, _, _, _)

\* initLocal: the object's own braces, or a value for it whole.
InitLocal(m, at, t, v) ==
    IF v.v = "list" THEN Descend(ZeroObject(m, at, t), at, t, Cursor(v.items), TRUE).mem
    ELSE InitScalarOrCopy(m, at, t, v)

Fill(m, at, t, c, owns) ==
    CASE Done(c) -> Out(m, c)
      [] ~Done(c) /\ ~IsAggregate(t) -> Out(FillOne(m, at, t, Peek(c).val), Advance(c))
      [] ~Done(c) /\ IsAggregate(t) ->
            IF Braced(c) THEN Out(InitLocal(m, at, t, Peek(c).val), Advance(c))
            ELSE IF WholeString(c, t) THEN Out(InitFromString(m, at, t, Peek(c).val), Advance(c))
            ELSE IF WholeRecord(c, t) THEN Out(InitScalarOrCopy(m, at, t, Peek(c).val), Advance(c))
            ELSE Descend(m, at, t, c, owns)

Descend(m, at, t, c, owns) ==
    CASE IsArray(t)  -> FillArray(m, at, t, c, owns, 0, TRUE)
      [] IsRecord(t) -> FillRecord(m, at, t, c, owns, 1, TRUE)
      [] OTHER       -> IF Done(c) THEN Out(m, c)
                        ELSE Out(FillOne(m, at, t, Peek(c).val), Advance(c))

\* fillOne: a scalar, in braces of its own or not.
FillOne(m, at, t, v) ==
    IF v.v = "list" THEN Fill(ZeroObject(m, at, t), at, t, Cursor(v.items), TRUE).mem
    ELSE InitScalarOrCopy(m, at, t, v)

\* fillArray from element idx on.
FillArray(m, at, a, c, owns, idx, first) ==
    IF Done(c) \/ HandsUp(c, owns, first, "index") THEN Out(m, c)
    ELSE LET n  == IF Designated(c) THEN Designator(c).n ELSE idx
             c2 == IF Designated(c) THEN ConsumeDesignator(c) ELSE c
         IN  IF n >= a.len THEN Out(m, c2)
             ELSE LET elem == Fill(m, at + n * SizeOf(a.elem), a.elem, c2, FALSE)
                  IN  FillArray(elem.mem, at, a, elem.c, owns, n + 1, FALSE)

\* fillRecord from member i on.  A designator names a member, or one that an
\* anonymous member holds and that resolves it; a union takes one member.
FillRecord(m, at, r, c, owns, i, first) ==
    IF Done(c) \/ HandsUp(c, owns, first, "field") THEN Out(m, c)
    ELSE LET d     == Designated(c)
             found == IF d THEN FieldNamed(r, Designator(c).name) ELSE i
             j     == IF found # 0 THEN found ELSE AnonymousHolding(r, Designator(c).name)
             c2    == IF d /\ found # 0 THEN ConsumeDesignator(c) ELSE c
         IN  IF j \notin DOMAIN r.fields THEN Out(m, c)
             ELSE LET f   == r.fields[j]
                      one == IF f.bit /\ f.width = 0 THEN Out(m, c2)
                             ELSE IF f.bit THEN FillBitField(m, at, r, j, c2)
                             ELSE Fill(m, at + FieldOffset(r, j), f.t, c2, FALSE)
                  IN  IF r.union THEN one
                      ELSE FillRecord(one.mem, at, r, one.c, owns, j + 1, first /\ f.bit)
=============================================================================
