----------------------------- MODULE IntLowering -----------------------------
(***************************************************************************)
(* What integer expressions are lowered to (lower/convert.go, expr.go,     *)
(* int128.go, overflow.go, mem.go).  A value is in a register: I32 for the *)
(* types up to an int, I64 for the 64-bit ones, and for a 128-bit integer  *)
(* the address of its two words, low then high.  Nil is the lowering's nil *)
(* value: no code was generated and nothing was reported.                  *)
(***************************************************************************)
EXTENDS IntTypes

Nil == [k |-> "nil", v |-> 0]
I32(x) == [k |-> "I32", v |-> x]
I64(x) == [k |-> "I64", v |-> x]
\* wideMake and wideParts: the two words in memory, as one number.
WideMake(lo, hi) == [k |-> "Ptr", v |-> lo + hi * 2^WordBits]
Lo(x) == x.v % 2^WordBits
Hi(x) == x.v \div 2^WordBits

IsWide(t) == t \in Wide
Reg(m, t) == IF IsWide(t) THEN "Ptr" ELSE IF Bits(m, t) > IntBits THEN "I64" ELSE "I32"

LOCAL W(x) == IF x.k = "I32" THEN IntBits ELSE WordBits
LOCAL SExt(x) == Word(Signed(x, IntBits), WordBits)
LOCAL SignOf(lo) == SShr(lo, WordBits - 1, WordBits)

(* --------------------------------- memory ------------------------------- *)

\* storeTo and loadFrom: what an object of type t then holds, and reads as.
StoreTo(m, t, x) == Word(x.v, Bits(m, t))

LoadFrom(m, t, bits) ==
    CASE Reg(m, t) = "Ptr" -> [k |-> "Ptr", v |-> bits]
      [] Reg(m, t) = "I64" -> I64(bits)
      [] Reg(m, t) = "I32" -> I32(IF IsSigned(m, t) THEN Word(Signed(bits, Bits(m, t)), IntBits) ELSE bits)

\* constOf, for the integer registers.
ConstOf(m, v, t) == IF Reg(m, t) = "I64" THEN I64(Word(v, WordBits)) ELSE I32(Word(v, IntBits))

(* ------------------------------- conversions ---------------------------- *)

\* truthOf; an address is not null.
TruthOf(x) == IF x.k = "Ptr" THEN TRUE ELSE x.v # 0

\* truth, with wideTruth.
Truth(x, t) == IF x.k = "Ptr" /\ IsWide(t) THEN x.v # 0 ELSE TruthOf(x)

\* A mutant: a value of the same size fits whatever its sign.
FitsSameSize(m, from, to) ==
    Bits(m, to) >= IntBits \/ from = "Bool" \/ Bits(m, from) <= Bits(m, to)

\* fitsIn: is every value of from already a normalized one of to?
FitsIn(m, from, to) ==
    \/ Bits(m, to) >= IntBits
    \/ from = "Bool"
    \/ /\ Bits(m, from) = Bits(m, to)
       /\ IsSigned(m, from) = IsSigned(m, to)
    \/ /\ Bits(m, from) < Bits(m, to)
       /\ ~IsSigned(m, from) \/ IsSigned(m, to)

\* unit.narrow: shifted up and back, or masked.
NarrowReg(m, x, to) ==
    LET b == Bits(m, to)
    IN  IF IsSigned(m, to) THEN I32(SShr(Shl(x.v, IntBits - b, IntBits), IntBits - b, IntBits))
        ELSE I32(BitAnd(x.v, 2^b - 1))

ConvertReg(m, x, from, to) ==
    CASE x.k = Reg(m, to)                      -> x
      [] x.k = "I32" /\ Reg(m, to) = "I64"     -> I64(IF IsSigned(m, from) THEN SExt(x.v) ELSE x.v)
      [] x.k = "I64" /\ Reg(m, to) = "I32"     -> I32(Word(x.v, IntBits))
      [] OTHER                                 -> x

\* convert, where neither side is 128 bits wide.
LOCAL ConvertNarrow(m, x, from, to) ==
    IF to = "Bool" /\ from # "Bool" THEN I32(OneIf(TruthOf(x)))
    ELSE LET r == ConvertReg(m, x, from, to)
         IN  IF r.k = "I32" /\ ~FitsIn(m, from, to) THEN NarrowReg(m, r, to) ELSE r

ConvertWide(m, x, from, to) ==
    IF x.k = "Ptr" /\ IsWide(to) THEN x
    ELSE IF IsWide(to)
         THEN LET lo == IF x.k = "I64" THEN x.v ELSE IF IsSigned(m, from) THEN SExt(x.v) ELSE x.v
              IN  WideMake(lo, IF IsSigned(m, from) THEN SignOf(lo) ELSE 0)
    ELSE IF x.k # "Ptr" THEN x
    ELSE IF to = "Bool" THEN I32(OneIf(x.v # 0))
    ELSE ConvertNarrow(m, I64(Lo(x)), "ULongLong", to)

Converted(m, x, from, to) ==
    IF x = Nil THEN Nil
    ELSE IF IsWide(from) \/ IsWide(to) THEN ConvertWide(m, x, from, to)
    ELSE ConvertNarrow(m, x, from, to)

(* ------------------------------- arithmetic ----------------------------- *)

\* compare32, compare64: a greater-than is a less-than the other way round.
Compare(op, x, y, signed, w) ==
    LET Less(a, b) == IF signed THEN SLt(a, b, w) ELSE a < b
    IN  I32(OneIf(CASE op = "==" -> x = y
                    [] op = "!=" -> x # y
                    [] op = "<"  -> Less(x, y)
                    [] op = ">"  -> Less(y, x)
                    [] op = "<=" -> Less(x, y) \/ x = y
                    [] op = ">=" -> Less(y, x) \/ x = y))

\* arith: two registers of one kind, and nil for any other pair.
Arith(op, x, y, signed) ==
    LET w == W(x)
        Of(n) == [x EXCEPT !.v = n]
    IN  IF x.k # y.k \/ x.k \notin {"I32", "I64"} THEN Nil
        ELSE CASE op = "+"  -> Of(Word(x.v + y.v, w))
               [] op = "-"  -> Of(Word(x.v - y.v, w))
               [] op = "*"  -> Of(Word(x.v * y.v, w))
               [] op = "/"  -> Of(IF signed THEN SDiv(x.v, y.v, w) ELSE x.v \div y.v)
               [] op = "%"  -> Of(IF signed THEN SRem(x.v, y.v, w) ELSE x.v % y.v)
               [] op = "&"  -> Of(BitAnd(x.v, y.v))
               [] op = "|"  -> Of(BitOr(x.v, y.v))
               [] op = "^"  -> Of(BitXor(x.v, y.v))
               [] op = "<<" -> Of(Shl(x.v, y.v, w))
               [] op = ">>" -> Of(IF signed THEN SShr(x.v, y.v, w) ELSE UShr(x.v, y.v, w))
               [] OTHER     -> Compare(op, x.v, y.v, signed, w)

\* matchShiftWidth: the count in the register the shifted value is in.
MatchShiftWidth(x, n) ==
    CASE x.k = "I64" /\ n.k = "I32" -> I64(SExt(n.v))
      [] x.k = "I32" /\ n.k = "I64" -> I32(Word(n.v, IntBits))
      [] OTHER                      -> n

\* wideArith, from the words of its operands; a quotient is compiler-rt's.
WideArith(op, x, y, signed) ==
    LET w == WordBits
        alo == Lo(x)
        ahi == Hi(x)
        blo == Lo(y)
        bhi == Hi(y)
        Of(n) == [x EXCEPT !.v = n]
        Less(plo, phi, qlo, qhi) == \/ IF signed THEN SLt(phi, qhi, w) ELSE phi < qhi
                                    \/ phi = qhi /\ plo < qlo
    IN  CASE op = "+"  -> LET lo == Word(alo + blo, w)
                          IN  WideMake(lo, Word(ahi + bhi + OneIf(lo < alo), w))
          [] op = "-"  -> WideMake(Word(alo - blo, w), Word(ahi - bhi - OneIf(alo < blo), w))
          [] op = "*"  -> WideMake(Word(alo * blo, w),
                                   Word(UMulHi(alo, blo, w) + ahi * blo + alo * bhi, w))
          [] op = "&"  -> WideMake(BitAnd(alo, blo), BitAnd(ahi, bhi))
          [] op = "|"  -> WideMake(BitOr(alo, blo), BitOr(ahi, bhi))
          [] op = "^"  -> WideMake(BitXor(alo, blo), BitXor(ahi, bhi))
          [] op = "/"  -> Of(IF signed THEN SDiv(x.v, y.v, 2 * w) ELSE x.v \div y.v)
          [] op = "%"  -> Of(IF signed THEN SRem(x.v, y.v, 2 * w) ELSE x.v % y.v)
          [] op = "==" -> I32(OneIf(alo = blo /\ ahi = bhi))
          [] op = "!=" -> I32(OneIf(~(alo = blo /\ ahi = bhi)))
          [] op = "<"  -> I32(OneIf(Less(alo, ahi, blo, bhi)))
          [] op = ">"  -> I32(OneIf(Less(blo, bhi, alo, ahi)))
          [] op = "<=" -> I32(OneIf(~Less(blo, bhi, alo, ahi)))
          [] op = ">=" -> I32(OneIf(~Less(alo, ahi, blo, bhi)))

\* wideShift: one of three shapes, chosen by the count.
WideShift(op, x, count, signed) ==
    LET w == WordBits
        lo == Lo(x)
        hi == Hi(x)
        n == count % (2 * w)
        small == n < w
        k == n % w
        back == (w - k) % w
        up == IF n = 0 THEN 0 ELSE UShr(lo, back, w)
        down == IF n = 0 THEN 0 ELSE Shl(hi, back, w)
        shr == IF signed THEN SShr(hi, k, w) ELSE UShr(hi, k, w)
        fill == IF signed THEN SignOf(hi) ELSE 0
    IN  IF op = "<<"
        THEN WideMake(IF small THEN Shl(lo, k, w) ELSE 0,
                      IF small THEN BitOr(Shl(hi, k, w), up) ELSE Shl(lo, k, w))
        ELSE WideMake(IF small THEN BitOr(UShr(lo, k, w), down) ELSE shr,
                      IF small THEN shr ELSE fill)

\* wideUnary.
WideUnary(op, x) ==
    LET w == WordBits
        nlo == BitNot(Lo(x), w)
        nhi == BitNot(Hi(x), w)
        rlo == Word(nlo + 1, w)
    IN  IF op = "~" THEN WideMake(nlo, nhi) ELSE WideMake(rlo, Word(nhi + OneIf(rlo = 0), w))

(* ------------------------------ expressions ----------------------------- *)
\* Each from the registers and the types of its operands.

\* An expression the lowering reports that it cannot lower.
Refused == [k |-> "refused", v |-> 0]

\* unary, with negate.
LowerUnary(op, x, xt) ==
    CASE op = "+" -> x
      [] op = "!" -> I32(OneIf(~Truth(x, xt)))
      [] op \in {"-", "~"} /\ IsWide(xt) -> WideUnary(op, x)
      [] op = "-" /\ ~IsWide(xt) -> Arith("-", [x EXCEPT !.v = 0], x, TRUE)
      [] op = "~" /\ ~IsWide(xt) -> [x EXCEPT !.v = BitNot(x.v, IF x.k = "I32" THEN IntBits ELSE WordBits)]

LOCAL InCommon(m, op, x, xt, y, yt, ct) ==
    LET a == Converted(m, x, xt, ct)
        b == Converted(m, y, yt, ct)
    IN  IF IsWide(ct) THEN WideArith(op, a, b, IsSigned(m, ct)) ELSE Arith(op, a, b, IsSigned(m, ct))

LOCAL ShiftIn(m, op, a, b, ct) == Arith(op, a, MatchShiftWidth(a, b), IsSigned(m, ct))

\* A shift is done in its promoted left operand; a wide count is read as an int.
LOCAL Shift(m, op, x, xt, y, yt) ==
    LET ct == Promote(m, xt)
        a  == Converted(m, x, xt, ct)
    IN  IF IsWide(ct) THEN WideShift(op, a, Converted(m, y, yt, "LongLong").v, IsSigned(m, ct))
        ELSE ShiftIn(m, op, a, Converted(m, y, yt, IF IsWide(yt) THEN "Int" ELSE Promote(m, yt)), ct)

\* binary, wideBinaryExpr.
LowerBinary(m, op, x, xt, y, yt) ==
    IF op \in {"<<", ">>"} THEN Shift(m, op, x, xt, y, yt)
    ELSE InCommon(m, op, x, xt, y, yt, Usual(m, xt, yt))

\* shortCircuit: the right operand's truth is the result where it is asked for.
LowerLogical(op, x, xt, y, yt) ==
    I32(OneIf(IF op = "&&" THEN Truth(x, xt) /\ Truth(y, yt) ELSE Truth(x, xt) \/ Truth(y, yt)))

\* conditional, aggregateConditional: the value of the arm that is taken.
LowerArm(m, x, xt, t) ==
    IF IsWide(t) THEN IF x.k = "Ptr" THEN x ELSE Refused
    ELSE Converted(m, x, xt, t)

\* binaryConditional: the register of the condition is tested, then converted.
LowerElvis(m, x, xt, y, yt, t) ==
    IF IsWide(t) THEN Refused
    ELSE IF TruthOf(x) THEN Converted(m, x, xt, t) ELSE Converted(m, y, yt, t)

CompoundType(m, op, at, rt) == IF op \in {"<<", ">>"} THEN Promote(m, at) ELSE Usual(m, at, rt)

\* assign for op=: the value that goes back to the object, nil if none does.
LowerCompound(m, op, old, at, y, rt) ==
    LET ct == CompoundType(m, op, at, rt)
        a  == Converted(m, old, at, ct)
        b  == Converted(m, y, rt, ct)
    IN  IF IsWide(at)
        THEN IF op \in {"<<", ">>"} THEN WideShift(op, old, Converted(m, y, rt, "LongLong").v, IsSigned(m, at))
             ELSE Converted(m, WideArith(op, a, b, IsSigned(m, ct)), ct, at)
        ELSE Converted(m, Arith(op, a, b, IsSigned(m, ct)), ct, at)

\* incDec: x + 1 or x - 1 in the common type with int, and back.
LowerStep(m, op, old, at) ==
    LET ct == Usual(m, at, "Int")
    IN  IF IsWide(at) THEN WideArith(op, old, ConvertWide(m, I32(1), "Int", at), IsSigned(m, at))
        ELSE Converted(m, Arith(op, Converted(m, old, at, ct), ConstOf(m, 1, ct), IsSigned(m, ct)), ct, at)

(* ---------------------------- overflow builtins ------------------------- *)

LOCAL Exceeds(op, x, y, signed) ==
    LET w == IF x.k = "I32" THEN IntBits ELSE WordBits
        N(r) == IF signed THEN Signed(r.v, w) ELSE r.v
        n == CASE op = "+" -> N(x) + N(y) [] op = "-" -> N(x) - N(y) [] op = "*" -> N(x) * N(y)
    IN  IF signed THEN SOverflows(n, w) ELSE UOverflows(n, w)

\* The width the operation needs to be exact.
WorkingBits(m, at, bt, rt) ==
    LET three == {at, bt, rt}
        w == CHOOSE n \in {Bits(m, t) : t \in three} : \A t \in three : n >= Bits(m, t)
    IN  IF /\ \E t \in three : IsSigned(m, t)
           /\ \E t \in three : ~IsSigned(m, t) /\ Bits(m, t) = w
        THEN w + 1 ELSE w

\* overflowBuiltin in one register: what is stored, and if it did not fit.
LOCAL CheckedIn(m, op, x, at, y, bt, rt, et, signed) ==
    LET a      == Converted(m, x, at, et)
        b      == Converted(m, y, bt, et)
        res    == Arith(op, a, b, signed)
        stored == Converted(m, res, et, rt)
        back   == Converted(m, stored, rt, et)
    IN  [stored |-> stored, flag |-> I32(OneIf(Exceeds(op, a, b, signed) \/ back # res))]

\* wideOverflow: the same in two words.
WideOverflow(m, op, x, at, y, bt, rt) ==
    LET Both(z, t) == ConvertWide(m, Converted(m, z, t, IF IsSigned(m, t) THEN "LongLong" ELSE "ULongLong"),
                                  IF IsSigned(m, t) THEN "LongLong" ELSE "ULongLong", "Int128")
        r      == WideArith(op, Both(x, at), Both(y, bt), FALSE)
        wt     == IF IsSigned(m, rt) THEN "LongLong" ELSE "ULongLong"
        stored == Converted(m, I64(Lo(r)), "ULongLong", rt)
        back   == Converted(m, stored, rt, wt)
        wantHi == IF IsSigned(m, rt) THEN SShr(back.v, WordBits - 1, WordBits) ELSE 0
    IN  [stored |-> stored, flag |-> I32(OneIf(~(back.v = Lo(r) /\ Hi(r) = wantHi)))]

LowerOverflow(m, op, x, at, y, bt, rt) ==
    LET w      == WorkingBits(m, at, bt, rt)
        signed == \E t \in {at, bt, rt} : IsSigned(m, t)
        et     == IF w <= IntBits THEN IF signed THEN "Int" ELSE "UInt"
                  ELSE IF signed THEN "LongLong" ELSE "ULongLong"
    IN  IF w > WordBits THEN WideOverflow(m, op, x, at, y, bt, rt)
        ELSE CheckedIn(m, op, x, at, y, bt, rt, et, signed)

(* -------------------------------- switch -------------------------------- *)

\* switchStmt: the selector is an int, and a case is compared with it.
CaseSelected(m, x, xt, value) ==
    LET sel == IF x.k = "I32" THEN x ELSE Converted(m, x, xt, "Int")
    IN  sel.v = Word(value, IntBits)
=============================================================================
