------------------------------ MODULE ConstFold ------------------------------
(***************************************************************************)
(* The two evaluators of constant expressions: the analyzer's, whose every *)
(* value is an int64 (analyzer/const.go), and the lowering's for what is   *)
(* to fill 128 bits (lower/int128.go).  An operator takes the values of    *)
(* the operands, NotConst for an operand that is not constant, and the     *)
(* type of the expression.  An int64 has WordBits here.                    *)
(***************************************************************************)
EXTENDS IntTypes

\* An integer that no expression has for its value.
NotConst == 2^29

Int64(n) == Signed(Word(n, WordBits), WordBits)

LOCAL Reduced(m, t, v) ==
    IF IsSigned(m, t) THEN Signed(Word(v, Bits(m, t)), Bits(m, t)) ELSE Word(v, Bits(m, t))

\* checker.narrow, and the same of evalInt's cast.
Narrow(m, t, v) == IF Bits(m, t) >= WordBits THEN v ELSE Reduced(m, t, v)

EvalCast(m, t, v) == IF v = NotConst THEN NotConst ELSE Narrow(m, t, v)

\* A mutant: the complement of an unsigned value is left negative.
EvalUnaryWide(m, op, t, v) ==
    IF v = NotConst THEN NotConst
    ELSE CASE op = "+" -> v
           [] op = "-" -> Narrow(m, t, Int64(-v))
           [] op = "~" -> -v - 1
           [] op = "!" -> OneIf(v = 0)

EvalUnary(m, op, t, v) ==
    IF v = NotConst THEN NotConst
    ELSE CASE op = "+" -> v
           [] op = "-" -> Narrow(m, t, Int64(-v))
           [] op = "~" -> Narrow(m, t, -v - 1)
           [] op = "!" -> OneIf(v = 0)

\* The bits of an int64, combined.
LOCAL OnWords(Op(_, _), x, y) == Int64(Op(Word(x, WordBits), Word(y, WordBits)))

EvalBinary(m, op, t, x, y) ==
    IF x = NotConst \/ y = NotConst \/ (op \in {"/", "%"} /\ y = 0) THEN NotConst
    ELSE CASE op = "+"  -> Narrow(m, t, Int64(x + y))
           [] op = "-"  -> Narrow(m, t, Int64(x - y))
           [] op = "*"  -> Narrow(m, t, Int64(x * y))
           [] op = "/"  -> Int64(Quotient(x, y))
           [] op = "%"  -> Remainder(x, y)
           [] op = "<<" -> Narrow(m, t, Int64(x * 2^(y % WordBits)))
           [] op = ">>" -> x \div 2^(y % WordBits)
           [] op = "&"  -> OnWords(BitAnd, x, y)
           [] op = "|"  -> OnWords(BitOr, x, y)
           [] op = "^"  -> OnWords(BitXor, x, y)
           [] op = "==" -> OneIf(x = y)
           [] op = "!=" -> OneIf(x # y)
           [] op = "<"  -> OneIf(x < y)
           [] op = ">"  -> OneIf(x > y)
           [] op = "<=" -> OneIf(x <= y)
           [] op = ">=" -> OneIf(x >= y)

\* && and || ask for the right operand only when the left one leaves it open.
EvalLogical(op, x, y) ==
    IF x = NotConst THEN NotConst
    ELSE IF (op = "&&") = (x = 0) THEN OneIf(x # 0)
    ELSE IF y = NotConst THEN NotConst ELSE OneIf(y # 0)

\* Only the arm that is chosen is evaluated; `a ?: b` has a for its first arm.
EvalCond(c, x, y) == IF c = NotConst THEN NotConst ELSE IF c # 0 THEN x ELSE y

(* -------------------------------- 128 bits ------------------------------ *)

WrapTo(m, t, v) == IF v = NotConst THEN NotConst ELSE Reduced(m, t, v)

FoldUnary(m, op, t, v) ==
    IF v = NotConst THEN NotConst
    ELSE CASE op = "+" -> v
           [] op = "-" -> WrapTo(m, t, -v)
           [] op = "~" -> WrapTo(m, t, -v - 1)
           [] op = "!" -> NotConst

LOCAL Count(b) == (IF b < 0 THEN -b ELSE b) % (2 * WordBits)
LOCAL OnAll(Op(_, _), m, t, a, b) == WrapTo(m, t, Op(Word(a, 2 * WordBits), Word(b, 2 * WordBits)))

FoldBinary(m, op, t, a, b) ==
    IF a = NotConst \/ b = NotConst \/ (op \in {"/", "%"} /\ b = 0) THEN NotConst
    ELSE CASE op = "+"  -> WrapTo(m, t, a + b)
           [] op = "-"  -> WrapTo(m, t, a - b)
           [] op = "*"  -> WrapTo(m, t, a * b)
           [] op = "&"  -> OnAll(BitAnd, m, t, a, b)
           [] op = "|"  -> OnAll(BitOr, m, t, a, b)
           [] op = "^"  -> OnAll(BitXor, m, t, a, b)
           [] op = "<<" -> WrapTo(m, t, a * 2^Count(b))
           [] op = ">>" -> WrapTo(m, t, a \div 2^Count(b))
           [] op = "/"  -> WrapTo(m, t, Quotient(a, b))
           [] op = "%"  -> WrapTo(m, t, Remainder(a, b))
           [] OTHER     -> NotConst

\* wideWords: the two words of a static object, low then high.
WideWords(v) == <<Word(v, WordBits), Word(v \div 2^WordBits, WordBits)>>

(* ------------------------------ enumerations ---------------------------- *)

LOCAL Within(m, k, v) ==
    LET hi == Int64(IntMax(m, k))
    IN  (IF IsSigned(m, k) THEN -hi - 1 ELSE 0) <= v /\ v <= hi

\* checker.enumUnder: the type an enumeration of these values is held in.
EnumUnder(m, values) ==
    LET list == <<"Int", "UInt", "Long", "ULong", "LongLong">>
        fits == {i \in DOMAIN list : \A v \in values : Within(m, list[i], v)}
    IN  IF fits = {} THEN "LongLong" ELSE list[CHOOSE i \in fits : \A j \in fits : i <= j]

\* checker.checkEnumFits: is an enumerator of a fixed underlying type reported?
EnumTooLarge(m, t, v) ==
    IF IsSigned(m, t) THEN LET hi == Int64(IntMax(m, t)) IN v < -hi - 1 \/ v > hi
    ELSE Word(v, WordBits) > IntMax(m, t)
=============================================================================
