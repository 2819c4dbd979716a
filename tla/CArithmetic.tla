----------------------------- MODULE CArithmetic -----------------------------
(***************************************************************************)
(* What C11 says of integer expressions, over the mathematical integers:   *)
(* conversion ranks (6.3.1.1), the usual arithmetic conversions (6.3.1.8), *)
(* the operators (6.5) and the type of a constant (6.4.4.1).  A conversion *)
(* to a signed type that cannot hold the value wraps, as every target's    *)
(* does; what C leaves undefined is Undefined.                             *)
(***************************************************************************)
EXTENDS IntTypes

\* An integer that no expression has for its value.
Undefined == 2^30

Rank(t) ==
    CASE t = "Bool"                       -> 0
      [] t \in {"Char", "UChar", "Octet"} -> 1
      [] t \in {"Int", "UInt"}            -> 2
      [] t \in {"Long", "ULong"}          -> 3
      [] t \in {"LongLong", "ULongLong"}  -> 4
      [] t \in Wide                       -> 5

Lowest(m, t)  == IF IsSigned(m, t) THEN -(2^(Bits(m, t) - 1)) ELSE 0
Highest(m, t) == IF t = "Bool" THEN 1 ELSE IntMax(m, t)
Holds(m, t, n) == n # Undefined /\ Lowest(m, t) <= n /\ n <= Highest(m, t)

Convert(m, t, n) ==
    IF n = Undefined THEN Undefined
    ELSE IF t = "Bool" THEN OneIf(n # 0)
    ELSE IF IsSigned(m, t) THEN Signed(Word(n, Bits(m, t)), Bits(m, t))
    ELSE Word(n, Bits(m, t))

Promoted(t) == IF Rank(t) < Rank("Int") THEN "Int" ELSE t

Unsigned(t) == CASE t = "Int" -> "UInt" [] t = "Long" -> "ULong"
                 [] t = "LongLong" -> "ULongLong" [] t = "Int128" -> "UInt128"

CommonType(m, a, b) ==
    LET p == Promoted(a)
        q == Promoted(b)
        Pair(s, u) == IF Rank(u) >= Rank(s) THEN u
                      ELSE IF Highest(m, s) >= Highest(m, u) THEN s ELSE Unsigned(s)
    IN  IF IsSigned(m, p) = IsSigned(m, q) THEN IF Rank(p) >= Rank(q) THEN p ELSE q
        ELSE IF IsSigned(m, p) THEN Pair(p, q) ELSE Pair(q, p)

\* The result of an operation in type t, undefined if it overflows a signed one.
InType(m, t, n) ==
    IF n = Undefined THEN Undefined
    ELSE IF ~IsSigned(m, t) THEN Word(n, Bits(m, t))
    ELSE IF Holds(m, t, n) THEN n ELSE Undefined

Arithmetics == {"+", "-", "*", "/", "%", "&", "|", "^"}
Shifts == {"<<", ">>"}
Relations == {"==", "!=", "<", ">", "<=", ">="}

LOCAL OnBits(op, m, t, x, y) ==
    LET w == Bits(m, t)
    IN  Convert(m, t, CASE op = "&" -> BitAnd(Word(x, w), Word(y, w))
                        [] op = "|" -> BitOr(Word(x, w), Word(y, w))
                        [] op = "^" -> BitXor(Word(x, w), Word(y, w)))

Computed(op, m, t, x, y) ==
    CASE op = "+" -> InType(m, t, x + y)
      [] op = "-" -> InType(m, t, x - y)
      [] op = "*" -> InType(m, t, x * y)
      [] op = "/" -> IF y = 0 THEN Undefined ELSE InType(m, t, Quotient(x, y))
      [] op = "%" -> IF y = 0 \/ InType(m, t, Quotient(x, y)) = Undefined THEN Undefined ELSE Remainder(x, y)
      [] op \in {"&", "|", "^"} -> OnBits(op, m, t, x, y)
      [] op = "==" -> OneIf(x = y)
      [] op = "!=" -> OneIf(x # y)
      [] op = "<"  -> OneIf(x < y)
      [] op = ">"  -> OneIf(x > y)
      [] op = "<=" -> OneIf(x <= y)
      [] op = ">=" -> OneIf(x >= y)

Shifted(op, m, t, x, n) ==
    IF n < 0 \/ n >= Bits(m, t) THEN Undefined
    ELSE IF op = ">>" THEN x \div 2^n
    ELSE IF x < 0 THEN Undefined ELSE InType(m, t, x * 2^n)

\* The type and the value of x op y.
BinaryType(op, m, a, b) ==
    IF op \in Shifts THEN Promoted(a) ELSE IF op \in Relations THEN "Int" ELSE CommonType(m, a, b)

BinaryValue(op, m, a, x, b, y) ==
    LET t == CommonType(m, a, b)
    IN  IF x = Undefined \/ y = Undefined THEN Undefined
        ELSE IF op \in Shifts THEN Shifted(op, m, Promoted(a), x, y)
        ELSE Computed(op, m, t, Convert(m, t, x), Convert(m, t, y))

UnaryValue(op, m, a, x) ==
    LET t == Promoted(a)
    IN  IF x = Undefined THEN Undefined
        ELSE CASE op = "+" -> x
               [] op = "-" -> InType(m, t, -x)
               [] op = "~" -> IF IsSigned(m, t) THEN -x - 1 ELSE Word(-x - 1, Bits(m, t))
               [] op = "!" -> OneIf(x = 0)

\* The value a constant spells, and the first type of its column that holds it.
Spelled(s) ==
    LET acc[i \in 0 .. Len(s.digits)] == IF i = 0 THEN 0 ELSE acc[i - 1] * Radix(s) + s.digits[i]
    IN  acc[Len(s.digits)]

ConstantTypes(s) ==
    LET ranked == {t \in {"Int", "UInt", "Long", "ULong", "LongLong", "ULongLong"} : Rank(t) >= 2 + s.l}
        signedOnes == {"Int", "Long", "LongLong"}
    IN  IF s.u THEN ranked \ signedOnes
        ELSE IF s.base = "decimal" THEN ranked \cap signedOnes ELSE ranked

Precedes(m, a, b) == Rank(a) < Rank(b) \/ (Rank(a) = Rank(b) /\ (IsSigned(m, a) \/ a = b))

ConstantFits(m, s) == {t \in ConstantTypes(s) : Holds(m, t, Spelled(s))}
ConstantType(m, s) == CHOOSE t \in ConstantFits(m, s) : \A o \in ConstantFits(m, s) : Precedes(m, t, o)
=============================================================================
