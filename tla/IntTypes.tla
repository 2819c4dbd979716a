------------------------------ MODULE IntTypes ------------------------------
(***************************************************************************)
(* The integer instructions of the intermediate representation that the    *)
(* lowering emits (external: github.com/vertex-language/ir), over words of *)
(* w bits held as the naturals below 2^w, and Go's integer operators over  *)
(* the mathematical integers.                                              *)
(*                                                                         *)
(* The integer types, their widths under a target's model, the promotions  *)
(* and the usual arithmetic conversions (types/model.go, types/compat.go), *)
(* and the decoding of an integer constant (analyzer/decode.go).           *)
(*                                                                         *)
(* The widths are scaled down: a char is CharBits wide, an int IntBits and *)
(* a long long WordBits, a 128-bit integer two words.  A target says if a  *)
(* plain char is signed and if a long has the width of a long long.        *)
(* "Octet" is an enumeration whose fixed underlying type is unsigned char. *)
(***************************************************************************)
EXTENDS Integers, Sequences

CONSTANTS CharBits, IntBits, WordBits,
          Targets  \* the models compiled for

ASSUME WidthsGrow == /\ {CharBits, IntBits, WordBits} \subseteq Nat
                     /\ 1 < CharBits /\ CharBits < IntBits /\ IntBits < WordBits

ASSUME TargetsAreModels == Targets \subseteq [charSigned : BOOLEAN, longIsWord : BOOLEAN]

(* --------------------------------- words -------------------------------- *)

Word(n, w) == n % 2^w
Signed(x, w) == IF x >= 2^(w - 1) THEN x - 2^w ELSE x

LOCAL Magnitude(n) == IF n < 0 THEN -n ELSE n

\* Division truncates toward zero, and the remainder has the dividend's sign.
Quotient(a, b) == IF (a < 0) = (b < 0) THEN Magnitude(a) \div Magnitude(b)
                                       ELSE -(Magnitude(a) \div Magnitude(b))
Remainder(a, b) == a - b * Quotient(a, b)

LOCAL Conjunction[x \in Nat, y \in Nat] ==
    IF x = 0 \/ y = 0 THEN 0
    ELSE (x % 2) * (y % 2) + 2 * Conjunction[x \div 2, y \div 2]

BitAnd(x, y) == Conjunction[x, y]
BitOr(x, y) == x + y - BitAnd(x, y)
BitXor(x, y) == x + y - 2 * BitAnd(x, y)
BitNot(x, w) == 2^w - 1 - x

\* A count of w or more is not one the lowering lets through: it is masked.
Shl(x, n, w) == Word(x * 2^(n % w), w)
UShr(x, n, w) == x \div 2^(n % w)
SShr(x, n, w) == Word(Signed(x, w) \div 2^(n % w), w)

SDiv(x, y, w) == Word(Quotient(Signed(x, w), Signed(y, w)), w)
SRem(x, y, w) == Word(Remainder(Signed(x, w), Signed(y, w)), w)
UMulHi(x, y, w) == (x * y) \div 2^w

SLt(x, y, w) == Signed(x, w) < Signed(y, w)
OneIf(c) == IF c THEN 1 ELSE 0

\* The overflow predicates: the result of the operation on what the words
\* stand for is not one that a word stands for.
SOverflows(n, w) == n < -(2^(w - 1)) \/ n >= 2^(w - 1)
UOverflows(n, w) == n < 0 \/ n >= 2^w

(* --------------------------------- types -------------------------------- *)

Wide == {"Int128", "UInt128"}
Types == {"Bool", "Char", "UChar", "Octet", "Int", "UInt", "Long", "ULong", "LongLong", "ULongLong"} \cup Wide

\* Enum.Underlying.
Underlying(t) == IF t = "Octet" THEN "UChar" ELSE t

\* Model.IntBits.
Bits(m, t) ==
    CASE t \in {"Bool", "Char", "UChar", "Octet"} -> CharBits
      [] t \in {"Int", "UInt"}                    -> IntBits
      [] t \in {"Long", "ULong"}                  -> IF m.longIsWord THEN WordBits ELSE IntBits
      [] t \in {"LongLong", "ULongLong"}          -> WordBits
      [] t \in Wide                               -> 2 * WordBits

IsSigned(m, t) == t \in {"Int", "Long", "LongLong", "Int128"} \/ (t = "Char" /\ m.charSigned)

IntMax(m, t) == IF IsSigned(m, t) THEN 2^(Bits(m, t) - 1) - 1 ELSE 2^Bits(m, t) - 1

IsSmallInt(t) == t \in {"Bool", "Char", "UChar"}

\* Model.Promote.  An enumeration promotes to its underlying type as it is.
Promote(m, t) ==
    IF t = "Octet" THEN Underlying(t)
    ELSE IF Bits(m, t) > IntBits \/ (Bits(m, t) = IntBits /\ ~IsSigned(m, t) /\ ~IsSmallInt(t)) THEN t
    ELSE IF Bits(m, t) < IntBits \/ IsSigned(m, t) THEN "Int"
    ELSE "UInt"

\* Model.Usual over the promoted types: by width, then by sign.
LOCAL Common(m, a, b) ==
    LET ab == Bits(m, a)
        bb == Bits(m, b)
    IN  IF a = b THEN a
        ELSE IF IsSigned(m, a) = IsSigned(m, b) THEN IF ab >= bb THEN a ELSE b
        ELSE IF ~IsSigned(m, a) /\ ab >= bb THEN a
        ELSE IF ~IsSigned(m, b) /\ bb >= ab THEN b
        ELSE IF IsSigned(m, a) THEN a ELSE b

Usual(m, a, b) == Common(m, Promote(m, a), Promote(m, b))

(***************************************************************************)
(* An integer constant is spelled by its base, its digits and its suffix.  *)
(* The base is what the digits are to; the last column is the octal and    *)
(* hexadecimal one's, whose constants may also have an unsigned type.      *)
(***************************************************************************)
Candidates(s) ==
    LET decimal == s.base = "decimal"
    IN  CASE s.u /\ s.l = 2    -> <<"ULongLong">>
          [] s.u /\ s.l = 1    -> <<"ULong", "ULongLong">>
          [] s.u /\ s.l = 0    -> <<"UInt", "ULong", "ULongLong">>
          [] ~s.u /\ s.l = 2   -> IF decimal THEN <<"LongLong">> ELSE <<"LongLong", "ULongLong">>
          [] ~s.u /\ s.l = 1   -> IF decimal THEN <<"Long", "LongLong">>
                                  ELSE <<"Long", "ULong", "LongLong", "ULongLong">>
          [] ~s.u /\ s.l = 0   -> IF decimal THEN <<"Int", "Long", "LongLong">>
                                  ELSE <<"Int", "UInt", "Long", "ULong", "LongLong", "ULongLong">>

\* A base of the scaled widths: decimal is 3, and what is not is 2.
Radix(s) == IF s.base = "decimal" THEN 3 ELSE 2

\* The value in a word, and whether a digit made it wrap.
LOCAL Accumulate(s) ==
    LET acc[i \in 0 .. Len(s.digits)] ==
            IF i = 0 THEN [val |-> 0, over |-> FALSE]
            ELSE LET before == acc[i - 1]
                     after  == Word(before.val * Radix(s) + s.digits[i], WordBits)
                 IN  [val |-> after,
                      over |-> \/ before.over
                               \/ after < before.val
                               \/ before.val # 0 /\ after \div Radix(s) # before.val]
    IN  acc[Len(s.digits)]

LOCAL Fitting(m, s, v) == {i \in DOMAIN Candidates(s) : v.val <= IntMax(m, Candidates(s)[i])}

\* DecodeIntConst.
DecodeIntConst(m, s) ==
    LET v    == Accumulate(s)
        fits == Fitting(m, s, v)
    IN  IF v.over \/ fits = {} THEN [val |-> v.val, ty |-> "ULongLong", reported |-> TRUE]
        ELSE [val |-> v.val, reported |-> FALSE,
              ty |-> Candidates(s)[CHOOSE i \in fits : \A j \in fits : i <= j]]
=============================================================================
