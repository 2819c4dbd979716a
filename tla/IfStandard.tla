----------------------------- MODULE IfStandard ------------------------------
(***************************************************************************)
(* What C11 6.10.1 makes of a controlling expression, by the grammar of    *)
(* 6.5 with `defined` and the feature operators among its primary          *)
(* expressions: a line is taken apart wherever the grammar lets it be, and *)
(* an operand that is not evaluated is only taken apart.                   *)
(***************************************************************************)
EXTENDS CArithmetic, SequencesExt

CONSTANTS Constants, Names, Macros, Features, Shapes

\* Every type is intmax_t or uintmax_t.
LOCAL M == CHOOSE m \in Targets : TRUE
LOCAL SignedMax == "LongLong"
LOCAL UnsignedMax == "ULongLong"

\* What a line may be instead of an expression with a value: none at all, one
\* that divides by zero, and one whose value C leaves open.
NoExpression == [kind |-> "none"]
Wrong == [kind |-> "wrong", ty |-> SignedMax]
Open(t) == [kind |-> "open", ty |-> t]
Value(t, n) == IF n = Undefined THEN Open(t) ELSE [kind |-> "value", ty |-> t, n |-> n]
IsExpression(e) == e.kind # "none"

(* -------------------------------- expansion ----------------------------- *)

LOCAL Name(t) == t \in Names \cup {"defined", "has"}

\* The operands of operators that are written in the line: they are not expanded.
LOCAL DefinedOperand(line, k) ==
    \/ k > 1 /\ line[k - 1] = "defined"
    \/ k > 2 /\ line[k - 1] = "(" /\ line[k - 2] = "defined"

LOCAL Balanced(toks, i, j) ==
    LET Opens(k) == Cardinality({h \in i .. k : toks[h] = "("}) - Cardinality({h \in i .. k : toks[h] = ")"})
    IN  (\A k \in i .. j : Opens(k) >= 0) /\ (i <= j => Opens(j) = 0)

LOCAL HasOperand(line, k) ==
    \E b \in 2 .. k - 1, e \in k + 1 .. Len(line) :
        line[b - 1] = "has" /\ line[b] = "(" /\ line[e] = ")" /\ Balanced(line, b + 1, e - 1)

Expanded(line) ==
    FlattenSeq([k \in DOMAIN line |->
        IF line[k] \in DOMAIN Macros /\ ~DefinedOperand(line, k) /\ ~HasOperand(line, k)
        THEN Macros[line[k]] ELSE <<line[k]>>])

(* --------------------------------- values ------------------------------- *)

\* The first of two operands that has no value says so.
LOCAL Both(a, b, t, n) ==
    IF "open" \in {a.kind, b.kind} THEN Open(t)
    ELSE IF "wrong" \in {a.kind, b.kind} THEN Wrong
    ELSE Value(t, n)

LOCAL Number(e) == IF e.kind = "value" THEN e.n ELSE 0

LOCAL Dyadic(op, a, b) ==
    LET t == IF op \in Relations THEN SignedMax ELSE IF op \in Shifts THEN a.ty ELSE CommonType(M, a.ty, b.ty)
    IN  IF op \in {"/", "%"} /\ b.kind = "value" /\ b.n = 0 /\ a.kind # "open" THEN Wrong
        ELSE Both(a, b, t, BinaryValue(op, M, a.ty, Number(a), b.ty, Number(b)))

\* The right operand counts when the left one leaves the answer open.
LOCAL LogicalValue(op, a, b) ==
    IF a.kind # "value" THEN a
    ELSE IF (op = "&&") = (a.n = 0) THEN Value(SignedMax, OneIf(a.n # 0))
    ELSE IF b.kind # "value" THEN b ELSE Value(SignedMax, OneIf(b.n # 0))

LOCAL ConditionalValue(c, a, b) ==
    LET t   == CommonType(M, a.ty, b.ty)
        arm == IF c.kind = "value" /\ c.n # 0 THEN a ELSE b
    IN  IF c.kind # "value" THEN c
        ELSE IF arm.kind # "value" THEN arm
        ELSE IF arm.ty # t /\ "arms" \notin Shapes THEN Open(t) ELSE Value(t, Convert(M, t, arm.n))

LOCAL Monadic(op, a) ==
    IF op = "!" THEN IF a.kind = "value" THEN Value(SignedMax, OneIf(a.n = 0)) ELSE a
    ELSE IF a.kind = "value" THEN Value(a.ty, UnaryValue(op, M, a.ty, a.n)) ELSE a

\* A constant; one that no type holds is an error.
LOCAL Literal(s) ==
    IF \E k \in DOMAIN s.digits : s.digits[k] >= Radix(s) THEN NoExpression
    ELSE IF ~Holds(M, UnsignedMax, Spelled(s)) THEN Wrong
    ELSE Value(IF s.u \/ ~Holds(M, SignedMax, Spelled(s)) THEN UnsignedMax ELSE SignedMax, Spelled(s))

(* --------------------------------- grammar ------------------------------ *)

\* The operators of a level, the loosest first.
Levels == <<{"||"}, {"&&"}, {"|"}, {"^"}, {"&"}, {"==", "!="}, {"<", ">", "<=", ">="},
            {"<<", ">>"}, {"+", "-"}, {"*", "/", "%"}>>

LOCAL Primary(toks, i, j) ==
    LET Is(k, t) == k <= j /\ toks[k] = t
        Asked(t) == Value(SignedMax, OneIf(t \in DOMAIN Macros \/ t = "has"))
        Word1(k) == Name(toks[k]) \/ toks[k] \in DOMAIN Constants
    IN  CASE i = j /\ toks[i] \in Names -> Value(SignedMax, 0)
          [] i = j /\ toks[i] \in DOMAIN Constants -> Literal(Constants[toks[i]])
          [] j = i + 1 /\ Is(i, "defined") /\ Name(toks[j]) -> Asked(toks[j])
          [] j = i + 3 /\ Is(i, "defined") /\ Is(i + 1, "(") /\ Name(toks[i + 2]) /\ Is(j, ")") -> Asked(toks[i + 2])
          [] /\ j > i + 2 /\ Is(i, "has") /\ Is(i + 1, "(") /\ Is(j, ")") /\ Balanced(toks, i + 2, j - 1)
             /\ "defined" \notin {toks[k] : k \in i + 2 .. j - 1}
             /\ \A k \in i + 2 .. j - 2 : ~(Word1(k) /\ Word1(k + 1))
                -> Value(SignedMax, OneIf(j = i + 3 /\ toks[i + 2] \in Features))
          [] OTHER -> NoExpression

\* The productions that toks[i .. j] may be read by, at level 0 those of a
\* conditional expression, at levels 1 to 10 those of a binary one, and above those
\* of a unary or primary one.  A part is read at a level from one token to another.
Part(level, i, j) == [level |-> level, i |-> i, j |-> j]
Rule(form, op, parts) == [form |-> form, op |-> op, parts |-> parts]

LOCAL Occurring(toks, level, i, j) ==
    {l \in level .. Len(Levels) : \E k \in i + 1 .. j - 1 : toks[k] \in Levels[l]} \cup {Len(Levels) + 1}
LOCAL Tightening(toks, level, i, j) ==
    CHOOSE l \in Occurring(toks, level, i, j) : \A o \in Occurring(toks, level, i, j) : l <= o

Productions(toks, level, i, j) ==
    CASE i > j -> {}
      [] i <= j /\ level = 0 ->
            {Rule("triad", "?", <<Part(1, i, p[1] - 1), Part(0, p[1] + 1, p[2] - 1), Part(0, p[2] + 1, j)>>) :
                p \in {p \in (i + 1 .. j - 3) \X (i + 3 .. j - 1) : toks[p[1]] = "?" /\ toks[p[2]] = ":"}}
            \cup {Rule("same", "", <<Part(Tightening(toks, 1, i, j), i, j)>>)}
      [] i <= j /\ level \in DOMAIN Levels ->
            {Rule("dyad", toks[k], <<Part(level, i, k - 1), Part(level + 1, k + 1, j)>>) :
                k \in {k \in i + 1 .. j - 1 : toks[k] \in Levels[level]}}
            \cup {Rule("same", "", <<Part(Tightening(toks, level + 1, i, j), i, j)>>)}
      [] OTHER ->
            IF toks[i] \in {"+", "-", "~", "!"} THEN {Rule("monad", toks[i], <<Part(level, i + 1, j)>>)}
            ELSE IF toks[i] = "(" /\ toks[j] = ")" THEN {Rule("same", "", <<Part(0, i + 1, j - 1)>>)}
            ELSE {Rule("primary", "", <<>>)}

Meaning(rule, v, toks, i, j) ==
    CASE \E k \in DOMAIN v : ~IsExpression(v[k]) -> NoExpression
      [] OTHER -> CASE rule.form = "triad"   -> ConditionalValue(v[1], v[2], v[3])
                    [] rule.form = "dyad"    -> IF rule.op \in {"||", "&&"} THEN LogicalValue(rule.op, v[1], v[2])
                                                ELSE Dyadic(rule.op, v[1], v[2])
                    [] rule.form = "monad"   -> Monadic(rule.op, v[1])
                    [] rule.form = "same"    -> v[1]
                    [] rule.form = "primary" -> Primary(toks, i, j)

LOCAL TheOne(meanings) == IF meanings = {} THEN NoExpression ELSE CHOOSE m \in meanings : TRUE

\* The grammar is not ambiguous: at most one reading means anything.
RECURSIVE Derives(_, _, _, _)
Derives(toks, level, i, j) ==
    TheOne({Meaning(r, [k \in DOMAIN r.parts |-> Derives(toks, r.parts[k].level, r.parts[k].i, r.parts[k].j)],
                    toks, i, j) : r \in Productions(toks, level, i, j)} \ {NoExpression})

\* An operator that is written in the line is one, whatever a macro puts before it.
LOCAL Alone(line) ==
    \E k \in DOMAIN line : /\ line[k] = "has" /\ ~DefinedOperand(line, k) /\ ~HasOperand(line, k)
                            /\ (k = Len(line) \/ line[k + 1] # "(")

\* Nothing is said of `defined` asked about itself.
LOCAL OfItself(line) == \E k \in DOMAIN line : line[k] = "defined" /\ DefinedOperand(line, k)

Standard(line) ==
    LET toks == Expanded(line)
    IN  IF OfItself(line) \/ OfItself(toks) THEN Open(SignedMax)
        ELSE IF Alone(line) THEN NoExpression ELSE Derives(toks, 0, 1, Len(toks))
=============================================================================
