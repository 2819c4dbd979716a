----------------------------- MODULE IfEvaluator -----------------------------
(***************************************************************************)
(* The controlling expression of #if and #elif (preprocessor/eval.go,      *)
(* preprocessor/operators.go): `defined` and the feature operators become  *)
(* 0 or 1, macros are expanded, both are asked for again, what names are   *)
(* left become 0, and a precedence climber evaluates the rest.             *)
(*                                                                         *)
(* A token is its spelling.  "has" stands for the operators that take a    *)
(* word in parentheses, __has_feature and its kin.  Word arithmetic is in  *)
(* WordBits.                                                               *)
(***************************************************************************)
EXTENDS IntTypes, SequencesExt

CONSTANTS Constants,  \* integer constants: from a spelling to base, digits and u
          Names,      \* the other names
          Macros,     \* object-like macros: from a name to its replacement
          Features    \* the words the feature operators answer for

ASSUME ConstantsAreDigits == {"0", "1"} \subseteq DOMAIN Constants
ASSUME MacrosAreNames == DOMAIN Macros \subseteq Names

IsName(t) == t \in Names \cup {"defined", "has"}

Line(toks, reported) == [toks |-> toks, reported |-> reported]

Number(yes) == IF yes THEN "1" ELSE "0"

(* ------------------------------- operators ------------------------------ *)

\* macros.Defined, builtinPPMacro.
IsDefined(name) == name \in DOMAIN Macros \/ name = "has"

\* resolveDefined, from the i-th token on.
RECURSIVE ResolveFrom(_, _, _)
ResolveFrom(line, i, done) ==
    LET paren  == i < Len(line) /\ line[i + 1] = "("
        at     == IF paren THEN i + 2 ELSE i + 1
        closed == paren /\ at < Len(line) /\ line[at + 1] = ")"
    IN  IF i > Len(line) THEN done
        ELSE IF line[i] # "defined" THEN ResolveFrom(line, i + 1, [done EXCEPT !.toks = Append(@, line[i])])
        ELSE IF at > Len(line) \/ ~IsName(line[at]) THEN Line(Append(done.toks, "0"), TRUE)
        ELSE ResolveFrom(line, IF closed THEN at + 2 ELSE at + 1,
                         Line(Append(done.toks, Number(IsDefined(line[at]))),
                              done.reported \/ (paren /\ ~closed)))

ResolveDefined(l) == ResolveFrom(l.toks, 1, Line(<<>>, l.reported))

\* matchParen: where the parenthesis at open closes, none if it does not.
MatchParen(line, open) ==
    LET Depth(k) == Cardinality({j \in open .. k : line[j] = "("}) - Cardinality({j \in open .. k : line[j] = ")"})
        ends == {k \in open .. Len(line) : Depth(k) = 0}
    IN  IF ends = {} THEN 0 ELSE CHOOSE k \in ends : \A j \in ends : k <= j

IsWord(t) == IsName(t) \/ t \in DOMAIN Constants

\* Two words side by side have a space between them; nothing else does.
HasSpace(operand) == \E k \in 1 .. Len(operand) - 1 : IsWord(operand[k]) /\ IsWord(operand[k + 1])

\* operator, operandWord: one word, or a run of characters that is none of them.
OperandReported(operand) == operand = <<>> \/ HasSpace(operand)
Answer(operand) == ~OperandReported(operand) /\ Len(operand) = 1 /\ operand[1] \in Features

\* resolveOperators, from the i-th token on.
RECURSIVE OperatorsFrom(_, _, _)
OperatorsFrom(line, i, done) ==
    LET close   == MatchParen(line, i + 1)
        operand == SubSeq(line, i + 2, close - 1)
    IN  IF i > Len(line) THEN done
        ELSE IF line[i] # "has" THEN OperatorsFrom(line, i + 1, [done EXCEPT !.toks = Append(@, line[i])])
        ELSE IF i = Len(line) \/ line[i + 1] # "("
             THEN OperatorsFrom(line, i + 1, Line(Append(done.toks, "0"), TRUE))
        ELSE IF close = 0 THEN Line(Append(done.toks, "0") \o SubSeq(line, i + 1, Len(line)), TRUE)
        ELSE OperatorsFrom(line, close + 1,
                           Line(Append(done.toks, Number(Answer(operand))),
                                done.reported \/ OperandReported(operand)))

ResolveOperators(l) == OperatorsFrom(l.toks, 1, Line(<<>>, l.reported))

\* expandClosed, of macros whose replacements name no macro.
ExpandClosed(l) ==
    [l EXCEPT !.toks = FlattenSeq([k \in DOMAIN @ |-> IF @[k] \in DOMAIN Macros THEN Macros[@[k]] ELSE <<@[k]>>])]

ZeroIdents(l) == [l EXCEPT !.toks = [k \in DOMAIN @ |-> IF IsName(@[k]) THEN "0" ELSE @[k]]]

\* Eval up to the evaluator; what names an operator after expansion is resolved then.
Prepared(line) ==
    ZeroIdents(ResolveOperators(ResolveDefined(ExpandClosed(ResolveOperators(ResolveDefined(Line(line, FALSE)))))))

(* ------------------------------- arithmetic ----------------------------- *)

Val(u, unsigned) == [u |-> u, unsigned |-> unsigned, bad |-> FALSE]
Failed == [u |-> 0, unsigned |-> FALSE, bad |-> TRUE]
Nonzero(v) == v.u # 0
Truth(c) == Val(OneIf(c), FALSE)

LOCAL W == WordBits
LOCAL Same(v, u) == [v EXCEPT !.u = u]

IntConst(s) ==
    LET radix == Radix(s)
        step(v, d) == LET n == Word(v.u * radix + d, W) IN [u |-> n, over |-> v.over \/ n < v.u]
        v == FoldLeft(step, [u |-> 0, over |-> FALSE], s.digits)
    IN  IF \E k \in DOMAIN s.digits : s.digits[k] >= radix THEN Failed
        ELSE [Val(v.u, s.u \/ v.u > 2^(W - 1) - 1) EXCEPT !.bad = v.over]

\* apply: shifts do not convert, and the rest is unsigned if either operand is.
Apply(op, a, b) ==
    LET un == a.unsigned \/ b.unsigned
        Less(x, y) == IF un THEN x < y ELSE SLt(x, y, W)
    IN  CASE op = "<<" -> Same(a, Shl(a.u, b.u, W))
          [] op = ">>" -> Same(a, IF a.unsigned THEN UShr(a.u, b.u, W) ELSE SShr(a.u, b.u, W))
          [] op = "+"  -> Val(Word(a.u + b.u, W), un)
          [] op = "-"  -> Val(Word(a.u - b.u, W), un)
          [] op = "*"  -> Val(Word(a.u * b.u, W), un)
          [] op \in {"/", "%"} /\ b.u = 0 -> Failed
          [] op = "/" /\ b.u # 0 -> Val(IF un THEN a.u \div b.u ELSE SDiv(a.u, b.u, W), un)
          [] op = "%" /\ b.u # 0 -> Val(IF un THEN a.u % b.u ELSE SRem(a.u, b.u, W), un)
          [] op = "&"  -> Val(BitAnd(a.u, b.u), un)
          [] op = "|"  -> Val(BitOr(a.u, b.u), un)
          [] op = "^"  -> Val(BitXor(a.u, b.u), un)
          [] op = "==" -> Truth(a.u = b.u)
          [] op = "!=" -> Truth(a.u # b.u)
          [] op = "<"  -> Truth(Less(a.u, b.u))
          [] op = ">"  -> Truth(Less(b.u, a.u))
          [] op = "<=" -> Truth(~Less(b.u, a.u))
          [] op = ">=" -> Truth(~Less(a.u, b.u))

Prec(op) ==
    CASE op = "||" -> 1 [] op = "&&" -> 2 [] op = "|" -> 3 [] op = "^" -> 4 [] op = "&" -> 5
      [] op \in {"==", "!="} -> 6 [] op \in {"<", ">", "<=", ">="} -> 7 [] op \in {"<<", ">>"} -> 8
      [] op \in {"+", "-"} -> 9 [] op \in {"*", "/", "%"} -> 10 [] OTHER -> 0

(* ------------------------------- evaluator ------------------------------ *)
(* A function of the evaluator takes the tokens and where it begins, and   *)
(* gives its value, whether something in it was reported, and where it     *)
(* ends.                                                                   *)

At(toks, i) == IF i > Len(toks) THEN "end" ELSE toks[i]
Ends(v, i) == [v |-> v, i |-> i]
Bad(v, c) == [v EXCEPT !.bad = @ \/ c]

\* Nothing in an operand that is not evaluated is reported.
Unevaluated(skip, r) == IF skip THEN [r EXCEPT !.v.bad = FALSE] ELSE r

\* && and || have a value before their right operand, or that of both.
Combined(op, a, b) ==
    Bad(CASE op = "&&" -> Truth(Nonzero(a) /\ Nonzero(b))
          [] op = "||" -> Truth(Nonzero(a) \/ Nonzero(b))
          [] OTHER     -> Apply(op, a, b), a.bad \/ b.bad)

Skips(op, a) == (op = "&&" /\ ~Nonzero(a)) \/ (op = "||" /\ Nonzero(a))

Joined(op, a, b) == Ends(Combined(op, a.v, b.v), b.i)

Chosen(c, t, f) == Ends(Bad(IF Nonzero(c.v) THEN t.v ELSE f.v, c.v.bad \/ t.v.bad \/ f.v.bad), f.i)

Prefixed(op, x) ==
    Ends(CASE op = "+" -> x.v
           [] op = "-" -> Same(x.v, Word(-x.v.u, W))
           [] op = "~" -> Same(x.v, BitNot(x.v.u, W))
           [] op = "!" -> Bad(Truth(~Nonzero(x.v)), x.v.bad), x.i)

Closed(toks, x) == IF At(toks, x.i) = ")" THEN Ends(x.v, x.i + 1) ELSE Ends(Bad(x.v, TRUE), x.i)

RECURSIVE Conditional(_, _), Else(_, _, _), Binary(_, _, _), Climb(_, _, _), Unary(_, _)

\* conditional, after its condition and after its first arm.
Then(toks, c) == IF At(toks, c.i) # "?" THEN c
                 ELSE Else(toks, c, Unevaluated(~Nonzero(c.v), Conditional(toks, c.i + 1)))
Else(toks, c, t) == IF At(toks, t.i) # ":" THEN Ends(Failed, t.i)
                    ELSE Chosen(c, t, Unevaluated(Nonzero(c.v), Conditional(toks, t.i + 1)))
Conditional(toks, i) == Then(toks, Binary(toks, i, 1))

\* A mutant: the right operand may hold operators of the same level.
RightOperandLevel(op) == Prec(op)

\* The level the right operand of a binary operator is read at.
RightLevel(op) == Prec(op) + 1

\* binary and its loop.
Climb(toks, lhs, min) ==
    IF Prec(At(toks, lhs.i)) < min THEN lhs
    ELSE Climb(toks, Joined(At(toks, lhs.i), lhs,
                            Unevaluated(Skips(At(toks, lhs.i), lhs.v),
                                        Binary(toks, lhs.i + 1, RightLevel(At(toks, lhs.i))))), min)
Binary(toks, i, min) == Climb(toks, Unary(toks, i), min)

Unary(toks, i) ==
    CASE At(toks, i) \in {"+", "-", "~", "!"} -> Prefixed(toks[i], Unary(toks, i + 1))
      [] At(toks, i) = "(" -> Closed(toks, Conditional(toks, i + 1))
      [] At(toks, i) \in DOMAIN Constants -> Ends(IntConst(Constants[toks[i]]), i + 1)
      [] At(toks, i) = "literal" -> Ends(Failed, i + 1)
      [] OTHER -> Ends(Failed, i)

\* Eval: is something reported, and is the group that follows kept?
Verdict(l, r) ==
    LET bad == r.v.bad \/ r.i <= Len(l.toks)
    IN  [reported |-> l.reported \/ bad, holds |-> ~bad /\ Nonzero(r.v)]

Evaluated(l) == Verdict(l, Conditional(l.toks, 1))

Eval(line) == IF line = <<>> THEN [reported |-> TRUE, holds |-> FALSE] ELSE Evaluated(Prepared(line))
=============================================================================
