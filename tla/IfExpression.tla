---------------------------- MODULE IfExpression -----------------------------
(***************************************************************************)
(* Controlling expressions, written a piece at a time: any few tokens, and *)
(* an expression in an expression.                                         *)
(*                                                                         *)
(* Shapes has the expressions that are not evaluated as the standard has   *)
(* it and the model may write all the same:                                *)
(*   "skipped"   what is no expression, beside && or || or ?               *)
(*   "arms"      the arms of ?: of two types                               *)
(*   "overflow"  a constant that no type holds                             *)
(***************************************************************************)
EXTENDS IfEvaluator

CONSTANTS Free,        \* the tokens written in any order
          MaxFree,     \* how many of them
          Operators, Operands,
          MaxTokens,   \* the length of a line
          MaxOperands, \* and of how many operands an operator may extend it
          Shapes

ASSUME ShapesKnown == Shapes \subseteq {"skipped", "arms", "overflow"}

C11 == INSTANCE IfStandard

VARIABLE line

\* The digit that takes a constant past every type is told by a lower value alone.
Wraps(s) == C11!Spelled(s) >= 2^WordBits /\ ~IntConst(s).bad

\* A line begins empty, or with a constant or a macro that may be written nowhere else.
Init == line \in {<<>>} \cup {<<n>> : n \in DOMAIN Macros}
                \cup {<<c>> : c \in {c \in DOMAIN Constants :
                                     Wraps(Constants[c]) => "overflow" \in Shapes}}

Write == \E t \in Free : Len(line) < MaxFree /\ line' = Append(line, t)

\* An expression is an operand of a longer one.
Grows(more) == Len(line) + more <= MaxTokens /\ C11!IsExpression(C11!Standard(line))
OperandCount == Cardinality({k \in DOMAIN line : IsWord(line[k])})

Extend == /\ OperandCount < MaxOperands /\ Grows(2)
          /\ \E op \in Operators, x \in Operands : line' = line \o <<op, x>>

Enclose == /\ Grows(3)
           /\ \E op \in {"!", "-", "~"} : line' \in {<<op, "(">> \o line \o <<")">>, <<"(">> \o line \o <<")">>}

Choose == /\ Grows(4)
          /\ \E x, y \in Operands : line' \in {line \o <<"?", x, ":", y>>, <<x, "?">> \o line \o <<":", y>>,
                                               <<x, "?", y, ":">> \o line}

Next == Write \/ Extend \/ Enclose \/ Choose

Spec == Init /\ [][Next]_line

(* ------------------------------ properties ------------------------------ *)

LOCAL Has(toks) == \E k \in DOMAIN line : line[k] \in toks

LOCAL LeftOut(s) ==
    \/ "skipped" \notin Shapes /\ s.kind = "none" /\ Has({"&&", "||", "?"})

(* A line that C has for an expression is evaluated without a word and     *)
(* keeps its group just when the value is not zero; one that is none, or   *)
(* that divides by zero where it is evaluated, is reported: whatever the   *)
(* precedences, the operands that are not evaluated, and the operators     *)
(* that stand in the line or come out of a macro (Eval and below).         *)
ConditionAsStandard ==
    LET s == C11!Standard(line)
        r == Eval(line)
    IN  CASE s.kind = "value" -> ~r.reported /\ r.holds = (s.n # 0)
          [] s.kind = "open"  -> TRUE
          [] OTHER            -> LeftOut(s) \/ r.reported
=============================================================================
