--------------------------- MODULE MCIfExpression ---------------------------
(* Controlling expressions over words of four bits.                        *)
EXTENDS IfExpression

LOCAL Spell(base, digits, u) == [base |-> base, digits |-> digits, u |-> u]

\* A zero, a one, an unsigned two, the greatest signed word, one that is only
\* unsigned, one whose digit is not of its base, and two that are too large.
MCConstants == [c \in {"0", "1", "2u", "7", "9", "bad", "16", "26"} |->
    CASE c = "0" -> Spell("decimal", <<0>>, FALSE) [] c = "1" -> Spell("decimal", <<1>>, FALSE)
      [] c = "2u" -> Spell("other", <<1, 0>>, TRUE) [] c = "7" -> Spell("other", <<1, 1, 1>>, FALSE)
      [] c = "9" -> Spell("decimal", <<1, 0, 0>>, FALSE) [] c = "bad" -> Spell("other", <<1, 2>>, FALSE)
      [] c = "16" -> Spell("decimal", <<1, 2, 1>>, FALSE) [] c = "26" -> Spell("decimal", <<2, 2, 2>>, FALSE)]

MCNames == {"X", "Y", "E", "D", "A"}
\* A macro for nothing, one for an operator, one for a sum in no parentheses, and
\* one for a choice between two types.
MCMacros == [n \in {"E", "D", "Y", "A"} |->
    CASE n = "E" -> <<>> [] n = "D" -> <<"defined">> [] n = "Y" -> <<"1", "-", "7">>
      [] n = "A" -> <<"(", "1", "?", "-", "1", ":", "2u", ")">>]
MCFeatures == {"X"}
MCTargets == {[charSigned |-> TRUE, longIsWord |-> TRUE]}
MCFree == {"0", "literal", "X", "E", "D", "defined", "has", "(", ")", "-", "&&", "?"}
MCOperators == {"||", "&&", "==", "<", "<<", "-", "/"}
MCOperands == {"0", "2u", "7", "Y"}
=============================================================================
