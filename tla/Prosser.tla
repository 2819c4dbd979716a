------------------------------ MODULE Prosser ------------------------------
(* The reference for macro expansion: the recursive definition of a whole
   sequence's expansion by hide sets that the README of preprocessor/ names
   (X3J11/86-196), with the standard's substitution (6.10.3.1 to 6.10.3.3): the
   operands of # and ## are the argument's own tokens, every other parameter
   stands for its argument's expansion, and an empty operand of ## is a
   placemarker.  Defined for programs without errors. *)
EXTENDS MacroTokens

Placemarker == Token(<<"placemarker">>)

Marked(ts) == IF ts = <<>> THEN <<Placemarker>> ELSE ts

RECURSIVE Join(_, _)
(* Operands joined by ##, left to right. *)
Join(left, operands) ==
    IF operands = <<>> THEN left
    ELSE LET l == Last(left)
             r == Head(Head(operands))
             m == IF l = Placemarker THEN r ELSE IF r = Placemarker THEN l ELSE Pasted(l, r)
         IN  Join(Front(left) \o <<m>> \o Tail(Head(operands)), Tail(operands))

Shown(ts) == SelectSeq(ts, LAMBDA t : t # Placemarker)

RECURSIVE Expanded(_, _), Substituted(_, _, _, _)

(* The comma before ## and the arguments of "..." goes when there are none. *)
Swallows(m, body, k) ==
    /\ m.variadic /\ k > 1 /\ k < Len(body)
    /\ body[k - 1] = Comma /\ body[k] = Paste /\ body[k + 1] = VaArgs

IsJoint(m, body, k) == k \in DOMAIN body /\ body[k] = Paste /\ ~Swallows(m, body, k)

(* The replacement of the body from position k on. *)
Substituted(table, m, args, k) ==
    LET body   == m.body
        raw(x) == IF IsParam(m, body[x]) THEN Marked(args[Slot(m, body[x])])
                  ELSE <<Token(body[x])>>
    IN  IF k > Len(body) THEN <<>>
        ELSE IF Swallows(m, body, k + 1) THEN
            LET rest == args[Slot(m, VaArgs)]
            IN  (IF rest = <<>> THEN <<>> ELSE <<Token(Comma)>> \o Expanded(table, rest))
                    \o Substituted(table, m, args, k + 3)
        ELSE IF ~m.obj /\ body[k] = Hash /\ k < Len(body) /\ IsParam(m, body[k + 1]) THEN
            <<Stringized(args[Slot(m, body[k + 1])])>> \o Substituted(table, m, args, k + 2)
        ELSE IF IsJoint(m, body, k + 1) THEN
            LET last == CHOOSE j \in k..Len(body) :
                            /\ (j - k) % 2 = 0
                            /\ \A i \in k..(j - 1) : (i - k) % 2 = 1 => IsJoint(m, body, i)
                            /\ ~IsJoint(m, body, j + 1)
            IN  Shown(Join(raw(k), [i \in 1..((last - k) \div 2) |-> raw(k + 2 * i)]))
                    \o Substituted(table, m, args, last + 1)
        ELSE IF IsParam(m, body[k]) THEN
            Expanded(table, args[Slot(m, body[k])]) \o Substituted(table, m, args, k + 1)
        ELSE <<Token(body[k])>> \o Substituted(table, m, args, k + 1)

Expanded(table, ts) ==
    IF ts = <<>> THEN <<>>
    ELSE IF ObjectCall(table, ts) THEN
        LET t == ts[1] IN
        Expanded(table, Painted(t.hide \cup {t.text},
                                Substituted(table, table[t.text], <<>>, 1)) \o Tail(ts))
    ELSE IF FunctionCall(table, ts) THEN
        LET t == ts[1]
            m == table[t.text]
            c == Closing(ts)
        IN  Expanded(table, Painted((t.hide \cap ts[c].hide) \cup {t.text},
                                    Substituted(table, m, Arguments(m, ts), 1))
                                \o SubSeq(ts, c + 1, Len(ts)))
    ELSE <<ts[1]>> \o Expanded(table, Tail(ts))
=============================================================================
