----------------------------- MODULE Expansion -----------------------------
(* Macro expansion as preprocessor/expand.go performs it: a loop over a stream with
   pushback, in which an invocation walks the macro's replacement list once, and a
   parameter's argument is expanded on a closed stream of its own before the walk
   goes on.  The stack holds the streams, that of the text first.

   A stream either looks at its next token (its "call" is empty) or stands in the
   middle of a substitution.  Builtin macros, _Pragma and the feature operators,
   which read no replacement list, are left out, and so is spacing. *)
EXTENDS MacroTokens

CONSTANTS Programs,           \* the macro tables and texts explored
          MaxExpansionDepth   \* Config.MaxExpansionDepth: streams inside streams

ASSUME ExpansionAssumption == MaxExpansionDepth \in Nat

VARIABLES table,     \* Table: the macros, by name
          source,    \* history: the text, as it was
          stack,     \* the streams being expanded
          errors     \* the kinds of diagnostic drawn

vars == <<table, source, stack, errors>>

(* A stream: what is still to be looked at, what has been, and the substitution in
   progress on it, if any. *)
Stream(ts) == [todo |-> ts, out |-> <<>>, call |-> <<>>]

(* subst: the macro, its arguments, the hide set of the result, what is left of
   the replacement list, and the result so far. *)
Call(m, args, hide) ==
    [m |-> m, args |-> args, hide |-> hide,
     rest |-> [k \in DOMAIN m.body |-> Token(m.body[k])], made |-> <<>>]

Init ==
    /\ \E p \in Programs : table = p.table /\ source = p.text
    /\ stack = <<Stream([k \in DOMAIN source |-> Token(source[k])])>>
    /\ errors = {}

Top  == stack[Len(stack)]
Todo == Top.todo

Become(stream) == stack' = [stack EXCEPT ![Len(stack)] = stream]

Report(kind) == errors' = errors \cup {kind}

-----------------------------------------------------------------------------
(* expandInto and expandOne: the next token of the stream. *)
Looking == Top.call = <<>> /\ Todo # <<>>

Copy ==
    /\ Looking
    /\ ~ObjectCall(table, Todo) /\ ~FunctionCall(table, Todo)
    /\ Become([Top EXCEPT !.out = Append(@, Todo[1]), !.todo = Tail(@)])
    /\ UNCHANGED <<table, source, errors>>

(* Mutant: the macro is not added to the hide set of its replacement. *)
ObjectHideUnpainted(t) == t.hide

ObjectHide(t) == t.hide \cup {t.text}

InvokeObject ==
    /\ Looking /\ ObjectCall(table, Todo)
    /\ LET t == Todo[1] IN
        Become([Top EXCEPT !.todo = Tail(@),
                           !.call = <<Call(table[t.text], <<>>, ObjectHide(t))>>])
    /\ UNCHANGED <<table, source, errors>>

(* Mutant: the name's hide set alone, whatever the parenthesis that closes. *)
FunctionHideOfName(t, rp) == t.hide \cup {t.text}

(* What the name and the closing parenthesis both may not invoke, and the macro. *)
FunctionHide(t, rp) == (t.hide \cap rp.hide) \cup {t.text}

Called == table[Todo[1].text]
Fits == Len(Arguments(Called, Todo)) = Arity(Called)

InvokeFunction ==
    /\ Looking /\ FunctionCall(table, Todo) /\ Closing(Todo) # 0 /\ Fits
    /\ LET c == Closing(Todo) IN
        Become([Top EXCEPT !.todo = SubSeq(@, c + 1, Len(@)),
                           !.call = <<Call(Called, Arguments(Called, Todo),
                                           FunctionHide(Todo[1], Todo[c]))>>])
    /\ UNCHANGED <<table, source, errors>>

(* Too few or too many arguments: the call has been read, expandOne says it did
   nothing, and the loop passes over one token more and keeps the name. *)
WrongArity ==
    /\ Looking /\ FunctionCall(table, Todo) /\ Closing(Todo) # 0 /\ ~Fits
    /\ Become([Top EXCEPT !.todo = SubSeq(@, Closing(@) + 2, Len(@)),
                          !.out = Append(@, Todo[1])])
    /\ Report("arity")
    /\ UNCHANGED <<table, source>>

(* The stream ends inside the arguments: all of it has been read. *)
Unterminated ==
    /\ Looking /\ FunctionCall(table, Todo) /\ Closing(Todo) = 0
    /\ Become([Top EXCEPT !.todo = <<>>, !.out = Append(@, Todo[1])])
    /\ Report("unterminated")
    /\ UNCHANGED <<table, source>>

-----------------------------------------------------------------------------
(* subst: the next token of the replacement list. *)
Substituting == Top.call # <<>>
Sub  == Top.call[1]
Rest == Sub.rest

(* The walk goes past n tokens of the list, and made is the result so far. *)
Walk(n, made) ==
    Become([Top EXCEPT !.call = <<[Sub EXCEPT !.rest = SubSeq(@, n + 1, Len(@)),
                                              !.made = made]>>])

Is(k, text)    == k <= Len(Rest) /\ Rest[k].text = text
IsFormal(k)    == k <= Len(Rest) /\ IsParam(Sub.m, Rest[k].text)
Argument(k)    == Sub.args[Slot(Sub.m, Rest[k].text)]

AtStringize == Is(1, Hash) /\ IsFormal(2)

(* , ## __VA_ARGS__ *)
AtSwallow == /\ Is(1, Paste) /\ Sub.m.variadic /\ Is(2, VaArgs)
             /\ Sub.made # <<>> /\ Last(Sub.made).text = Comma

AtPaste == Is(1, Paste) /\ Len(Rest) > 1 /\ ~AtSwallow

AtRaw == IsFormal(1) /\ Is(2, Paste)

AtPlain == IsFormal(1) /\ ~Is(2, Paste)

Stringize ==
    /\ Substituting /\ AtStringize
    /\ Walk(2, Append(Sub.made, Stringized(Argument(2))))
    /\ UNCHANGED <<table, source, errors>>

(* The tokens on the right of ##: an argument as it was given, or a token. *)
RightOperand == IF IsFormal(2) THEN Argument(2) ELSE <<Rest[2]>>

(* glue: the last token made and the first on the right become one. *)
Glue ==
    /\ Substituting /\ AtPaste
    /\ Sub.made # <<>> /\ RightOperand # <<>>
    /\ Pastes(Last(Sub.made), Head(RightOperand))
    /\ Walk(2, Front(Sub.made) \o <<Pasted(Last(Sub.made), Head(RightOperand))>>
                    \o Tail(RightOperand))
    /\ UNCHANGED <<table, source, errors>>

(* They do not make one token: reported, and both stay. *)
GlueFails ==
    /\ Substituting /\ AtPaste
    /\ Sub.made # <<>> /\ RightOperand # <<>>
    /\ ~Pastes(Last(Sub.made), Head(RightOperand))
    /\ Walk(2, Sub.made \o RightOperand)
    /\ Report("paste")
    /\ UNCHANGED <<table, source>>

GlueToNothing ==
    /\ Substituting /\ AtPaste
    /\ Sub.made = <<>> \/ RightOperand = <<>>
    /\ Walk(2, Sub.made \o RightOperand)
    /\ UNCHANGED <<table, source, errors>>

(* A parameter before ## goes in as it was given; an empty one takes the ## with it. *)
Raw ==
    /\ Substituting /\ AtRaw
    /\ Walk(IF Argument(1) = <<>> THEN 2 ELSE 1, Sub.made \o Argument(1))
    /\ UNCHANGED <<table, source, errors>>

(* The comma goes when nothing follows it. *)
SwallowComma ==
    /\ Substituting /\ AtSwallow /\ Argument(2) = <<>>
    /\ Walk(2, Front(Sub.made))
    /\ UNCHANGED <<table, source, errors>>

(* A token of the list that is nothing else. *)
CopyBody ==
    /\ Substituting /\ Rest # <<>>
    /\ ~AtStringize /\ ~AtSwallow /\ ~AtPaste /\ ~IsFormal(1)
    /\ Walk(1, Append(Sub.made, Rest[1]))
    /\ UNCHANGED <<table, source, errors>>

(* A parameter whose argument is expanded: a plain one, or that of a kept comma. *)
Operand == IF AtSwallow THEN 2 ELSE 1
WantsExpansion == AtPlain \/ (AtSwallow /\ Argument(2) # <<>>)

NothingToExpand ==
    /\ Substituting /\ AtPlain /\ Argument(1) = <<>>
    /\ Walk(1, Sub.made)
    /\ UNCHANGED <<table, source, errors>>

(* Mutant of expandClosed: the stream may refill from the one around it. *)
OpenStream(ts) == Stream(ts \o Todo)

ClosedStream(ts) == Stream(ts)

ExpandArgument ==
    /\ Substituting /\ WantsExpansion /\ Argument(Operand) # <<>>
    /\ Len(stack) <= MaxExpansionDepth
    /\ LET left == [Sub EXCEPT !.rest = SubSeq(@, Operand + 1, Len(@))] IN
        stack' = Append([stack EXCEPT ![Len(stack)].call = <<left>>],
                        ClosedStream(Argument(Operand)))
    /\ UNCHANGED <<table, source, errors>>

(* Too many streams inside streams: the argument stays as it was given. *)
TooDeep ==
    /\ Substituting /\ WantsExpansion /\ Argument(Operand) # <<>>
    /\ Len(stack) > MaxExpansionDepth
    /\ Walk(Operand, Sub.made \o Argument(Operand))
    /\ Report("depth")
    /\ UNCHANGED <<table, source>>

(* The end of an argument's stream: what came of it goes into the substitution. *)
EndArgument ==
    /\ Len(stack) > 1 /\ Todo = <<>> /\ Top.call = <<>>
    /\ LET below == stack[Len(stack) - 1]
           sub   == below.call[1]
       IN  stack' = Append(SubSeq(stack, 1, Len(stack) - 2),
                           [below EXCEPT !.call = <<[sub EXCEPT !.made = @ \o Top.out]>>])
    /\ UNCHANGED <<table, source, errors>>

(* The end of the list: the result is painted and pushed back, to be looked at
   again together with what follows. *)
PushBack ==
    /\ Substituting /\ Rest = <<>>
    /\ Become([Top EXCEPT !.todo = Painted(Sub.hide, Sub.made) \o @, !.call = <<>>])
    /\ UNCHANGED <<table, source, errors>>

Next == \/ Copy \/ InvokeObject \/ InvokeFunction \/ WrongArity \/ Unterminated
        \/ Stringize \/ Glue \/ GlueFails \/ GlueToNothing \/ Raw
        \/ SwallowComma \/ CopyBody
        \/ NothingToExpand \/ ExpandArgument \/ TooDeep \/ EndArgument \/ PushBack

(* One sequential loop: it takes its next step until none is left. *)
Spec == Init /\ [][Next]_vars /\ WF_vars(Next)

Finished == Len(stack) = 1 /\ Todo = <<>> /\ Top.call = <<>>

(* Expansion ends, for macros that name themselves and each other too: nothing
   else than the hide sets stops them. *)
Terminates == <>Finished
=============================================================================
