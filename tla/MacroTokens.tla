---------------------------- MODULE MacroTokens ----------------------------
(* The data of macro expansion (preprocessor/macro.go, the helpers of
   preprocessor/expand.go): tokens with their hide sets, macros, and how an
   argument list is read off a sequence of tokens.

   A spelling is a sequence of atoms, so that pasting and stringizing are
   concatenation; a token is a spelling and the macros it may not invoke. *)
EXTENDS Naturals, FiniteSets, SequencesExt

LPar    == <<"(">>
RPar    == <<")">>
Comma   == <<",">>
Hash    == <<"#">>
Paste   == <<"##">>
VaArgs  == <<"__VA_ARGS__">>
Quote   == "quoted"                 \* begins the spelling of a string literal

Token(text) == [text |-> text, hide |-> {}]

IsName(t) == t.text[1] \notin {"(", ")", ",", "#", "##", Quote}

(* A macro: object-like or not, its named parameters, whether more may follow them,
   and the spellings of its replacement list. *)
Object(body) == [obj |-> TRUE, params |-> <<>>, variadic |-> FALSE, body |-> body]
Function(params, body) ==
    [obj |-> FALSE, params |-> params, variadic |-> FALSE, body |-> body]
Variadic(params, body) == [Function(params, body) EXCEPT !.variadic = TRUE]

Formals(m) == IF m.variadic THEN Append(m.params, VaArgs) ELSE m.params
IsParam(m, text) == text \in ToSet(Formals(m))
Slot(m, text) == CHOOSE k \in DOMAIN Formals(m) : Formals(m)[k] = text
Arity(m) == Len(Formals(m))

-----------------------------------------------------------------------------
(* hsadd: every token of a replacement list is painted. *)
Painted(hide, ts) == [k \in DOMAIN ts |-> [ts[k] EXCEPT !.hide = @ \cup hide]]

(* The name of a macro that this token may still invoke. *)
Invokes(table, t) == IsName(t) /\ t.text \in DOMAIN table /\ t.text \notin t.hide

ObjectCall(table, ts) ==
    ts # <<>> /\ Invokes(table, ts[1]) /\ table[ts[1].text].obj

(* A function-like macro is invoked only where '(' is the very next token. *)
FunctionCall(table, ts) ==
    /\ Len(ts) > 1 /\ Invokes(table, ts[1]) /\ ~table[ts[1].text].obj
    /\ ts[2].text = LPar

(* How often a spelling stands in a call before position i. *)
Seen(ts, text, i) == Len(SelectSeq(SubSeq(ts, 3, i - 1), LAMBDA t : t.text = text))

Outermost(ts, i) == Seen(ts, LPar, i) = Seen(ts, RPar, i)

(* Where the parenthesis opened at position 2 closes: the first ')' outside all
   others, or 0 when the tokens run out. *)
Closing(ts) ==
    LET closes == {i \in 3..Len(ts) : ts[i].text = RPar /\ Outermost(ts, i)}
    IN  IF closes = {} THEN 0 ELSE CHOOSE i \in closes : \A j \in closes : i <= j

(* The commas that separate arguments: in the slot of "..." there are none. *)
Separators(m, ts) ==
    LET all == {i \in 3..(Closing(ts) - 1) : ts[i].text = Comma /\ Outermost(ts, i)}
    IN  {i \in all : m.variadic => Cardinality({j \in all : j < i}) < Len(m.params)}

Arguments(m, ts) ==
    LET cuts == SetToSortSeq({2, Closing(ts)} \cup Separators(m, ts), <)
        read == [k \in 1..(Len(cuts) - 1) |-> SubSeq(ts, cuts[k] + 1, cuts[k + 1] - 1)]
    IN  CASE read = << <<>> >> /\ Arity(m) = 0            -> <<>>
          [] m.variadic /\ Len(read) = Len(m.params)      -> Append(read, <<>>)
          [] OTHER                                        -> read

(* rescan: two names make a name; of the other spellings here no two make one token. *)
Pastes(l, r) == IsName(l) /\ IsName(r)

Pasted(l, r) == [text |-> l.text \o r.text, hide |-> l.hide \cap r.hide]

Stringized(ts) == Token(<<Quote>> \o FlattenSeq([k \in DOMAIN ts |-> ts[k].text]))
=============================================================================
