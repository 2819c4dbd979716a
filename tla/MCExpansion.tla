---------------------------- MODULE MCExpansion ----------------------------
(* Expansion against Prosser's definition, on macros that name themselves, each
   other and their arguments, and on texts that call them in every way. *)
EXTENDS Expansion

Reference == INSTANCE Prosser

T(name) == <<name>>
SeqUpTo(S, n) == UNION {[1..k -> S] : k \in 0..n}

Programs4(macros, texts) == {[table |-> macros, text |-> t] : t \in texts}

(* Object-like and function-like macros that rescan each other. *)
Rescans ==
    [n \in {T("A"), T("B"), T("C"), T("f"), T("nil")} |->
        CASE n = T("A")   -> Object(<<T("B")>>)
          [] n = T("B")   -> Object(<<T("A")>>)
          [] n = T("C")   -> Object(<<T("A"), T("f")>>)
          [] n = T("f")   -> Function(<<T("x")>>, <<T("x"), T("A")>>)
          [] n = T("nil") -> Object(<<>>)]

RescanTexts == SeqUpTo({T("C"), T("f"), T("nil"), LPar, RPar, T("a")}, 5)

(* DR 017: a call that begins in a replacement and ends in the text. *)
Chains ==
    [n \in {T("f"), T("g"), T("id")} |->
        CASE n = T("f")  -> Function(<<T("x")>>, <<T("x"), T("g")>>)
          [] n = T("g")  -> Function(<<T("x")>>, <<T("f"), LPar, T("x"), RPar>>)
          [] n = T("id") -> Function(<<T("x")>>, <<T("x")>>)]

ChainTexts ==
    {s \o t : s \in SeqUpTo({T("f"), T("g"), T("id"), LPar, RPar}, 4),
              t \in {<<>>, <<LPar, T("a"), RPar>>,
                     <<LPar, T("id"), RPar, LPar, T("f"), RPar, LPar, T("a"), RPar>>}}

(* # and ##, and a name that only pasting makes. *)
Pastings ==
    [n \in {T("cat"), T("str"), T("hex"), T("a") \o T("b"), T("b")} |->
        CASE n = T("cat") -> Function(<<T("x"), T("y")>>, <<T("x"), Paste, T("y")>>)
          [] n = T("str") -> Function(<<T("x")>>, <<Hash, T("x"), T("x")>>)
          [] n = T("hex") -> Function(<<T("x")>>, <<T("0"), T("x"), Paste, T("u")>>)
          [] n = T("b")   -> Object(<<T("c")>>)
          [] OTHER        -> Object(<<T("cat"), LPar, T("b"), Comma, T("b"), RPar>>)]

Operands == SeqUpTo({T("a"), T("b"), T("str"), LPar}, 1)
            \cup {<<T("b"), T("a")>>, <<T("str"), LPar, T("b"), RPar>>,
                  <<T("hex"), LPar, T("b"), RPar>>,
                  <<T("cat"), LPar, T("a"), Comma, T("b"), RPar>>}

Cat(x, y) == <<T("cat"), LPar>> \o x \o <<Comma>> \o y \o <<RPar>>

(* An empty operand on the left is set apart when the other one would expand. *)
Inactive == {<<>>, <<T("a")>>, <<T("str")>>}

PasteTexts ==
    {Cat(x, y) \o z : x \in Operands \ {<<>>}, y \in Operands, z \in {<<>>, <<LPar, T("b"), RPar>>}}
    \cup {Cat(<<>>, y) : y \in Inactive}
    \cup {<<n, LPar>> \o x \o <<RPar>> : n \in {T("str"), T("hex"), T("cat")}, x \in Operands}
    \cup {<<T("str"), LPar, T("str"), LPar, T("str"), LPar, T("b"), RPar, RPar, RPar>>}

EmptyOnTheLeft == Programs4(Pastings, {Cat(<<>>, y) : y \in Operands})

(* Variadic macros, and the comma that goes with nothing. *)
Variadics ==
    [n \in {T("log"), T("all"), T("none"), T("b")} |->
        CASE n = T("log")  -> Variadic(<<T("x")>>, <<T("x"), Comma, Paste, VaArgs, T("b")>>)
          [] n = T("all")  -> Variadic(<<>>, <<T("log"), LPar, VaArgs, RPar>>)
          [] n = T("none") -> Function(<<>>, <<T("b"), T("none")>>)
          [] n = T("b")    -> Object(<<T("c")>>)]

VariadicTexts ==
    {<<n, LPar>> \o s \o <<RPar>> \o t :
        n \in {T("log"), T("all"), T("none")}, t \in {<<>>, <<T("b")>>, <<LPar, RPar>>},
        s \in SeqUpTo({T("b"), Comma, T("none"), LPar, RPar}, 3)}

Macros == Programs4(Rescans, RescanTexts) \cup Programs4(Chains, ChainTexts)
            \cup Programs4(Pastings, PasteTexts) \cup Programs4(Variadics, VariadicTexts)

(* A text without errors expands to what Prosser's definition makes of it, hide
   sets included: arguments are expanded on their own and never reach past the
   call, operands of # and ## are not expanded, and a name is left alone exactly
   inside its own replacement. *)
AgreesWithProsser ==
    (Finished /\ errors = {})
        => Top.out = Reference!Expanded(table, [k \in DOMAIN source |-> Token(source[k])])
=============================================================================
