----------------------------- MODULE MCIncludes -----------------------------
(* The corpora Includes is run on: small files, enumerated.  Every one is a
   translation unit a program could hand the preprocessor. *)
EXTENDS Includes

Text      == [op |-> "text"]
Null      == [op |-> "null"]
Once      == [op |-> "once"]
Misc      == [op |-> "other"]
Elsewise  == [op |-> "else"]
Fi        == [op |-> "endif"]
Def(m)    == [op |-> "define", m |-> m]
Und(m)    == [op |-> "undef", m |-> m]
Ifdef(m)  == [op |-> "ifdef", m |-> m]
Ifndef(m) == [op |-> "ifndef", m |-> m]
Has(m)    == [m |-> m, neg |-> FALSE]
Hasnt(m)  == [m |-> m, neg |-> TRUE]
If(lits)  == [op |-> "if", lits |-> lits]
Or(lits)  == [op |-> "elif", lits |-> lits]
Inc(f)    == [op |-> "include", file |-> f]
Imp(f)    == [op |-> "import", file |-> f]

SeqUpTo(S, n) == UNION {[1..k -> S] : k \in 0..n}

Unit(main, h) == [f \in Files |-> CASE f = Main -> main [] f = "h" -> h [] OTHER -> <<>>]

(* Every header of up to five lines of directives and text, read once. *)
StructurePrograms ==
    {Unit(<<Def("G"), Inc("h")>>, h) :
        h \in SeqUpTo({Text, Und("G"), Ifdef("G"), Or(<<Hasnt("G")>>), Elsewise, Fi}, 5)}

(* Headers in the shape of the include-guard idiom, read twice with the macros
   changed in between: an opening line, a body that stays inside it and has no
   #elif of its own, and an #endif; or something before or after it. *)
Body == {<<Def("G"), Text>>, <<Text>>, <<Ifdef("H"), Text, Fi>>, <<Def("H"), Text>>,
         <<Ifdef("H"), Def("G"), Fi>>, <<Elsewise, Text>>, <<Def("G"), Elsewise, Und("G")>>,
         <<Ifdef("H"), Elsewise, Def("G"), Fi, Text>>, <<Inc("h"), Def("G")>>,
         <<Ifdef("H"), Or(<<Hasnt("H")>>), Def("G"), Text, Fi>>}

Around == {<<>>, <<Null>>, <<Text>>, <<Und("G")>>, <<Misc>>}

Between == {<<>>, <<Und("G")>>, <<Und("H")>>, <<Def("H")>>, <<Def("G")>>, <<Def("G"), Def("H")>>}

Before == {<<>>, <<Def("H")>>, <<Def("G")>>}

Twice(hs) == {Unit(pre \o <<Inc("h")>> \o mid \o <<Inc("h")>>, h) :
                 pre \in Before, mid \in Between, h \in hs}

GuardPrograms ==
    Twice({before \o <<open>> \o body \o <<Fi>> :
              before \in Around, open \in {Ifndef("G"), If(<<Hasnt("G")>>)}, body \in Body}
          \cup {<<open>> \o body \o <<Fi>> \o after :
                   open \in {Ifndef("G"), If(<<Hasnt("G")>>)}, body \in Body, after \in Around})

(* The shapes beyond it, on which GuardSkipInvisible is false. *)
ElifGuards == Twice({<<Ifndef("G"), Def("G"), Text, Or(<<Has("H")>>), Text, Fi>>})

TwoGuards == Twice({<<Ifndef("G"), Def("G"), Fi, Ifndef("H"), Def("H"), Fi>>})

OrGuards == Twice({<<If(<<Hasnt("G"), Has("H")>>), Def("G"), Text, Fi>>})

(* Two headers that include, import and mark each other and themselves. *)
OnceLines == {Once, Inc("h"), Imp("h"), Inc("k"), Imp("k")}

OncePrograms ==
    {[f \in Files |-> CASE f = Main -> main [] f = "h" -> h [] OTHER -> k] :
        main \in [1..2 -> {Inc("h"), Imp("h"), Inc("k"), Imp("k")}],
        h \in SeqUpTo(OnceLines, 2), k \in SeqUpTo(OnceLines, 2)}

IncludePrograms == GuardPrograms \cup OncePrograms
Corpora == IncludePrograms \cup StructurePrograms

(* Every file that is run keeps to the idiom that the theorem about guards asks for. *)
ASSUME CorporaAssumption == \A unit \in Corpora : \A f \in Files : GuardIdiom(unit[f])
=============================================================================
