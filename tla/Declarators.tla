----------------------------- MODULE Declarators -----------------------------
(***************************************************************************)
(* How the parser reads the specifiers and the declarator of a declaration *)
(* (parser/decl.go).                                                       *)
(*                                                                         *)
(* A token is its spelling.  A reader takes a context, the tokens and the  *)
(* names that are types where they stand, and the index it begins at; it   *)
(* gives the tree, the index it ends at, and whether it reported.          *)
(*                                                                         *)
(* A declarator is a tree of what surrounds the name, the outermost first. *)
(***************************************************************************)
EXTENDS Naturals, FiniteSets, Sequences, SequencesExt

CONSTANT Names \* the identifiers

Quals   == {"const"}
Basics  == {"int", "void"}
Storage == {"typedef", "extern", "static"}

Context(toks, types) == [toks |-> toks, types |-> types]
At(c, i) == IF i > Len(c.toks) THEN ";" ELSE c.toks[i]
IsIdent(t) == t \in Names
IsTypeName(c, i) == At(c, i) \in c.types

Read(d, i) == [d |-> d, i |-> i, bad |-> FALSE]

\* Consumes the token if it is there, and reports it if not.
Expect(c, t, r) == IF At(c, r.i) = t THEN [r EXCEPT !.i = @ + 1] ELSE [r EXCEPT !.bad = TRUE]

\* The first index from i on whose token is not in a set.
Past(c, set, i) ==
    CHOOSE j \in i .. Len(c.toks) + 1 : At(c, j) \notin set /\ \A k \in i .. j - 1 : At(c, k) \in set

(* ------------------------------ specifiers ------------------------------ *)

\* A second identifier, or one after a type, is the declarator.  A name that is no
\* type and stands before another name, a star or a caret where a type should be is
\* declared a class and read as one, with an error: no spelling here has that.
Specifies(c, i, j) ==
    \/ At(c, j) \in Quals \cup Basics \cup Storage
    \/ /\ IsTypeName(c, j)
       /\ \A k \in i .. j - 1 : At(c, k) \notin Basics \cup Names

SpecEnd(c, i) ==
    CHOOSE j \in i .. Len(c.toks) + 1 : ~Specifies(c, i, j) /\ \A k \in i .. j - 1 : Specifies(c, i, k)

Specs(c, i) == SubSeq(c.toks, i, SpecEnd(c, i) - 1)

(* ------------------------------ declarators ----------------------------- *)

Absent == [k |-> "absent"]
Name(id) == [k |-> "name", id |-> id]
Paren(d) == [k |-> "paren", in |-> d]

\* * and ^ take the same place; what follows is inside.
Prefixed(star, const, r) ==
    [r EXCEPT !.d = [k |-> IF star = "*" THEN "pointer" ELSE "block", const |-> const, in |-> r.d]]

\* m is "normal", "abstract" or "either": whether a name must, may not or may be there.
StartsTail(c, m, i) == At(c, i) \in {"*", "^", "(", "["} \/ (IsIdent(At(c, i)) /\ m # "abstract")

\* Mutant of ParenIsGrouping: any name is a declarator.
AnyNameGroups(c, m, i) ==
    At(c, i + 1) \in {"*", "^", "("} \/ (m # "abstract" /\ IsIdent(At(c, i + 1)))

\* parenIsGrouping: does the parenthesis open a declarator, or parameters?
ParenIsGrouping(c, m, i) ==
    \/ At(c, i + 1) \in {"*", "^", "("}
    \/ m # "abstract" /\ IsIdent(At(c, i + 1)) /\ ~IsTypeName(c, i + 1)

\* static and the qualifiers of a bracket end at j.
ArraySuffix(c, r, j) ==
    LET form == IF At(c, j) = "]" THEN "incomplete" ELSE "fixed"
        arr  == [k |-> "array", form |-> form, in |-> r.d,
                 static |-> \E n \in r.i .. j - 1 : At(c, n) = "static",
                 const |-> \E n \in r.i .. j - 1 : At(c, n) = "const"]
    IN  Expect(c, "]", [r EXCEPT !.d = arr, !.i = IF form = "fixed" THEN j + 1 ELSE j])

Function(r, params, idents) == [r EXCEPT !.d = [k |-> "func", in |-> r.d, params |-> params, idents |-> idents]]

\* Names with commas between them, a K&R list, from i on.
IdentsEnd(c, i) ==
    LET Fits(j) == IF (j - i) % 2 = 0 THEN IsIdent(At(c, j)) ELSE At(c, j) = ","
    IN  CHOOSE j \in i .. Len(c.toks) + 1 : ~Fits(j) /\ \A k \in i .. j - 1 : Fits(k)
IdentList(c, r, i, end) ==
    Expect(c, ")", [Function(r, <<>>, SelectSeq(SubSeq(c.toks, i, end - 1), IsIdent)) EXCEPT !.i = end])

RECURSIVE Declarator(_, _, _), Direct(_, _, _), Trailing(_, _, _), Params(_, _, _)

Declarator(c, m, i) ==
    IF At(c, i) \notin {"*", "^"} THEN Direct(c, m, i)
    ELSE LET j == Past(c, Quals, i + 1)
         IN  Prefixed(At(c, i), j > i + 1, IF StartsTail(c, m, j) THEN Declarator(c, m, j) ELSE Read(Absent, j))

Grouped(c, r) == Expect(c, ")", [r EXCEPT !.d = Paren(r.d)])

Direct(c, m, i) ==
    Trailing(c, m,
             CASE IsIdent(At(c, i)) /\ m # "abstract" -> Read(Name(At(c, i)), i + 1)
               [] At(c, i) = "(" /\ ParenIsGrouping(c, m, i) -> Grouped(c, Declarator(c, m, i + 1))
               [] OTHER -> Read(Absent, i))

\* parseParamList: acc holds the parameters in d.
Params(c, acc, i) ==
    LET r == Declarator(c, "either", SpecEnd(c, i))
        param == [specs |-> Specs(c, i), d |-> r.d]
        after == [d |-> Append(acc.d, param), i |-> r.i, bad |-> acc.bad \/ r.bad]
    IN  IF At(c, i) \in {")", ";"} THEN [acc EXCEPT !.i = i]
        ELSE IF At(c, r.i) = "," /\ r.i > i THEN Params(c, after, r.i + 1)
        ELSE after

ParamList(c, r, ps) == Expect(c, ")", [Function(r, ps.d, <<>>) EXCEPT !.i = ps.i, !.bad = @ \/ ps.bad])

FuncSuffix(c, r) ==
    LET i == r.i + 1
    IN  CASE At(c, i) = ")" -> Expect(c, ")", [Function(r, <<>>, <<>>) EXCEPT !.i = i])
          [] IsIdent(At(c, i)) /\ ~IsTypeName(c, i) -> IdentList(c, r, i, IdentsEnd(c, i))
          [] OTHER -> ParamList(c, r, Params(c, Read(<<>>, i), i))

\* The suffixes left to right; a declarator that must be there is reported absent.
Trailing(c, m, r) ==
    CASE At(c, r.i) = "[" -> Trailing(c, m, ArraySuffix(c, r, Past(c, {"static"} \cup Quals, r.i + 1)))
      [] At(c, r.i) = "(" -> Trailing(c, m, FuncSuffix(c, r))
      [] OTHER -> [r EXCEPT !.bad = @ \/ (r.d = Absent /\ m = "normal")]

\* DeclName: the identifier inside, if there is one.
RECURSIVE DeclName(_)
DeclName(d) ==
    CASE d.k = "absent" -> ""
      [] d.k = "name" -> d.id
      [] OTHER -> DeclName(d.in)

\* parseDeclaration up to the end of its first declarator: specifiers alone declare nothing.
Declaration(toks, types) ==
    LET c == Context(toks, types)
        j == SpecEnd(c, 1)
        r == Declarator(c, "normal", j)
    IN  IF j > Len(toks) THEN [specs |-> toks, d |-> Absent, bad |-> FALSE]
        ELSE [specs |-> Specs(c, 1), d |-> r.d, bad |-> r.bad \/ r.i <= Len(toks)]
=============================================================================
