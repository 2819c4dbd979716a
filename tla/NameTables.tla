----------------------------- MODULE NameTables ------------------------------
(***************************************************************************)
(* The two tables of names the compiler keeps, and C's.                    *)
(*                                                                         *)
(* The parser's (parser/parser.go, parser/decl.go) says which names are    *)
(* types, for the grammar cannot be read without it.  The analyzer's       *)
(* (analyzer/scope.go) says what each name is, and what a block literal    *)
(* captures.  C's holds the entity a declaration is of.  An entity is the  *)
(* number of the declaration that made it.                                 *)
(*                                                                         *)
(* A scope is a function from the names declared in it, the innermost      *)
(* scope is the last.                                                      *)
(***************************************************************************)
EXTENDS DeclSpelling, TLC

NoScope == [n \in {} |-> 0]
Within(scopes, n) == {k \in DOMAIN scopes : n \in DOMAIN scopes[k]}
Innermost(scopes, n) == CHOOSE k \in Within(scopes, n) : \A j \in Within(scopes, n) : j <= k
Known(scopes, n) == Within(scopes, n) # {}
Found(scopes, n) == scopes[Innermost(scopes, n)][n]
Put(scopes, k, n, v) == [scopes EXCEPT ![k] = (n :> v) @@ @]
Nested(scopes, inner) == Append(scopes, inner)
Outer(scopes, count) == SubSeq(scopes, 1, Len(scopes) - count)

(* ------------------------------ the parser ------------------------------ *)

\* class is the depth of an open class's scope, 0 outside classes.
Parser(scopes, class) == [scopes |-> scopes, class |-> class]

PushScope(p) == [p EXCEPT !.scopes = Nested(@, NoScope)]
PopScopes(p, count) == [p EXCEPT !.scopes = Outer(@, count)]
PushClassScope(p) == Parser(Nested(p.scopes, NoScope), Len(p.scopes) + 1)
PopClassScope(p) == Parser(Outer(p.scopes, 1), 0)
InClassScope(p) == p.class = Len(p.scopes)

DeclareAt(p, k, name, kind) == IF name = "" THEN p ELSE [p EXCEPT !.scopes = Put(@, k, name, kind)]
DeclareName(p, name, kind) == DeclareAt(p, Len(p.scopes), name, kind)

IsType(p, name) == Known(p.scopes, name) /\ Found(p.scopes, name) = "type"
Types(p) == {n \in Names : IsType(p, n)}

\* Mutant of DeclareDeclarator: what a class declares leaves with it.
DeclareInner(p, d, isTypedef) ==
    DeclareName(p, DeclName(d), IF isTypedef THEN "type" ELSE "ordinary")

\* A declaration in a class's body is of the file.
DeclareDeclarator(p, d, isTypedef) ==
    DeclareAt(p, IF InClassScope(p) THEN 1 ELSE Len(p.scopes), DeclName(d),
              IF isTypedef THEN "type" ELSE "ordinary")

DeclareParam(p, param) == DeclareName(p, DeclName(param.d), "ordinary")
DeclareEach(p, params) == FoldLeft(DeclareParam, p, params)

RECURSIVE DeclareParams(_, _)
DeclareParams(p, d) ==
    CASE d.k = "func" -> FoldLeft(LAMBDA q, id : DeclareName(q, id, "ordinary"), DeclareEach(p, d.params), d.idents)
      [] d.k \in {"pointer", "block", "paren"} -> DeclareParams(p, d.in)
      [] OTHER -> p

(* ----------------------------- the analyzer ----------------------------- *)

Symbol(kind, t, id) == [kind |-> kind, type |-> t, id |-> id, extern |-> FALSE, static |-> FALSE]

\* literals: the open block literals, the depth of their scope and what they captured.
\* begun: the file's scope as the class that is open began.
Analyzer(scopes, literals, begun) == [scopes |-> scopes, literals |-> literals, begun |-> begun]

Push(a) == [a EXCEPT !.scopes = Nested(@, NoScope)]
Pop(a, count) == [a EXCEPT !.scopes = Outer(@, count)]
OpenLiteral(a) == [a EXCEPT !.scopes = Nested(@, NoScope),
                            !.literals = Append(@, [base |-> Len(a.scopes) + 1, captured |-> {}])]
CloseLiteral(a) == [a EXCEPT !.scopes = Outer(@, 1), !.literals = Outer(@, 1)]
BeginClass(a) == [a EXCEPT !.begun = a.scopes[1]]

Entered(a, reported) == [a |-> a, reported |-> reported]

\* declareName: whatever was there.
SetName(a, name, sym) == [a EXCEPT !.scopes = Put(@, Len(@), name, sym)]

\* Mutant of Permitted: anything of one kind may be declared again.
PermitsKind(prev, sym) == prev.kind = sym.kind

\* declare: a redeclaration is reported, or the first is kept.
Permitted(prev, sym) ==
    /\ prev.kind = sym.kind
    /\ prev.kind = "typedef" \/ (prev.kind # "enum" /\ prev.extern /\ sym.extern)

Declare(a, name, sym) ==
    IF name = "" THEN Entered(a, FALSE)
    ELSE IF name \in DOMAIN Last(a.scopes) THEN Entered(a, ~Permitted(Last(a.scopes)[name], sym))
    ELSE Entered(SetName(a, name, sym), FALSE)

\* Mutant of Captures: only the literal the use is in captures.
CapturesInnermost(a, depth, name, id) ==
    [a EXCEPT !.literals = [k \in DOMAIN @ |->
        IF k < Len(@) \/ depth >= @[k].base THEN @[k]
        ELSE [@[k] EXCEPT !.captured = @ \cup {[name |-> name, id |-> id]}]]]

\* Every literal the name was found outside of captures it, once for a name.
Captures(a, depth, name, id) ==
    [a EXCEPT !.literals = [k \in DOMAIN @ |->
        IF depth >= @[k].base \/ \E c \in @[k].captured : c.name = name THEN @[k]
        ELSE [@[k] EXCEPT !.captured = @ \cup {[name |-> name, id |-> id]}]]]

\* An instance variable is reached through self, and nothing else of the file is captured.
NoteCapture(a, depth, name, sym) ==
    CASE depth = 1 -> a
      [] depth > 1 /\ sym.kind = "ivar" ->
            Captures(a, Innermost(a.scopes, "self"), "self", Found(a.scopes, "self").id)
      [] depth > 1 /\ sym.kind = "object" /\ ~sym.extern /\ ~sym.static -> Captures(a, depth, name, sym.id)
      [] OTHER -> a

Lookup(a, name) ==
    IF Known(a.scopes, name)
    THEN NoteCapture(a, Innermost(a.scopes, name), name, Found(a.scopes, name))
    ELSE a

\* What the typedef names in scope denote.
TypedefsOf(scopes) ==
    [n \in {m \in Names : Known(scopes, m) /\ Found(scopes, m).kind = "typedef"} |-> Found(scopes, n).type]

(* --------------------------------- C ------------------------------------ *)

\* linkage: it has some.  auto: storage that ends with the block.
Entity(kind, t, id, linkage, auto) ==
    [kind |-> kind, type |-> t, id |-> id, linkage |-> linkage, auto |-> auto, defined |-> FALSE]

C(scopes, literals) == [scopes |-> scopes, literals |-> literals]
Enters(c) == [c EXCEPT !.scopes = Nested(@, NoScope)]
Leaves(c, count) == [c EXCEPT !.scopes = Outer(@, count)]
Binds(c, name, e) == [c EXCEPT !.scopes = Put(@, Len(@), name, e)]

\* A literal is where its scope begins, and what is free in it.
EntersLiteral(c) == C(Nested(c.scopes, NoScope), Append(c.literals, [at |-> Len(c.scopes) + 1, free |-> {}]))
LeavesLiteral(c) == C(Outer(c.scopes, 1), Outer(c.literals, 1))

\* 6.7p3, 6.2.2: the same thing again, of linkage or a typedef.
Clashes(c, name, e) ==
    /\ name \in DOMAIN Last(c.scopes)
    /\ LET prev == Last(c.scopes)[name]
       IN  ~ /\ prev.kind = e.kind
             /\ prev.kind = "typedef" \/ (prev.linkage /\ e.linkage)

\* What a use of the name is of: an instance variable is of self.
Reaches(c, name) ==
    LET e == Found(c.scopes, name) IN IF e.kind = "ivar" THEN Found(c.scopes, "self") ELSE e
ReachesAt(c, name) ==
    Innermost(c.scopes, IF Found(c.scopes, name).kind = "ivar" THEN "self" ELSE name)

Uses(c, name) ==
    LET e == Reaches(c, name)
    IN  [c EXCEPT !.literals = [k \in DOMAIN @ |->
            IF e.auto /\ ReachesAt(c, name) < @[k].at THEN [@[k] EXCEPT !.free = @ \cup {e.id}] ELSE @[k]]]
=============================================================================
