---------------------------- MODULE Declarations -----------------------------
(***************************************************************************)
(* A translation unit written declaration by declaration, read by the      *)
(* parser (parser/decl.go, parser/stmt.go, parser/objc_stmt.go) and        *)
(* checked by the analyzer (analyzer/decl.go, analyzer/stmt.go,            *)
(* analyzer/message.go, analyzer/scope.go).                                *)
(*                                                                         *)
(* The parser reads a name as a type or not by its own table, long before  *)
(* the analyzer gives the name a meaning by another; meaning is the table  *)
(* of C, and a declaration is written as C would have it.  The parser is   *)
(* done with the file before the analyzer begins, and asks nothing of it,  *)
(* so reading and checking each declaration in turn is the same.           *)
(*                                                                         *)
(* A unit grows until a declaration is rejected by anyone.                 *)
(***************************************************************************)
EXTENDS NameTables

CONSTANTS Declared,   \* the shapes of declared names
          Definitions, \* the shapes of functions that are defined
          Parameters, \* the parameter lists of block literals
          Ivar,       \* the name of an instance variable of the class
          Oddities,   \* legal forms the compiler is known to get wrong
          MaxSpent    \* bound on what is written: names, derivations and constructs

VARIABLES parser, analyzer, meaning,
          open,       \* the constructs that are open
          last,       \* the last declaration as built and as meant
          next,       \* the number of the next declaration
          spent

vars == <<parser, analyzer, meaning, open, last, next, spent>>

\* What each reader's table grows by with a construct.
Depth(of) ==
    CASE of \in {"function", "block", "literal"} -> [parser |-> 1, analyzer |-> 1, c |-> 1]
      [] of = "loop"   -> [parser |-> 2, analyzer |-> 2, c |-> 2]
      [] of = "branch" -> [parser |-> 1, analyzer |-> 2, c |-> 2]
      [] of = "catch"  -> [parser |-> 2, analyzer |-> 1, c |-> 1]
      [] of = "method" -> [parser |-> 1, analyzer |-> 1, c |-> 2]

NoLast == [bad |-> FALSE, reported |-> FALSE, illFormed |-> FALSE, clash |-> FALSE]

Init == /\ parser = Parser(<<NoScope>>, 0)
        /\ analyzer = Analyzer(<<NoScope>>, <<>>, NoScope)
        /\ meaning = C(<<NoScope>>, <<>>)
        /\ open = <<>>
        /\ last = NoLast
        /\ next = 1
        /\ spent = 0

Going == last = NoLast
Spend(n) == spent + n <= MaxSpent /\ spent' = spent + n

AtFile  == open = <<>>
InClass == ~AtFile /\ Last(open) = "class"
InBody  == ~AtFile /\ ~InClass

Odd(what, happens) == happens => what \in Oddities

(* ------------------------- the analyzer's symbols ----------------------- *)

SymbolKind(storage, t) ==
    CASE storage = "typedef" -> "typedef" [] Kind(t) = "func" -> "func" [] OTHER -> "object"

Incomplete(storage, t) == SymbolKind(storage, t) = "object" /\ ~Complete(t) /\ storage # "extern"

\* checkGenDecl, of a declarator with a type; external is of the file and no class.
GenSymbol(sp, t, external, id) ==
    [Symbol(SymbolKind(sp.storage, t), t, id) EXCEPT
        !.extern = external \/ sp.storage = "extern",
        !.static = ~external /\ sp.storage = "static"]

\* A declarator as the analyzer has it.
Checked(specs, d, param) ==
    LET env == TypedefsOf(analyzer.scopes)
        sp  == BuildSpecs(env, specs)
        b   == Build(env, sp.type, d, param, sp.bad)
    IN  [spec |-> sp, name |-> b.name, type |-> b.type, bad |-> b.bad]

CheckGenDecl(a, ch, external) ==
    LET declared == Declare(a, ch.name, GenSymbol(ch.spec, ch.type, external, next))
    IN  [declared EXCEPT !.reported = [bad |-> ch.bad \/ (ch.name # "" /\ Incomplete(ch.spec.storage, ch.type)),
                                       clash |-> @]]

\* Parameters of a body, by the types its function gives their names.
DeclareTyped(a, params, first) ==
    LET step(r, k) == LET p == params[k]
                          declared == Declare(r.a, p.name, Symbol("object", p.type, first + k))
                      IN  Entered(declared.a, r.reported \/ declared.reported)
    IN  FoldLeft(step, Entered(a, FALSE), [k \in DOMAIN params |-> k])

\* outermostFunc: the declarator next to the name.
RECURSIVE OwnFunction(_, _)
OwnFunction(d, found) ==
    CASE d.k \in {"name", "absent"} -> found
      [] d.k = "func" -> OwnFunction(d.in, d)
      [] OTHER -> OwnFunction(d.in, found)

TypeOfParam(ft, name) ==
    LET is == {k \in DOMAIN ft.params : ft.params[k].name = name}
    IN  IF is = {} THEN Basic("int") ELSE ft.params[CHOOSE k \in is : \A j \in is : j <= k].type

\* declareFnParams.
FnParams(d, ft) ==
    [k \in DOMAIN OwnFunction(d, d).params |->
        LET name == DeclName(OwnFunction(d, d).params[k].d) IN Param(name, TypeOfParam(ft, name))]

(* ------------------------------- meanings ------------------------------- *)

Env == TypedefsOf(meaning.scopes)
MeantType(const, word, s) == Meant(Env, s, Denoted(Env, const, word))

\* An array whose length is to come may be declared for the file (6.9.2).
Tentative(storage, t) == ~InBody /\ storage = "" /\ t.k = "array"

IllFormed(storage, const, word, s) ==
    \/ ~WellFormed(Env, s, Denoted(Env, const, word), FALSE)
    \/ Incomplete(storage, MeantType(const, word, s)) /\ ~Tentative(storage, MeantType(const, word, s))

MeantEntity(storage, t) ==
    LET kind == SymbolKind(storage, t)
    IN  Entity(kind, t, next,
               kind # "typedef" /\ (~InBody \/ storage = "extern" \/ kind = "func"),
               kind = "object" /\ InBody /\ storage \notin {"extern", "static"})

Local(t, id) == Entity("object", t, id, FALSE, TRUE)
BindParams(c, params, first) ==
    FoldLeft(LAMBDA m, k : IF params[k].name = "" THEN m
                           ELSE Binds(m, params[k].name, Local(ParamMeant(Env, params[k]).type, first + k)),
             c, [k \in DOMAIN params |-> k])

\* Types are named by the names C holds to be types.
Words(words) == words \subseteq Basics \cup DOMAIN Env

Redeclares(x) == x \in DOMAIN Last(meaning.scopes)
Previous(x) == Last(meaning.scopes)[x]
Binding(x, e) == IF Redeclares(x) THEN meaning ELSE Binds(meaning, x, e)
Defined(x, e) == [IF Redeclares(x) THEN Previous(x) ELSE e EXCEPT !.defined = TRUE]

\* What is declared again is the same thing.
Consistent(x, e) ==
    Redeclares(x) /\ Previous(x).kind = e.kind /\ ~Clashes(meaning, x, e) => Previous(x).type = e.type

\* Linkage the analyzer has no mark of: that of a function declared in a
\* block (6.2.2p5), and that of what is declared for the file in a class.
Unmarked(storage, x, e) ==
    /\ Redeclares(x) /\ e.linkage /\ Previous(x).linkage
    /\ (~AtFile /\ storage # "extern") \/ ~Last(analyzer.scopes)[x].extern

\* The parameters of the function that is defined, which is what it is or what it is derived from.
ParamsOf(s) == IF TakesNothing(Env, s.params) THEN <<>> ELSE s.params

\* A local of a method that hides an instance variable.
Hides(x) == ~AtFile /\ Last(open) = "method" /\ x = Ivar

(* ------------------------------ declarations ---------------------------- *)

RECURSIVE Derivations(_)
Derivations(s) == IF s.k = "plain" THEN 0 ELSE 1 + Derivations(s.of)

\* checkGenDecl of what the parser read, and what was meant.
Declares(read, storage, x, e, illFormed) ==
    LET checked == CheckGenDecl(analyzer, Checked(read.specs, read.d, FALSE), AtFile)
    IN  /\ parser' = DeclareDeclarator(parser, read.d, "typedef" \in Range(read.specs))
        /\ analyzer' = checked.a
        /\ meaning' = Binding(x, e)
        /\ last' = [bad |-> read.bad \/ checked.reported.bad, reported |-> checked.reported.clash,
                    illFormed |-> illFormed, clash |-> Clashes(meaning, x, e)]
        /\ next' = next + 1
        /\ UNCHANGED open

\* parens: the name stands in parentheses of its own.
Spelled(storage, const, word, s, x, parens) ==
    If(storage # "", <<storage>>) \o If(const, <<"const">>) \o <<word>>
        \o Spell(s, IF parens THEN <<"(", x, ")">> ELSE <<x>>)

DeclareOne(storage, const, word, s, x, parens, t, e) ==
    /\ const => Kind(Denoted(Env, FALSE, word)) # "func"
    /\ Consistent(x, e)
    /\ Odd("parens", parens /\ IsType(parser, x))
    /\ Odd("unmarked", Unmarked(storage, x, e))
    /\ Odd("hides", Hides(x))
    /\ Odd("tentative", Incomplete(storage, t) /\ Tentative(storage, t))
    /\ Declares(Declaration(Spelled(storage, const, word, s, x, parens), Types(parser)),
                storage, x, e, IllFormed(storage, const, word, s))

DeclareAs(storage, const, word, s, x, parens, t) ==
    DeclareOne(storage, const, word, s, x, parens, t, MeantEntity(storage, t))

\* static is for a block here: what it does to linkage is not modelled.
DeclareOrdinary == Going /\ spent < MaxSpent /\
    \E s \in Declared, const, parens \in BOOLEAN :
        /\ Spend(1 + Derivations(s) + Cardinality({n \in 1..2 : <<const, parens>>[n]}))
        /\ Words(WordsIn(s))
        /\ \E storage \in {"", "typedef", "extern", "static"}, word \in Basics \cup DOMAIN Env, x \in Names :
              /\ storage = "static" => InBody /\ s.k # "func"
              /\ DeclareAs(storage, const, word, s, x, parens, MeantType(const, word, s))

\* An enumerator: the rest of its enum is not modelled.
Enumerate == Going /\ Spend(1) /\
    \E x \in Names :
        LET e == Entity("enum", Basic("int"), next, FALSE, FALSE)
            declared == Declare(analyzer, x, Symbol("enum", Basic("int"), next))
        IN  /\ Odd("hides", Hides(x))
            /\ parser' = DeclareName(parser, x, "ordinary")
            /\ analyzer' = declared.a
            /\ meaning' = Binding(x, e)
            /\ last' = [NoLast EXCEPT !.reported = declared.reported, !.clash = Clashes(meaning, x, e)]
            /\ next' = next + 1
            /\ UNCHANGED open

(* ------------------------------ constructs ------------------------------ *)

Opens(what, count) == open' = Append(open, what) /\ next' = next + count

\* parseFuncDef and checkFuncDecl, of what was read and of a function not yet defined.
Defines(read, checked, x, params, e, illFormed) ==
    LET declared == Declare(analyzer, checked.name, [Symbol("func", checked.type, next) EXCEPT !.extern = TRUE])
        body     == DeclareTyped(Push(declared.a), FnParams(read.d, Unqualify(checked.type)), next)
    IN  /\ parser' = DeclareParams(PushScope(DeclareDeclarator(parser, read.d, FALSE)), read.d)
        /\ analyzer' = body.a
        /\ meaning' = BindParams(Enters(Binds(Binding(x, e), x, Defined(x, e))), params, next)
        /\ last' = [bad |-> read.bad \/ checked.bad, reported |-> declared.reported \/ body.reported,
                    illFormed |-> illFormed, clash |-> Clashes(meaning, x, e)]

DefineOne(s, x, e) ==
    /\ Redeclares(x) => ~Previous(x).defined
    /\ Consistent(x, e)
    /\ Odd("unmarked", Unmarked("extern", x, e))
    /\ LET read == Declaration(Spelled("", FALSE, "int", s, x, FALSE), Types(parser))
       IN  Defines(read, Checked(read.specs, read.d, FALSE), x, ParamsOf(s), e,
                   IllFormed("", FALSE, "int", s))
    /\ Opens("function", 1 + Len(ParamsOf(s)))

Define == Going /\ Spend(1) /\
    \E s \in Definitions, x \in Names :
        /\ ~InBody
        /\ Words(WordsIn(s))
        /\ DefineOne(s, x, MeantEntity("", MeantType(FALSE, "int", s)))

\* { ... }, and a statement expression.
OpenBlock ==
    /\ Going /\ InBody /\ Spend(1) /\ Opens("block", 0)
    /\ parser' = PushScope(parser) /\ analyzer' = Push(analyzer) /\ meaning' = Enters(meaning)
    /\ UNCHANGED last

\* for (int x; ...) { and for (x in ...) {: the name's scope is around the body's.
Loop == Going /\ Spend(1) /\
    \E x \in Names :
        /\ InBody /\ Opens("loop", 1)
        /\ parser' = PushScope(DeclareName(PushScope(parser), x, "ordinary"))
        /\ analyzer' = Push(SetName(Push(analyzer), x, Symbol("object", Basic("int"), next)))
        /\ meaning' = Enters(Binds(Enters(meaning), x, Local(Basic("int"), next)))
        /\ UNCHANGED last

\* if, while, switch: each is a block of its own around its body's (6.8.4p3),
\* and an enumerator of its condition is in it.  The parser has no such scope.
Branch == Going /\ Spend(1) /\
    \E x \in Names \cup {""} :
        LET Enum(a) == IF x = "" THEN a ELSE SetName(a, x, Symbol("enum", Basic("int"), next))
            Bind(c) == IF x = "" THEN c ELSE Binds(c, x, Entity("enum", Basic("int"), next, FALSE, FALSE))
        IN  /\ InBody /\ Opens("branch", 1)
            /\ Odd("condition", IsType(parser, x))
            /\ parser' = PushScope(DeclareName(parser, x, "ordinary"))
            /\ analyzer' = Push(Enum(Push(analyzer)))
            /\ meaning' = Enters(Bind(Enters(meaning)))
            /\ UNCHANGED last

\* @catch (T *x) {: the body is the name's own scope, but for the parser.
Catch == Going /\ Spend(1) /\
    \E x \in Names :
        /\ InBody /\ Opens("catch", 1)
        /\ parser' = PushScope(DeclareName(PushScope(parser), x, "ordinary"))
        /\ analyzer' = SetName(Push(analyzer), x, Symbol("object", Basic("int"), next))
        /\ meaning' = Binds(Enters(meaning), x, Local(Basic("int"), next))
        /\ UNCHANGED last

\* blockType: each parameter is in scope as the next is built.
LiteralParams(params) ==
    LET step(r, k) ==
            LET b == BuildParam(TypedefsOf(r.a.scopes), params[k],
                                BuildSpecs(TypedefsOf(r.a.scopes), params[k].specs))
                declared == Declare(r.a, b.name, Symbol("object", AdjustParam(b.type), next + k))
            IN  [a |-> declared.a, reported |-> r.reported \/ declared.reported, bad |-> r.bad \/ b.bad]
    IN  FoldLeft(step, [a |-> OpenLiteral(analyzer), reported |-> FALSE, bad |-> FALSE],
                 [k \in DOMAIN params |-> k])

LiteralOf(read, built, params, illFormed) ==
    /\ parser' = DeclareEach(PushScope(parser), read.d)
    /\ analyzer' = built.a
    /\ meaning' = BindParams(EntersLiteral(meaning), params, next)
    /\ last' = [NoLast EXCEPT !.bad = read.bad \/ built.bad, !.reported = built.reported,
                             !.illFormed = illFormed]

Literal == Going /\ Spend(1) /\
    \E params \in Parameters :
        /\ Odd("void", ~ParamsWellFormed(Env, params))
        /\ InBody /\ Words({p.word : p \in Range(params)})
        /\ LET read == Params(Context(SpellParams(params), Types(parser)), Read(<<>>, 1), 1)
           IN  LiteralOf(read, LiteralParams(read.d), IF TakesNothing(Env, params) THEN <<>> ELSE params,
                         ~ParamsWellFormed(Env, params))
        /\ Opens("literal", 1 + Len(params))

\* @implementation: a scope for the parser only.
OpenClass ==
    /\ Going /\ AtFile /\ Spend(1) /\ Opens("class", 0)
    /\ parser' = PushClassScope(parser)
    /\ analyzer' = BeginClass(analyzer)
    /\ UNCHANGED <<meaning, last>>

\* implement builds the types of every method first, and checkMethodBody builds them again.
MethodType(scopes, word) == BuildSpecs(TypedefsOf(scopes), <<word>>)

\* checkMethodBody, with one parameter.  C's parameters are inside of the instance variables.
InMethod(x, t) ==
    LET instance == SetName(SetName(Push(analyzer), "self", Symbol("object", Basic("int"), next)),
                            Ivar, Symbol("ivar", Basic("int"), next + 1))
    IN  Declare(instance, x, Symbol("object", t, next + 2))
MeantMethod(x, t) ==
    LET instance == Binds(Binds(Enters(meaning), "self", Local(Basic("int"), next)),
                          Ivar, Entity("ivar", Basic("int"), next + 1, FALSE, FALSE))
    IN  Binds(Enters(instance), x, Local(t, next + 2))

Method == Going /\ Spend(1) /\
    \E x \in Names, word \in {"int"} \cup DOMAIN Env :
        LET declared == InMethod(x, MethodType(analyzer.scopes, word).type)
        IN  /\ InClass /\ Opens("method", 3)
            /\ Odd("early", word # "int" /\ word \notin DOMAIN analyzer.begun)
            /\ Odd("adjusted", Kind(Denoted(Env, FALSE, word)) \in {"array", "func", "void"})
            /\ Odd("ivar", IsType(parser, Ivar))
            /\ Odd("hides", x = Ivar)
            /\ parser' = DeclareName(PushScope(parser), x, "ordinary")
            /\ analyzer' = declared.a
            /\ meaning' = MeantMethod(x, Adjusted(Denoted(Env, FALSE, word)))
            /\ last' = [NoLast EXCEPT !.bad = MethodType(<<analyzer.begun>>, word).bad,
                                      !.reported = declared.reported,
                                      !.illFormed = Kind(Denoted(Env, FALSE, word)) = "void"]

Close ==
    /\ Going /\ ~AtFile
    /\ open' = Front(open)
    /\ \/ /\ Last(open) = "class"
          /\ parser' = PopClassScope(parser)
          /\ analyzer' = [analyzer EXCEPT !.begun = NoScope]
          /\ UNCHANGED meaning
       \/ /\ Last(open) = "literal"
          /\ parser' = PopScopes(parser, 1)
          /\ analyzer' = CloseLiteral(analyzer)
          /\ meaning' = LeavesLiteral(meaning)
       \/ /\ Last(open) \notin {"class", "literal"}
          /\ parser' = PopScopes(parser, Depth(Last(open)).parser)
          /\ analyzer' = Pop(analyzer, Depth(Last(open)).analyzer)
          /\ meaning' = Leaves(meaning, Depth(Last(open)).c)
    /\ UNCHANGED <<last, next, spent>>

\* A name in an expression, where it is more than read: inside of a literal.
Use == Going /\
    \E x \in Names :
        /\ meaning.literals # <<>>
        /\ Known(meaning.scopes, x) /\ Found(meaning.scopes, x).kind # "typedef"
        /\ analyzer' = Lookup(analyzer, x)
        /\ meaning' = Uses(meaning, x)
        /\ UNCHANGED <<parser, open, last, next, spent>>

Next == \/ DeclareOrdinary \/ Enumerate \/ Define
        \/ OpenBlock \/ Loop \/ Branch \/ Catch \/ Literal
        \/ OpenClass \/ Method \/ Close \/ Use

UnitSpec == Init /\ [][Next]_vars

(* ------------------------------ properties ------------------------------ *)

\* A name is read as a type exactly where C holds it to be one: parser.go's
\* table, filled as the tokens go by, and its scopes, some of which C does
\* not have.
TypeNamesAgree ==
    Going => \A n \in Names :
        IsType(parser, n) <=> Known(meaning.scopes, n) /\ Found(meaning.scopes, n).kind = "typedef"

\* A name means what C says it does: the same declaration, of the same type,
\* though it was read by one table, built by another and found by a third.
MeaningsAgree ==
    Going => \A n \in Names :
        /\ Known(analyzer.scopes, n) <=> Known(meaning.scopes, n)
        /\ Known(analyzer.scopes, n) =>
               /\ Found(analyzer.scopes, n).id = Found(meaning.scopes, n).id
               /\ Found(analyzer.scopes, n).kind = Found(meaning.scopes, n).kind
               /\ Normal(Found(analyzer.scopes, n).type) = Found(meaning.scopes, n).type

\* A declaration is reported when C has no such type or no such
\* redeclaration, and only then (scope.go:178, build.go:336).
DiagnosedAsC == (last.bad \/ last.reported) = (last.illFormed \/ last.clash)

\* A block literal captures what is free in it (scope.go:113): the variables
\* of every enclosing function or literal that are used inside of it.
CapturesFree ==
    Going => \A k \in DOMAIN meaning.literals :
        {c.id : c \in analyzer.literals[k].captured} = meaning.literals[k].free
=============================================================================
