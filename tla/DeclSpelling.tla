---------------------------- MODULE DeclSpelling -----------------------------
(***************************************************************************)
(* Declarations as a programmer means them, apart from any parser: a shape *)
(* says what is derived from the type of the specifiers, how C spells it   *)
(* around a name, which type it is, and whether C has such a type.         *)
(*                                                                         *)
(* A shape is the type of the name read aloud: "pointer of" "function of". *)
(* What a function takes is a sequence of specifier words, shapes and      *)
(* names, the name "" of a parameter that has none.                        *)
(***************************************************************************)
EXTENDS DeclTypes

Plain == [k |-> "plain"]
PointerTo(const, s) == [k |-> "pointer", const |-> const, of |-> s]
BlockOn(s) == [k |-> "block", const |-> FALSE, of |-> s]
ArrayBy(form, static, const, s) == [k |-> "array", form |-> form, static |-> static, const |-> const, of |-> s]
FunctionOf(params, s) == [k |-> "func", params |-> params, of |-> s]
Takes(const, word, s, name) == [const |-> const, word |-> word, shape |-> s, name |-> name]
Nothing == Takes(FALSE, "void", Plain, "")

(* ------------------------------- spelling ------------------------------- *)

If(cond, toks) == IF cond THEN toks ELSE <<>>

\* The suffixes bind tighter than what comes before the name.
Enclosed(s, toks) == IF s.k \in {"array", "func"} THEN <<"(">> \o toks \o <<")">> ELSE toks

RECURSIVE Spell(_, _)

SpellParam(p) == If(p.const, <<"const">>) \o <<p.word>> \o Spell(p.shape, If(p.name # "", <<p.name>>))
SpellParams(ps) ==
    FlattenSeq([k \in DOMAIN ps |-> SpellParam(ps[k]) \o If(k < Len(ps), <<",">>)])

Bracket(s) ==
    <<"[">> \o If(s.static, <<"static">>) \o If(s.const, <<"const">>) \o If(s.form = "fixed", <<"3">>) \o <<"]">>

Spell(s, name) ==
    CASE s.k = "plain"   -> name
      [] s.k \in {"pointer", "block"} ->
            Spell(s.of, Enclosed(s.of, <<IF s.k = "block" THEN "^" ELSE "*">> \o If(s.const, <<"const">>) \o name))
      [] s.k = "array"   -> Spell(s.of, name \o Bracket(s))
      [] s.k = "func"    -> Spell(s.of, name \o <<"(">> \o SpellParams(s.params) \o <<")">>)

(* -------------------------------- meaning ------------------------------- *)

\* 6.7.3p9: what qualifies an array qualifies its elements.
RECURSIVE Const(_)
Const(t) == IF t.k = "array" THEN [t EXCEPT !.elem = Const(@)] ELSE Qualify(t, TRUE)

Denoted(env, const, word) ==
    LET t == IF word \in DOMAIN env THEN env[word] ELSE Basic(word) IN IF const THEN Const(t) ELSE t

\* 6.7.6.3p7, 8
Adjusted(t) ==
    CASE t.k = "array" -> Pointer(t.elem) [] t.k = "func" -> Pointer(t) [] OTHER -> t

RECURSIVE Meant(_, _, _)

\* 6.7.6.3p10: by whatever name.
TakesNothing(env, ps) ==
    Len(ps) = 1 /\ ps[1].name = "" /\ Meant(env, ps[1].shape, Denoted(env, ps[1].const, ps[1].word)) = Basic("void")

ParamMeant(env, p) ==
    Param(p.name, Qualify(Adjusted(Meant(env, p.shape, Denoted(env, p.const, p.word))),
                          p.shape.k = "array" /\ p.shape.const))

Meant(env, s, base) ==
    CASE s.k = "plain"   -> base
      [] s.k = "pointer" -> Qualify(Pointer(Meant(env, s.of, base)), s.const)
      [] s.k = "block"   -> Qualify(Block(Meant(env, s.of, base)), s.const)
      [] s.k = "array"   -> Array(Meant(env, s.of, base), s.form, FALSE)
      [] s.k = "func"    -> Func(Meant(env, s.of, base), s.params # <<>>,
                                 IF TakesNothing(env, s.params) THEN <<>>
                                 ELSE [k \in DOMAIN s.params |-> ParamMeant(env, s.params[k])])

\* The words the parameters of a shape are written with.
RECURSIVE WordsIn(_)
WordsIn(s) ==
    CASE s.k = "plain" -> {}
      [] s.k = "func"  -> WordsIn(s.of) \cup UNION {{p.word} \cup WordsIn(p.shape) : p \in Range(s.params)}
      [] OTHER         -> WordsIn(s.of)

(* ----------------------------- well-formedness -------------------------- *)

\* top: the shape is a parameter's own.  Its array is a pointer, so the
\* element may be incomplete (types/build.go:336).
RECURSIVE WellFormed(_, _, _, _)

ParamWellFormed(env, p) ==
    LET base == Denoted(env, p.const, p.word)
    IN  WellFormed(env, p.shape, base, TRUE) /\ Kind(Meant(env, p.shape, base)) # "void"

ParamsWellFormed(env, ps) == TakesNothing(env, ps) \/ \A k \in DOMAIN ps : ParamWellFormed(env, ps[k])

DerivedWell(s, t, top) ==
    CASE s.k = "pointer" -> TRUE
      [] s.k = "block"   -> Kind(t) = "func"
      [] s.k = "array"   -> Kind(t) # "func" /\ (top \/ Complete(t)) /\ (s.static \/ s.const => top)
      [] s.k = "func"    -> Kind(t) \notin {"func", "array"}

WellFormed(env, s, base, top) ==
    \/ s.k = "plain"
    \/ /\ s.k # "plain"
       /\ DerivedWell(s, Meant(env, s.of, base), top)
       /\ WellFormed(env, s.of, base, FALSE)
       /\ s.k = "func" => ParamsWellFormed(env, s.params)

\* A type the compiler built, with the qualifiers of its arrays on the elements.
RECURSIVE Normal(_)
Normal(t) ==
    CASE t.k = "const" -> IF t.t.k = "array" THEN Normal(Const(t.t)) ELSE Qualify(Normal(t.t), TRUE)
      [] t.k \in {"pointer", "array"} -> [t EXCEPT !.elem = Normal(@)]
      [] t.k = "block" -> [t EXCEPT !.sig = Normal(@)]
      [] t.k = "func"  -> [t EXCEPT !.ret = Normal(@), !.params = [k \in DOMAIN @ |-> Param(@[k].name, Normal(@[k].type))]]
      [] OTHER -> t
=============================================================================
