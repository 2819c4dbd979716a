------------------------------ MODULE DeclTypes ------------------------------
(***************************************************************************)
(* The types the analyzer builds from specifiers and a declarator          *)
(* (types/build.go): the base of the specifiers, derived from the outside  *)
(* of the declarator in.                                                   *)
(*                                                                         *)
(* env is what a name in a type position denotes: from the typedef names   *)
(* in scope to their types.                                                *)
(***************************************************************************)
EXTENDS Declarators

Basic(k) == [k |-> k]
Pointer(t) == [k |-> "pointer", elem |-> t]
Block(f) == [k |-> "block", sig |-> f]
Array(t, form, static) == [k |-> "array", elem |-> t, form |-> form, static |-> static]
Func(ret, proto, params) == [k |-> "func", ret |-> ret, proto |-> proto, params |-> params]
Param(name, t) == [name |-> name, type |-> t]

\* A qualified type, never of a qualified one.
Qualify(t, const) == IF const /\ t.k # "const" THEN [k |-> "const", t |-> t] ELSE t
Unqualify(t) == IF t.k = "const" THEN t.t ELSE t
IsConst(t) == t.k = "const"
Kind(t) == Unqualify(t).k

\* Complete: what can be an element or a declared object.
Complete(t) ==
    LET u == Unqualify(t) IN u.k # "void" /\ (u.k = "array" => u.form # "incomplete")

AdjustParam(t) ==
    LET u == Unqualify(t)
    IN  CASE u.k = "array" -> Qualify(Pointer(u.elem), IsConst(t))
          [] u.k = "func"  -> Pointer(u)
          [] OTHER         -> t

(* ------------------------------ specifiers ------------------------------ *)

Spec(t, storage, bad) == [type |-> t, storage |-> storage, bad |-> bad]

\* An identifier the scope does not hold to be a typedef is reported, and int.
Typedef(env, id) == IF id \in DOMAIN env THEN env[id] ELSE Basic("int")

BuildSpecs(env, specs) ==
    LET Those(set) == SelectSeq(specs, LAMBDA s : s \in set)
        kws   == Those(Basics)
        named == Those(Names)
        base  == IF named # <<>> THEN Typedef(env, named[1])
                 ELSE IF Len(kws) = 1 THEN Basic(kws[1]) ELSE Basic("int")
    IN  Spec(Qualify(base, Those(Quals) # <<>>),
             IF Those(Storage) = <<>> THEN "" ELSE Last(Those(Storage)),
             \/ Len(Those(Storage)) > 1
             \/ Len(kws) + Len(named) # 1
             \/ \E k \in DOMAIN named : named[k] \notin DOMAIN env)

(* ------------------------------ declarators ----------------------------- *)

Built(t, name, bad) == [type |-> t, name |-> name, bad |-> bad]

\* Nothing but parentheses is between the name and what d is inside of.
RECURSIVE Outermost(_)
Outermost(d) == CASE d.k = "paren" -> Outermost(d.in) [] OTHER -> d.k \in {"name", "absent"}

\* [static] is for the array a parameter's adjustment rewrites, and only
\* that array may be of an incomplete type.
ArrayElem(t) == IF Kind(t) = "func" THEN Pointer(t) ELSE t
ArrayOf(t, d, adjusted) == Qualify(Array(ArrayElem(t), d.form, d.static /\ adjusted), d.const)
ArrayBad(t, d, adjusted) ==
    \/ Kind(t) = "func"
    \/ ~Complete(t) /\ ~adjusted
    \/ d.static /\ ~adjusted

Returned(t) == IF Kind(t) \in {"func", "array"} THEN Basic("int") ELSE t

\* (void) alone is no parameter, and void is nowhere else one.
NoParams(ps) ==
    Len(ps) = 1 /\ ps[1].name = "" /\ ps[1].type = Basic("void")
ParamType(p) == IF Kind(p.type) = "void" THEN Basic("int") ELSE AdjustParam(p.type)

FuncOf(ret, ps) ==
    Func(Returned(ret), ps # <<>>,
         IF NoParams(ps) THEN <<>> ELSE [k \in DOMAIN ps |-> Param(ps[k].name, ParamType(ps[k]))])
FuncBad(ret, ps) ==
    \/ Kind(ret) \in {"func", "array"}
    \/ \E k \in DOMAIN ps : ps[k].bad \/ (~NoParams(ps) /\ Kind(ps[k].type) = "void")

BlockOf(t, d) == Qualify(Block(IF Kind(t) = "func" THEN Unqualify(t) ELSE Func(t, TRUE, <<>>)), d.const)

RECURSIVE Build(_, _, _, _, _)

\* buildParams, up to the adjustment.
BuildParam(env, p, sp) ==
    LET b == Build(env, sp.type, p.d, TRUE, sp.bad) IN [b EXCEPT !.bad = @ \/ sp.storage # ""]
BuildParams(env, params) == [k \in DOMAIN params |-> BuildParam(env, params[k], BuildSpecs(env, params[k].specs))]

BuildFunc(env, t, d, param, bad, ps) == Build(env, FuncOf(t, ps), d.in, param, bad \/ FuncBad(t, ps))

Build(env, t, d, param, bad) ==
    CASE d.k = "absent"  -> Built(t, "", bad)
      [] d.k = "name"    -> Built(t, d.id, bad)
      [] d.k = "paren"   -> Build(env, t, d.in, param, bad)
      [] d.k = "pointer" -> Build(env, Qualify(Pointer(t), d.const), d.in, param, bad)
      [] d.k = "block"   -> Build(env, BlockOf(t, d), d.in, param, bad \/ Kind(t) # "func")
      [] d.k = "array"   -> LET adjusted == param /\ Outermost(d.in)
                            IN  Build(env, ArrayOf(t, d, adjusted), d.in, param, bad \/ ArrayBad(t, d, adjusted))
      [] d.k = "func"    -> BuildFunc(env, t, d, param, bad, BuildParams(env, d.params))
=============================================================================
