----------------------------- MODULE Arithmetic -----------------------------
(***************************************************************************)
(* Integer expressions, built one operator at a time.  acc is the          *)
(* expression so far: its type in the compiler and in C, the value C gives *)
(* it, the register the lowered code leaves it in, and what the two        *)
(* constant evaluators fold it to.  The other operand is a variable or a   *)
(* constant of any type and value, and the result may be an operand again, *)
(* so that expressions of every depth are reached: a value in a register   *)
(* is all that an operator sees of its operands.                           *)
(*                                                                         *)
(* Where C leaves the value undefined nothing is promised of it, and the   *)
(* expression can only be an operand that is not evaluated.                *)
(*                                                                         *)
(* Shapes has the expressions that the compiler gets wrong and the model   *)
(* may build all the same; with no shape in it they are left out:          *)
(*   "unconverted"  constants folded without their usual conversions       *)
(*   "boolean"      a constant folded into a _Bool that is neither 0 nor 1 *)
(*   "object"       a const object that cannot hold its initializer        *)
(*   "enumerator"   an enumerator above what a long long holds             *)
(*   "octet"        arithmetic on an enumeration narrower than an int      *)
(*   "narrowlhs"    a compound assignment of a 128-bit value to less       *)
(*   "switch"       a switch on more bits than an int's                    *)
(*   "overflow"     an overflow builtin on 128 bits                        *)
(***************************************************************************)
EXTENDS CArithmetic, ConstFold, IntLowering, FiniteSets

CONSTANTS Spellings,  \* the integer constants that are spelled out
          Samples,    \* the values of the operands wider than an int
          Shapes

ASSUME ShapesKnown ==
    Shapes \subseteq {"unconverted", "boolean", "object", "enumerator", "octet", "narrowlhs",
                      "switch", "overflow"}

VARIABLES target, acc
vars == <<target, acc>>

Rep(m, t, n) == LoadFrom(m, t, Word(n, Bits(m, t)))

(* ------------------------------- operands ------------------------------- *)

Values(m, t) == IF Bits(m, t) > IntBits THEN {n \in Samples : Holds(m, t, n)} ELSE Lowest(m, t) .. Highest(m, t)

Variable(m, t, n) ==
    [ty |-> t, sty |-> t, std |-> n, reg |-> Rep(m, t, n), fold |-> NotConst, big |-> NotConst,
     ice |-> FALSE, err |-> FALSE]

\* A constant of type t, a literal or a cast of one.
Constant(m, t, n) ==
    IF ~Holds(m, "LongLong", n) /\ IsWide(t) THEN Variable(m, t, n)
    ELSE [Variable(m, t, n) EXCEPT !.fold = IF IsWide(t) THEN NotConst ELSE Int64(n),
                                   !.big = n, !.ice = ~IsWide(t)]

Undetermined(t, st) ==
    [ty |-> t, sty |-> st, std |-> Undefined, reg |-> Nil, fold |-> NotConst, big |-> NotConst,
     ice |-> FALSE, err |-> FALSE]

\* Where a long is as wide as a long long, an operand of the one stands for both.
OperandTypes(m) == IF m.longIsWord THEN Types \ {"LongLong", "ULongLong"} ELSE Types
Operands == [m \in Targets |-> UNION {{Constant(m, t, n) : n \in Values(m, t)} : t \in OperandTypes(m)}]
Operand == Operands[target]

Folded(e) == e.fold # NotConst \/ e.big # NotConst
Unfolded(e) == [e EXCEPT !.fold = NotConst, !.big = NotConst, !.ice = FALSE]

\* An expression that C gives the value std; a 128-bit one is only folded by foldWide.
\* Nothing is promised of one that the lowering reports.
Becomes(t, st, std, reg, fold, big, ice) ==
    acc' = IF std = Undefined \/ reg = Refused THEN Undetermined(t, st)
           ELSE [ty |-> t, sty |-> st, std |-> std, reg |-> reg, big |-> big, err |-> FALSE,
                 fold |-> IF IsWide(t) THEN NotConst ELSE fold, ice |-> ice /\ ~IsWide(t)]

Computes(t, st, std, reg) == Becomes(t, st, std, reg, NotConst, NotConst, FALSE)

Defined == acc.std # Undefined

\* An operand wider than an int has a sampled value; any other is only converted.
Sampled == Defined /\ (Bits(target, acc.ty) > IntBits => acc.std \in Samples)

\* An operand's register is the same whether it is a constant or not.  A constant
\* is combined with every operand, and anything else with a few constants.
Representative == Sampled /\ acc.ty = acc.sty /\ acc = Constant(target, acc.ty, acc.std)
Few == {Constant(target, "Int", n) : n \in {0, 1, 2}}
Partner == IF Representative THEN Operand ELSE Few

\* An integer constant as it is spelled, in the type that DecodeIntConst gives it.
Literal(s) ==
    LET d == DecodeIntConst(target, s)
    IN  IF ConstantFits(target, s) = {} THEN [Undetermined(d.ty, d.ty) EXCEPT !.err = d.reported]
        ELSE [Constant(target, d.ty, Spelled(s)) EXCEPT
                 !.sty = ConstantType(target, s), !.reg = ConstOf(target, Int64(d.val), d.ty), !.err = d.reported,
                 !.fold = Int64(d.val), !.big = WrapTo(target, d.ty, Int64(d.val))]

\* An expression is begun by an operand: a variable or constant, or one spelled out.
Init == /\ target \in Targets
        /\ acc \in Operand \cup {Literal(s) : s \in Spellings}

(* ------------------------------- operators ------------------------------ *)

Narrowed(t) == t # "Octet" \/ "octet" \in Shapes

Unary == \E op \in {"+", "-", "~", "!"} :
    LET t  == IF op = "!" THEN "Int" ELSE Promote(target, acc.ty)
        st == IF op = "!" THEN "Int" ELSE Promoted(acc.sty)
    IN  /\ Defined /\ (op = "!" \/ Narrowed(acc.ty))
        /\ Becomes(t, st, UnaryValue(op, target, acc.sty, acc.std), LowerUnary(op, acc.reg, acc.ty),
                   EvalUnary(target, op, t, acc.fold), FoldUnary(target, op, t, acc.big), acc.ice)

BooleanAsIs(t) == t = "Bool" /\ acc.std \notin {0, 1} /\ "boolean" \notin Shapes

Cast == \E t \in Types :
    /\ Defined
    /\ Folded(acc) => ~BooleanAsIs(t)
    /\ Becomes(t, t, Convert(target, t, acc.std), Converted(target, acc.reg, acc.ty, t),
               EvalCast(target, t, acc.fold), WrapTo(target, t, acc.big), acc.ice)

\* Operands whose common type gives another value than their own, or one beyond an int64.
Unconverted(op, a, b) ==
    LET ct == CommonType(target, a.sty, b.sty)
    IN  /\ "unconverted" \notin Shapes
        /\ \/ /\ op \in Relations \cup {"/", "%", "|", "^"}
              /\ \E e \in {a, b} : Convert(target, ct, e.std) # e.std
           \/ /\ op \in {"/", "%", ">>", "<", ">", "<=", ">="}
              /\ \E e \in {a, b} : ~IsWide(e.ty) /\ ~Holds(target, "LongLong", e.std)

\* An operand in a narrow enumeration's type is not promoted.
StaysNarrow(op, a, b) ==
    /\ "octet" \notin Shapes
    /\ IF op \in Shifts THEN a = "Octet" ELSE Bits(target, Usual(target, a, b)) < IntBits

BinaryTypeOf(op, a, b) ==
    IF op \in Shifts THEN Promote(target, a) ELSE IF op \in Relations THEN "Int" ELSE Usual(target, a, b)

\* acc op e.
Apply(op, e) ==
    LET t  == BinaryTypeOf(op, acc.ty, e.ty)
    IN  Becomes(t, BinaryType(op, target, acc.sty, e.sty),
                BinaryValue(op, target, acc.sty, acc.std, e.sty, e.std),
                LowerBinary(target, op, acc.reg, acc.ty, e.reg, e.ty),
                EvalBinary(target, op, t, acc.fold, e.fold), FoldBinary(target, op, t, acc.big, e.big),
                acc.ice /\ e.ice)

Binary == \E op \in Arithmetics \cup Shifts \cup Relations, e \in Partner :
    /\ Sampled /\ ~StaysNarrow(op, acc.ty, e.ty)
    /\ Apply(op, IF Folded(acc) /\ Unconverted(op, acc, e) THEN Unfolded(e) ELSE e)

\* x && y and x || y: y may be an expression with no value, where it is not evaluated.
LogicalOf(op, x, y) ==
    LET asked == (op = "&&") = (x.std # 0)
        std == IF x.std = Undefined THEN Undefined
               ELSE IF ~asked THEN OneIf(x.std # 0)
               ELSE IF y.std = Undefined THEN Undefined ELSE OneIf(y.std # 0)
    IN  Becomes("Int", "Int", std,
                IF asked THEN LowerLogical(op, x.reg, x.ty, y.reg, y.ty) ELSE I32(OneIf(Truth(x.reg, x.ty))),
                EvalLogical(op, x.fold, y.fold), NotConst, x.ice /\ (y.ice \/ ~asked))

Logical == \E op \in {"&&", "||"}, e \in Partner, constant \in BOOLEAN :
    LET other == IF constant THEN e ELSE Unfolded(e)
    IN  /\ Defined => Sampled
        /\ LogicalOf(op, acc, other) \/ LogicalOf(op, other, acc)

\* c ? x : y, whose condition is a constant or a variable.
ArmsUnconverted(x, st) == "unconverted" \notin Shapes /\ x.std # Undefined /\ Convert(target, st, x.std) # x.std

Conditional == \E c \in {Constant(target, "Int", n) : n \in {0, 1}}, e \in Partner, swapped, constant \in BOOLEAN :
    LET x   == IF swapped THEN e ELSE acc
        y   == IF swapped THEN acc ELSE e
        arm == IF c.std # 0 THEN x ELSE y
        t   == Usual(target, x.ty, y.ty)
        st  == CommonType(target, x.sty, y.sty)
    IN  /\ (Defined => Sampled) /\ ~StaysNarrow("+", x.ty, y.ty)
        /\ constant => ~ArmsUnconverted(arm, st)
        /\ Becomes(t, st, Convert(target, st, arm.std), LowerArm(target, arm.reg, arm.ty, t),
                   EvalCond(IF constant THEN c.fold ELSE NotConst, x.fold, y.fold), NotConst,
                   constant /\ arm.ice)

Elvis == \E e \in Partner :
    LET t   == Usual(target, acc.ty, e.ty)
        st  == CommonType(target, acc.sty, e.sty)
        arm == IF acc.std # 0 THEN acc ELSE e
    IN  /\ Sampled /\ ~StaysNarrow("+", acc.ty, e.ty) /\ ~ArmsUnconverted(arm, st)
        /\ Becomes(t, st, Convert(target, st, arm.std),
                   LowerElvis(target, acc.reg, acc.ty, e.reg, e.ty, t),
                   EvalCond(acc.fold, acc.fold, e.fold), NotConst, acc.ice /\ e.ice)

(* ------------------------------ assignments ----------------------------- *)

\* An assignment to an object of type t has the value, and so has the object.
Stored(t, st, std, reg) == \E readBack \in BOOLEAN :
    Computes(t, st, std, IF readBack /\ reg # Nil
                         THEN LoadFrom(target, t, StoreTo(target, t, reg)) ELSE reg)

Assign == \E t \in Types :
    Defined /\ Stored(t, t, Convert(target, t, acc.std), Converted(target, acc.reg, acc.ty, t))

\* v op= acc, v a variable.
Compound == \E op \in Arithmetics \cup Shifts, v \in Operand :
    /\ Representative /\ ~StaysNarrow(op, v.ty, acc.ty)
    /\ IsWide(acc.ty) => IsWide(v.ty) \/ op \in Shifts \/ "narrowlhs" \in Shapes
    /\ Stored(v.ty, v.ty,
              Convert(target, v.ty, BinaryValue(op, target, v.sty, v.std, acc.sty, acc.std)),
              LowerCompound(target, op, v.reg, v.ty, acc.reg, acc.ty))

\* ++v and v++ on a variable that holds acc.
Step == \E op \in {"+", "-"}, postfix \in BOOLEAN :
    LET std == Convert(target, acc.ty, BinaryValue(op, target, acc.ty, acc.std, "Int", 1))
    IN  /\ Representative
        /\ IF postfix /\ std # Undefined THEN Computes(acc.ty, acc.ty, acc.std, acc.reg)
           ELSE Stored(acc.ty, acc.ty, std, LowerStep(target, op, acc.reg, acc.ty))

\* __builtin_op_overflow(acc, e, &r): its value, or what r then holds.
Overflow == \E op \in {"+", "-", "*"}, e \in Operand, rt \in OperandTypes(target) \ {"Bool", "Octet"} :
    LET n == CASE op = "+" -> acc.std + e.std [] op = "-" -> acc.std - e.std [] op = "*" -> acc.std * e.std
        r == LowerOverflow(target, op, acc.reg, acc.ty, e.reg, e.ty, rt)
    IN  /\ Representative /\ {acc.ty, e.ty} \cap {"Bool", "Octet"} = {}
        /\ {acc.ty, e.ty, rt} \cap Wide = {} \/ "overflow" \in Shapes
        /\ \/ Computes("Int", "Int", OneIf(~Holds(target, rt, n)), r.flag)
           \/ Computes(rt, rt, Convert(target, rt, n), LoadFrom(target, rt, StoreTo(target, rt, r.stored)))

(* ------------------------------- constants ------------------------------ *)

\* switch (acc) { case e: } selects the case.
Switch == \E e \in Partner :
    /\ Sampled /\ e.fold # NotConst
    /\ Bits(target, acc.ty) <= IntBits \/ "switch" \in Shapes
    /\ Computes("Int", "Int", OneIf(Convert(target, Promoted(acc.sty), e.std) = acc.std),
                I32(OneIf(CaseSelected(target, acc.reg, acc.ty, e.fold))))

\* const T c = acc, and c where a constant is wanted: symbol.folded.
ConstObject == \E t \in Types :
    /\ Defined /\ acc.fold # NotConst
    /\ Holds(target, t, acc.std) \/ "object" \in Shapes
    /\ Becomes(t, t, Convert(target, t, acc.std),
               LoadFrom(target, t, StoreTo(target, t, Converted(target, acc.reg, acc.ty, t))),
               acc.fold, NotConst, FALSE)

\* static T s = acc: constScalar writes the folded value.
StaticObject == \E t \in Types :
    /\ Defined /\ ~BooleanAsIs(t)
    /\ IF IsWide(t) THEN acc.big # NotConst ELSE acc.fold # NotConst
    /\ Computes(t, t, Convert(target, t, acc.std),
                IF IsWide(t) THEN LoadFrom(target, t, WideWords(acc.big)[1] + WideWords(acc.big)[2] * 2^WordBits)
                ELSE LoadFrom(target, t, Word(acc.fold, Bits(target, t))))

\* enum { A = acc, B }: A or B, in the type that both fit in.
Enumerate == \E n \in {0, 1} :
    LET next  == Int64(acc.fold + 1)
        under == EnumUnder(target, {acc.fold, next})
        value == IF n = 0 THEN acc.fold ELSE next
    IN  /\ Defined /\ acc.fold # NotConst
        /\ Holds(target, "LongLong", acc.std + 1) \/ "enumerator" \in Shapes
        /\ Becomes(under, under, acc.std + n, ConstOf(target, value, under), value,
                   WrapTo(target, under, value), TRUE)

\* enum : t { A = acc }, unless it is reported.  As the code says of its check,
\* a value is read in the type where that is unsigned and as wide as a long long.
EnumerateFixed == \E t \in OperandTypes(target) \ (Wide \cup {"Octet", "Bool"}) :
    /\ Defined /\ acc.fold # NotConst
    /\ \/ Holds(target, "LongLong", acc.std)
       \/ "enumerator" \in Shapes
       \/ Bits(target, t) = WordBits /\ ~IsSigned(target, t)
    /\ ~EnumTooLarge(target, t, acc.fold)
    /\ Becomes(t, t, IF Bits(target, t) = WordBits THEN Convert(target, t, acc.std) ELSE acc.std,
               ConstOf(target, acc.fold, t), acc.fold, WrapTo(target, t, acc.fold), TRUE)

Next == /\ UNCHANGED target
        /\ \/ Unary \/ Cast \/ Binary \/ Logical \/ Conditional \/ Elvis
           \/ Assign \/ Compound \/ Step \/ Overflow
           \/ Switch \/ ConstObject \/ StaticObject \/ Enumerate \/ EnumerateFixed

Spec == Init /\ [][Next]_vars

(* ------------------------------ properties ------------------------------ *)

(* Whatever the types and the nesting, the register that the lowered code  *)
(* leaves an expression in holds the value C gives it, in a type of the    *)
(* width and sign that C gives it and that holds the value: conversions,   *)
(* sign extensions, the carries between the words of a 128-bit value and   *)
(* the wrap of a stored one never lose a bit (convert, arith, wideArith).  *)
RuntimeAsStandard ==
    acc.std # Undefined =>
        /\ Bits(target, acc.ty) = Bits(target, acc.sty)
        /\ IsSigned(target, acc.ty) = IsSigned(target, acc.sty)
        /\ Holds(target, acc.ty, acc.std)
        /\ acc.reg = Rep(target, acc.ty, acc.std)

(* A constant is what the same expression would compute when it runs: each *)
(* evaluator (evalInt, foldWide) folds an integer constant expression, and *)
(* only to its value, and no constant that a type of its column holds is   *)
(* reported too large (DecodeIntConst).                                    *)
FoldAsStandard ==
    /\ acc.err => acc.std = Undefined
    /\ acc.std # Undefined =>
        /\ acc.ice => acc.fold # NotConst
        /\ acc.fold # NotConst => acc.fold = Int64(acc.std)
        /\ acc.big # NotConst => acc.big = acc.std

(* ------------------------------ the instance ---------------------------- *)

(* A char of two bits, an int of three, a long long of four and a 128-bit  *)
(* integer of eight, over every narrower value.                            *)

\* Zero, the ends of an int, of a word and of two words, and what is next to them.
MCSamples == {-128, -16, -8, -7, -1, 0, 1, 4, 7, 8, 15, 16, 127, 128, 255}

\* LP64 with a plain char that is signed, and LLP64 with one that is not.
MCTargets == {[charSigned |-> TRUE, longIsWord |-> TRUE], [charSigned |-> FALSE, longIsWord |-> FALSE]}

Digits(base) == UNION {[1 .. n -> 0 .. (IF base = "decimal" THEN 2 ELSE 1)] : n \in 1 .. 5}
MCSpellings == UNION {[base : {base}, digits : Digits(base), u : BOOLEAN, l : 0 .. 2] : base \in {"decimal", "other"}}
=============================================================================
