--------------------------- MODULE MCDeclarations ----------------------------
(***************************************************************************)
(* Two names, either of which may be a type, and shapes that reach every   *)
(* derivation, every ambiguity of the grammar and every constraint.        *)
(***************************************************************************)
EXTENDS Declarations

OfInt(s, name) == Takes(FALSE, "int", s, name)
OfT(s, name) == Takes(FALSE, "T", s, name)
Fixed(s) == ArrayBy("fixed", FALSE, FALSE, s)
Open(s) == ArrayBy("incomplete", FALSE, FALSE, s)
Ptr(s) == PointerTo(FALSE, s)

Lists == {<<>>, <<Nothing>>, <<OfInt(Plain, "x")>>, <<OfT(Plain, "")>>, <<OfInt(Plain, "T"), OfInt(Ptr(Plain), "x")>>}

MCDeclared ==
    {Plain, Ptr(Plain), PointerTo(TRUE, Plain), Fixed(Plain), Open(Plain), BlockOn(Plain),
     Fixed(Ptr(Plain)), Ptr(Fixed(Plain)), Fixed(Open(Plain)), Open(Fixed(Plain)),
     ArrayBy("fixed", TRUE, FALSE, Plain)}
    \cup {FunctionOf(ps, Plain) : ps \in Lists}
    \cup {FunctionOf(<<OfT(Open(Plain), "x")>>, Plain), FunctionOf(<<OfT(ArrayBy("fixed", TRUE, TRUE, Ptr(Plain)), "x")>>, Plain),
           FunctionOf(<<OfInt(FunctionOf(<<OfT(Plain, "")>>, Plain), "")>>, Plain),
           FunctionOf(<<Takes(FALSE, "void", Plain, "x")>>, Plain),
           FunctionOf(<<>>, Ptr(Plain)), FunctionOf(<<>>, Fixed(Plain)), FunctionOf(<<>>, FunctionOf(<<>>, Plain)),
           Ptr(FunctionOf(<<OfT(Plain, "")>>, Plain)), BlockOn(FunctionOf(<<>>, Plain)), Fixed(FunctionOf(<<>>, Plain))}

MCDefinitions == {FunctionOf(ps, Plain) : ps \in Lists} \cup {FunctionOf(<<OfT(Fixed(Plain), "x")>>, Ptr(Plain))}

MCParameters == {<<>>, <<OfInt(Plain, "x")>>, <<OfT(Plain, "x")>>, <<OfInt(Plain, "T"), OfInt(Fixed(Plain), "x")>>}
=============================================================================
