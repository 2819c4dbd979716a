--------------------------- MODULE MCInitializers ---------------------------
(* ObjectInit over declarations that between them nest records, arrays and *)
(* unions, anonymous ones among them, strings and runs of bit-fields.      *)
EXTENDS ObjectInit

Scalar(s) == [k |-> "scalar", s |-> s]
Whole == Scalar("int")
Byte == Scalar("char")
Ptr == Scalar("ptr")
Array(n, t) == [k |-> "array", len |-> n, elem |-> t]
Struct(fields) == [k |-> "record", union |-> FALSE, fields |-> fields]
Union(fields) == [k |-> "record", union |-> TRUE, fields |-> fields]
Field(name, t) == [name |-> name, t |-> t, bit |-> FALSE, width |-> 0]
Bits(name, w) == [name |-> name, t |-> Whole, bit |-> TRUE, width |-> w]

Dot(name) == [d |-> "field", name |-> name]
Nth(n) == [d |-> "index", n |-> n]
X == [v |-> "scalar", id |-> 0]
S(n) == [v |-> "string", id |-> 0, len |-> n]
R(t) == [v |-> "record", id |-> 0, t |-> t]
It(d, v) == [desig |-> d, val |-> v]
B(items) == [v |-> "list", items |-> items]

\* struct { int x; struct { int a, b; } s[2]; int b; }
Pair == Struct(<<Field("a", Whole), Field("b", Whole)>>)
Nested == [t |-> Struct(<<Field("x", Whole), Field("s", Array(2, Pair)), Field("b", Whole)>>),
           desigs |-> {<<>>, <<Dot("s")>>, <<Dot("s"), Nth(1)>>, <<Dot("s"), Nth(0), Dot("b")>>, <<Dot("b")>>},
           vals |-> {X, B(<<It(<<>>, X)>>), B(<<It(<<Dot("b")>>, X)>>),
                     B(<<It(<<Nth(1)>>, X), It(<<>>, X)>>), R(Pair)}]

\* int m[2][3]
Matrix == [t |-> Array(2, Array(3, Whole)),
           desigs |-> {<<>>, <<Nth(0)>>, <<Nth(1)>>, <<Nth(0), Nth(1)>>, <<Nth(1), Nth(2)>>},
           vals |-> {X, B(<<It(<<>>, X), It(<<>>, X)>>), B(<<It(<<Nth(2)>>, X)>>)}]

\* struct { int kind; union { int n; struct { int lo, hi; }; }; int z; }
Tagged == [t |-> Struct(<<Field("kind", Whole),
                          Field("", Union(<<Field("n", Whole),
                                            Field("", Struct(<<Field("lo", Whole), Field("hi", Whole)>>))>>)),
                          Field("z", Whole)>>),
           desigs |-> {<<>>, <<Dot("kind")>>, <<Dot("n")>>, <<Dot("lo")>>, <<Dot("hi")>>, <<Dot("z")>>},
           vals |-> {X, B(<<It(<<>>, X)>>), B(<<It(<<Dot("hi")>>, X)>>)}]

\* struct { struct { int a : 3, : 0, b : 3; int c; } s; int d : 4, e : 4; }
Flags == [t |-> Struct(<<Field("s", Struct(<<Bits("a", 3), Bits("", 0), Bits("b", 3), Field("c", Whole)>>)),
                         Bits("d", 4), Bits("e", 4)>>),
          desigs |-> {<<>>, <<Dot("s")>>, <<Dot("s"), Dot("a")>>, <<Dot("s"), Dot("b")>>, <<Dot("d")>>, <<Dot("e")>>},
          vals |-> {X, B(<<It(<<>>, X)>>), B(<<It(<<Dot("b")>>, X), It(<<>>, X)>>)}]

\* struct { char s[3]; char *p; }[2], and a union of them.
Named == Struct(<<Field("s", Array(3, Byte)), Field("p", Ptr)>>)
Strings == [t |-> Array(2, Named),
            desigs |-> {<<>>, <<Nth(1)>>, <<Nth(0), Dot("p")>>, <<Nth(0), Dot("s")>>, <<Nth(1), Dot("s"), Nth(2)>>},
            vals |-> {X, S(1), S(3), B(<<It(<<>>, S(2))>>), B(<<It(<<Dot("p")>>, S(2))>>)}]
Either == [t |-> Union(<<Field("n", Array(2, Whole)), Field("s", Array(3, Byte))>>),
           desigs |-> {<<>>, <<Dot("n")>>, <<Dot("s")>>, <<Dot("n"), Nth(1)>>},
           vals |-> {X, S(2), B(<<It(<<Nth(1)>>, X)>>)}]

\* char s[4], char t[], int n[] and struct { int a, b; } v[]
Chars(n) == [t |-> Array(n, Byte), desigs |-> {<<>>, <<Nth(2)>>, <<Nth(0)>>}, vals |-> {X, S(2), S(3)}]
Open(t) == [t |-> Array(-1, t), desigs |-> {<<>>, <<Nth(0)>>, <<Nth(3)>>},
            vals |-> {X, B(<<It(<<>>, X)>>), R(Pair)}]

\* struct { char *a[2]; int n; }, struct { int a : 3, : 2, b : 3; } and
\* struct { struct { int a : 3; int b; } s; int b; }
Pointers == [t |-> Struct(<<Field("a", Array(2, Ptr)), Field("n", Whole)>>),
             desigs |-> {<<>>, <<Dot("a"), Nth(1)>>, <<Dot("n")>>},
             vals |-> {X, S(2), B(<<It(<<>>, S(2)), It(<<>>, S(1))>>)}]
Padded == [t |-> Struct(<<Bits("a", 3), Bits("", 2), Bits("b", 3)>>),
           desigs |-> {<<>>, <<Dot("b")>>}, vals |-> {X}]
Shadowed == [t |-> Struct(<<Field("s", Struct(<<Bits("a", 3), Field("b", Whole)>>)), Field("b", Whole)>>),
             desigs |-> {<<>>, <<Dot("s"), Dot("a")>>, <<Dot("b")>>}, vals |-> {X}]
\* struct { struct { struct { int a, b; } in; int y; } m; int z; }
Deep == [t |-> Struct(<<Field("m", Struct(<<Field("in", Pair), Field("y", Whole)>>)), Field("z", Whole)>>),
         desigs |-> {<<>>, <<Dot("m")>>, <<Dot("m"), Dot("in")>>, <<Dot("z")>>},
         vals |-> {X, R(Pair), B(<<It(<<>>, R(Pair)), It(<<>>, X)>>)}]

MCObjects == {Pointers, Padded, Shadowed, Deep, Nested, Matrix, Tagged, Flags, Strings, Either, Chars(4), Chars(-1), Open(Whole), Open(Pair)}
=============================================================================
