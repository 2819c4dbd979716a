---------------------------- MODULE Bookkeeping ----------------------------
(* Facts about sequences and counts that the proofs of several components rest
   on. *)
EXTENDS Integers, Sequences, FiniteSets, SequenceTheorems, FiniteSetTheorems, TLAPS

(* How many arguments a function, or how many places a sequence, has x at. *)
Hit(v, x) == IF v = x THEN 1 ELSE 0
Tally(f, x) == Cardinality({y \in DOMAIN f : f[y] = x})

(* A sequence without its last element. *)
LEMMA Popped ==
    ASSUME NEW S, NEW s \in Seq(S), s # <<>>
    PROVE  /\ SubSeq(s, 1, Len(s) - 1) \in Seq(S)
           /\ Len(SubSeq(s, 1, Len(s) - 1)) = Len(s) - 1
           /\ \A k \in 1..(Len(s) - 1) : SubSeq(s, 1, Len(s) - 1)[k] = s[k]
<1> DEFINE n == Len(s)
<1>1. n \in Nat \ {0} /\ 1 \in Int /\ n - 1 \in Int /\ \A k \in 1..(n - 1) : s[k] \in S
  OBVIOUS
<1> HIDE DEF n
<1>2. /\ SubSeq(s, 1, n - 1) \in Seq(S)
      /\ Len(SubSeq(s, 1, n - 1)) = IF 1 <= n - 1 THEN (n - 1) - 1 + 1 ELSE 0
      /\ \A k \in 1..((n - 1) - 1 + 1) : SubSeq(s, 1, n - 1)[k] = s[1 + k - 1]
  BY <1>1, SubSeqProperties
<1>3. \A k \in 1..(n - 1) : k \in 1..((n - 1) - 1 + 1) /\ 1 + k - 1 = k
  BY <1>1
<1>4. \A k \in 1..(n - 1) : SubSeq(s, 1, n - 1)[k] = s[k]
  BY <1>2, <1>3
<1>5. Len(SubSeq(s, 1, n - 1)) = n - 1
  BY <1>1, <1>2
<1> QED BY <1>1, <1>2, <1>4, <1>5 DEF n

(* A count is a number, none when there is nothing to count, and one at least
   when the thing is there. *)
LEMMA TallyType ==
    ASSUME NEW f, IsFiniteSet(DOMAIN f), NEW x
    PROVE  /\ Tally(f, x) \in Nat
           /\ \A y \in DOMAIN f : f[y] = x => Tally(f, x) >= 1
           /\ (\A y \in DOMAIN f : f[y] # x) => Tally(f, x) = 0
<1> DEFINE A == {y \in DOMAIN f : f[y] = x}
<1>1. IsFiniteSet(A) /\ Cardinality(A) \in Nat
  BY FS_Subset, FS_CardinalityType
<1>2. Cardinality(A) = 0 <=> A = {}
  BY <1>1, FS_EmptySet
<1> QED BY <1>1, <1>2 DEF Tally

(* The same arguments with the same values. *)
Alike(f, g) == DOMAIN f = DOMAIN g /\ \A y \in DOMAIN f : f[y] = g[y]

LEMMA TallySame ==
    ASSUME NEW f, NEW g, NEW x, Alike(f, g)
    PROVE  Tally(f, x) = Tally(g, x)
<1>1. {y \in DOMAIN f : f[y] = x} = {y \in DOMAIN g : g[y] = x}
  BY DEF Alike
<1> QED BY <1>1 DEF Tally

(* g is f with one argument more, or with another value at one. *)
OneMore(f, g, a) == /\ a \notin DOMAIN f
                    /\ DOMAIN g = DOMAIN f \cup {a}
                    /\ \A y \in DOMAIN f : g[y] = f[y]

OneMoved(f, g, a) == /\ a \in DOMAIN f
                     /\ DOMAIN g = DOMAIN f
                     /\ \A y \in DOMAIN f \ {a} : g[y] = f[y]

LEMMA TallyMore ==
    ASSUME NEW f, NEW g, NEW a, NEW x, IsFiniteSet(DOMAIN f), OneMore(f, g, a)
    PROVE  /\ Tally(f, x) \in Nat /\ Tally(g, x) \in Nat
           /\ Tally(g, x) = Tally(f, x) + Hit(g[a], x)
<1> DEFINE A == {y \in DOMAIN f : f[y] = x}
           B == {y \in DOMAIN g : g[y] = x}
<1>0. Tally(f, x) = Cardinality(A) /\ Tally(g, x) = Cardinality(B)
  BY DEF Tally
<1>1. IsFiniteSet(A) /\ Cardinality(A) \in Nat
  BY FS_Subset, FS_CardinalityType
<1>2. CASE g[a] = x
  <2>1. B = A \cup {a} /\ a \notin A
    BY <1>2 DEF OneMore
  <2>2. Cardinality(A \cup {a}) = Cardinality(A) + 1
    BY <1>1, <2>1, FS_AddElement
  <2> HIDE DEF A, B
  <2> QED BY <1>0, <1>1, <1>2, <2>1, <2>2 DEF Hit
<1>3. CASE g[a] # x
  <2>1. B = A
    BY <1>3 DEF OneMore
  <2> HIDE DEF A, B
  <2> QED BY <1>0, <1>1, <1>3, <2>1 DEF Hit
<1> QED BY <1>2, <1>3

LEMMA TallyMoved ==
    ASSUME NEW f, NEW g, NEW a, NEW x, IsFiniteSet(DOMAIN f), OneMoved(f, g, a)
    PROVE  /\ Tally(f, x) \in Nat /\ Tally(g, x) \in Nat
           /\ Tally(g, x) + Hit(f[a], x) = Tally(f, x) + Hit(g[a], x)
<1> DEFINE h == [y \in DOMAIN f \ {a} |-> f[y]]
<1>1. OneMore(h, f, a) /\ OneMore(h, g, a)
  BY DEF OneMore, OneMoved
<1>2. IsFiniteSet(DOMAIN h)
  BY FS_RemoveElement
<1> HIDE DEF h
<1>3. Tally(h, x) \in Nat /\ Tally(f, x) \in Nat /\ Tally(f, x) = Tally(h, x) + Hit(f[a], x)
  BY <1>1, <1>2, TallyMore
<1>4. Tally(g, x) \in Nat /\ Tally(g, x) = Tally(h, x) + Hit(g[a], x)
  BY <1>1, <1>2, TallyMore
<1>5. Hit(f[a], x) \in Nat /\ Hit(g[a], x) \in Nat
  BY DEF Hit
<1> QED BY <1>3, <1>4, <1>5

(* A sequence with one element more in front. *)
LEMMA TallyCons ==
    ASSUME NEW S, NEW a \in S, NEW r \in Seq(S), NEW x
    PROVE  /\ <<a>> \o r \in Seq(S)
           /\ Tally(r, x) \in Nat
           /\ Tally(<<a>> \o r, x) = Tally(r, x) + Hit(a, x)
<1> DEFINE s == <<a>> \o r
           n == Len(r)
           A == {i \in 1..n : r[i] = x}
           C == {i \in 2..(n + 1) : s[i] = x}
           f == [i \in A |-> i + 1]
<1>1. /\ n \in Nat /\ DOMAIN r = 1..n
      /\ s \in Seq(S) /\ Len(s) = n + 1 /\ DOMAIN s = 1..(n + 1)
      /\ s[1] = a /\ \A i \in 1..n : s[i + 1] = r[i]
  OBVIOUS
<1> HIDE DEF s, n
<1>2. IsFiniteSet(A) /\ Cardinality(A) \in Nat
  <2>1. IsFiniteSet(1..n)
    BY <1>1, FS_Interval
  <2>2. A \in SUBSET (1..n)
    OBVIOUS
  <2> HIDE DEF A
  <2> QED BY <2>1, <2>2, FS_Subset, FS_CardinalityType
<1>3. f \in Bijection(A, C)
  <2>1. f \in [A -> C]
    BY <1>1
  <2>2. \A i, j \in A : f[i] = f[j] => i = j
    BY <1>1
  <2>3. ASSUME NEW k \in C PROVE \E i \in A : f[i] = k
    <3>1. k - 1 \in 1..n /\ (k - 1) + 1 = k
      BY <1>1
    <3>2. r[k - 1] = x
      BY <1>1, <3>1
    <3> QED BY <3>1, <3>2
  <2> HIDE DEF f, A, C
  <2>4. f \in Injection(A, C)
    BY <2>1, <2>2 DEF Injection, IsInjective
  <2>5. f \in Surjection(A, C)
    BY <2>1, <2>3 DEF Surjection
  <2> QED BY <2>4, <2>5 DEF Bijection
<1>4. IsFiniteSet(C) /\ Cardinality(C) = Cardinality(A)
  <2> HIDE DEF f, A, C
  <2> QED BY <1>2, <1>3, FS_Bijection DEF ExistsBijection
<1>5. 1 \notin C
  OBVIOUS
<1> DEFINE B == {i \in DOMAIN s : s[i] = x}
<1>6. (a = x => B = C \cup {1}) /\ (a # x => B = C)
  BY <1>1
<1>7. Cardinality(C \cup {1}) = Cardinality(C) + 1
  BY <1>4, <1>5, FS_AddElement
<1>8. Tally(r, x) = Cardinality(A) /\ Tally(s, x) = Cardinality(B)
  BY <1>1 DEF Tally
<1> HIDE DEF A, B, C
<1>9. CASE a = x
  <2>1. Tally(s, x) = Cardinality(A) + 1
    BY <1>4, <1>6, <1>7, <1>8, <1>9
  <2> QED BY <1>1, <1>2, <1>8, <1>9, <2>1 DEF s, Hit
<1>10. CASE a # x
  <2>1. Tally(s, x) = Cardinality(A)
    BY <1>4, <1>6, <1>8, <1>10
  <2> QED BY <1>1, <1>2, <1>8, <1>10, <2>1 DEF s, Hit
<1> QED BY <1>9, <1>10

(* A sequence and what is behind its head. *)
LEMMA TallyTail ==
    ASSUME NEW S, NEW q \in Seq(S), q # <<>>, NEW x
    PROVE  /\ Head(q) \in S /\ Tail(q) \in Seq(S)
           /\ Tally(Tail(q), x) \in Nat
           /\ Tally(q, x) = Tally(Tail(q), x) + Hit(Head(q), x)
<1>1. Head(q) \in S /\ Tail(q) \in Seq(S) /\ q = <<Head(q)>> \o Tail(q)
  OBVIOUS
<1> DEFINE h == Head(q)  t == Tail(q)
<1> HIDE DEF h, t
<1>2. h \in S /\ t \in Seq(S) /\ q = <<h>> \o t
  BY <1>1 DEF h, t
<1>3. Tally(t, x) \in Nat /\ Tally(<<h>> \o t, x) = Tally(t, x) + Hit(h, x)
  BY <1>2, TallyCons
<1> QED BY <1>2, <1>3 DEF h, t

LEMMA TallyEmpty ==
    ASSUME NEW x
    PROVE  Tally(<<>>, x) = 0
<1>1. {y \in DOMAIN <<>> : <<>>[y] = x} = {}
  OBVIOUS
<1> QED BY <1>1, FS_EmptySet DEF Tally

LEMMA TallyOne ==
    ASSUME NEW a, NEW x
    PROVE  Tally(<<a>>, x) = Hit(a, x)
<1> DEFINE r == <<>>
<1>1. r \in Seq({a}) /\ <<a>> \o r = <<a>> /\ Tally(r, x) = 0
  BY TallyEmpty
<1> HIDE DEF r
<1> DEFINE s == <<a>> \o r
<1>2. Tally(s, x) = Tally(r, x) + Hit(a, x)
  BY <1>1, TallyCons
<1>3. Hit(a, x) \in Nat
  BY DEF Hit
<1>4. s = <<a>>
  BY <1>1
<1> HIDE DEF s
<1> QED BY <1>1, <1>2, <1>3, <1>4

(* One element at most in front of a sequence. *)
LEMMA TallyBefore ==
    ASSUME NEW S, NEW p \in Seq(S), Len(p) <= 1, NEW q \in Seq(S), NEW x
    PROVE  /\ p \o q \in Seq(S)
           /\ Tally(p, x) \in Nat /\ Tally(q, x) \in Nat
           /\ Tally(p \o q, x) = Tally(p, x) + Tally(q, x)
<1>1. <<>> \in Seq(S) /\ Tally(<<>>, x) = 0
  BY TallyEmpty
<1>2. Tally(q, x) \in Nat
  <2>1. DOMAIN q = 1..Len(q) /\ Len(q) \in Int /\ 1 \in Int
    OBVIOUS
  <2> QED BY <2>1, FS_Interval, TallyType
<1>3. CASE p = <<>>
  <2>1. p \o q = q
    BY <1>3
  <2> QED BY <1>1, <1>2, <1>3, <2>1
<1>4. CASE p # <<>>
  <2> DEFINE a == p[1]
  <2>0. Len(p) # 0 /\ Len(p) \in Nat
    BY <1>4
  <2>6. Len(p) = 1
    <3> DEFINE n == Len(p)
    <3>1. n # 0 /\ n \in Nat /\ n <= 1
      BY <2>0
    <3> HIDE DEF n
    <3>2. n = 1
      BY <3>1
    <3> QED BY <3>2 DEF n
  <2>1. a \in S /\ Len(p) = 1
    BY <2>6
  <2>5. p = <<a>>
    BY <2>1
  <2> HIDE DEF a
  <2>2. Tally(<<a>>, x) = Hit(a, x)
    BY TallyOne
  <2>3. <<a>> \o q \in Seq(S) /\ Tally(<<a>> \o q, x) = Tally(q, x) + Hit(a, x)
    BY <2>1, TallyCons
  <2>4. Hit(a, x) \in Nat
    BY DEF Hit
  <2> QED BY <1>1, <1>2, <2>5, <2>2, <2>3, <2>4
<1> QED BY <1>3, <1>4
=============================================================================
