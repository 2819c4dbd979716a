-------------------------- MODULE Ownership_proofs --------------------------
(* That every reference a method body takes has one place that will let go of it,
   and that what an expression has evaluated and not yet used is alive, for any
   locals, any number of objects and any nesting of expressions and blocks. *)
EXTENDS Ownership, Bookkeeping

(* Every other shape of program breaks a count (see Shapes). *)
Counting == Shapes \subseteq {"return in an initializer"}

-----------------------------------------------------------------------------
(* The inductive invariant. *)
Pointers == Objects \cup {Nil}
Contents == Pointers \cup {Absent, Garbage}

FrameRecords ==
    [k : {"expr", "return", "autoreleasing", "self"}, name : {""}, o : {Nil}, mark : {0}]
    \cup [k : {"elvis", "test", "arm"}, name : {""}, o : {Nil}, mark : Nat]
    \cup [k : {"receiver", "argument"}, name : {"plain", "init"}, o : Pointers, mark : {0}]
    \cup [k : {"init", "assign"}, name : Locals, o : {Nil}, mark : {0}]
    \cup [k : {"block", "result"}, name : SUBSET Locals, o : {Nil}, mark : {0}]

Heaps == [rc : [Objects -> Nat], pool : SUBSET Objects, faults : SUBSET {"retain", "release"}]
Vals  == [o : Pointers, own : BOOLEAN]

DataOK == /\ val \in Vals
          /\ temps \in Seq(Objects)
          /\ locals \in [Locals -> Contents]
          /\ self \in [o : Pointers, owned : BOOLEAN]
          /\ elsewhere \in Pointers
          /\ rt \in Heaps
          /\ given \in Pointers

TypeOK == /\ initializer \in BOOLEAN
          /\ mode \in {"statement", "want", "have", "done"}
          /\ frames \in Seq(FrameRecords)
          /\ DataOK

(* The register without the value in hand: a value that is on it is its last. *)
RestOf(v, t) == IF v.own THEN SubSeq(t, 1, Len(t) - 1) ELSE t
Rest == RestOf(val, temps)

InHand(v, t) == v.own => t # <<>> /\ t[Len(t)] = v.o

IsBlock(f) == f.k \in {"block", "result"}
Marked(f)  == f.k \in {"elvis", "test", "arm"}
IsTaken(f) == f.k = "argument" /\ f.name = "init"

(* How the frames lie: a statement in a block or in the body, self and the return of
   an initializer innermost, nothing registered before a block, marks in order. *)
FrameOK(c, k, ini, base) ==
    /\ c[k].k \in {"expr", "init", "return"} => k = 1 \/ c[k - 1].k = "block"
    /\ c[k].k = "self" => k = Len(c) /\ ini
    /\ c[k].k = "return" /\ ini => k = Len(c)
    /\ c[k].k = "block" => \A j \in 1..(k - 1) : c[j].mark = 0 /\ ~IsTaken(c[j])
    /\ c[k].mark <= base
    /\ Marked(c[k]) => \A j \in 1..(k - 1) : c[j].mark <= c[k].mark
    /\ c[k].k = "return" /\ "return in an initializer" \notin Shapes =>
           \A j \in 1..(k - 1) : c[j].k # "init"

Nested(c, ini, base) == \A k \in 1..Len(c) : FrameOK(c, k, ini, base)

(* v outlives the blocks inside frame k. *)
Outlives(c, k, v) == \A j \in (k + 1)..Len(c) : IsBlock(c[j]) => v \in c[j].name

(* The slots not yet written are those whose declarations are under way, one each;
   those about to be assigned are. *)
SlotsOK(c, lo) ==
    /\ \A v \in Locals : lo[v] = Garbage =>
           \E k \in 1..Len(c) : c[k].k = "init" /\ c[k].name = v
    /\ \A k \in 1..Len(c) : c[k].k = "init" =>
           lo[c[k].name] = Garbage /\ Outlives(c, k, c[k].name)
    /\ \A k, j \in 1..Len(c) : c[k].k = "init" /\ c[j].k = "init" /\ c[k].name = c[j].name => k = j
    /\ \A k \in 1..Len(c) : c[k].k = "assign" =>
           lo[c[k].name] \in Pointers /\ Outlives(c, k, c[k].name)

Moments == /\ Statement => temps = <<>> /\ (frames = <<>> \/ TopIs("block"))
           /\ InHand(val, temps)
           /\ val.own => Have /\ val.o # Nil
           /\ HaveFor("self") => val.own \/ val.o = Nil
           /\ mode # "done" => given = Nil

(* An initializer has a reference to self but where it has just passed it on. *)
SelfOK == /\ initializer /\ mode # "done" /\ ~HaveFor("self") /\ ~HaveFor("return") => self.owned
          /\ initializer /\ HaveFor("return") => ~self.owned \/ self.o = Nil
          /\ HaveFor("self") => ~self.owned
          /\ TopIs("self") => ~Waiting(self.o)

HeldBySelf(sf, ini, o) == sf.o = o /\ (ini => sf.owned)

(* What keeps a borrowed value ... *)
ValueKept == Have /\ ~val.own /\ val.o # Nil =>
    \/ \E v \in Locals : locals[v] = val.o
    \/ HeldBySelf(self, initializer, val.o)
    \/ val.o \in rt.pool

(* ... and the receiver that waits in frame k: a local that nothing inside will
   assign or end, self, the pool, or an entry of the register that nothing inside
   will release. *)
LocalStays(c, k, v) == /\ Outlives(c, k, v)
                       /\ \A j \in (k + 1)..Len(c) : c[j].k = "assign" => c[j].name # v
EntryStays(c, k, i) == \A j \in (k + 1)..Len(c) :
                           ~IsBlock(c[j]) /\ (Marked(c[j]) => i <= c[j].mark)

Kept(c, k, lo, sf, ini, pool, rest) ==
    \/ \E v \in Locals : lo[v] = c[k].o /\ LocalStays(c, k, v)
    \/ HeldBySelf(sf, ini, c[k].o)
    \/ c[k].o \in pool
    \/ \E i \in 1..Len(rest) : rest[i] = c[k].o /\ EntryStays(c, k, i)

Waits(c, k) == /\ c[k].k = "argument" /\ c[k].name = "plain" /\ c[k].o # Nil
               /\ \A j \in (k + 1)..Len(c) : c[j].k # "return"

ReceiversKept(c, lo, sf, ini, pool, rest) ==
    \A k \in 1..Len(c) : Waits(c, k) => Kept(c, k, lo, sf, ini, pool, rest)

(* The references, by what holds them. *)
Takings(c) == [k \in 1..Len(c) |-> IF IsTaken(c[k]) THEN c[k].o ELSE Nil]
Hand(v, a) == IF v.own THEN Hit(v.o, a) ELSE 0
Pooled(h, a) == IF a \in h.pool THEN 1 ELSE 0
Mine(sf, ini, a) == IF HeldBySelf(sf, ini, a) THEN 1 ELSE 0

Sum(lo, rest, v, c, e, g, h, sf, ini, a) ==
    Tally(lo, a) + Tally(rest, a) + Hand(v, a) + Tally(Takings(c), a) + Hit(e, a) + Hit(g, a)
    + Pooled(h, a) + Mine(sf, ini, a)

Even == \A a \in Objects :
    rt.rc[a] = Sum(locals, Rest, val, frames, elsewhere, given, rt, self, initializer, a)

Clean == "return in an initializer" \notin Shapes => rt.faults = {}

Waiters == ReceiversKept(frames, locals, self, initializer, rt.pool, Rest)

IInv == /\ TypeOK
        /\ Nested(frames, initializer, Len(Rest))
        /\ SlotsOK(frames, locals)
        /\ Moments
        /\ SelfOK
        /\ ValueKept
        /\ Waiters
        /\ Even
        /\ Clean

-----------------------------------------------------------------------------
(* Sequences at their last element, and their counts.                        *)

LEMMA Appended ==
    ASSUME NEW S, NEW s \in Seq(S), NEW x \in S
    PROVE  /\ Append(s, x) \in Seq(S) /\ Len(s) \in Nat
           /\ Len(Append(s, x)) = Len(s) + 1 /\ Append(s, x)[Len(s) + 1] = x
           /\ Append(s, x) # <<>>
           /\ \A k \in 1..Len(s) : Append(s, x)[k] = s[k]
           /\ SubSeq(Append(s, x), 1, Len(s)) = s
<1>1. /\ Append(s, x) \in Seq(S) /\ Len(s) \in Nat
      /\ Len(Append(s, x)) = Len(s) + 1 /\ Append(s, x)[Len(s) + 1] = x
      /\ Append(s, x) # <<>>
      /\ \A k \in 1..Len(s) : Append(s, x)[k] = s[k]
  OBVIOUS
<1> DEFINE t == Append(s, x)  n == Len(s)  u == SubSeq(t, 1, n)
<1>2. t # <<>> /\ t \in Seq(S) /\ Len(t) = n + 1 /\ n \in Nat /\ \A k \in 1..n : t[k] = s[k]
  BY <1>1
<1>3. u \in Seq(S) /\ Len(u) = n /\ \A k \in 1..n : u[k] = t[k]
  <2> HIDE DEF t, n, u
  <2>1. Len(t) - 1 = n
    BY <1>2
  <2> QED BY <1>2, <2>1, Popped DEF u
<1>4. u = s
  <2>1. Len(u) = Len(s) /\ \A k \in 1..Len(s) : u[k] = s[k]
    BY <1>2, <1>3
  <2>2. u \in Seq(S)
    BY <1>3
  <2> HIDE DEF u
  <2> QED BY <2>1, <2>2
<1>5. SubSeq(Append(s, x), 1, Len(s)) = s
  <2>1. (n + 1) - 1 = n
    BY <1>2
  <2> HIDE DEF t, n
  <2>2. Len(t) - 1 = n
    BY <1>2, <2>1
  <2> QED BY <1>4, <2>2 DEF t, n
<1> QED BY <1>1, <1>5

LEMMA SeqTally ==
    ASSUME NEW S, NEW s \in Seq(S), NEW a
    PROVE  /\ Tally(s, a) \in Nat
           /\ \A k \in 1..Len(s) : s[k] = a => Tally(s, a) >= 1
           /\ (\A k \in 1..Len(s) : s[k] # a) => Tally(s, a) = 0
<1>1. DOMAIN s = 1..Len(s) /\ Len(s) \in Int /\ 1 \in Int
  OBVIOUS
<1>2. IsFiniteSet(DOMAIN s)
  BY <1>1, FS_Interval
<1>3. QED BY <1>1, <1>2, TallyType

LEMMA TallyLast ==
    ASSUME NEW S, NEW s \in Seq(S), NEW x \in S, NEW a
    PROVE  Tally(s, a) \in Nat /\ Tally(Append(s, x), a) = Tally(s, a) + Hit(x, a)
<1> DEFINE n == Len(s)  t == Append(s, x)
<1>1. /\ n \in Nat /\ DOMAIN s = 1..n /\ DOMAIN t = 1..(n + 1) /\ t[n + 1] = x
      /\ \A k \in 1..n : t[k] = s[k]
  OBVIOUS
<1>2. IsFiniteSet(DOMAIN s)
  BY <1>1, FS_Interval
<1> HIDE DEF n, t
<1>3. OneMore(s, t, n + 1)
  BY <1>1 DEF OneMore
<1>4. Tally(s, a) \in Nat /\ Tally(t, a) = Tally(s, a) + Hit(t[n + 1], a)
  BY <1>2, <1>3, TallyMore
<1> QED BY <1>1, <1>4 DEF t

LEMMA TallyPopped ==
    ASSUME NEW S, NEW s \in Seq(S), s # <<>>, NEW a
    PROVE  LET r == SubSeq(s, 1, Len(s) - 1)
           IN  Tally(r, a) \in Nat /\ Tally(s, a) = Tally(r, a) + Hit(s[Len(s)], a)
<1> DEFINE n == Len(s)  r == SubSeq(s, 1, n - 1)
<1>1. /\ n \in Nat \ {0} /\ DOMAIN s = 1..n /\ r \in Seq(S) /\ Len(r) = n - 1
      /\ \A k \in 1..(n - 1) : r[k] = s[k]
  BY Popped
<1> HIDE DEF n, r
<1>2. DOMAIN r = 1..(n - 1)
  BY <1>1
<1>3. IsFiniteSet(DOMAIN r)
  BY <1>1, <1>2, FS_Interval
<1>4. OneMore(r, s, n)
  BY <1>1, <1>2 DEF OneMore
<1>5. Tally(r, a) \in Nat /\ Tally(s, a) = Tally(r, a) + Hit(s[n], a)
  BY <1>3, <1>4, TallyMore
<1> QED BY <1>5 DEF r, n

(* A sequence cut at a mark, and what is past it. *)
LEMMA TallyCut ==
    ASSUME NEW S, NEW s \in Seq(S), NEW m \in Nat, m <= Len(s), NEW a
    PROVE  /\ SubSeq(s, 1, m) \in Seq(S) /\ Len(SubSeq(s, 1, m)) = m
           /\ \A i \in 1..m : SubSeq(s, 1, m)[i] = s[i]
           /\ SubSeq(s, m + 1, Len(s)) \in Seq(S)
           /\ Tally(SubSeq(s, 1, m), a) \in Nat /\ Tally(SubSeq(s, m + 1, Len(s)), a) \in Nat
           /\ Tally(s, a) = Tally(SubSeq(s, 1, m), a) + Tally(SubSeq(s, m + 1, Len(s)), a)
<1> DEFINE n == Len(s)  p == SubSeq(s, 1, m)  q == SubSeq(s, m + 1, n)
           A == {i \in 1..m : s[i] = a}
           B == {i \in (m + 1)..n : s[i] = a}
           C == {i \in 1..(n - m) : q[i] = a}
           f == [i \in C |-> i + m]
<1>1. n \in Nat /\ DOMAIN s = 1..n /\ m <= n /\ \A i \in 1..n : s[i] \in S
  OBVIOUS
<1>2. /\ p \in Seq(S) /\ Len(p) = m /\ DOMAIN p = 1..m
      /\ \A i \in 1..m : p[i] = s[i]
  <2> HIDE DEF n
  <2>1. /\ 1 \in Int /\ m \in Int /\ \A i \in 1..m : s[i] \in S
    BY <1>1
  <2>2. /\ SubSeq(s, 1, m) \in Seq(S)
        /\ Len(SubSeq(s, 1, m)) = IF 1 <= m THEN m - 1 + 1 ELSE 0
        /\ \A i \in 1..(m - 1 + 1) : SubSeq(s, 1, m)[i] = s[1 + i - 1]
    BY <2>1, SubSeqProperties
  <2> HIDE DEF p
  <2>3. \A i \in 1..m : i \in 1..(m - 1 + 1) /\ 1 + i - 1 = i
    OBVIOUS
  <2>4. p \in Seq(S) /\ Len(p) = m /\ \A i \in 1..m : p[i] = s[i]
    BY <2>2, <2>3 DEF p
  <2> QED BY <2>4
<1>3. /\ q \in Seq(S) /\ Len(q) = n - m /\ DOMAIN q = 1..(n - m)
      /\ \A i \in 1..(n - m) : q[i] = s[i + m]
  <2> HIDE DEF n
  <2>1. /\ m + 1 \in Int /\ n \in Int /\ \A i \in (m + 1)..n : s[i] \in S
    BY <1>1
  <2>2. /\ SubSeq(s, m + 1, n) \in Seq(S)
        /\ Len(SubSeq(s, m + 1, n)) = IF m + 1 <= n THEN n - (m + 1) + 1 ELSE 0
        /\ \A i \in 1..(n - (m + 1) + 1) : SubSeq(s, m + 1, n)[i] = s[(m + 1) + i - 1]
    BY <2>1, SubSeqProperties
  <2> HIDE DEF q
  <2>3. \A i \in 1..(n - m) : i \in 1..(n - (m + 1) + 1) /\ (m + 1) + i - 1 = i + m
    BY <1>1
  <2>4. q \in Seq(S) /\ Len(q) = n - m /\ \A i \in 1..(n - m) : q[i] = s[i + m]
    BY <1>1, <2>2, <2>3 DEF q
  <2> QED BY <2>4
<1> HIDE DEF n, p, q
<1>4. IsFiniteSet(1..m) /\ IsFiniteSet((m + 1)..n) /\ IsFiniteSet(1..(n - m))
  <2>1. 1 \in Int /\ m \in Int /\ m + 1 \in Int /\ n \in Int /\ n - m \in Int
    BY <1>1
  <2> QED BY <2>1, FS_Interval
<1>5. IsFiniteSet(A) /\ IsFiniteSet(B) /\ IsFiniteSet(C)
  <2>1. A \in SUBSET (1..m) /\ B \in SUBSET ((m + 1)..n) /\ C \in SUBSET (1..(n - m))
    OBVIOUS
  <2> HIDE DEF A, B, C
  <2> QED BY <1>4, <2>1, FS_Subset
<1>6. A \cap B = {} /\ {i \in DOMAIN s : s[i] = a} = A \cup B
  BY <1>1
<1>7. f \in Bijection(C, B)
  <2>1. f \in [C -> B]
    BY <1>1, <1>3
  <2>2. \A i, j \in C : f[i] = f[j] => i = j
    BY <1>1
  <2>3. ASSUME NEW k \in B PROVE \E i \in C : f[i] = k
    <3>1. k - m \in 1..(n - m) /\ (k - m) + m = k
      BY <1>1
    <3>2. q[k - m] = a
      BY <1>3, <3>1
    <3> QED BY <3>1, <3>2
  <2> HIDE DEF f, B, C
  <2>4. f \in Injection(C, B)
    BY <2>1, <2>2 DEF Injection, IsInjective
  <2>5. f \in Surjection(C, B)
    BY <2>1, <2>3 DEF Surjection
  <2> QED BY <2>4, <2>5 DEF Bijection
<1>8. Tally(p, a) = Cardinality(A)
  <2>1. {i \in DOMAIN p : p[i] = a} = A
    BY <1>2
  <2> QED BY <2>1 DEF Tally
<1>9. Tally(q, a) = Cardinality(C) /\ Cardinality(C) = Cardinality(B)
  <2>1. {i \in DOMAIN q : q[i] = a} = C
    BY <1>3
  <2>2. Tally(q, a) = Cardinality(C)
    BY <2>1 DEF Tally
  <2> HIDE DEF f, B, C
  <2> QED BY <1>5, <1>7, <2>2, FS_Bijection DEF ExistsBijection
<1>10. Tally(s, a) = Cardinality(A \cup B)
  BY <1>6 DEF Tally
<1> HIDE DEF A, B, C
<1>11. /\ Cardinality(A) \in Nat /\ Cardinality(B) \in Nat
       /\ Cardinality(A \cup B) = Cardinality(A) + Cardinality(B)
  <2>1. Cardinality(A \cap B) = 0
    BY <1>6, FS_EmptySet
  <2>2. Cardinality(A) \in Nat /\ Cardinality(B) \in Nat
    BY <1>5, FS_CardinalityType
  <2>3. Cardinality(A \cup B) = Cardinality(A) + Cardinality(B) - Cardinality(A \cap B)
    BY <1>5, FS_Union
  <2> QED BY <2>1, <2>2, <2>3
<1> QED BY <1>2, <1>3, <1>8, <1>9, <1>10, <1>11 DEF p, q, n

(* The slots of some locals, as a sequence. *)
LEMMA TallySlots ==
    ASSUME NEW V, IsFiniteSet(V), NEW lo
    PROVE  LET s == SetToSeq(V)  t == [k \in DOMAIN s |-> lo[s[k]]]
           IN  /\ DOMAIN t = 1..Cardinality(V) /\ Cardinality(V) \in Nat
               /\ \A k \in DOMAIN t : \E v \in V : t[k] = lo[v]
               /\ \A a : Tally(t, a) = Cardinality({v \in V : lo[v] = a})
<1> DEFINE n == Cardinality(V)  s == SetToSeq(V)  t == [k \in DOMAIN s |-> lo[s[k]]]
<1>1. n \in Nat
  BY FS_CardinalityType
<1>2. IsFiniteSet(1..n) /\ Cardinality(1..n) = n
  <2>1. 1 \in Int /\ n \in Int /\ (IF 1 > n THEN 0 ELSE n - 1 + 1) = n
    BY <1>1
  <2> HIDE DEF n
  <2> QED BY <2>1, FS_Interval
<1>3. \E f \in [1..n -> V] : IsInjective(f)
  <2>1. ExistsBijection(1..n, V)
    BY <1>2, FS_SameCardinalityBij
  <2> QED BY <2>1 DEF ExistsBijection, Bijection, Injection
<1>4. s \in [1..n -> V] /\ IsInjective(s)
  BY <1>3 DEF SetToSeq
<1> HIDE DEF s
<1>5. s \in Surjection(1..n, V)
  <2>1. s \in Injection(1..n, V)
    BY <1>4 DEF Injection
  <2> QED BY <1>2, <2>1, FS_Injection
<1>6. DOMAIN t = 1..n /\ \A k \in DOMAIN t : \E v \in V : t[k] = lo[v]
  BY <1>4
<1>7. ASSUME NEW a PROVE Tally(t, a) = Cardinality({v \in V : lo[v] = a})
  <2> DEFINE C == {k \in 1..n : t[k] = a}
             B == {v \in V : lo[v] = a}
             f == [k \in C |-> s[k]]
  <2>1. f \in [C -> B]
    BY <1>4
  <2>2. \A i, j \in C : f[i] = f[j] => i = j
    BY <1>4 DEF IsInjective
  <2>3. ASSUME NEW v \in B PROVE \E k \in C : f[k] = v
    <3>1. PICK k \in 1..n : s[k] = v
      BY <1>5 DEF Surjection
    <3>2. t[k] = a
      BY <1>4, <3>1
    <3> QED BY <3>1, <3>2
  <2>4. Tally(t, a) = Cardinality(C)
    BY <1>6 DEF Tally
  <2>5. IsFiniteSet(C)
    BY <1>2, FS_Subset
  <2> HIDE DEF f, C, B
  <2>6. f \in Injection(C, B)
    BY <2>1, <2>2 DEF Injection, IsInjective
  <2>7. f \in Surjection(C, B)
    BY <2>1, <2>3 DEF Surjection
  <2>8. f \in Bijection(C, B)
    BY <2>6, <2>7 DEF Bijection
  <2>9. Cardinality(B) = Cardinality(C)
    BY <2>5, <2>8, FS_Bijection DEF ExistsBijection
  <2> QED BY <2>4, <2>9 DEF B
<1> QED BY <1>1, <1>6, <1>7 DEF s

-----------------------------------------------------------------------------
(* The runtime's calls on the counts.                                        *)

LEMMA Names == /\ Nil \notin Objects /\ Absent \notin Pointers /\ Garbage \notin Pointers
               /\ Absent # Garbage /\ Objects \subseteq Int /\ Nil \in Int
BY OwnershipAssumption DEF Nil, Objects, Absent, Garbage, Pointers

LEMMA Retained ==
    ASSUME NEW h \in Heaps, NEW o \in Pointers, o = Nil \/ h.rc[o] >= 1
    PROVE  /\ Retain(h, o) \in Heaps
           /\ Retain(h, o).pool = h.pool /\ Retain(h, o).faults = h.faults
           /\ \A a \in Objects : Retain(h, o).rc[a] = h.rc[a] + Hit(o, a)
<1>1. CASE o = Nil
  <2>1. \A a \in Objects : Hit(o, a) = 0 /\ h.rc[a] + 0 = h.rc[a]
    BY <1>1, Names DEF Hit, Heaps
  <2> QED BY <1>1, <2>1 DEF Retain
<1>2. CASE o # Nil
  <2>1. o \in Objects /\ h.rc[o] \in Nat /\ h.rc[o] # 0
    BY <1>2 DEF Pointers, Heaps
  <2> DEFINE rc == [h.rc EXCEPT ![o] = h.rc[o] + 1]
  <2>2. Retain(h, o) = [rc |-> rc, pool |-> h.pool, faults |-> h.faults]
    <3>1. Retain(h, o) = [h EXCEPT !.rc[o] = h.rc[o] + 1, !.faults = h.faults]
      BY <1>2, <2>1 DEF Retain
    <3> QED BY <3>1 DEF Heaps
  <2>5. rc \in [Objects -> Nat] /\ \A a \in Objects : rc[a] = IF a = o THEN h.rc[a] + 1 ELSE h.rc[a]
    BY <2>1 DEF Heaps
  <2>3. \A a \in Objects : Retain(h, o).rc[a] = IF a = o THEN h.rc[a] + 1 ELSE h.rc[a]
    <3> HIDE DEF rc
    <3> QED BY <2>2, <2>5
  <2>4. \A a \in Objects : Retain(h, o).rc[a] = h.rc[a] + Hit(o, a)
    BY <2>3 DEF Hit, Heaps
  <2>6. Retain(h, o) \in Heaps /\ Retain(h, o).pool = h.pool /\ Retain(h, o).faults = h.faults
    <3> HIDE DEF rc
    <3> QED BY <2>2, <2>5 DEF Heaps
  <2> QED BY <2>4, <2>6
<1> QED BY <1>1, <1>2

LEMMA Created ==
    ASSUME NEW h \in Heaps, NEW o \in Objects, h.rc[o] = 0
    PROVE  /\ Create(h, o) \in Heaps
           /\ Create(h, o).pool = h.pool /\ Create(h, o).faults = h.faults
           /\ \A a \in Objects : Create(h, o).rc[a] = h.rc[a] + Hit(o, a)
<1>1. \A a \in Objects : Create(h, o).rc[a] = IF a = o THEN 1 ELSE h.rc[a]
  BY DEF Create, Heaps
<1>2. \A a \in Objects : Create(h, o).rc[a] = h.rc[a] + Hit(o, a)
  BY <1>1 DEF Hit, Heaps
<1> QED BY <1>2 DEF Create, Heaps

LEMMA AllReleased ==
    ASSUME NEW h \in Heaps, NEW s \in Seq(Contents),
           \A a \in Objects : Tally(s, a) <= h.rc[a]
    PROVE  /\ ReleaseAll(h, s) \in Heaps /\ ReleaseAll(h, s).pool = h.pool
           /\ (\A k \in 1..Len(s) : s[k] # Garbage) => ReleaseAll(h, s).faults = h.faults
           /\ \A a \in Objects : ReleaseAll(h, s).rc[a] + Tally(s, a) = h.rc[a]
<1>1. \A a \in Objects : Times(s, a) = Tally(s, a) /\ Tally(s, a) \in Nat /\ h.rc[a] \in Nat
  <2>1. \A a \in Objects : Times(s, a) = Tally(s, a) /\ h.rc[a] \in Nat
    BY DEF Times, Tally, Heaps
  <2>2. \A a \in Objects : Tally(s, a) \in Nat
    BY SeqTally
  <2> QED BY <2>1, <2>2
<1>2. \A a \in Objects : ~(Times(s, a) > h.rc[a])
  BY <1>1
<1>3. \A a \in Objects : ReleaseAll(h, s).rc[a] = h.rc[a] - Tally(s, a)
  BY <1>1, <1>2 DEF ReleaseAll, Heaps
<1>4. ReleaseAll(h, s).rc \in [Objects -> Nat]
  <2>1. \A a \in Objects : h.rc[a] - Tally(s, a) \in Nat
    BY <1>1
  <2>2. ReleaseAll(h, s).rc = [a \in Objects |-> h.rc[a] - Tally(s, a)]
    BY <1>1, <1>2 DEF ReleaseAll, Heaps
  <2> QED BY <2>1, <2>2
<1>5. (\A k \in 1..Len(s) : s[k] # Garbage) => ReleaseAll(h, s).faults = h.faults
  <2>1. DOMAIN s = 1..Len(s)
    OBVIOUS
  <2> QED BY <1>2, <2>1 DEF ReleaseAll, Heaps
<1>6. ReleaseAll(h, s).pool = h.pool /\ ReleaseAll(h, s).faults \in SUBSET {"retain", "release"}
  BY DEF ReleaseAll, Heaps
<1>7. ReleaseAll(h, s) \in Heaps
  BY <1>4, <1>6 DEF ReleaseAll, Heaps
<1>8. \A a \in Objects : ReleaseAll(h, s).rc[a] + Tally(s, a) = h.rc[a]
  BY <1>1, <1>3
<1> QED BY <1>5, <1>6, <1>7, <1>8

LEMMA Released ==
    ASSUME NEW h \in Heaps, NEW o \in Pointers, o = Nil \/ h.rc[o] >= 1
    PROVE  /\ Release(h, o) \in Heaps
           /\ Release(h, o).pool = h.pool /\ Release(h, o).faults = h.faults
           /\ \A a \in Objects : Release(h, o).rc[a] + Hit(o, a) = h.rc[a]
<1> DEFINE s == <<o>>
<1>1. s \in Seq(Contents) /\ Len(s) = 1 /\ s[1] = o
  BY DEF Contents
<1>2. \A a : Tally(s, a) = Hit(o, a)
  BY TallyOne
<1>3. \A a \in Objects : Tally(s, a) <= h.rc[a]
  BY <1>2, Names DEF Hit, Heaps
<1>4. \A k \in 1..Len(s) : s[k] # Garbage
  BY <1>1, Names
<1> HIDE DEF s
<1>5. /\ ReleaseAll(h, s) \in Heaps /\ ReleaseAll(h, s).pool = h.pool
      /\ ReleaseAll(h, s).faults = h.faults
      /\ \A a \in Objects : ReleaseAll(h, s).rc[a] + Tally(s, a) = h.rc[a]
  BY <1>1, <1>3, <1>4, AllReleased
<1>6. Release(h, o) = ReleaseAll(h, s)
  BY DEF Release, s
<1> QED BY <1>2, <1>5, <1>6

(* A reference the frame has is given to the pool. *)
LEMMA Autoreleased ==
    ASSUME NEW h \in Heaps, NEW o \in Pointers, o \in h.pool => h.rc[o] >= 1
    PROVE  /\ Autorelease(h, o) \in Heaps /\ Autorelease(h, o).faults = h.faults
           /\ h.pool \subseteq Autorelease(h, o).pool
           /\ o # Nil => o \in Autorelease(h, o).pool
           /\ \A a \in Objects : Autorelease(h, o).rc[a] + Pooled(h, a) + Hit(o, a)
                                     = h.rc[a] + Pooled(Autorelease(h, o), a)
<1>0. \A a \in Objects : h.rc[a] \in Nat
  BY DEF Heaps
<1>1. CASE o = Nil
  <2>1. \A a \in Objects : Hit(o, a) = 0
    BY <1>1, Names DEF Hit
  <2> QED BY <1>0, <1>1, <2>1 DEF Autorelease, Pooled
<1>2. CASE o # Nil /\ o \in h.pool
  <2> DEFINE g == Release(h, o)
  <2>1. /\ g \in Heaps /\ g.pool = h.pool /\ g.faults = h.faults
        /\ \A a \in Objects : g.rc[a] + Hit(o, a) = h.rc[a] /\ g.rc[a] \in Nat
    <3>1. /\ g \in Heaps /\ g.pool = h.pool /\ g.faults = h.faults
          /\ \A a \in Objects : g.rc[a] + Hit(o, a) = h.rc[a]
      BY <1>2, Released
    <3> QED BY <3>1 DEF Heaps
  <2>2. Autorelease(h, o) = g
    BY <1>2 DEF Autorelease
  <2> HIDE DEF g
  <2>3. \A a \in Objects : g.rc[a] + Pooled(h, a) + Hit(o, a) = h.rc[a] + Pooled(g, a)
    BY <1>0, <2>1 DEF Pooled, Hit
  <2> QED BY <1>2, <2>1, <2>2, <2>3
<1>3. CASE o # Nil /\ o \notin h.pool
  <2>1. Autorelease(h, o) = [h EXCEPT !.pool = h.pool \cup {o}]
    BY <1>3 DEF Autorelease, Heaps
  <2>2. o \in Objects
    BY <1>3 DEF Pointers
  <2>3. \A a \in Objects : Autorelease(h, o).rc[a] + Pooled(h, a) + Hit(o, a)
                             = h.rc[a] + Pooled(Autorelease(h, o), a)
    BY <1>0, <1>3, <2>1 DEF Pooled, Hit, Heaps
  <2> QED BY <2>1, <2>2, <2>3 DEF Heaps
<1> QED BY <1>1, <1>2, <1>3

-----------------------------------------------------------------------------
(* The value in hand and the register.                                       *)

LEMMA RestType ==
    ASSUME NEW v \in Vals, NEW t \in Seq(Objects), InHand(v, t)
    PROVE  /\ RestOf(v, t) \in Seq(Objects) /\ Len(RestOf(v, t)) \in Nat
           /\ \A i \in 1..Len(RestOf(v, t)) : RestOf(v, t)[i] = t[i]
           /\ Len(RestOf(v, t)) <= Len(t) /\ Len(t) \in Nat
           /\ \A a : /\ Tally(RestOf(v, t), a) \in Nat /\ Hand(v, a) \in Nat
                     /\ Tally(t, a) = Tally(RestOf(v, t), a) + Hand(v, a)
<1>1. Len(t) \in Nat /\ \A a : Tally(t, a) \in Nat
  BY SeqTally
<1>2. CASE ~v.own
  BY <1>1, <1>2 DEF RestOf, Hand
<1>3. CASE v.own
  <2>1. t # <<>> /\ t[Len(t)] = v.o
    BY <1>3 DEF InHand
  <2> DEFINE r == SubSeq(t, 1, Len(t) - 1)
  <2>2. r \in Seq(Objects) /\ Len(r) = Len(t) - 1 /\ \A k \in 1..(Len(t) - 1) : r[k] = t[k]
    BY <2>1, Popped
  <2>3. \A a : Tally(r, a) \in Nat /\ Tally(t, a) = Tally(r, a) + Hit(t[Len(t)], a)
    BY <2>1, TallyPopped
  <2>4. RestOf(v, t) = r /\ \A a : Hand(v, a) = Hit(v.o, a) /\ Hit(v.o, a) \in Nat
    BY <1>3 DEF RestOf, Hand, Hit
  <2>5. Len(r) \in Nat /\ Len(r) <= Len(t)
    <3> HIDE DEF r
    <3> QED BY <2>2
  <2> HIDE DEF r
  <2> QED BY <1>1, <2>1, <2>2, <2>3, <2>4, <2>5
<1> QED BY <1>2, <1>3 DEF Vals

(* takeOwned finds the value in hand at the end of the register. *)
LEMMA Taken ==
    ASSUME val \in Vals, temps \in Seq(Objects), InHand(val, temps)
    PROVE  Take(val) = Rest /\ (Registered(val) <=> val.own)
<1>1. Registered(val) <=> val.own
  <2>1. ASSUME val.own PROVE \E k \in DOMAIN temps : temps[k] = val.o
    <3>1. temps # <<>> /\ temps[Len(temps)] = val.o
      BY <2>1 DEF InHand
    <3>2. Len(temps) \in DOMAIN temps
      BY <3>1
    <3> QED BY <3>1, <3>2
  <2> QED BY <2>1 DEF Registered
<1>2. CASE ~val.own
  BY <1>1, <1>2 DEF Take, Rest, RestOf
<1>3. CASE val.own
  <2> DEFINE n == Len(temps)
             P(k) == temps[k] = val.o /\ \A j \in DOMAIN temps : temps[j] = val.o => j <= k
  <2>1. n \in Nat \ {0} /\ DOMAIN temps = 1..n /\ temps[n] = val.o
    BY <1>3 DEF InHand
  <2>2. \A k \in DOMAIN temps : P(k) <=> k = n
    <3> HIDE DEF n
    <3>1. \A k \in DOMAIN temps : P(k) => k >= n /\ k <= n
      BY <2>1
    <3>2. P(n)
      BY <2>1
    <3> QED BY <2>1, <3>1, <3>2
  <2>3. (CHOOSE k \in DOMAIN temps : P(k)) = n
    <3> HIDE DEF P, n
    <3> QED BY <2>1, <2>2
  <2>4. Take(val) = RemoveAt(temps, n)
    BY <1>1, <1>3, <2>3 DEF Take
  <2>5. SubSeq(temps, n + 1, Len(temps)) = <<>>
    <3>1. n + 1 > n
      BY <2>1
    <3> QED BY <3>1
  <2>6. SubSeq(temps, 1, n - 1) \in Seq(Objects)
    BY <2>1, Popped
  <2>7. RemoveAt(temps, n) = SubSeq(temps, 1, n - 1)
    <3> DEFINE r == SubSeq(temps, 1, n - 1)
    <3>1. RemoveAt(temps, n) = r \o <<>>
      BY <2>5 DEF RemoveAt
    <3>2. r \in Seq(Objects)
      BY <2>6
    <3> HIDE DEF r
    <3>3. r \o <<>> = r
      BY <3>2
    <3> QED BY <3>1, <3>3 DEF r
  <2>8. Rest = SubSeq(temps, 1, n - 1)
    BY <1>3 DEF Rest, RestOf
  <2> QED BY <1>1, <2>4, <2>7, <2>8
<1> QED BY <1>2, <1>3 DEF Vals

(* What a context that takes ownership does to the counts: one more reference but
   for the one in hand. *)
LEMMA Claimed ==
    ASSUME val \in Vals, temps \in Seq(Objects), InHand(val, temps), rt \in Heaps,
           val.o = Nil \/ rt.rc[val.o] >= 1, val.own => val.o # Nil
    PROVE  /\ Claim(rt, val) \in Heaps
           /\ Claim(rt, val).pool = rt.pool /\ Claim(rt, val).faults = rt.faults
           /\ \A a \in Objects : Claim(rt, val).rc[a] + Hand(val, a) = rt.rc[a] + Hit(val.o, a)
<1>1. Registered(val) <=> val.own
  BY Taken
<1>0. \A a \in Objects : rt.rc[a] \in Nat /\ Hit(val.o, a) \in Nat
  BY DEF Heaps, Hit
<1>2. CASE val.own
  BY <1>0, <1>1, <1>2 DEF Claim, Hand
<1>3. CASE ~val.own
  <2>1. Claim(rt, val) = Retain(rt, val.o) /\ \A a : Hand(val, a) = 0
    BY <1>1, <1>3 DEF Claim, Hand
  <2>2. val.o \in Pointers
    BY DEF Vals
  <2>3. /\ Retain(rt, val.o) \in Heaps
        /\ Retain(rt, val.o).pool = rt.pool /\ Retain(rt, val.o).faults = rt.faults
        /\ \A a \in Objects : Retain(rt, val.o).rc[a] = rt.rc[a] + Hit(val.o, a)
    BY <2>2, Retained
  <2> QED BY <1>0, <2>1, <2>3
<1> QED BY <1>2, <1>3 DEF Vals

(* A value put on the register. *)
LEMMA PutOn ==
    ASSUME NEW t \in Seq(Objects), NEW o \in Pointers
    PROVE  /\ Register(t, o) \in Seq(Objects) /\ Owned(o) \in Vals
           /\ InHand(Owned(o), Register(t, o))
           /\ RestOf(Owned(o), Register(t, o)) = t
           /\ Owned(o).o = o /\ (Owned(o).own => o # Nil)
           /\ \A a \in Objects : Hand(Owned(o), a) = Hit(o, a)
<1>0. /\ Owned(o) \in Vals /\ Owned(o).o = o /\ (Owned(o).own <=> o # Nil)
  BY DEF Owned, Vals
<1>1. \A a \in Objects : Hand(Owned(o), a) = Hit(o, a)
  BY <1>0, Names DEF Hand, Hit
<1>2. CASE o = Nil
  BY <1>0, <1>1, <1>2 DEF Register, InHand, RestOf
<1>3. CASE o # Nil
  <2> DEFINE u == Append(t, o)
  <2>1. o \in Objects
    BY <1>3 DEF Pointers
  <2>2. /\ u \in Seq(Objects) /\ Len(t) \in Nat /\ Len(u) = Len(t) + 1
        /\ u[Len(t) + 1] = o /\ u # <<>> /\ SubSeq(u, 1, Len(t)) = t
    BY <2>1, Appended
  <2>3. Register(t, o) = u
    BY <1>3 DEF Register
  <2> HIDE DEF u
  <2>4. Len(u) - 1 = Len(t)
    BY <2>2
  <2>5. InHand(Owned(o), u) /\ RestOf(Owned(o), u) = t
    BY <1>0, <1>3, <2>2, <2>4 DEF InHand, RestOf
  <2> QED BY <1>0, <1>1, <2>2, <2>3, <2>5
<1> QED BY <1>2, <1>3

-----------------------------------------------------------------------------
(* The frames, when one is opened, left or turned into another.              *)

(* c is d but for its last frame; the same but for the last frame's kind. *)
Under(c, d)    == Len(c) = Len(d) - 1 /\ \A k \in 1..Len(c) : d[k] = c[k]
Retopped(c, d) == Len(c) = Len(d) /\ \A k \in 1..(Len(c) - 1) : d[k] = c[k]

LEMMA Places ==
    ASSUME NEW S, NEW s \in Seq(S)
    PROVE  /\ Len(s) \in Nat /\ \A k \in 1..Len(s) : s[k] \in S
           /\ s # <<>> => Len(s) \in Nat \ {0} /\ Len(s) \in 1..Len(s) /\ s[Len(s)] \in S
           /\ Len(s) = 0 <=> s = <<>>
OBVIOUS

LEMMA FrameFacts ==
    ASSUME NEW f \in FrameRecords
    PROVE  /\ f.mark \in Nat /\ f.o \in Pointers
           /\ f.k \in {"init", "assign"} => f.name \in Locals
           /\ ~Marked(f) => f.mark = 0
           /\ f.k \in {"receiver", "argument"} => f.name \in {"plain", "init"}
<1>1. CASE f \in [k : {"expr", "return", "autoreleasing", "self"}, name : {""}, o : {Nil}, mark : {0}]
  <2>1. f.k \in {"expr", "return", "autoreleasing", "self"} /\ f.o = Nil /\ f.mark = 0
    BY <1>1
  <2>2. f.k \notin {"init", "assign", "receiver", "argument"}
    BY <2>1
  <2> QED BY <2>1, <2>2 DEF Pointers
<1>2. CASE f \in [k : {"elvis", "test", "arm"}, name : {""}, o : {Nil}, mark : Nat]
  BY <1>2 DEF Pointers, Marked
<1>3. CASE f \in [k : {"receiver", "argument"}, name : {"plain", "init"}, o : Pointers, mark : {0}]
  BY <1>3 DEF Marked
<1>4. CASE f \in [k : {"init", "assign"}, name : Locals, o : {Nil}, mark : {0}]
  BY <1>4 DEF Pointers, Marked
<1>5. CASE f \in [k : {"block", "result"}, name : SUBSET Locals, o : {Nil}, mark : {0}]
  BY <1>5 DEF Pointers, Marked
<1> QED BY <1>1, <1>2, <1>3, <1>4, <1>5 DEF FrameRecords, Marked

LEMMA Opened ==
    ASSUME NEW c \in Seq(FrameRecords), NEW f \in FrameRecords
    PROVE  LET d == Append(c, f)
           IN  d \in Seq(FrameRecords) /\ Under(c, d) /\ d[Len(d)] = f /\ d # <<>>
                 /\ Len(d) \in Nat /\ Len(c) \in Nat
BY Appended DEF Under

LEMMA Closed ==
    ASSUME NEW c \in Seq(FrameRecords), c # <<>>
    PROVE  LET d == SubSeq(c, 1, Len(c) - 1)
           IN  d \in Seq(FrameRecords) /\ Under(d, c) /\ Len(d) \in Nat /\ Len(c) \in Nat \ {0}
                 /\ c[Len(c)] \in FrameRecords
<1>1. Len(c) \in Nat \ {0} /\ c[Len(c)] \in FrameRecords
  OBVIOUS
<1> DEFINE d == SubSeq(c, 1, Len(c) - 1)
<1>2. d \in Seq(FrameRecords) /\ Len(d) = Len(c) - 1 /\ \A k \in 1..(Len(c) - 1) : d[k] = c[k]
  BY Popped
<1>3. Under(d, c)
  <2> HIDE DEF d
  <2> QED BY <1>2 DEF Under
<1> HIDE DEF d
<1>4. Len(d) \in Nat
  BY <1>2
<1> QED BY <1>1, <1>2, <1>3, <1>4 DEF d

LEMMA Turned ==
    ASSUME NEW c \in Seq(FrameRecords), c # <<>>, NEW f \in FrameRecords
    PROVE  LET d == Append(SubSeq(c, 1, Len(c) - 1), f)
           IN  d \in Seq(FrameRecords) /\ Retopped(c, d) /\ d[Len(c)] = f /\ d # <<>>
                 /\ Len(c) \in Nat \ {0} /\ c[Len(c)] \in FrameRecords
<1> DEFINE b == SubSeq(c, 1, Len(c) - 1)
           d == Append(b, f)
<1>1. /\ b \in Seq(FrameRecords) /\ Len(b) = Len(c) - 1 /\ Len(c) \in Nat \ {0} /\ Len(b) \in Nat
      /\ c[Len(c)] \in FrameRecords /\ \A k \in 1..Len(b) : c[k] = b[k]
  BY Closed DEF Under
<1> HIDE DEF b
<1>2. /\ d \in Seq(FrameRecords) /\ Len(d) = Len(b) + 1 /\ d[Len(b) + 1] = f /\ d # <<>>
      /\ \A k \in 1..Len(b) : d[k] = b[k]
  BY <1>1, Appended
<1> HIDE DEF d
<1>3. Len(d) = Len(c) /\ Len(b) + 1 = Len(c) /\ \A k \in 1..(Len(c) - 1) : d[k] = c[k]
  BY <1>1, <1>2
<1> QED BY <1>1, <1>2, <1>3 DEF Retopped, d, b

(* Where a frame may be opened. *)
MayOpen(c, f, ini, base) ==
    /\ f.k \in {"expr", "init", "return"} => c = <<>> \/ c[Len(c)].k = "block"
    /\ c # <<>> => c[Len(c)].k # "self" /\ ~(c[Len(c)].k = "return" /\ ini)
    /\ f.k = "self" => ini
    /\ f.k = "block" => base = 0 /\ \A j \in 1..Len(c) : ~IsTaken(c[j])
    /\ f.mark <= base /\ (Marked(f) => f.mark = base)
    /\ f.k = "return" /\ "return in an initializer" \notin Shapes =>
           \A j \in 1..Len(c) : c[j].k # "init"

LEMMA NestedOpened ==
    ASSUME NEW c \in Seq(FrameRecords), NEW d \in Seq(FrameRecords), Under(c, d), d # <<>>,
           NEW ini, NEW base \in Nat, Nested(c, ini, base), MayOpen(c, d[Len(d)], ini, base)
    PROVE  Nested(d, ini, base)
<1> DEFINE f == d[Len(d)]
<1>1. /\ Len(d) \in Nat \ {0} /\ Len(c) = Len(d) - 1 /\ Len(c) \in Nat
      /\ \A k \in 1..Len(c) : d[k] = c[k] /\ c[k].mark \in Nat
      /\ Len(c) = 0 <=> c = <<>>
  <2>1. Len(d) \in Nat \ {0} /\ Len(c) \in Nat /\ \A k \in 1..Len(c) : c[k] \in FrameRecords
    BY Places
  <2> QED BY <2>1, FrameFacts, Places DEF Under
<1> HIDE DEF f
<1>2. \A k \in 1..Len(c) : FrameOK(c, k, ini, base)
  BY DEF Nested
<1>3. ASSUME NEW k \in 1..Len(c) PROVE FrameOK(d, k, ini, base)
  <2>1. FrameOK(c, k, ini, base) /\ d[k] = c[k] /\ k \in Nat
    BY <1>1, <1>2
  <2>2. k # 1 => d[k - 1] = c[k - 1]
    BY <1>1
  <2>3. \A j \in 1..(k - 1) : j \in 1..Len(c) /\ d[j] = c[j]
    BY <1>1
  <2>4. k = Len(c) => d[k].k # "self" /\ ~(d[k].k = "return" /\ ini)
    <3>1. c # <<>>
      BY <1>1
    <3> QED BY <2>1, <3>1 DEF MayOpen
  <2> QED BY <2>1, <2>2, <2>3, <2>4 DEF FrameOK
<1>4. FrameOK(d, Len(d), ini, base)
  <2>1. c # <<>> => d[Len(d) - 1] = c[Len(c)]
    BY <1>1
  <2>2. c = <<>> => Len(d) = 1
    BY <1>1
  <2>3. \A j \in 1..(Len(d) - 1) : j \in 1..Len(c) /\ d[j] = c[j] /\ d[j].mark <= base /\ d[j].mark \in Nat
    BY <1>1, <1>2 DEF FrameOK
  <2>4. base = 0 => \A j \in 1..(Len(d) - 1) : d[j].mark = 0
    BY <2>3
  <2>5. MayOpen(c, f, ini, base) /\ d[Len(d)] = f
    BY DEF f
  <2> QED BY <2>1, <2>2, <2>3, <2>4, <2>5 DEF FrameOK, MayOpen
<1>5. \A k \in 1..Len(d) : k \in 1..Len(c) \/ k = Len(d)
  BY <1>1
<1> QED BY <1>3, <1>4, <1>5 DEF Nested

(* What is registered once frame f is left, or has become another: what there was,
   or what there was at its mark, or nothing at the end of a statement. *)
Leaves(f, base, after) == \/ after = base
                          \/ Marked(f) /\ after = f.mark
                          \/ f.k \in {"expr", "init"}

LEMMA MarksBelow ==
    ASSUME NEW c \in Seq(FrameRecords), c # <<>>, NEW ini, NEW base \in Nat, NEW after \in Nat,
           Nested(c, ini, base), Leaves(c[Len(c)], base, after)
    PROVE  \A k \in 1..(Len(c) - 1) : c[k].mark <= after
<1> DEFINE n == Len(c)  f == c[n]
<1>0. n = Len(c)
  OBVIOUS
<1>1. n \in Nat \ {0} /\ \A k \in 1..n : c[k].mark \in Nat /\ FrameOK(c, k, ini, base)
  <2>1. n \in Nat \ {0} /\ \A k \in 1..n : c[k] \in FrameRecords
    BY Places
  <2> QED BY <2>1, FrameFacts DEF Nested
<1>2. /\ n \in 1..n /\ \A k \in 1..n : c[k].mark <= base
      /\ Marked(f) => \A k \in 1..(n - 1) : c[k].mark <= f.mark
      /\ f.k \in {"expr", "init"} => n = 1 \/ c[n - 1].k = "block"
      /\ \A k \in 1..n : c[k].k = "block" => \A j \in 1..(k - 1) : c[j].mark = 0
  <2> HIDE DEF n
  <2>1. n \in 1..n /\ FrameOK(c, n, ini, base)
    BY <1>1
  <2> QED BY <1>1, <2>1 DEF FrameOK
<1>6. \A k \in 1..(n - 1) : k \in 1..n
  BY <1>1
<1> HIDE DEF n, f
<1>3. CASE after = base
  BY <1>0, <1>2, <1>3, <1>6
<1>4. CASE Marked(f) /\ after = f.mark
  BY <1>0, <1>2, <1>4
<1>5. CASE f.k \in {"expr", "init"}
  <2>2. CASE n = 1
    BY <1>0, <2>2
  <2>3. CASE n # 1
    <3>1. n - 1 \in 1..n /\ c[n - 1].k = "block"
      BY <1>1, <1>2, <1>5, <2>3
    <3>2. c[n - 1].mark = 0
      <4>1. c[n - 1] \in FrameRecords
        BY <3>1, Places DEF n
      <4> QED BY <3>1, <4>1, FrameFacts DEF Marked
    <3>3. \A j \in 1..((n - 1) - 1) : c[j].mark = 0
      BY <1>2, <3>1
    <3>4. \A k \in 1..(n - 1) : k = n - 1 \/ k \in 1..((n - 1) - 1)
      BY <1>1
    <3>5. \A k \in 1..(n - 1) : c[k].mark = 0
      BY <3>2, <3>3, <3>4
    <3> QED BY <1>0, <3>5
  <2> QED BY <2>2, <2>3
<1> QED BY <1>3, <1>4, <1>5 DEF Leaves, n, f

LEMMA NestedClosed ==
    ASSUME NEW c \in Seq(FrameRecords), NEW d \in Seq(FrameRecords), Under(d, c), c # <<>>,
           NEW ini, NEW base \in Nat, NEW after \in Nat,
           Nested(c, ini, base), Leaves(c[Len(c)], base, after)
    PROVE  Nested(d, ini, after)
<1>1. /\ Len(c) \in Nat \ {0} /\ Len(d) = Len(c) - 1
      /\ \A k \in 1..Len(d) : d[k] = c[k] /\ d[k].mark <= after
  BY MarksBelow DEF Under
<1>2. ASSUME NEW k \in 1..Len(d) PROVE FrameOK(d, k, ini, after)
  <2> DEFINE m == Len(d)  n == Len(c)
  <2>0. m \in Nat /\ n = m + 1 /\ k \in 1..m /\ \A i \in 1..m : d[i] = c[i]
    BY <1>1
  <2> HIDE DEF m, n
  <2>1. k \in 1..n /\ k # n /\ d[k] = c[k] /\ (k # 1 => d[k - 1] = c[k - 1])
    BY <2>0
  <2>2. FrameOK(c, k, ini, base)
    BY <2>1 DEF Nested, n
  <2>3. \A j \in 1..(k - 1) : d[j] = c[j]
    BY <1>1
  <2>4. /\ k # n /\ d[k] = c[k] /\ d[k].mark <= after
        /\ (k # 1 => d[k - 1] = c[k - 1])
        /\ \A j \in 1..(k - 1) : d[j] = c[j]
    BY <1>1, <2>1, <2>3
  <2>5. c[k].k # "self" /\ (c[k].k = "return" => ~ini)
    BY <2>2, <2>4 DEF FrameOK, n
  <2> QED BY <2>2, <2>4, <2>5 DEF FrameOK
<1> QED BY <1>2 DEF Nested

LEMMA NestedTurned ==
    ASSUME NEW c \in Seq(FrameRecords), NEW d \in Seq(FrameRecords), Retopped(c, d), c # <<>>,
           NEW ini, NEW base \in Nat, NEW after \in Nat,
           Nested(c, ini, base), Leaves(c[Len(c)], base, after), NEW f, f = d[Len(c)],
           f.k \notin {"expr", "init", "return", "self", "block"},
           f.mark <= after, Marked(f) => Marked(c[Len(c)]) /\ f.mark = c[Len(c)].mark
    PROVE  Nested(d, ini, after)
<1> DEFINE n == Len(c)
<1>1. /\ n \in Nat \ {0} /\ Len(d) = n
      /\ \A k \in 1..(n - 1) : d[k] = c[k] /\ d[k].mark <= after
  BY MarksBelow DEF Retopped
<1> HIDE DEF n
<1>2. ASSUME NEW k \in 1..(n - 1) PROVE FrameOK(d, k, ini, after)
  <2>1. k \in 1..n /\ k # n /\ d[k] = c[k] /\ (k # 1 => d[k - 1] = c[k - 1])
    BY <1>1
  <2>2. FrameOK(c, k, ini, base)
    BY <2>1 DEF Nested, n
  <2>3. \A j \in 1..(k - 1) : d[j] = c[j]
    BY <1>1
  <2> QED BY <1>1, <2>1, <2>2, <2>3 DEF FrameOK, n
<1>3. FrameOK(d, n, ini, after)
  <2>1. n \in 1..n /\ d[n] = f
    BY <1>1 DEF n
  <2>2. FrameOK(c, n, ini, base)
    BY <2>1 DEF Nested, n
  <2>3. Marked(f) => \A j \in 1..(n - 1) : d[j].mark <= f.mark
    BY <1>1, <2>2 DEF FrameOK, n
  <2> QED BY <2>1, <2>3 DEF FrameOK
<1>4. \A k \in 1..n : k \in 1..(n - 1) \/ k = n
  BY <1>1
<1> QED BY <1>1, <1>2, <1>3, <1>4 DEF Nested

-----------------------------------------------------------------------------
(* The slots of the locals.                                                  *)

(* What opening frame f does to the locals. *)
Opens(f, lo, after) ==
    /\ \/ f.k # "init" /\ after = lo
       \/ f.k = "init" /\ lo[f.name] = Absent /\ after = [lo EXCEPT ![f.name] = Garbage]
    /\ f.k = "assign" => lo[f.name] \in Pointers
    /\ IsBlock(f) => \A v \in Locals : lo[v] # Absent => v \in f.name

LEMMA SlotsOpened ==
    ASSUME NEW c \in Seq(FrameRecords), NEW d \in Seq(FrameRecords), Under(c, d), d # <<>>,
           NEW lo \in [Locals -> Contents], NEW after \in [Locals -> Contents],
           SlotsOK(c, lo), Opens(d[Len(d)], lo, after)
    PROVE  SlotsOK(d, after)
<1> DEFINE f == d[Len(d)]
<1>0. Opens(f, lo, after)
  OBVIOUS
<1>1. /\ Len(d) \in Nat \ {0} /\ Len(c) = Len(d) - 1
      /\ \A k \in 1..Len(c) : d[k] = c[k] /\ (c[k].k \in {"init", "assign"} => c[k].name \in Locals)
      /\ f.k \in {"init", "assign"} => f.name \in Locals
  <2>1. /\ Len(d) \in Nat \ {0} /\ \A k \in 1..Len(c) : c[k] \in FrameRecords
        /\ f \in FrameRecords
    BY Places
  <2> HIDE DEF f
  <2> QED BY <2>1, FrameFacts DEF Under
<1> DEFINE m == Len(c)  n == Len(d)
<1>7. n \in 1..n /\ d[n] = f /\ \A k \in 1..m : k \in 1..n
  BY <1>1
<1> HIDE DEF f
<1>2. \A k \in 1..n : k \in 1..m \/ k = n
  BY <1>1
<1>3. \A v \in Locals : lo[v] # Absent => after[v] = lo[v]
  BY <1>0, <1>1 DEF Opens
<1>4. ASSUME NEW k \in 1..m, NEW v \in Locals, Outlives(c, k, v), lo[v] # Absent
      PROVE  Outlives(d, k, v)
  <2>1. \A j \in (k + 1)..n : j \in (k + 1)..m \/ j = n
    BY <1>1
  <2>2. \A j \in (k + 1)..m : j \in 1..m
    BY <1>1
  <2>3. IsBlock(f) => v \in f.name
    BY <1>0, <1>4 DEF Opens
  <2> QED BY <1>1, <1>4, <1>7, <2>1, <2>2, <2>3 DEF Outlives
<1>5. \A v : Outlives(d, n, v)
  BY <1>1 DEF Outlives
<1>6. Garbage # Absent /\ Absent \notin Pointers
  BY Names
<1> HIDE DEF m, n
<1>8. /\ \A v \in Locals : lo[v] = Garbage =>
             \E k \in 1..m : c[k].k = "init" /\ c[k].name = v
      /\ \A k \in 1..m : c[k].k = "init" => lo[c[k].name] = Garbage /\ Outlives(c, k, c[k].name)
      /\ \A k, j \in 1..m : c[k].k = "init" /\ c[j].k = "init" /\ c[k].name = c[j].name => k = j
      /\ \A k \in 1..m : c[k].k = "assign" => lo[c[k].name] \in Pointers /\ Outlives(c, k, c[k].name)
  BY DEF SlotsOK, m
<1>9. \A k \in 1..m : d[k] = c[k] /\ (c[k].k \in {"init", "assign"} => c[k].name \in Locals)
  BY <1>1 DEF m
<1>10. ASSUME NEW v \in Locals, after[v] = Garbage
       PROVE  \E k \in 1..n : d[k].k = "init" /\ d[k].name = v
  <2>1. CASE lo[v] = Garbage
    BY <1>7, <1>8, <1>9, <2>1
  <2>2. CASE lo[v] # Garbage
    <3>1. f.k = "init" /\ v = f.name
      BY <1>0, <1>1, <1>10, <2>2 DEF Opens
    <3> QED BY <1>7, <3>1
  <2> QED BY <2>1, <2>2
<1>11. ASSUME NEW k \in 1..n, d[k].k = "init"
       PROVE  after[d[k].name] = Garbage /\ Outlives(d, k, d[k].name)
  <2>1. CASE k \in 1..m
    BY <1>3, <1>4, <1>6, <1>8, <1>9, <1>11, <2>1
  <2>2. CASE k = n
    BY <1>0, <1>1, <1>5, <1>7, <1>11, <2>2 DEF Opens
  <2> QED BY <1>2, <2>1, <2>2
<1>12. ASSUME NEW k \in 1..n, NEW j \in 1..n,
              d[k].k = "init", d[j].k = "init", d[k].name = d[j].name
       PROVE  k = j
  <2>1. \A i \in 1..m : c[i].k = "init" /\ f.k = "init" => c[i].name # f.name
    BY <1>0, <1>6, <1>8 DEF Opens
  <2> QED BY <1>2, <1>7, <1>8, <1>9, <1>12, <2>1
<1>13. ASSUME NEW k \in 1..n, d[k].k = "assign"
       PROVE  after[d[k].name] \in Pointers /\ Outlives(d, k, d[k].name)
  <2>1. CASE k \in 1..m
    <3>1. /\ c[k].name \in Locals /\ lo[c[k].name] \in Pointers /\ Outlives(c, k, c[k].name)
          /\ d[k] = c[k]
      BY <1>8, <1>9, <1>13, <2>1
    <3> QED BY <1>3, <1>4, <1>6, <2>1, <3>1
  <2>2. CASE k = n
    BY <1>0, <1>1, <1>5, <1>7, <1>13, <2>2 DEF Opens
  <2> QED BY <1>2, <2>1, <2>2
<1>14. n = Len(d)
  BY DEF n
<1> QED BY <1>10, <1>11, <1>12, <1>13, <1>14 DEF SlotsOK

(* What leaving frame f does to the locals. *)
Ends(f, lo, after) == \A v \in Locals :
    /\ after[v] = Garbage => lo[v] = Garbage /\ ~(f.k = "init" /\ f.name = v)
    /\ lo[v] = Garbage /\ ~(f.k = "init" /\ f.name = v) /\ (IsBlock(f) => v \in f.name) =>
           after[v] = Garbage
    /\ lo[v] \in Pointers /\ (IsBlock(f) => v \in f.name) => after[v] \in Pointers

LEMMA SlotsClosed ==
    ASSUME NEW c \in Seq(FrameRecords), NEW d \in Seq(FrameRecords), Under(d, c), c # <<>>,
           NEW lo \in [Locals -> Contents], NEW after \in [Locals -> Contents],
           SlotsOK(c, lo), Ends(c[Len(c)], lo, after)
    PROVE  SlotsOK(d, after)
<1> DEFINE m == Len(d)  n == Len(c)  f == c[n]
<1>0. Ends(f, lo, after)
  OBVIOUS
<1>1. /\ n \in Nat \ {0} /\ m = n - 1 /\ \A k \in 1..m : d[k] = c[k] /\ k \in 1..n /\ k # n
      /\ n \in 1..n /\ c[n] = f
      /\ \A k \in 1..n : c[k].k \in {"init", "assign"} => c[k].name \in Locals
  <2>1. n \in Nat \ {0} /\ \A k \in 1..n : c[k] \in FrameRecords
    BY Places
  <2>2. m = n - 1 /\ \A k \in 1..m : d[k] = c[k]
    BY DEF Under
  <2> HIDE DEF n, m
  <2>3. n \in 1..n /\ \A k \in 1..m : k \in 1..n /\ k # n
    BY <2>1, <2>2
  <2>4. \A k \in 1..n : c[k].k \in {"init", "assign"} => c[k].name \in Locals
    BY <2>1, FrameFacts
  <2> QED BY <2>1, <2>2, <2>3, <2>4
<1>2. /\ \A v \in Locals : lo[v] = Garbage =>
             \E k \in 1..n : c[k].k = "init" /\ c[k].name = v
      /\ \A k \in 1..n : c[k].k = "init" => lo[c[k].name] = Garbage /\ Outlives(c, k, c[k].name)
      /\ \A k, j \in 1..n : c[k].k = "init" /\ c[j].k = "init" /\ c[k].name = c[j].name => k = j
      /\ \A k \in 1..n : c[k].k = "assign" => lo[c[k].name] \in Pointers /\ Outlives(c, k, c[k].name)
  BY DEF SlotsOK
<1>3. ASSUME NEW k \in 1..m, NEW v, Outlives(c, k, v)
      PROVE  Outlives(d, k, v) /\ (IsBlock(f) => v \in f.name)
  <2> HIDE DEF f
  <2>1. n \in (k + 1)..n /\ \A j \in (k + 1)..m : j \in (k + 1)..n /\ d[j] = c[j]
    BY <1>1
  <2> QED BY <1>1, <1>3, <2>1 DEF Outlives
<1> HIDE DEF m, n, f
<1>4. \A v \in Locals : after[v] = Garbage => \E k \in 1..m : d[k].k = "init" /\ d[k].name = v
  <2>1. \A k \in 1..n : k \in 1..m \/ k = n
    BY <1>1
  <2> QED BY <1>0, <1>1, <1>2, <2>1 DEF Ends
<1>5. \A k \in 1..m : d[k].k = "init" => after[d[k].name] = Garbage /\ Outlives(d, k, d[k].name)
  <2> SUFFICES ASSUME NEW k \in 1..m, c[k].k = "init"
               PROVE  after[c[k].name] = Garbage /\ Outlives(d, k, c[k].name)
    BY <1>1
  <2>1. c[k].name \in Locals /\ lo[c[k].name] = Garbage /\ Outlives(c, k, c[k].name)
    BY <1>1, <1>2
  <2>2. ~(f.k = "init" /\ f.name = c[k].name)
    BY <1>1, <1>2
  <2> QED BY <1>0, <1>3, <2>1, <2>2 DEF Ends
<1>6. \A k, j \in 1..m : d[k].k = "init" /\ d[j].k = "init" /\ d[k].name = d[j].name => k = j
  BY <1>1, <1>2
<1>7. \A k \in 1..m : d[k].k = "assign" => after[d[k].name] \in Pointers /\ Outlives(d, k, d[k].name)
  BY <1>0, <1>1, <1>2, <1>3 DEF Ends
<1> QED BY <1>4, <1>5, <1>6, <1>7 DEF SlotsOK, m

LEMMA SlotsTurned ==
    ASSUME NEW c \in Seq(FrameRecords), NEW d \in Seq(FrameRecords), Retopped(c, d), c # <<>>,
           NEW lo, SlotsOK(c, lo), NEW f, f = d[Len(c)],
           f.k \notin {"init", "assign"}, c[Len(c)].k \notin {"init", "assign"},
           IsBlock(f) => IsBlock(c[Len(c)]) /\ f.name = c[Len(c)].name
    PROVE  SlotsOK(d, lo)
<1> DEFINE n == Len(c)
<1>1. n \in Nat \ {0} /\ Len(d) = n /\ n \in 1..n /\ d[n] = f /\ \A k \in 1..(n - 1) : d[k] = c[k]
  BY DEF Retopped
<1> HIDE DEF n
<1>2. \A k \in 1..n : k = n \/ k \in 1..(n - 1)
  BY <1>1
<1>3. \A k \in 1..n : d[k].k \in {"init", "assign"} \/ c[k].k \in {"init", "assign"} => d[k] = c[k]
  BY <1>1, <1>2 DEF n
<1>4. ASSUME NEW k \in 1..n, NEW v, Outlives(c, k, v) PROVE Outlives(d, k, v)
  <2>1. \A j \in (k + 1)..n : j = n \/ j \in 1..(n - 1)
    BY <1>1
  <2> QED BY <1>1, <1>4, <2>1 DEF Outlives, n
<1>5. n = Len(c)
  BY DEF n
<1>6. /\ \A v \in Locals : lo[v] = Garbage =>
             \E k \in 1..n : c[k].k = "init" /\ c[k].name = v
      /\ \A k \in 1..n : c[k].k = "init" => lo[c[k].name] = Garbage /\ Outlives(c, k, c[k].name)
      /\ \A k, j \in 1..n : c[k].k = "init" /\ c[j].k = "init" /\ c[k].name = c[j].name => k = j
      /\ \A k \in 1..n : c[k].k = "assign" => lo[c[k].name] \in Pointers /\ Outlives(c, k, c[k].name)
  BY <1>5 DEF SlotsOK
<1>7. \A v \in Locals : lo[v] = Garbage => \E k \in 1..n : d[k].k = "init" /\ d[k].name = v
  BY <1>3, <1>6
<1>8. \A k \in 1..n : d[k].k = "init" => lo[d[k].name] = Garbage /\ Outlives(d, k, d[k].name)
  BY <1>3, <1>4, <1>6
<1>9. \A k, j \in 1..n : d[k].k = "init" /\ d[j].k = "init" /\ d[k].name = d[j].name => k = j
  BY <1>3, <1>6
<1>10. \A k \in 1..n : d[k].k = "assign" => lo[d[k].name] \in Pointers /\ Outlives(d, k, d[k].name)
  BY <1>3, <1>4, <1>6
<1>11. Len(d) = n
  BY <1>1
<1> QED BY <1>7, <1>8, <1>9, <1>10, <1>11 DEF SlotsOK

-----------------------------------------------------------------------------
(* The receivers that wait.                                                  *)

(* Opening frame f takes nothing from a receiver. *)
Spares(c, f, lo, rest) ==
    /\ f.k # "argument"
    /\ IsBlock(f) => rest = <<>>
    /\ Marked(f) => f.mark = Len(rest)
    /\ f.k = "assign" => \A k \in 1..Len(c) : c[k].k = "argument" => c[k].o # lo[f.name]

LEMMA WaitOpened ==
    ASSUME NEW c \in Seq(FrameRecords), NEW d \in Seq(FrameRecords), Under(c, d), d # <<>>,
           NEW lo \in [Locals -> Contents], NEW after \in [Locals -> Contents],
           NEW rest \in Seq(Objects), NEW sf, NEW ini, NEW pool,
           ReceiversKept(c, lo, sf, ini, pool, rest),
           Opens(d[Len(d)], lo, after), Spares(c, d[Len(d)], lo, rest)
    PROVE  ReceiversKept(d, after, sf, ini, pool, rest)
<1> DEFINE f == d[Len(d)]  n == Len(d)  m == Len(c)
<1>1. /\ n \in Nat \ {0} /\ m = n - 1 /\ f \in FrameRecords
      /\ \A k \in 1..m : d[k] = c[k] /\ c[k] \in FrameRecords
      /\ Opens(f, lo, after) /\ Spares(c, f, lo, rest) /\ d[n] = f
  BY Places DEF Under
<1>2. Absent \notin Pointers
  BY Names
<1>3. \A k \in 1..m : Waits(c, k) => Kept(c, k, lo, sf, ini, pool, rest)
  BY DEF ReceiversKept
<1>4. n = Len(d) /\ m = Len(c)
  OBVIOUS
<1> HIDE DEF f, n, m
<1> SUFFICES ASSUME NEW k \in 1..n, Waits(d, k)
             PROVE  Kept(d, k, after, sf, ini, pool, rest)
  BY <1>4 DEF ReceiversKept
<1>5. k \in 1..m /\ d[k] = c[k] /\ k \in Nat
  <2>1. k # n
    BY <1>1 DEF Waits, Spares
  <2>2. k \in 1..m
    BY <1>1, <2>1
  <2> QED BY <1>1, <2>2
<1>6. \A j \in (k + 1)..n : j = n \/ (j \in (k + 1)..m /\ j \in 1..m /\ d[j] = c[j])
  BY <1>1, <1>5
<1>7. \A j \in (k + 1)..m : j \in (k + 1)..n /\ d[j] = c[j]
  BY <1>1, <1>5
<1>8. Waits(c, k)
  BY <1>4, <1>5, <1>7 DEF Waits
<1>9. c[k].o \in Pointers /\ c[k].k = "argument"
  BY <1>1, <1>5, <1>8, FrameFacts DEF Waits
<1>10. ASSUME NEW v \in Locals, lo[v] = c[k].o, LocalStays(c, k, v)
       PROVE  Kept(d, k, after, sf, ini, pool, rest)
  <2>1. after[v] = lo[v]
    BY <1>1, <1>2, <1>9, <1>10 DEF Opens
  <2>2. IsBlock(f) => v \in f.name
    BY <1>1, <1>2, <1>9, <1>10 DEF Opens
  <2>3. f.k = "assign" => f.name # v
    BY <1>1, <1>4, <1>5, <1>9, <1>10 DEF Spares
  <2>4. \A j \in (k + 1)..n : /\ IsBlock(d[j]) => v \in d[j].name
                              /\ d[j].k = "assign" => d[j].name # v
    BY <1>1, <1>4, <1>6, <1>10, <2>2, <2>3 DEF LocalStays, Outlives
  <2>5. LocalStays(d, k, v)
    BY <1>4, <2>4 DEF LocalStays, Outlives
  <2> QED BY <1>5, <1>10, <2>1, <2>5 DEF Kept
<1>11. ASSUME NEW i \in 1..Len(rest), rest[i] = c[k].o, EntryStays(c, k, i)
       PROVE  Kept(d, k, after, sf, ini, pool, rest)
  <2>1. ~IsBlock(f)
    <3>1. rest # <<>>
      OBVIOUS
    <3> QED BY <1>1, <3>1 DEF Spares
  <2>2. Marked(f) => i <= f.mark
    BY <1>1 DEF Spares
  <2>3. \A j \in (k + 1)..n : ~IsBlock(d[j]) /\ (Marked(d[j]) => i <= d[j].mark)
    BY <1>1, <1>4, <1>6, <1>11, <2>1, <2>2 DEF EntryStays
  <2>4. EntryStays(d, k, i)
    BY <1>4, <2>3 DEF EntryStays
  <2> QED BY <1>5, <1>11, <2>4 DEF Kept
<1>12. Kept(c, k, lo, sf, ini, pool, rest)
  BY <1>3, <1>5, <1>8
<1> QED BY <1>5, <1>10, <1>11, <1>12 DEF Kept

(* What leaving frame f, or its becoming another, takes from no receiver. *)
SparesLocals(c, lo, after) ==
    LET f == c[Len(c)]
    IN  \A v \in Locals : /\ lo[v] \in Pointers
                          /\ IsBlock(f) => v \in f.name
                          /\ f.k = "assign" => f.name # v
                          /\ \E k \in 1..Len(c) : c[k].k = "argument" /\ c[k].o = lo[v]
                          => after[v] = lo[v]
SparesSelf(c, sf, then, ini) ==
    \A k \in 1..Len(c) : c[k].k = "argument" /\ HeldBySelf(sf, ini, c[k].o) =>
        HeldBySelf(then, ini, c[k].o)
SparesRest(f, rest, after) ==
    \/ after = rest
    \/ Marked(f) /\ Len(after) = f.mark /\ \A i \in 1..f.mark : after[i] = rest[i]
    \/ f.k \in {"expr", "init"}

(* The frame left is gone, or has become one that takes no more. *)
GoesOn(c, d) ==
    LET f == c[Len(c)]  g == d[Len(c)]
    IN  /\ \A k \in 1..(Len(c) - 1) : d[k] = c[k]
        /\ f.k # "return"
        /\ \/ Len(d) = Len(c) - 1
           \/ /\ Len(d) = Len(c)
              /\ g.k \notin {"argument", "assign"}
              /\ IsBlock(g) => IsBlock(f) /\ g.name = f.name
              /\ Marked(g) => Marked(f) /\ g.mark = f.mark

LEMMA WaitGoesOn ==
    ASSUME NEW c \in Seq(FrameRecords), NEW d \in Seq(FrameRecords), c # <<>>, GoesOn(c, d),
           NEW lo, NEW after, NEW rest \in Seq(Objects), NEW left \in Seq(Objects),
           NEW sf, NEW then, NEW ini, NEW pool, NEW larger, NEW base,
           Nested(c, ini, base), ReceiversKept(c, lo, sf, ini, pool, rest),
           SparesLocals(c, lo, after), SparesSelf(c, sf, then, ini),
           SparesRest(c[Len(c)], rest, left), pool \subseteq larger
    PROVE  ReceiversKept(d, after, then, ini, larger, left)
<1> DEFINE n == Len(c)  f == c[n]  g == d[n]  m == Len(d)
<1>1. /\ n \in Nat \ {0} /\ m \in Nat /\ (m = n - 1 \/ m = n) /\ f \in FrameRecords
      /\ \A k \in 1..n : c[k] \in FrameRecords
      /\ \A k \in 1..(n - 1) : d[k] = c[k]
  BY Places DEF GoesOn
<1>2. /\ f.k # "return"
      /\ m = n => /\ g.k \notin {"argument", "assign"}
                  /\ IsBlock(g) => IsBlock(f) /\ g.name = f.name
                  /\ Marked(g) => Marked(f) /\ g.mark = f.mark
  <2>1. f \in FrameRecords /\ n \in Nat
    BY <1>1
  <2>2. m = n => m # n - 1
    BY <2>1
  <2> QED BY <2>2 DEF GoesOn
<1>3. \A k \in 1..n : Waits(c, k) => Kept(c, k, lo, sf, ini, pool, rest)
  BY DEF ReceiversKept
<1>4. m = Len(d) /\ n = Len(c) /\ f = c[n] /\ g = d[n]
  OBVIOUS
<1>0. /\ SparesRest(f, rest, left)
      /\ f.k \in {"expr", "init"} => n = 1 \/ c[n - 1].k = "block"
  <2>1. n \in 1..n
    BY <1>1
  <2>2. FrameOK(c, n, ini, base)
    BY <2>1 DEF Nested
  <2> QED BY <2>2 DEF FrameOK
<1> HIDE DEF f, g, n, m
<1> SUFFICES ASSUME NEW k \in 1..m, Waits(d, k)
             PROVE  Kept(d, k, after, then, ini, larger, left)
  BY <1>4 DEF ReceiversKept
<1>5. k \in 1..(n - 1) /\ k \in 1..n /\ d[k] = c[k] /\ k \in Nat
  <2>1. k # n
    BY <1>1, <1>2, <1>4 DEF Waits
  <2>2. k \in 1..(n - 1)
    BY <1>1, <2>1
  <2> QED BY <1>1, <2>2
<1>6. \A j \in (k + 1)..m : \/ j \in (k + 1)..n /\ j \in 1..(n - 1) /\ d[j] = c[j]
                            \/ j = n /\ m = n
  BY <1>1, <1>5
<1>7. n \in (k + 1)..n /\ \A j \in (k + 1)..n : j = n \/ (j \in (k + 1)..m /\ d[j] = c[j])
  BY <1>1, <1>5
<1>8. Waits(c, k)
  <2>1. \A j \in (k + 1)..n : c[j].k # "return"
    BY <1>2, <1>4, <1>7 DEF Waits
  <2> QED BY <1>4, <1>5, <2>1 DEF Waits
<1>9. c[k].o \in Pointers /\ c[k].k = "argument"
  BY <1>1, <1>5, <1>8, FrameFacts DEF Waits
<1>10. ASSUME NEW v \in Locals, lo[v] = c[k].o, LocalStays(c, k, v)
       PROVE  Kept(d, k, after, then, ini, larger, left)
  <2>1. \A j \in (k + 1)..n : /\ IsBlock(c[j]) => v \in c[j].name
                              /\ c[j].k = "assign" => c[j].name # v
    BY <1>4, <1>10 DEF LocalStays, Outlives
  <2>2. (IsBlock(f) => v \in f.name) /\ (f.k = "assign" => f.name # v)
    BY <1>4, <1>7, <2>1
  <2>3. after[v] = lo[v]
    BY <1>4, <1>5, <1>9, <1>10, <2>2 DEF SparesLocals
  <2>4. \A j \in (k + 1)..m : /\ IsBlock(d[j]) => v \in d[j].name
                              /\ d[j].k = "assign" => d[j].name # v
    BY <1>2, <1>4, <1>6, <2>1, <2>2
  <2>5. LocalStays(d, k, v)
    BY <1>4, <2>4 DEF LocalStays, Outlives
  <2> QED BY <1>5, <1>10, <2>3, <2>5 DEF Kept
<1>11. ASSUME NEW i \in 1..Len(rest), rest[i] = c[k].o, EntryStays(c, k, i)
       PROVE  Kept(d, k, after, then, ini, larger, left)
  <2>1. \A j \in (k + 1)..n : ~IsBlock(c[j]) /\ (Marked(c[j]) => i <= c[j].mark)
    BY <1>4, <1>11 DEF EntryStays
  <2>2. ~IsBlock(f) /\ (Marked(f) => i <= f.mark)
    BY <1>4, <1>7, <2>1
  <2>3. \A j \in (k + 1)..m : ~IsBlock(d[j]) /\ (Marked(d[j]) => i <= d[j].mark)
    BY <1>2, <1>4, <1>6, <2>1, <2>2
  <2>4. EntryStays(d, k, i)
    BY <1>4, <2>3 DEF EntryStays
  <2>5. f.k \notin {"expr", "init"}
    <3>1. CASE n - 1 = k
      BY <1>0, <1>5, <1>9, <3>1
    <3>2. CASE n - 1 # k
      <4>1. n - 1 \in (k + 1)..n /\ n # 1
        BY <1>1, <1>5, <3>2
      <4> QED BY <1>0, <2>1, <4>1 DEF IsBlock
    <3> QED BY <3>1, <3>2
  <2>6. i \in 1..Len(left) /\ left[i] = rest[i]
    <3>1. CASE left = rest
      BY <3>1
    <3>2. CASE Marked(f) /\ Len(left) = f.mark /\ \A l \in 1..f.mark : left[l] = rest[l]
      <4>1. f.mark \in Nat /\ i \in Nat \ {0}
        BY <1>1, FrameFacts
      <4>2. i \in 1..f.mark
        BY <2>2, <3>2, <4>1
      <4> QED BY <3>2, <4>2
    <3> QED BY <1>0, <2>5, <3>1, <3>2 DEF SparesRest
  <2> QED BY <1>5, <1>11, <2>4, <2>6 DEF Kept
<1>12. HeldBySelf(sf, ini, c[k].o) => HeldBySelf(then, ini, c[k].o)
  BY <1>4, <1>5, <1>9 DEF SparesSelf
<1>13. Kept(c, k, lo, sf, ini, pool, rest)
  BY <1>3, <1>5, <1>8
<1> QED BY <1>5, <1>10, <1>11, <1>12, <1>13 DEF Kept

(* Nothing happens to the frames or the locals. *)
LEMMA WaitStays ==
    ASSUME NEW c, NEW lo, NEW rest, NEW sf, NEW then, NEW ini, NEW pool, NEW larger,
           ReceiversKept(c, lo, sf, ini, pool, rest), pool \subseteq larger,
           \A k \in 1..Len(c) : Waits(c, k) /\ HeldBySelf(sf, ini, c[k].o) =>
               HeldBySelf(then, ini, c[k].o)
    PROVE  ReceiversKept(c, lo, then, ini, larger, rest)
BY DEF ReceiversKept, Kept

-----------------------------------------------------------------------------
(* The receivers an init will consume.                                       *)

LEMMA TakingsType ==
    ASSUME NEW c \in Seq(FrameRecords), NEW a
    PROVE  /\ Takings(c) \in Seq(Pointers) /\ Len(Takings(c)) = Len(c)
           /\ Tally(Takings(c), a) \in Nat
           /\ \A k \in 1..Len(c) : IsTaken(c[k]) /\ c[k].o = a => Tally(Takings(c), a) >= 1
           /\ (\A k \in 1..Len(c) : ~IsTaken(c[k])) /\ a # Nil => Tally(Takings(c), a) = 0
<1>1. Len(c) \in Nat /\ \A k \in 1..Len(c) : c[k].o \in Pointers
  BY Places, FrameFacts
<1>2. Nil \in Pointers
  BY DEF Pointers
<1>3. Takings(c) \in Seq(Pointers) /\ Len(Takings(c)) = Len(c)
  BY <1>1, <1>2 DEF Takings
<1>4. \A k \in 1..Len(c) : Takings(c)[k] = IF IsTaken(c[k]) THEN c[k].o ELSE Nil
  BY DEF Takings
<1>5. /\ Tally(Takings(c), a) \in Nat
      /\ \A k \in 1..Len(c) : Takings(c)[k] = a => Tally(Takings(c), a) >= 1
      /\ (\A k \in 1..Len(c) : Takings(c)[k] # a) => Tally(Takings(c), a) = 0
  BY <1>3, SeqTally
<1> QED BY <1>3, <1>4, <1>5

LEMMA TakingsMore ==
    ASSUME NEW c \in Seq(FrameRecords), NEW d \in Seq(FrameRecords), Under(c, d), d # <<>>, NEW a
    PROVE  /\ Tally(Takings(c), a) \in Nat
           /\ IsTaken(d[Len(d)]) =>
                  Tally(Takings(d), a) = Tally(Takings(c), a) + Hit(d[Len(d)].o, a)
           /\ ~IsTaken(d[Len(d)]) /\ a # Nil => Tally(Takings(d), a) = Tally(Takings(c), a)
<1> DEFINE s == Takings(c)  t == Takings(d)  n == Len(d)
<1>1. /\ n \in Nat \ {0} /\ Len(c) = n - 1 /\ DOMAIN s = 1..(n - 1) /\ DOMAIN t = 1..n
      /\ \A k \in 1..(n - 1) : t[k] = s[k]
      /\ t[n] = IF IsTaken(d[n]) THEN d[n].o ELSE Nil
  <2>1. n \in Nat \ {0} /\ Len(c) = n - 1 /\ \A k \in 1..(n - 1) : d[k] = c[k]
    BY Places DEF Under
  <2> HIDE DEF n
  <2>2. n \in 1..n /\ \A k \in 1..(n - 1) : k \in 1..n
    BY <2>1
  <2>3. n = Len(d)
    BY DEF n
  <2> QED BY <2>1, <2>2, <2>3 DEF Takings
<1> HIDE DEF s, t, n
<1>2. OneMore(s, t, n)
  BY <1>1 DEF OneMore
<1>3. IsFiniteSet(DOMAIN s)
  <2>1. 1 \in Int /\ n - 1 \in Int
    BY <1>1
  <2> QED BY <1>1, <2>1, FS_Interval
<1>4. Tally(s, a) \in Nat /\ Tally(t, a) = Tally(s, a) + Hit(t[n], a)
  BY <1>2, <1>3, TallyMore
<1>5. n = Len(d) /\ s = Takings(c) /\ t = Takings(d)
  BY DEF n, s, t
<1>6. ~IsTaken(d[n]) /\ a # Nil => Hit(t[n], a) = 0
  BY <1>1 DEF Hit
<1> QED BY <1>1, <1>4, <1>5, <1>6

-----------------------------------------------------------------------------
(* The sums.                                                                 *)

LEMMA Finite == IsFiniteSet(Locals)
BY OwnershipAssumption

LEMMA TallyLocals ==
    ASSUME NEW lo \in [Locals -> Contents], NEW a
    PROVE  /\ Tally(lo, a) \in Nat
           /\ \A v \in Locals : lo[v] = a => Tally(lo, a) >= 1
           /\ (\A v \in Locals : lo[v] # a) => Tally(lo, a) = 0
<1>1. DOMAIN lo = Locals
  OBVIOUS
<1> QED BY <1>1, Finite, TallyType

(* to is lo with o in v. *)
Put(lo, v, o, to) == /\ DOMAIN to = Locals /\ to[v] = o
                     /\ \A w \in Locals \ {v} : to[w] = lo[w]

LEMMA TallyPut ==
    ASSUME NEW lo \in [Locals -> Contents], NEW v \in Locals, NEW o, NEW a,
           NEW to, Put(lo, v, o, to)
    PROVE  /\ Tally(lo, a) \in Nat /\ Tally(to, a) \in Nat
           /\ Tally(to, a) + Hit(lo[v], a) = Tally(lo, a) + Hit(o, a)
<1>1. DOMAIN lo = Locals /\ IsFiniteSet(DOMAIN lo)
  BY Finite
<1>2. OneMoved(lo, to, v) /\ to[v] = o
  BY <1>1 DEF OneMoved, Put
<1>3. /\ Tally(lo, a) \in Nat /\ Tally(to, a) \in Nat
      /\ Tally(to, a) + Hit(lo[v], a) = Tally(lo, a) + Hit(to[v], a)
  BY <1>1, <1>2, TallyMoved
<1> QED BY <1>2, <1>3

LEMMA Counts ==
    ASSUME NEW lo \in [Locals -> Contents], NEW rest \in Seq(Objects), NEW v,
           NEW c \in Seq(FrameRecords), NEW e, NEW g, NEW h, NEW sf, NEW ini, NEW a
    PROVE  /\ Tally(lo, a) \in Nat /\ Tally(rest, a) \in Nat /\ Hand(v, a) \in Nat
           /\ Tally(Takings(c), a) \in Nat /\ Hit(e, a) \in Nat /\ Hit(g, a) \in Nat
           /\ Pooled(h, a) \in Nat /\ Mine(sf, ini, a) \in Nat
<1>1. Tally(lo, a) \in Nat /\ Tally(rest, a) \in Nat /\ Tally(Takings(c), a) \in Nat
  BY TallyLocals, SeqTally, TakingsType
<1> QED BY <1>1 DEF Hand, Hit, Pooled, Mine

(* What holds a reference, but for what is elsewhere and what was given. *)
Holding(lo, rest, v, c, h, sf, ini, a) ==
    \/ v.own /\ v.o = a
    \/ \E w \in Locals : lo[w] = a
    \/ HeldBySelf(sf, ini, a)
    \/ a \in h.pool
    \/ \E i \in 1..Len(rest) : rest[i] = a
    \/ \E k \in 1..Len(c) : IsTaken(c[k]) /\ c[k].o = a

LEMMA HeldAlive ==
    ASSUME NEW lo \in [Locals -> Contents], NEW rest \in Seq(Objects), NEW v,
           NEW c \in Seq(FrameRecords), NEW e, NEW g, NEW h, NEW sf, NEW ini, NEW a,
           Holding(lo, rest, v, c, h, sf, ini, a)
    PROVE  Sum(lo, rest, v, c, e, g, h, sf, ini, a) >= 1 + Hit(e, a) + Hit(g, a)
<1> DEFINE A == Tally(lo, a)  B == Tally(rest, a)  C == Hand(v, a)  D == Tally(Takings(c), a)
           E == Hit(e, a)  F == Hit(g, a)  G == Pooled(h, a)  H == Mine(sf, ini, a)
<1>1. /\ A \in Nat /\ B \in Nat /\ C \in Nat /\ D \in Nat
      /\ E \in Nat /\ F \in Nat /\ G \in Nat /\ H \in Nat
  BY Counts
<1>2. \/ A >= 1 \/ B >= 1 \/ C >= 1 \/ D >= 1 \/ G >= 1 \/ H >= 1
  <2>1. CASE v.own /\ v.o = a
    BY <2>1 DEF Hand, Hit
  <2>2. CASE \E w \in Locals : lo[w] = a
    BY <2>2, TallyLocals
  <2>3. CASE HeldBySelf(sf, ini, a)
    BY <2>3 DEF Mine
  <2>4. CASE a \in h.pool
    BY <2>4 DEF Pooled
  <2>5. CASE \E i \in 1..Len(rest) : rest[i] = a
    BY <2>5, SeqTally
  <2>6. CASE \E k \in 1..Len(c) : IsTaken(c[k]) /\ c[k].o = a
    BY <2>6, TakingsType
  <2> HIDE DEF A, B, C, D, E, F, G, H
  <2> QED BY <2>1, <2>2, <2>3, <2>4, <2>5, <2>6 DEF Holding
<1>3. Sum(lo, rest, v, c, e, g, h, sf, ini, a) = A + B + C + D + E + F + G + H
  BY DEF Sum
<1> HIDE DEF A, B, C, D, E, F, G, H
<1>4. A + B + C + D + E + F + G + H >= 1 + E + F
  BY <1>1, <1>2
<1> QED BY <1>3, <1>4 DEF E, F

LEMMA Parts ==
    ASSUME IInv
    PROVE  /\ Rest \in Seq(Objects) /\ Len(Rest) \in Nat /\ Len(temps) \in Nat
           /\ Len(Rest) <= Len(temps) /\ \A i \in 1..Len(Rest) : Rest[i] = temps[i]
           /\ \A a \in Objects : Tally(temps, a) = Tally(Rest, a) + Hand(val, a)
           /\ ~val.own => Rest = temps
           /\ val.o \in Pointers /\ val.own \in BOOLEAN /\ self.o \in Pointers
<1>1. val \in Vals /\ temps \in Seq(Objects) /\ InHand(val, temps) /\ self.o \in Pointers
  BY DEF IInv, TypeOK, DataOK, Moments
<1>2. /\ RestOf(val, temps) \in Seq(Objects) /\ Len(RestOf(val, temps)) \in Nat
      /\ \A i \in 1..Len(RestOf(val, temps)) : RestOf(val, temps)[i] = temps[i]
      /\ Len(RestOf(val, temps)) <= Len(temps) /\ Len(temps) \in Nat
      /\ \A a : Tally(temps, a) = Tally(RestOf(val, temps), a) + Hand(val, a)
  BY <1>1, RestType
<1>3. ~val.own => Rest = temps
  BY DEF Rest, RestOf
<1> QED BY <1>1, <1>2, <1>3 DEF Rest, Vals

Holds(a) == Holding(locals, Rest, val, frames, rt, self, initializer, a)

LEMMA Held ==
    ASSUME IInv
    PROVE  /\ \A a \in Objects : rt.rc[a] \in Nat
           /\ \A a \in Objects : Holds(a) \/ elsewhere = a => rt.rc[a] >= 1
           /\ \A a \in Objects : rt.rc[a] >= Pooled(rt, a)
<1> SUFFICES ASSUME NEW a \in Objects
             PROVE  /\ rt.rc[a] \in Nat /\ rt.rc[a] >= Pooled(rt, a)
                    /\ Holds(a) \/ elsewhere = a => rt.rc[a] >= 1
  OBVIOUS
<1>1. /\ rt.rc[a] \in Nat /\ locals \in [Locals -> Contents] /\ frames \in Seq(FrameRecords)
      /\ Rest \in Seq(Objects)
      /\ rt.rc[a] = Sum(locals, Rest, val, frames, elsewhere, given, rt, self, initializer, a)
  BY Parts DEF IInv, TypeOK, DataOK, Heaps, Even
<1>2. Holds(a) => rt.rc[a] >= 1 + Hit(elsewhere, a) + Hit(given, a)
  BY <1>1, HeldAlive DEF Holds
<1>3. Hit(elsewhere, a) \in Nat /\ Hit(given, a) \in Nat
  BY DEF Hit
<1>4. Holds(a) => rt.rc[a] >= 1
  BY <1>1, <1>2, <1>3
<1> DEFINE A == Tally(locals, a)  B == Tally(Rest, a)  C == Hand(val, a)
           D == Tally(Takings(frames), a)
           E == Hit(elsewhere, a)  F == Hit(given, a)  G == Pooled(rt, a)
           H == Mine(self, initializer, a)  n == rt.rc[a]
<1>5. /\ A \in Nat /\ B \in Nat /\ C \in Nat /\ D \in Nat
      /\ E \in Nat /\ F \in Nat /\ G \in Nat /\ H \in Nat
  BY <1>1, Counts
<1>6. n = A + B + C + D + E + F + G + H
  BY <1>1 DEF Sum
<1>7. elsewhere = a => E = 1
  BY DEF Hit
<1> HIDE DEF A, B, C, D, E, F, G, H, n
<1>8. n >= G /\ (elsewhere = a => n >= 1)
  BY <1>5, <1>6, <1>7
<1> QED BY <1>1, <1>4, <1>8 DEF n, G

-----------------------------------------------------------------------------
(* The invariant holds initially.                                            *)

LEMMA Starts == Init => IInv
<1> SUFFICES ASSUME Init PROVE IInv
  OBVIOUS
<1> USE DEF Init
<1>1. PICK receiver \in {TRUE, initializer}, first \in Locals :
        /\ self = [o |-> IF receiver THEN 1 ELSE Nil, owned |-> initializer]
        /\ locals = [v \in Locals |-> IF v # first THEN Absent ELSE IF receiver THEN Nil ELSE 1]
        /\ elsewhere = IF receiver THEN Nil ELSE 1
        /\ rt = [rc |-> [o \in Objects |-> IF o # 1 THEN 0 ELSE IF receiver THEN 1 ELSE 2],
                 pool |-> {}, faults |-> {}]
  OBVIOUS
<1>2. /\ initializer \in BOOLEAN /\ receiver \in BOOLEAN /\ (initializer => receiver)
      /\ frames = <<>> /\ temps = <<>> /\ val = [o |-> Nil, own |-> FALSE]
      /\ mode = "statement" /\ given = Nil
  BY <1>1 DEF NoValue
<1> USE DEF Init
<1>3. 1 \in Objects /\ Nil \notin Objects /\ 1 \in Pointers /\ Nil \in Pointers /\ 1 # Nil
  BY OwnershipAssumption DEF Objects, Pointers, Nil
<1>4. DataOK
  <2>1. rt \in Heaps
    BY <1>1, <1>2 DEF Heaps
  <2>2. locals \in [Locals -> Contents]
    BY <1>1, <1>2, <1>3 DEF Contents
  <2> QED BY <1>1, <1>2, <1>3, <2>1, <2>2 DEF DataOK, Vals
<1>5. TypeOK
  BY <1>2, <1>4 DEF TypeOK
<1>6. Rest = <<>> /\ Rest \in Seq(Objects) /\ Len(Rest) = 0 /\ Len(frames) = 0
  BY <1>2 DEF Rest, RestOf
<1>7. Nested(frames, initializer, Len(Rest))
  BY <1>6 DEF Nested
<1>8. SlotsOK(frames, locals)
  <2>1. \A v \in Locals : locals[v] # Garbage
    BY <1>1, <1>2, <1>3, Names
  <2> QED BY <1>6, <2>1 DEF SlotsOK
<1>9. Moments /\ SelfOK /\ ValueKept
  BY <1>1, <1>2 DEF Moments, SelfOK, ValueKept, InHand, Statement, Have, HaveFor, TopIs
<1>10. Waiters
  BY <1>6 DEF Waiters, ReceiversKept
<1>11. Clean
  BY <1>1 DEF Clean
<1>12. ASSUME NEW a \in Objects
       PROVE  rt.rc[a] = Sum(locals, Rest, val, frames, elsewhere, given, rt, self, initializer, a)
  <2> DEFINE A == Tally(locals, a)  B == Tally(Rest, a)  C == Hand(val, a)
             D == Tally(Takings(frames), a)
             E == Hit(elsewhere, a)  F == Hit(given, a)  G == Pooled(rt, a)
             H == Mine(self, initializer, a)
  <2>1. A = IF ~receiver /\ a = 1 THEN 1 ELSE 0
    <3>1. \A v \in Locals : v # first => locals[v] # a
      BY <1>1, <1>3, Names DEF Pointers
    <3>2. locals[first] = IF receiver THEN Nil ELSE 1
      BY <1>1
    <3> DEFINE bare == [locals EXCEPT ![first] = Nil]
    <3>3. /\ bare \in [Locals -> Contents] /\ Put(locals, first, Nil, bare)
          /\ locals \in [Locals -> Contents] /\ first \in Locals
      BY <1>3, <1>4 DEF DataOK, Contents, Put
    <3> HIDE DEF bare, Init
    <3>6. /\ Tally(locals, a) \in Nat
          /\ Tally(bare, a) + Hit(locals[first], a) = Tally(locals, a) + Hit(Nil, a)
      BY <3>3, TallyPut
    <3>4. Tally(bare, a) = 0
      <4>1. \A w \in Locals : bare[w] # a
        BY <1>3, <3>1, <3>3 DEF Put
      <4> QED BY <3>3, <4>1, TallyLocals
    <3>5. Hit(Nil, a) = 0 /\ Hit(locals[first], a) = IF ~receiver /\ a = 1 THEN 1 ELSE 0
      BY <1>2, <1>3, <3>2 DEF Hit
    <3> QED BY <3>4, <3>5, <3>6
  <2>2. B = 0 /\ C = 0
    BY <1>2, <1>6, TallyEmpty DEF Hand
  <2>3. D = 0
    <3>1. frames \in Seq(FrameRecords) /\ a # Nil /\ \A k \in 1..Len(frames) : ~IsTaken(frames[k])
      BY <1>3, <1>5, <1>6 DEF TypeOK
    <3> HIDE DEF Init
    <3> QED BY <3>1, TakingsType
  <2>4. E = (IF ~receiver /\ a = 1 THEN 1 ELSE 0) /\ F = 0 /\ G = 0
    BY <1>1, <1>2, <1>3 DEF Hit, Pooled
  <2>5. H = IF receiver /\ a = 1 THEN 1 ELSE 0
    BY <1>1, <1>2, <1>3 DEF Mine, HeldBySelf
  <2>6. rt.rc[a] = IF a # 1 THEN 0 ELSE IF receiver THEN 1 ELSE 2
    BY <1>1
  <2>7. Sum(locals, Rest, val, frames, elsewhere, given, rt, self, initializer, a)
          = A + B + C + D + E + F + G + H
    BY DEF Sum
  <2> HIDE DEF A, B, C, D, E, F, G, H
  <2>8. A + B + C + D + E + F + G + H = IF a # 1 THEN 0 ELSE IF receiver THEN 1 ELSE 2
    BY <1>2, <2>1, <2>2, <2>3, <2>4, <2>5
  <2> QED BY <2>6, <2>7, <2>8
<1>13. Even
  BY <1>12 DEF Even
<1> QED BY <1>5, <1>7, <1>8, <1>9, <1>10, <1>11, <1>13 DEF IInv

-----------------------------------------------------------------------------
(* Steps that open a frame.                                                  *)

LEMMA TallyOpened ==
    ASSUME NEW f \in FrameRecords, NEW lo \in [Locals -> Contents], NEW after, Opens(f, lo, after),
           NEW a \in Objects
    PROVE  Tally(after, a) = Tally(lo, a)
<1>1. CASE f.k # "init"
  BY <1>1 DEF Opens
<1>2. CASE f.k = "init"
  <2> DEFINE w == f.name
  <2>1. w \in Locals /\ Garbage \in Contents /\ lo[w] = Absent
        /\ Put(lo, w, Garbage, after)
    BY <1>2, FrameFacts DEF Opens, Contents, Put
  <2>2. Hit(Absent, a) = 0 /\ Hit(Garbage, a) = 0
    BY Names DEF Hit, Pointers
  <2> HIDE DEF w
  <2>3. /\ Tally(lo, a) \in Nat /\ Tally(after, a) \in Nat
        /\ Tally(after, a) + Hit(lo[w], a) = Tally(lo, a) + Hit(Garbage, a)
    BY <2>1, TallyPut
  <2> QED BY <2>1, <2>2, <2>3
<1> QED BY <1>1, <1>2

LEMMA Pushed ==
    ASSUME IInv, NEW f \in FrameRecords, frames' = Append(frames, f),
           UNCHANGED <<initializer, val, temps, self, elsewhere, rt, given>>,
           locals' \in [Locals -> Contents],
           mode \in {"statement", "want"}, mode' \in {"statement", "want"},
           MayOpen(frames, f, initializer, Len(Rest)), Opens(f, locals, locals'),
           Spares(frames, f, locals, Rest), mode' = "statement" => f.k = "block",
           f.k = "self" => ~Waiting(self.o), ~IsTaken(f)
    PROVE  IInv'
<1>1. /\ ~val.own /\ Rest = temps /\ Rest' = Rest /\ Rest \in Seq(Objects) /\ Len(Rest) \in Nat
      /\ mode # "have" /\ mode' # "have" /\ mode # "done" /\ mode' # "done"
  BY Parts DEF IInv, Moments, Have, Rest, RestOf
<1>2. /\ frames \in Seq(FrameRecords) /\ locals \in [Locals -> Contents] /\ TypeOK
      /\ Nested(frames, initializer, Len(Rest)) /\ SlotsOK(frames, locals)
      /\ Moments /\ SelfOK /\ Clean /\ Waiters /\ Even
  BY DEF IInv, TypeOK, DataOK
<1>3. /\ frames' \in Seq(FrameRecords) /\ Under(frames, frames') /\ frames'[Len(frames')] = f
      /\ frames' # <<>> /\ Len(frames) \in Nat /\ Len(frames') \in Nat
  BY <1>2, Opened
<1>4. TypeOK'
  BY <1>2, <1>3 DEF TypeOK, DataOK
<1>5. Nested(frames', initializer, Len(Rest))
  BY <1>1, <1>2, <1>3, NestedOpened
<1>6. SlotsOK(frames', locals')
  BY <1>2, <1>3, SlotsOpened
<1>7. (Top = f)'
  BY <1>3 DEF Top
<1>8. Moments'
  <2>1. mode' = "statement" => temps = <<>>
    <3>1. mode' = "statement" => Len(Rest) = 0
      BY DEF MayOpen
    <3> QED BY <1>1, <3>1, Places
  <2> QED BY <1>1, <1>2, <1>3, <1>7, <2>1 DEF Moments, Statement, Have, HaveFor, TopIs, InHand
<1>9. SelfOK'
  <2>1. f.k = "self" => ~(Waiting(self.o)')
    <3>1. \A k \in DOMAIN frames' : (k \in DOMAIN frames /\ frames'[k] = frames[k]) \/ k = Len(frames')
      BY <1>2, <1>3 DEF Under
    <3> QED BY <1>3, <3>1 DEF Waiting
  <2> QED BY <1>1, <1>2, <1>3, <1>7, <2>1 DEF SelfOK, HaveFor, Have, TopIs
<1>10. ValueKept' /\ Clean'
  BY <1>1, <1>2 DEF ValueKept, Have, Clean
<1>11. Waiters'
  <2>1. ReceiversKept(frames, locals, self, initializer, rt.pool, Rest)
    BY <1>2 DEF Waiters
  <2> DEFINE d == frames'  lo == locals'
  <2>2. /\ frames \in Seq(FrameRecords) /\ d \in Seq(FrameRecords) /\ Under(frames, d) /\ d # <<>>
        /\ locals \in [Locals -> Contents] /\ lo \in [Locals -> Contents] /\ Rest \in Seq(Objects)
        /\ Opens(d[Len(d)], locals, lo) /\ Spares(frames, d[Len(d)], locals, Rest)
    BY <1>1, <1>2, <1>3
  <2> HIDE DEF d, lo
  <2>3. ReceiversKept(d, lo, self, initializer, rt.pool, Rest)
    BY <2>1, <2>2, WaitOpened
  <2> QED BY <1>1, <2>3 DEF Waiters, d, lo
<1>12. \A a \in Objects : Tally(locals', a) = Tally(locals, a)
  BY <1>2, TallyOpened
<1>13. ASSUME NEW a \in Objects PROVE Tally(Takings(frames'), a) = Tally(Takings(frames), a)
  <2> DEFINE d == frames'
  <2>1. /\ frames \in Seq(FrameRecords) /\ d \in Seq(FrameRecords) /\ Under(frames, d) /\ d # <<>>
        /\ ~IsTaken(d[Len(d)]) /\ a # Nil
    BY <1>2, <1>3, Names
  <2> HIDE DEF d
  <2>2. Tally(Takings(d), a) = Tally(Takings(frames), a)
    BY <2>1, TakingsMore
  <2> QED BY <2>2 DEF d
<1>14. Even'
  BY <1>1, <1>2, <1>12, <1>13 DEF Even, Sum, Hand, Pooled, Mine, HeldBySelf
<1> QED BY <1>1, <1>4, <1>5, <1>6, <1>8, <1>9, <1>10, <1>11, <1>14 DEF IInv

(* The frames the steps open. *)
LEMMA Made ==
    /\ \A k \in {"expr", "return", "autoreleasing", "self"} :
           LET f == Frame(k, "", Nil, 0)
           IN  f \in FrameRecords /\ f.k = k
    /\ \A k \in {"elvis", "test"}, m \in Nat :
           LET f == Frame(k, "", Nil, m)
           IN  f \in FrameRecords /\ f.k = k /\ f.mark = m
    /\ \A k \in {"receiver", "argument"}, fam \in {"plain", "init"}, o \in Pointers :
           LET f == Frame(k, fam, o, 0)
           IN  f \in FrameRecords /\ f.k = k /\ f.name = fam /\ f.o = o
    /\ \A k \in {"init", "assign"}, v \in Locals :
           LET f == Frame(k, v, Nil, 0)
           IN  f \in FrameRecords /\ f.k = k /\ f.name = v
    /\ \A S \in SUBSET Locals :
           LET f == Frame("block", S, Nil, 0)
           IN  f \in FrameRecords /\ f.k = "block" /\ f.name = S
BY DEF Frame, FrameRecords

LEMMA Idle ==
    ASSUME IInv, mode \in {"statement", "want"}
    PROVE  /\ ~val.own /\ Rest = temps /\ Rest \in Seq(Objects) /\ Len(Rest) \in Nat
           /\ frames \in Seq(FrameRecords) /\ locals \in [Locals -> Contents]
           /\ mode # "have" /\ mode # "done"
           /\ \A k \in 1..Len(frames) : frames[k] \in FrameRecords
BY Parts, Places DEF IInv, TypeOK, DataOK, Moments, Have

(* A return with no declaration under way, unless the program has such. *)
Allowed(f) == f.k = "return" /\ "return in an initializer" \notin Shapes =>
                  \A v \in Locals : locals[v] # Garbage

(* A statement begins. *)
LEMMA Begun ==
    ASSUME IInv, NEW f \in FrameRecords, f.k \in {"expr", "init", "return"}, Begin(f),
           UNCHANGED <<initializer, val, temps, self, elsewhere, rt, given>>,
           locals' \in [Locals -> Contents], Opens(f, locals, locals'), Allowed(f)
    PROVE  IInv'
<1>1. /\ mode = "statement" /\ mode' = "want" /\ frames' = Append(frames, f)
  BY DEF Begin, Statement, Push
<1>2. /\ Rest = temps /\ temps = <<>> /\ Len(Rest) = 0
      /\ frames = <<>> \/ frames[Len(frames)].k = "block"
      /\ frames \in Seq(FrameRecords) /\ SlotsOK(frames, locals)
      /\ \A k \in 1..Len(frames) : frames[k] \in FrameRecords
  <2>1. /\ temps = <<>> /\ (frames = <<>> \/ frames[Len(frames)].k = "block")
        /\ SlotsOK(frames, locals)
    BY <1>1 DEF IInv, Moments, Statement, TopIs, Top
  <2>2. /\ Rest = temps /\ frames \in Seq(FrameRecords)
        /\ \A k \in 1..Len(frames) : frames[k] \in FrameRecords
    BY <1>1, Idle
  <2> QED BY <2>1, <2>2
<1>3. /\ ~Marked(f) /\ f.mark = 0 /\ ~IsTaken(f) /\ ~IsBlock(f) /\ f.k # "argument"
      /\ f.k # "assign" /\ f.k # "self" /\ f.k # "block"
  BY FrameFacts DEF Marked, IsTaken, IsBlock
<1>4. MayOpen(frames, f, initializer, Len(Rest))
  <2>1. f.k = "return" /\ "return in an initializer" \notin Shapes =>
           \A j \in 1..Len(frames) : frames[j].k # "init"
    <3> SUFFICES ASSUME \A v \in Locals : locals[v] # Garbage,
                        NEW j \in 1..Len(frames), frames[j].k = "init"
                 PROVE  FALSE
      BY DEF Allowed
    <3>1. frames[j].name \in Locals
      BY <1>2, FrameFacts
    <3> QED BY <1>2, <3>1 DEF SlotsOK
  <2>2. f.k # "self" /\ f.mark <= Len(Rest)
    BY <1>2, <1>3
  <2>3. frames # <<>> => frames[Len(frames)].k = "block"
    BY <1>2
  <2> QED BY <1>3, <2>1, <2>2, <2>3 DEF MayOpen
<1>5. Spares(frames, f, locals, Rest)
  BY <1>3 DEF Spares
<1> QED BY <1>1, <1>3, <1>4, <1>5, Pushed

LEMMA Statements ==
    ASSUME IInv, ExprStatement \/ DeclareStrong \/ ReturnStatement
    PROVE  IInv'
<1>0. locals \in [Locals -> Contents]
  BY DEF IInv, TypeOK, DataOK
<1>1. CASE ExprStatement
  <2> DEFINE f == Frame("expr", "", Nil, 0)
  <2>1. f \in FrameRecords /\ f.k = "expr"
    BY Made
  <2>2. Begin(f) /\ UNCHANGED <<initializer, val, temps, locals, self, elsewhere, rt, given>>
    BY <1>1 DEF ExprStatement
  <2> HIDE DEF f
  <2>3. Opens(f, locals, locals') /\ Allowed(f)
    BY <2>1, <2>2 DEF Opens, IsBlock, Allowed
  <2> QED BY <1>0, <2>1, <2>2, <2>3, Begun
<1>2. CASE DeclareStrong
  <2>1. PICK v \in Locals \ Scope :
            /\ Begin(Frame("init", v, Nil, 0))
            /\ locals' = [locals EXCEPT ![v] = Garbage]
            /\ UNCHANGED <<initializer, val, temps, self, elsewhere, rt, given>>
    BY <1>2 DEF DeclareStrong
  <2> DEFINE f == Frame("init", v, Nil, 0)
  <2>2. f \in FrameRecords /\ f.k = "init" /\ f.name = v
    BY Made
  <2>3. Begin(f)
    BY <2>1
  <2> HIDE DEF f
  <2>4. Opens(f, locals, locals') /\ locals' \in [Locals -> Contents] /\ Allowed(f)
    BY <1>0, <2>1, <2>2 DEF Opens, IsBlock, Scope, Contents, Allowed
  <2> QED BY <2>1, <2>2, <2>3, <2>4, Begun
<1>3. CASE ReturnStatement
  <2> DEFINE f == Frame("return", "", Nil, 0)
  <2>1. f \in FrameRecords /\ f.k = "return"
    BY Made
  <2>2. /\ Begin(f) /\ UNCHANGED <<initializer, val, temps, locals, self, elsewhere, rt, given>>
        /\ Allowed(f)
    BY <1>3 DEF ReturnStatement, Unless, Allowed
  <2> HIDE DEF f
  <2>3. Opens(f, locals, locals')
    BY <2>1, <2>2 DEF Opens, IsBlock
  <2> QED BY <1>0, <2>1, <2>2, <2>3, Begun
<1> QED BY <1>1, <1>2, <1>3

(* An operand is about to be evaluated. *)
LEMMA Begins ==
    ASSUME Counting, IInv, NEW f \in FrameRecords,
           f.k \in {"receiver", "elvis", "assign", "autoreleasing", "test", "block"},
           Want, AnyUse, frames' = Append(frames, f), mode' \in {"statement", "want"},
           UNCHANGED <<initializer, val, temps, locals, self, elsewhere, rt, given>>,
           Marked(f) => f.mark = Len(temps), mode' = "statement" => f.k = "block",
           f.k = "block" => /\ f.name = Scope /\ temps = <<>>
                            /\ \A k \in DOMAIN frames : ~Consumed(k),
           f.k = "assign" => locals[f.name] \in Pointers /\ ~Waiting(locals[f.name])
    PROVE  IInv'
<1>1. /\ mode = "want" /\ Rest = temps /\ Len(Rest) \in Nat
      /\ frames \in Seq(FrameRecords) /\ locals \in [Locals -> Contents]
  BY Idle DEF Want
<1>2. frames # <<>> => /\ frames[Len(frames)].k # "self"
                       /\ ~(frames[Len(frames)].k = "return" /\ initializer)
  BY DEF Counting, AnyUse, TopIs, Top
<1>3. /\ ~IsTaken(f) /\ f.k \notin {"self", "argument", "expr", "init", "return"}
      /\ f.mark \in Nat /\ (~Marked(f) => f.mark = 0) /\ (IsBlock(f) => f.k = "block")
  BY FrameFacts DEF IsTaken, IsBlock
<1>4. Spares(frames, f, locals, Rest)
  <2>1. DOMAIN frames = 1..Len(frames)
    BY <1>1
  <2> QED BY <1>1, <1>3, <2>1 DEF Spares, Waiting
<1>5. MayOpen(frames, f, initializer, Len(Rest))
  <2>1. f.k = "block" => Len(Rest) = 0 /\ \A j \in 1..Len(frames) : ~IsTaken(frames[j])
    BY <1>1 DEF Consumed, IsTaken
  <2>2. f.mark <= Len(Rest) /\ (Marked(f) => f.mark = Len(Rest))
    BY <1>1, <1>3
  <2> QED BY <1>2, <1>3, <2>1, <2>2 DEF MayOpen
<1>6. Opens(f, locals, locals')
  BY <1>3 DEF Opens, Scope
<1>7. mode \in {"statement", "want"} /\ locals' \in [Locals -> Contents]
  BY <1>1
<1> QED BY <1>3, <1>4, <1>5, <1>6, <1>7, Pushed

LEMMA Operands ==
    ASSUME Counting, IInv, OpenSend \/ OpenElvis \/ OpenAssign \/ OpenAutoreleasing \/ OpenTest
    PROVE  IInv'
<1>0. Len(temps) \in Nat /\ Nil \in Pointers
  BY Parts DEF Pointers
<1>1. CASE OpenSend
  <2>1. PICK fam \in {"plain", "init"} : Open(Frame("receiver", fam, Nil, 0))
    BY <1>1 DEF OpenSend
  <2> DEFINE f == Frame("receiver", fam, Nil, 0)
  <2>2. f \in FrameRecords /\ f.k = "receiver"
    BY <1>0 DEF Frame, FrameRecords
  <2>3. Open(f)
    BY <2>1
  <2> HIDE DEF f
  <2> QED BY <2>2, <2>3, Begins DEF Open, Push, Want, Marked
<1>2. CASE OpenElvis
  <2> DEFINE f == Frame("elvis", "", Nil, Mark)
  <2>1. f \in FrameRecords /\ f.k = "elvis" /\ f.mark = Len(temps)
    BY <1>0 DEF Mark, Frame, FrameRecords
  <2>2. Open(f)
    BY <1>2 DEF OpenElvis
  <2> HIDE DEF f
  <2> QED BY <2>1, <2>2, Begins DEF Open, Push, Want
<1>3. CASE OpenAssign
  <2>1. PICK v \in Readable : ~Waiting(locals[v]) /\ Open(Frame("assign", v, Nil, 0))
    BY <1>3 DEF OpenAssign
  <2> DEFINE f == Frame("assign", v, Nil, 0)
  <2>2. v \in Locals /\ locals[v] \in Pointers
    BY DEF Readable, IInv, TypeOK, DataOK, Contents
  <2>3. f \in FrameRecords /\ f.k = "assign" /\ f.name = v
    BY <2>2, Made
  <2>4. Open(f)
    BY <2>1
  <2> HIDE DEF f
  <2> QED BY <2>1, <2>2, <2>3, <2>4, Begins DEF Open, Push, Want, Marked
<1>4. CASE OpenAutoreleasing
  <2> DEFINE f == Frame("autoreleasing", "", Nil, 0)
  <2>1. f \in FrameRecords /\ f.k = "autoreleasing"
    BY Made
  <2>2. Open(f)
    BY <1>4 DEF OpenAutoreleasing
  <2> HIDE DEF f
  <2> QED BY <2>1, <2>2, Begins DEF Open, Push, Want, Marked
<1>5. CASE OpenTest
  <2> DEFINE f == Frame("test", "", Nil, Mark)
  <2>1. f \in FrameRecords /\ f.k = "test" /\ f.mark = Len(temps)
    BY <1>0 DEF Mark, Frame, FrameRecords
  <2>2. Open(f)
    BY <1>5 DEF OpenTest
  <2> HIDE DEF f
  <2> QED BY <2>1, <2>2, Begins DEF Open, Push, Want
<1> QED BY <1>1, <1>2, <1>3, <1>4, <1>5

LEMMA Blocks ==
    ASSUME Counting, IInv, OpenBlock
    PROVE  IInv'
<1> DEFINE f == Frame("block", Scope, Nil, 0)
<1>1. f \in FrameRecords /\ f.k = "block" /\ f.name = Scope
  BY Made DEF Scope
<1>2. /\ Want /\ AnyUse /\ frames' = Append(frames, f) /\ mode' = "statement"
      /\ temps = <<>> /\ \A k \in DOMAIN frames : ~Consumed(k)
      /\ UNCHANGED <<initializer, val, temps, locals, self, elsewhere, rt, given>>
  BY DEF OpenBlock, Unless, Counting, Push
<1> HIDE DEF f
<1> QED BY <1>1, <1>2, Begins DEF Marked

(* self = [super init]: the receiver is given up inside, so nothing may wait on it. *)
LEMMA Selves ==
    ASSUME IInv, OpenSelf
    PROVE  IInv'
<1> DEFINE f == Frame("self", "", Nil, 0)
<1>1. f \in FrameRecords /\ f.k = "self"
  BY Made
<1>2. /\ mode = "want" /\ mode' = mode /\ TopIs("expr") /\ initializer /\ ~Waiting(self.o)
      /\ frames' = Append(frames, f)
      /\ UNCHANGED <<initializer, val, temps, locals, self, elsewhere, rt, given>>
  BY DEF OpenSelf, Want, Push
<1> HIDE DEF f
<1>3. /\ Rest = temps /\ Len(Rest) \in Nat /\ locals \in [Locals -> Contents]
      /\ frames[Len(frames)].k = "expr"
  BY <1>2, Idle DEF TopIs, Top
<1>4. f.mark = 0 /\ ~Marked(f) /\ ~IsTaken(f) /\ ~IsBlock(f)
  BY <1>1, FrameFacts DEF Marked, IsTaken, IsBlock
<1>5. MayOpen(frames, f, initializer, Len(Rest))
  <2>1. f.mark <= Len(Rest)
    BY <1>3, <1>4
  <2> QED BY <1>1, <1>2, <1>3, <1>4, <2>1 DEF MayOpen
<1>6. Spares(frames, f, locals, Rest) /\ Opens(f, locals, locals')
  BY <1>1, <1>2, <1>4 DEF Spares, Opens
<1> QED BY <1>1, <1>2, <1>3, <1>4, <1>5, <1>6, Pushed

-----------------------------------------------------------------------------
(* Steps that find a value.                                                  *)

(* What the counts change by is what the places outside the frames do. *)
Settles == \A a \in Objects :
    rt'.rc[a] + Hit(elsewhere, a) + Pooled(rt, a) + Mine(self, initializer, a)
        = rt.rc[a] + Hand(val', a) + Hit(elsewhere', a) + Pooled(rt', a) + Mine(self', initializer, a)

StaysWithSelf == \A k \in 1..Len(frames) :
    Waits(frames, k) /\ HeldBySelf(self, initializer, frames[k].o) =>
        HeldBySelf(self', initializer, frames[k].o)

(* The register is what it was before the value in hand. *)
Arriving == InHand(val', temps') /\ RestOf(val', temps') = temps /\ (val'.own => val'.o # Nil)

LEMMA Valued ==
    ASSUME IInv, Want, mode' = "have", UNCHANGED <<initializer, frames, locals, given>>,
           DataOK', Arriving, TopIs("self") => val'.own \/ val'.o = Nil,
           SelfOK', ValueKept', Clean', rt.pool \subseteq rt'.pool, StaysWithSelf, Settles
    PROVE  IInv'
<1>1. /\ ~val.own /\ Rest = temps /\ Rest \in Seq(Objects)
      /\ frames \in Seq(FrameRecords) /\ locals \in [Locals -> Contents] /\ mode # "done"
  BY Idle DEF Want
<1>2. Rest' = Rest
  BY <1>1 DEF Arriving, Rest
<1>3. /\ TypeOK /\ Nested(frames, initializer, Len(Rest)) /\ SlotsOK(frames, locals) /\ Moments
      /\ Waiters /\ Even
  BY DEF IInv
<1>4. TypeOK'
  BY <1>3 DEF TypeOK
<1>5. Moments'
  BY <1>1, <1>3 DEF Moments, Arriving, Statement, Have, HaveFor, TopIs, Top
<1>6. Waiters'
  <2>1. ReceiversKept(frames, locals, self, initializer, rt.pool, Rest)
    BY <1>3 DEF Waiters
  <2>2. ReceiversKept(frames, locals, self', initializer, rt'.pool, Rest)
    BY <2>1, WaitStays DEF StaysWithSelf
  <2> QED BY <1>2, <2>2 DEF Waiters
<1>7. ASSUME NEW a \in Objects
      PROVE  rt'.rc[a] = Sum(locals, Rest, val', frames, elsewhere', given, rt', self', initializer, a)
  <2> DEFINE A == Tally(locals, a)  B == Tally(Rest, a)  C == Hand(val', a)
             D == Tally(Takings(frames), a)
             E == Hit(elsewhere, a)  F == Hit(given, a)  G == Pooled(rt, a)
             H == Mine(self, initializer, a)
             E2 == Hit(elsewhere', a)  G2 == Pooled(rt', a)
             H2 == Mine(self', initializer, a)  n == rt.rc[a]  m == rt'.rc[a]
  <2>1. /\ A \in Nat /\ B \in Nat /\ C \in Nat /\ D \in Nat /\ E \in Nat /\ F \in Nat /\ G \in Nat
        /\ H \in Nat /\ E2 \in Nat /\ G2 \in Nat /\ H2 \in Nat
    BY <1>1, Counts
  <2>2. n = A + B + 0 + D + E + F + G + H
    BY <1>1, <1>3 DEF Even, Sum, Hand
  <2>3. m + E + G + H = n + C + E2 + G2 + H2
    BY DEF Settles
  <2>4. m \in Nat
    BY DEF DataOK, Heaps
  <2>5. Sum(locals, Rest, val', frames, elsewhere', given, rt', self', initializer, a)
          = A + B + C + D + E2 + F + G2 + H2
    BY DEF Sum
  <2> HIDE DEF A, B, C, D, E, F, G, H, E2, G2, H2, n, m
  <2>6. m = A + B + C + D + E2 + F + G2 + H2
    BY <2>1, <2>2, <2>3, <2>4
  <2> QED BY <2>5, <2>6 DEF m
<1>8. Even'
  BY <1>2, <1>7 DEF Even
<1> QED BY <1>2, <1>3, <1>4, <1>5, <1>6, <1>8 DEF IInv

LEMMA Arrived ==
    ASSUME IInv, Want, mode' = "have",
           UNCHANGED <<initializer, frames, locals, given, self, elsewhere>>,
           val' \in Vals, temps' \in Seq(Objects), Arriving,
           ~TopIs("self"), initializer /\ TopIs("return") => self.o = Nil,
           ValueKept', rt' \in Heaps, rt'.pool = rt.pool, rt'.faults = rt.faults,
           \A a \in Objects : rt'.rc[a] = rt.rc[a] + Hand(val', a)
    PROVE  IInv'
<1>1. DataOK'
  BY DEF IInv, TypeOK, DataOK
<1>2. SelfOK'
  <2>1. SelfOK /\ mode = "want"
    BY DEF IInv, Want
  <2>2. ~((TopIs("self"))')
    BY DEF TopIs, Top
  <2> QED BY <2>1, <2>2 DEF SelfOK, HaveFor, Have, TopIs, Top
<1>3. Clean'
  BY DEF IInv, Clean
<1>4. Settles
  <2> SUFFICES ASSUME NEW a \in Objects
               PROVE  rt'.rc[a] + Hit(elsewhere, a) + Pooled(rt, a) + Mine(self, initializer, a)
                        = rt.rc[a] + Hand(val', a) + Hit(elsewhere, a) + Pooled(rt, a)
                              + Mine(self, initializer, a)
    BY DEF Settles, Pooled
  <2> DEFINE E == Hit(elsewhere, a)  G == Pooled(rt, a)  H == Mine(self, initializer, a)
             n == rt.rc[a]  m == rt'.rc[a]  C == Hand(val', a)
  <2>1. E \in Nat /\ G \in Nat /\ H \in Nat /\ n \in Nat /\ m = n + C /\ C \in Nat
    BY Held DEF Hit, Pooled, Mine, Hand
  <2> HIDE DEF E, G, H, n, m, C
  <2>2. m + E + G + H = n + C + E + G + H
    BY <2>1
  <2> QED BY <2>2 DEF E, G, H, n, m, C
<1>5. StaysWithSelf
  BY DEF StaysWithSelf
<1>6. rt.pool \subseteq rt'.pool
  OBVIOUS
<1> QED BY <1>1, <1>2, <1>3, <1>4, <1>5, <1>6, Valued

(* What an initializer may evaluate. *)
LEMMA Uses ==
    ASSUME Counting, AnyUse
    PROVE  ~TopIs("self") /\ ~(initializer /\ TopIs("return"))
BY DEF Counting, AnyUse

LEMMA Borrowing ==
    ASSUME IInv, Want, NEW o \in Pointers, Value(Borrowed(o)), UNCHANGED <<temps, locals, elsewhere, rt>>,
           ~TopIs("self"), initializer /\ TopIs("return") => self.o = Nil,
           \/ o = Nil \/ (\E v \in Locals : locals[v] = o)
           \/ HeldBySelf(self, initializer, o)
    PROVE  IInv'
<1>1. /\ mode' = "have" /\ val' = [o |-> o, own |-> FALSE]
      /\ UNCHANGED <<initializer, frames, locals, given, self, elsewhere, temps, rt>>
  BY DEF Value, Borrowed
<1>2. val' \in Vals /\ temps' \in Seq(Objects) /\ Arriving /\ rt' \in Heaps
  BY <1>1 DEF Vals, IInv, TypeOK, DataOK, Arriving, InHand, RestOf
<1>3. ValueKept'
  BY <1>1 DEF ValueKept
<1>4. \A a \in Objects : rt'.rc[a] = rt.rc[a] + Hand(val', a)
  <2>1. \A a \in Objects : rt.rc[a] \in Nat /\ rt'.rc[a] = rt.rc[a] /\ Hand(val', a) = 0
    BY <1>1, Held DEF Hand
  <2> QED BY <2>1
<1> QED BY <1>1, <1>2, <1>3, <1>4, Arrived

LEMMA Making ==
    ASSUME IInv, Want, NEW o \in Objects, Value(Owned(o)), temps' = Register(temps, o),
           UNCHANGED <<locals, elsewhere>>, ~TopIs("self"), ~(initializer /\ TopIs("return")),
           rt' \in Heaps, rt'.pool = rt.pool, rt'.faults = rt.faults,
           \A a \in Objects : rt'.rc[a] = rt.rc[a] + Hit(o, a)
    PROVE  IInv'
<1>1. /\ mode' = "have" /\ val' = Owned(o)
      /\ UNCHANGED <<initializer, frames, locals, given, self, elsewhere>>
  BY DEF Value
<1>2. o \in Pointers /\ temps \in Seq(Objects) /\ o # Nil
  BY Names DEF Pointers, IInv, TypeOK, DataOK
<1>3. /\ val' \in Vals /\ temps' \in Seq(Objects) /\ Arriving
      /\ \A a \in Objects : Hand(val', a) = Hit(o, a)
  BY <1>1, <1>2, PutOn DEF Arriving
<1>4. ValueKept'
  BY <1>1, <1>2 DEF ValueKept, Owned
<1> QED BY <1>1, <1>3, <1>4, Arrived

LEMMA Values ==
    ASSUME Counting, IInv, LoadLocal \/ LoadNil \/ LoadSelf \/ LoadWeak \/ MakeOwned
    PROVE  IInv'
<1>0. Nil \in Pointers /\ self.o \in Pointers /\ rt \in Heaps
  BY Parts DEF Pointers, IInv, TypeOK, DataOK
<1>1. CASE LoadLocal
  <2>1. PICK v \in Readable : Value(Borrowed(locals[v]))
    BY <1>1 DEF LoadLocal
  <2>2. v \in Locals /\ locals[v] \in Pointers
    BY DEF Readable, IInv, TypeOK, DataOK, Contents
  <2> QED BY <1>1, <2>1, <2>2, Uses, Borrowing DEF LoadLocal
<1>2. CASE LoadNil
  <2>1. Value(Borrowed(Nil))
    BY <1>2 DEF LoadNil, NoValue, Borrowed
  <2>2. ~TopIs("self") /\ (initializer /\ TopIs("return") => self.o = Nil)
    BY <1>2, Uses DEF LoadNil, TopIs
  <2>3. Want /\ UNCHANGED <<temps, locals, elsewhere, rt>>
    BY <1>2 DEF LoadNil
  <2> QED BY <1>0, <2>1, <2>2, <2>3, Borrowing
<1>3. CASE LoadSelf
  <2>1. /\ Want /\ AnyUse /\ Value(Borrowed(self.o)) /\ UNCHANGED <<temps, locals, elsewhere, rt>>
    BY <1>3 DEF LoadSelf
  <2>2. HeldBySelf(self, initializer, self.o)
    BY <2>1 DEF IInv, SelfOK, HeldBySelf, HaveFor, Have, Want
  <2> QED BY <1>0, <2>1, <2>2, Uses, Borrowing
<1>4. CASE LoadWeak
  <2>1. PICK o \in {a \in Objects : rt.rc[a] > 0} :
            Value(Owned(o)) /\ temps' = Register(temps, o) /\ rt' = Retain(rt, o)
    BY <1>4 DEF LoadWeak
  <2>2. o \in Pointers /\ rt.rc[o] >= 1
    BY <2>1, Held DEF Pointers
  <2>3. /\ rt' \in Heaps /\ rt'.pool = rt.pool /\ rt'.faults = rt.faults
        /\ \A a \in Objects : rt'.rc[a] = rt.rc[a] + Hit(o, a)
    BY <1>0, <2>1, <2>2, Retained
  <2> QED BY <1>4, <2>1, <2>3, Uses, Making DEF LoadWeak
<1>5. CASE MakeOwned
  <2>1. PICK o \in Fresh :
            Value(Owned(o)) /\ temps' = Register(temps, o) /\ rt' = Create(rt, o)
    BY <1>5 DEF MakeOwned
  <2>2. o \in Objects /\ rt.rc[o] = 0
    BY DEF Fresh
  <2>3. /\ rt' \in Heaps /\ rt'.pool = rt.pool /\ rt'.faults = rt.faults
        /\ \A a \in Objects : rt'.rc[a] = rt.rc[a] + Hit(o, a)
    BY <1>0, <2>1, <2>2, Created
  <2> QED BY <1>5, <2>1, <2>2, <2>3, Uses, Making DEF MakeOwned
<1> QED BY <1>1, <1>2, <1>3, <1>4, <1>5

-----------------------------------------------------------------------------
(* What a callee does.                                                       *)

LEMMA Unused ==
    ASSUME IInv, NEW n \in Fresh
    PROVE  n \in Objects /\ n \in Pointers /\ rt.rc[n] = 0 /\ n # elsewhere /\ n \notin rt.pool
<1>1. n \in Objects /\ n \in Pointers /\ rt.rc[n] = 0
  BY DEF Fresh, Pointers
<1>2. rt.rc[n] >= 1 => FALSE
  BY <1>1
<1>3. n \in rt.pool => Holds(n)
  BY DEF Holds, Holding
<1> QED BY <1>1, <1>2, <1>3, Held

(* The outcomes of a method that hands back its result at +0. *)
Lends(c, recv) ==
    \/ c.o \in {Nil, recv, elsewhere} /\ c.h = rt /\ c.e = elsewhere
    \/ c.o \in Fresh /\ c.h = Autorelease(Create(rt, c.o), c.o) /\ c.e = elsewhere
    \/ c.o \in Fresh /\ c.h = Create(Release(rt, elsewhere), c.o) /\ c.e = c.o
    \/ c.o = Nil /\ c.h = Release(rt, elsewhere) /\ c.e = Nil

(* The outcomes of an init. *)
Inits(c, recv) ==
    /\ c.e = elsewhere
    /\ \/ c.o = recv /\ c.h = rt
       \/ c.o = Nil /\ c.h = Release(rt, recv)
       \/ c.o \in Fresh /\ c.h = Create(Release(rt, recv), c.o)

LEMMA Outcomes ==
    ASSUME NEW recv, NEW fam \in {"plain", "init"}, NEW c \in Callees(fam, recv)
    PROVE  /\ fam = "plain" => Lends(c, recv)
           /\ fam = "init" => Inits(c, recv)
<1> DEFINE keep == [o |-> Nil, h |-> rt, e |-> elsewhere]
<1>1. CASE recv = Nil
  <2>1. c = keep
    BY <1>1 DEF Callees
  <2> QED BY <1>1, <2>1 DEF Lends, Inits
<1>2. CASE recv # Nil /\ fam = "plain"
  <2>1. \/ \E o \in {Nil, recv, elsewhere} : c = [keep EXCEPT !.o = o]
        \/ \E n \in Fresh : c = [keep EXCEPT !.o = n, !.h = Autorelease(Create(rt, n), n)]
        \/ \E n \in Fresh : c = [o |-> n, h |-> Create(Release(rt, elsewhere), n), e |-> n]
        \/ c = [keep EXCEPT !.h = Release(rt, elsewhere), !.e = Nil]
    BY <1>2, Zenon DEF Callees
  <2>2. CASE \E o \in {Nil, recv, elsewhere} : c = [keep EXCEPT !.o = o]
    BY <1>2, <2>2 DEF Lends
  <2>3. CASE \E n \in Fresh : c = [keep EXCEPT !.o = n, !.h = Autorelease(Create(rt, n), n)]
    BY <1>2, <2>3 DEF Lends
  <2>4. CASE \E n \in Fresh : c = [o |-> n, h |-> Create(Release(rt, elsewhere), n), e |-> n]
    BY <1>2, <2>4 DEF Lends
  <2>5. CASE c = [keep EXCEPT !.h = Release(rt, elsewhere), !.e = Nil]
    BY <1>2, <2>5 DEF Lends
  <2> QED BY <2>1, <2>2, <2>3, <2>4, <2>5
<1>3. CASE recv # Nil /\ fam = "init"
  <2>1. \/ c = [keep EXCEPT !.o = recv]
        \/ c = [keep EXCEPT !.h = Release(rt, recv)]
        \/ \E n \in Fresh : c = [keep EXCEPT !.o = n, !.h = Create(Release(rt, recv), n)]
    BY <1>3, Zenon DEF Callees
  <2> QED BY <1>3, <2>1 DEF Inits
<1> QED BY <1>1, <1>2, <1>3

LEMMA Lent ==
    ASSUME IInv, NEW recv \in Pointers, NEW c, Lends(c, recv)
    PROVE  /\ c.h \in Heaps /\ rt.pool \subseteq c.h.pool /\ c.h.faults = rt.faults
           /\ c.o \in Pointers /\ c.e \in Pointers
           /\ c.o = Nil \/ c.o = recv \/ c.o = c.e \/ c.o \in c.h.pool
           /\ \A a \in Objects : c.h.rc[a] + Hit(elsewhere, a) + Pooled(rt, a)
                                     = rt.rc[a] + Hit(c.e, a) + Pooled(c.h, a)
<1>1. /\ rt \in Heaps /\ elsewhere \in Pointers /\ Nil \in Pointers
      /\ \A a \in Objects : /\ rt.rc[a] \in Nat /\ Hit(elsewhere, a) \in Nat
                            /\ Pooled(rt, a) \in Nat /\ Hit(Nil, a) = 0
      /\ elsewhere = Nil \/ rt.rc[elsewhere] >= 1
  BY Held, Names DEF IInv, TypeOK, DataOK, Pointers, Hit, Pooled
<1>2. CASE c.o \in {Nil, recv, elsewhere} /\ c.h = rt /\ c.e = elsewhere
  BY <1>1, <1>2
<1>3. CASE c.o \in Fresh /\ c.h = Autorelease(Create(rt, c.o), c.o) /\ c.e = elsewhere
  <2> DEFINE n == c.o  g == Create(rt, n)
  <2>1. n \in Objects /\ n \in Pointers /\ rt.rc[n] = 0 /\ n # Nil
    BY <1>3, Unused, Names
  <2>2. /\ g \in Heaps /\ g.pool = rt.pool /\ g.faults = rt.faults
        /\ \A a \in Objects : g.rc[a] = rt.rc[a] + Hit(n, a)
    BY <1>1, <2>1, Created
  <2>3. n \in g.pool => g.rc[n] >= 1
    BY <2>1, <2>2 DEF Hit
  <2>4. c.h = Autorelease(g, n)
    BY <1>3
  <2> HIDE DEF n, g
  <2>5. /\ c.h \in Heaps /\ c.h.faults = g.faults /\ g.pool \subseteq c.h.pool /\ n \in c.h.pool
        /\ \A a \in Objects : c.h.rc[a] + Pooled(g, a) + Hit(n, a) = g.rc[a] + Pooled(c.h, a)
    BY <2>1, <2>2, <2>3, <2>4, Autoreleased
  <2>6. ASSUME NEW a \in Objects
        PROVE  c.h.rc[a] + Hit(elsewhere, a) + Pooled(rt, a)
                  = rt.rc[a] + Hit(elsewhere, a) + Pooled(c.h, a)
    <3> DEFINE P == Pooled(rt, a)  Q == Pooled(c.h, a)  X == Hit(n, a)  E == Hit(elsewhere, a)
               r == rt.rc[a]  s == g.rc[a]  t == c.h.rc[a]
    <3>1. P \in Nat /\ Q \in Nat /\ X \in Nat /\ E \in Nat /\ r \in Nat /\ s = r + X /\ t \in Nat
      BY <1>1, <2>2, <2>5 DEF Pooled, Hit, Heaps
    <3>2. t + P + X = s + Q
      BY <2>2, <2>5 DEF Pooled
    <3> HIDE DEF P, Q, X, E, r, s, t
    <3>3. t + E + P = r + E + Q
      BY <3>1, <3>2
    <3> QED BY <3>3 DEF P, Q, E, r, t
  <2> QED BY <1>1, <1>3, <2>1, <2>2, <2>5, <2>6 DEF n
<1>4. /\ Release(rt, elsewhere) \in Heaps /\ Release(rt, elsewhere).pool = rt.pool
      /\ Release(rt, elsewhere).faults = rt.faults
      /\ \A a \in Objects : Release(rt, elsewhere).rc[a] + Hit(elsewhere, a) = rt.rc[a]
  BY <1>1, Released
<1>5. CASE c.o = Nil /\ c.h = Release(rt, elsewhere) /\ c.e = Nil
  <2>1. \A a \in Objects : c.h.rc[a] \in Nat /\ Pooled(c.h, a) = Pooled(rt, a)
    BY <1>4, <1>5 DEF Heaps, Pooled
  <2>2. \A a \in Objects : c.h.rc[a] + Hit(elsewhere, a) + Pooled(rt, a)
                              = rt.rc[a] + Hit(c.e, a) + Pooled(c.h, a)
    BY <1>1, <1>4, <1>5, <2>1
  <2> QED BY <1>1, <1>4, <1>5, <2>2
<1>6. CASE c.o \in Fresh /\ c.h = Create(Release(rt, elsewhere), c.o) /\ c.e = c.o
  <2> DEFINE n == c.o  g == Release(rt, elsewhere)
  <2>1. n \in Objects /\ n \in Pointers /\ rt.rc[n] = 0 /\ n # elsewhere
    BY <1>6, Unused
  <2>2. /\ g \in Heaps /\ g.pool = rt.pool /\ g.faults = rt.faults
        /\ \A a \in Objects : g.rc[a] + Hit(elsewhere, a) = rt.rc[a] /\ g.rc[a] \in Nat
    BY <1>4, <1>6 DEF Heaps
  <2>3. g.rc[n] = 0
    BY <1>1, <2>1, <2>2
  <2>4. c.h = Create(g, n) /\ c.e = n
    BY <1>6
  <2> HIDE DEF n, g
  <2>5. /\ c.h \in Heaps /\ c.h.pool = g.pool /\ c.h.faults = g.faults
        /\ \A a \in Objects : c.h.rc[a] = g.rc[a] + Hit(n, a)
    BY <2>1, <2>2, <2>3, <2>4, Created
  <2>6. ASSUME NEW a \in Objects
        PROVE  c.h.rc[a] + Hit(elsewhere, a) + Pooled(rt, a)
                  = rt.rc[a] + Hit(c.e, a) + Pooled(c.h, a)
    <3> DEFINE P == Pooled(rt, a)  X == Hit(n, a)  E == Hit(elsewhere, a)
               r == rt.rc[a]  s == g.rc[a]  t == c.h.rc[a]
    <3>1. /\ P \in Nat /\ X \in Nat /\ E \in Nat /\ r \in Nat /\ s \in Nat
          /\ t = s + X /\ s + E = r
      BY <1>1, <2>2, <2>5 DEF Pooled, Hit
    <3>2. Pooled(c.h, a) = P /\ Hit(c.e, a) = X
      BY <2>2, <2>4, <2>5 DEF Pooled
    <3> HIDE DEF P, X, E, r, s, t
    <3>3. t + E + P = r + X + P
      BY <3>1
    <3> QED BY <3>2, <3>3 DEF P, E, r, t
  <2> QED BY <1>6, <2>1, <2>2, <2>5, <2>6 DEF n
<1> QED BY <1>2, <1>3, <1>5, <1>6 DEF Lends

LEMMA Inited ==
    ASSUME IInv, NEW recv \in Pointers, recv = Nil \/ rt.rc[recv] >= 1, NEW c, Inits(c, recv)
    PROVE  /\ c.h \in Heaps /\ c.h.pool = rt.pool /\ c.h.faults = rt.faults
           /\ c.o \in Pointers /\ c.e = elsewhere
           /\ \A a \in Objects : c.h.rc[a] + Hit(recv, a) = rt.rc[a] + Hit(c.o, a)
<1> DEFINE g == Release(rt, recv)
<1>1. /\ rt \in Heaps /\ Nil \in Pointers /\ c.e = elsewhere
      /\ \A a \in Objects : /\ rt.rc[a] \in Nat /\ Hit(recv, a) \in Nat /\ Hit(Nil, a) = 0
  BY Held, Names DEF IInv, TypeOK, DataOK, Pointers, Hit, Inits
<1>2. /\ g \in Heaps /\ g.pool = rt.pool /\ g.faults = rt.faults
      /\ \A a \in Objects : g.rc[a] + Hit(recv, a) = rt.rc[a] /\ g.rc[a] \in Nat
  <2>1. /\ g \in Heaps /\ g.pool = rt.pool /\ g.faults = rt.faults
        /\ \A a \in Objects : g.rc[a] + Hit(recv, a) = rt.rc[a]
    BY <1>1, Released
  <2> QED BY <2>1 DEF Heaps
<1>3. CASE c.o = recv /\ c.h = rt
  BY <1>1, <1>3
<1>4. CASE c.o = Nil /\ c.h = g
  <2> HIDE DEF g
  <2> QED BY <1>1, <1>2, <1>4
<1>5. CASE c.o \in Fresh /\ c.h = Create(g, c.o)
  <2> DEFINE n == c.o
  <2>1. n \in Objects /\ n \in Pointers /\ rt.rc[n] = 0 /\ c.h = Create(g, n)
    BY <1>5, Unused
  <2> HIDE DEF n, g
  <2>2. g.rc[n] = 0
    BY <1>1, <1>2, <2>1
  <2>3. /\ c.h \in Heaps /\ c.h.pool = g.pool /\ c.h.faults = g.faults
        /\ \A a \in Objects : c.h.rc[a] = g.rc[a] + Hit(n, a)
    BY <1>2, <2>1, <2>2, Created
  <2>4. ASSUME NEW a \in Objects PROVE c.h.rc[a] + Hit(recv, a) = rt.rc[a] + Hit(n, a)
    <3>1. Hit(n, a) \in Nat
      BY DEF Hit
    <3> QED BY <1>1, <1>2, <2>3, <3>1
  <2> QED BY <1>1, <1>2, <2>1, <2>3, <2>4 DEF n
<1> QED BY <1>3, <1>4, <1>5 DEF Inits

LEMMA Supers ==
    ASSUME Counting, IInv, ConsumeSelf
    PROVE  IInv'
<1>1. PICK c \in Callees("init", self.o) :
          /\ rt' = c.h /\ val' = Owned(c.o) /\ temps' = Register(temps, c.o)
          /\ elsewhere' = c.e /\ self' = [self EXCEPT !.owned = FALSE]
  BY DEF ConsumeSelf
<1>2. /\ Want /\ mode' = "have" /\ initializer /\ UNCHANGED <<initializer, frames, locals, given>>
      /\ TopIs("self") \/ TopIs("return")
  BY DEF ConsumeSelf, Unless, Counting
<1>3. /\ self \in [o : Pointers, owned : BOOLEAN] /\ temps \in Seq(Objects)
      /\ locals \in [Locals -> Contents] /\ given \in Pointers /\ elsewhere \in Pointers
      /\ frames \in Seq(FrameRecords)
  BY DEF IInv, TypeOK, DataOK
<1>4. /\ HeldBySelf(self, initializer, self.o) /\ self.o \in Pointers
      /\ self'.o = self.o /\ ~self'.owned /\ self' \in [o : Pointers, owned : BOOLEAN]
      /\ TopIs("self") => ~Waiting(self.o)
  <2>1. self.owned /\ (TopIs("self") => ~Waiting(self.o))
    BY <1>2 DEF IInv, SelfOK, HaveFor, Have, Want
  <2> QED BY <1>1, <1>3, <2>1 DEF HeldBySelf
<1>5. self.o = Nil \/ rt.rc[self.o] >= 1
  BY <1>4, Held DEF Holds, Holding, Pointers
<1>6. /\ c.h \in Heaps /\ c.h.pool = rt.pool /\ c.h.faults = rt.faults
      /\ c.o \in Pointers /\ c.e = elsewhere
      /\ \A a \in Objects : c.h.rc[a] + Hit(self.o, a) = rt.rc[a] + Hit(c.o, a)
  <2>1. Inits(c, self.o)
    BY Outcomes
  <2> QED BY <1>4, <1>5, <2>1, Inited
<1>7. /\ val' \in Vals /\ temps' \in Seq(Objects) /\ Arriving
      /\ \A a \in Objects : Hand(val', a) = Hit(c.o, a)
  BY <1>1, <1>3, <1>6, PutOn DEF Arriving
<1>8. val'.own \/ val'.o = Nil
  BY <1>1 DEF Owned
<1>9. DataOK'
  BY <1>1, <1>2, <1>3, <1>4, <1>6, <1>7 DEF DataOK
<1>10. SelfOK'
  <2>1. (TopIs("self") \/ TopIs("return"))' /\ (TopIs("self")' <=> TopIs("self"))
    BY <1>2 DEF TopIs, Top
  <2>2. Waiting(self.o)' <=> Waiting(self.o)
    BY <1>2, <1>4 DEF Waiting
  <2> QED BY <1>2, <1>4, <2>1, <2>2 DEF SelfOK, HaveFor, Have
<1>11. ValueKept'
  BY <1>8 DEF ValueKept
<1>12. Clean' /\ rt.pool \subseteq rt'.pool
  BY <1>1, <1>6 DEF IInv, Clean
<1>13. StaysWithSelf
  <2> SUFFICES ASSUME NEW k \in 1..Len(frames), Waits(frames, k),
                      HeldBySelf(self, initializer, frames[k].o)
               PROVE  FALSE
    BY DEF StaysWithSelf
  <2>1. frames[k].k = "argument" /\ frames[k].o = self.o /\ k \in DOMAIN frames
    BY <1>3 DEF Waits, HeldBySelf
  <2>2. TopIs("return") /\ Len(frames) \in Nat
    BY <1>2, <1>3, <1>4, <2>1, Places DEF Waiting
  <2>3. frames[Len(frames)].k = "return"
    BY <2>2 DEF TopIs, Top
  <2>4. k # Len(frames)
    BY <2>1, <2>3
  <2>5. Len(frames) \in (k + 1)..Len(frames)
    BY <2>2, <2>4
  <2> QED BY <2>3, <2>5 DEF Waits
<1>14. Settles
  <2> SUFFICES ASSUME NEW a \in Objects
               PROVE  rt'.rc[a] + Hit(elsewhere, a) + Pooled(rt, a) + Mine(self, initializer, a)
                        = rt.rc[a] + Hand(val', a) + Hit(elsewhere', a) + Pooled(rt', a)
                              + Mine(self', initializer, a)
    BY DEF Settles
  <2>1. /\ Hit(elsewhere', a) = Hit(elsewhere, a) /\ Pooled(rt', a) = Pooled(rt, a)
        /\ Hand(val', a) = Hit(c.o, a)
    BY <1>1, <1>6, <1>7 DEF Pooled
  <2>2. Mine(self, initializer, a) = Hit(self.o, a) /\ Mine(self', initializer, a) = 0
    BY <1>2, <1>4 DEF Mine, HeldBySelf, Hit
  <2>3. rt'.rc[a] + Hit(self.o, a) = rt.rc[a] + Hit(c.o, a)
    BY <1>1, <1>6
  <2>4. rt'.rc[a] \in Nat /\ rt.rc[a] \in Nat
    BY <1>1, <1>6, Held DEF Heaps
  <2> DEFINE E == Hit(elsewhere, a)  P == Pooled(rt, a)  X == Hit(self.o, a)  Y == Hit(c.o, a)
             r == rt.rc[a]  t == rt'.rc[a]
  <2>5. E \in Nat /\ P \in Nat /\ X \in Nat /\ Y \in Nat /\ r \in Nat /\ t \in Nat /\ t + X = r + Y
    BY <2>3, <2>4 DEF Hit, Pooled
  <2> HIDE DEF E, P, X, Y, r, t
  <2>6. t + E + P + X = r + Y + E + P + 0
    BY <2>5
  <2> QED BY <2>1, <2>2, <2>6 DEF E, P, X, Y, r, t
<1> QED BY <1>2, <1>8, <1>9, <1>7, <1>10, <1>11, <1>12, <1>13, <1>14, Valued

-----------------------------------------------------------------------------
(* Steps that leave a frame.                                                 *)

LEMMA Wider ==
    ASSUME IInv, NEW r, r = Rest \/ r = temps
    PROVE  /\ r \in Seq(Objects) /\ Len(r) \in Nat /\ Nested(frames, initializer, Len(r))
           /\ ReceiversKept(frames, locals, self, initializer, rt.pool, r)
<1>1. /\ Rest \in Seq(Objects) /\ Len(Rest) \in Nat /\ Len(temps) \in Nat
      /\ Len(Rest) <= Len(temps) /\ \A i \in 1..Len(Rest) : Rest[i] = temps[i]
      /\ temps \in Seq(Objects) /\ frames \in Seq(FrameRecords)
      /\ Nested(frames, initializer, Len(Rest))
      /\ ReceiversKept(frames, locals, self, initializer, rt.pool, Rest)
  BY Parts DEF IInv, TypeOK, DataOK, Waiters
<1>2. Nested(frames, initializer, Len(temps))
  <2> SUFFICES ASSUME NEW k \in 1..Len(frames) PROVE FrameOK(frames, k, initializer, Len(temps))
    BY DEF Nested
  <2>1. FrameOK(frames, k, initializer, Len(Rest))
    BY <1>1 DEF Nested
  <2>2. frames[k].mark \in Nat
    BY <1>1, Places, FrameFacts
  <2>3. frames[k].mark <= Len(Rest)
    BY <2>1 DEF FrameOK
  <2>4. frames[k].mark <= Len(temps)
    <3> DEFINE m == frames[k].mark  x == Len(Rest)  y == Len(temps)
    <3>1. m \in Nat /\ x \in Nat /\ y \in Nat /\ m <= x /\ x <= y
      BY <1>1, <2>2, <2>3
    <3> HIDE DEF m, x, y
    <3>2. m <= y
      BY <3>1
    <3> QED BY <3>2 DEF m, y
  <2> QED BY <2>1, <2>4 DEF FrameOK
<1>3. ReceiversKept(frames, locals, self, initializer, rt.pool, temps)
  <2>1. \A i \in 1..Len(Rest) : i \in 1..Len(temps)
    <3> DEFINE x == Len(Rest)  y == Len(temps)
    <3>1. x \in Nat /\ y \in Nat /\ x <= y
      BY <1>1
    <3> HIDE DEF x, y
    <3>2. \A i \in 1..x : i \in 1..y
      BY <3>1
    <3> QED BY <3>2 DEF x, y
  <2> QED BY <1>1, <2>1 DEF ReceiversKept, Kept
<1> QED BY <1>1, <1>2, <1>3

(* What the counts change by is what all the places do. *)
Carried(f, a) == IF IsTaken(f) THEN Hit(f.o, a) ELSE 0

Drops == \A a \in Objects :
    rt'.rc[a] + Tally(locals, a) + Tally(Rest, a) + Hand(val, a) + Carried(Top, a)
              + Hit(elsewhere, a) + Pooled(rt, a) + Mine(self, initializer, a)
        = rt.rc[a] + Tally(locals', a) + Tally(Rest', a) + Hand(val', a)
              + Hit(elsewhere', a) + Pooled(rt', a) + Mine(self', initializer, a)

(* What leaving the innermost frame does to the other frames' receivers and slots. *)
Frees(r) == /\ Leaves(Top, Len(r), Len(Rest')) /\ SparesRest(Top, r, Rest')
            /\ Ends(Top, locals, locals') /\ SparesLocals(frames, locals, locals')
            /\ SparesSelf(frames, self, self', initializer) /\ rt.pool \subseteq rt'.pool

LEMMA DropsEven ==
    ASSUME IInv, frames # <<>>, frames' = Below, DataOK', Rest' \in Seq(Objects),
           UNCHANGED <<initializer, given>>, Drops
    PROVE  Even'
<1>1. /\ frames \in Seq(FrameRecords) /\ Rest \in Seq(Objects) /\ locals \in [Locals -> Contents]
      /\ locals' \in [Locals -> Contents] /\ Even
  BY Parts DEF IInv, TypeOK, DataOK
<1>2. /\ frames' \in Seq(FrameRecords) /\ Under(frames', frames) /\ Top = frames[Len(frames)]
  BY <1>1, Closed DEF Below, Top
<1> SUFFICES ASSUME NEW a \in Objects
             PROVE  rt'.rc[a] = Sum(locals', Rest', val', frames', elsewhere', given, rt', self', initializer, a)
  BY DEF Even
<1> DEFINE A == Tally(locals, a)   A2 == Tally(locals', a)  B == Tally(Rest, a)  B2 == Tally(Rest', a)
           C == Hand(val, a)       C2 == Hand(val', a)      D == Tally(Takings(frames), a)
           D2 == Tally(Takings(frames'), a)  E == Hit(elsewhere, a)  E2 == Hit(elsewhere', a)
           F == Hit(given, a)      G == Pooled(rt, a)       G2 == Pooled(rt', a)
           H == Mine(self, initializer, a)   H2 == Mine(self', initializer, a)
           n == rt.rc[a]  m == rt'.rc[a]  x == Carried(Top, a)
<1>3. /\ A \in Nat /\ B \in Nat /\ C \in Nat /\ D \in Nat
      /\ E \in Nat /\ F \in Nat /\ G \in Nat /\ H \in Nat
  BY <1>1, Counts
<1>4. /\ A2 \in Nat /\ B2 \in Nat /\ C2 \in Nat /\ D2 \in Nat
      /\ E2 \in Nat /\ F \in Nat /\ G2 \in Nat /\ H2 \in Nat
  BY <1>1, <1>2, Counts
<1>5. n = A + B + C + D + E + F + G + H
  BY <1>1 DEF Even, Sum
<1>6. m \in Nat
  BY DEF DataOK, Heaps
<1>7. D = D2 + x /\ x \in Nat
  <2>1. /\ IsTaken(Top) => D = D2 + Hit(Top.o, a)
        /\ ~IsTaken(Top) => D = D2
    BY <1>1, <1>2, Names, TakingsMore
  <2>2. IsTaken(Top) => x = Hit(Top.o, a)
    BY DEF Carried
  <2>3. ~IsTaken(Top) => x = 0
    BY DEF Carried
  <2>4. Hit(Top.o, a) \in Nat
    BY DEF Hit
  <2> HIDE DEF D, D2, x
  <2> QED BY <1>4, <2>1, <2>2, <2>3, <2>4
<1>8. m + A + B + C + x + E + G + H = n + A2 + B2 + C2 + E2 + G2 + H2
  BY DEF Drops
<1>9. Sum(locals', Rest', val', frames', elsewhere', given, rt', self', initializer, a)
        = A2 + B2 + C2 + D2 + E2 + F + G2 + H2
  BY DEF Sum
<1> HIDE DEF A, A2, B, B2, C, C2, D, D2, E, E2, F, G, G2, H, H2, n, m, x
<1>10. m = A2 + B2 + C2 + D2 + E2 + F + G2 + H2
  BY <1>3, <1>4, <1>5, <1>6, <1>7, <1>8
<1> QED BY <1>9, <1>10 DEF m

LEMMA Dropped ==
    ASSUME IInv, NEW r, r = Rest \/ r = temps, frames # <<>>, frames' = Below,
           mode \in {"want", "have"}, mode' \in {"statement", "have"},
           UNCHANGED <<initializer, given>>, DataOK', Top.k # "return", Frees(r), Drops,
           InHand(val', temps'), val'.own => mode' = "have" /\ val'.o # Nil,
           mode' = "statement" => Top.k \in {"expr", "init"} /\ temps' = <<>>,
           initializer => self'.owned \/ (self' = self /\ Top.k # "self"),
           ValueKept', Clean'
    PROVE  IInv'
<1>1. /\ frames \in Seq(FrameRecords) /\ Rest \in Seq(Objects) /\ locals \in [Locals -> Contents]
      /\ r \in Seq(Objects) /\ Len(r) \in Nat /\ Nested(frames, initializer, Len(r))
      /\ ReceiversKept(frames, locals, self, initializer, rt.pool, r)
      /\ SlotsOK(frames, locals) /\ SelfOK /\ Moments /\ initializer \in BOOLEAN
  BY Parts, Wider DEF IInv, TypeOK, DataOK
<1>2. /\ frames' \in Seq(FrameRecords) /\ Under(frames', frames) /\ Top = frames[Len(frames)]
      /\ Len(frames) \in Nat \ {0} /\ Len(frames') = Len(frames) - 1
      /\ \A k \in 1..Len(frames') : frames'[k] = frames[k]
  BY <1>1, Closed DEF Below, Top, Under
<1>3. /\ val' \in Vals /\ temps' \in Seq(Objects) /\ locals' \in [Locals -> Contents]
      /\ rt' \in Heaps
  BY DEF DataOK
<1>4. Rest' \in Seq(Objects) /\ Len(Rest') \in Nat
  BY <1>3, RestType DEF Rest
<1>5. TypeOK'
  BY <1>1, <1>2 DEF TypeOK
<1>6. Nested(frames', initializer, Len(Rest'))
  BY <1>1, <1>2, <1>4, NestedClosed DEF Frees
<1>7. SlotsOK(frames', locals')
  BY <1>1, <1>2, <1>3, SlotsClosed DEF Frees
<1>8. ReceiversKept(frames', locals', self', initializer, rt'.pool, Rest')
  <2>1. GoesOn(frames, frames')
    BY <1>2 DEF GoesOn
  <2> QED BY <1>1, <1>2, <1>4, <2>1, WaitGoesOn DEF Frees
<1>9. Even'
  BY <1>4, DropsEven
<1>10. /\ FrameOK(frames, Len(frames), initializer, Len(r))
       /\ frames' # <<>> => /\ Top' = frames[Len(frames) - 1] /\ Len(frames') \in Nat
                            /\ FrameOK(frames, Len(frames) - 1, initializer, Len(r))
                            /\ Len(frames) - 1 # Len(frames)
  <2>1. Len(frames) \in 1..Len(frames)
    BY <1>2
  <2>2. frames' # <<>> => Len(frames') \in 1..Len(frames') /\ Len(frames') \in 1..Len(frames)
    BY <1>2, Places
  <2>3. Top' = frames'[Len(frames')]
    BY DEF Top
  <2> QED BY <1>1, <1>2, <2>1, <2>2, <2>3 DEF Nested
<1>11. ~TopIs("self")' /\ ~(initializer /\ TopIs("return")')
  BY <1>10 DEF FrameOK, TopIs
<1>12. Moments'
  <2>1. mode' = "statement" => frames' = <<>> \/ TopIs("block")'
    <3>1. mode' = "statement" => Len(frames) = 1 \/ frames[Len(frames) - 1].k = "block"
      BY <1>2, <1>10 DEF FrameOK
    <3>2. Len(frames) = 1 => frames' = <<>>
      BY <1>2, Places
    <3> QED BY <1>10, <3>1, <3>2 DEF TopIs
  <2>2. given' = Nil
    BY <1>1 DEF Moments
  <2> QED BY <1>11, <2>1, <2>2 DEF Moments, Statement, Have, HaveFor
<1>13. SelfOK'
  <2>1. initializer /\ Top.k # "self" => self.owned
    BY <1>1 DEF SelfOK, HaveFor, TopIs
  <2> QED BY <1>11, <2>1 DEF SelfOK, HaveFor
<1> QED BY <1>5, <1>6, <1>7, <1>8, <1>9, <1>12, <1>13 DEF IInv, Waiters

LEMMA DropsKept ==
    ASSUME IInv, frames # <<>>, DataOK', UNCHANGED <<initializer, self, elsewhere>>, ~IsTaken(Top),
           \A a \in Objects :
               rt'.rc[a] + Tally(locals, a) + Tally(Rest, a) + Hand(val, a) + Pooled(rt, a)
                 = rt.rc[a] + Tally(locals', a) + Tally(Rest', a) + Hand(val', a) + Pooled(rt', a),
           Rest' \in Seq(Objects)
    PROVE  Drops
<1> SUFFICES ASSUME NEW a \in Objects
             PROVE  rt'.rc[a] + Tally(locals, a) + Tally(Rest, a) + Hand(val, a) + Carried(Top, a)
                          + Hit(elsewhere, a) + Pooled(rt, a) + Mine(self, initializer, a)
                    = rt.rc[a] + Tally(locals', a) + Tally(Rest', a) + Hand(val', a)
                          + Hit(elsewhere, a) + Pooled(rt', a) + Mine(self, initializer, a)
  BY DEF Drops
<1> DEFINE A == Tally(locals, a)   A2 == Tally(locals', a)  B == Tally(Rest, a)  B2 == Tally(Rest', a)
           C == Hand(val, a)       C2 == Hand(val', a)      x == Carried(Top, a)
           E == Hit(elsewhere, a)  G == Pooled(rt, a)       G2 == Pooled(rt', a)
           H == Mine(self, initializer, a)  n == rt.rc[a]  m == rt'.rc[a]
<1>1. /\ Rest \in Seq(Objects) /\ locals \in [Locals -> Contents] /\ frames \in Seq(FrameRecords)
      /\ locals' \in [Locals -> Contents]
  BY Parts DEF IInv, TypeOK, DataOK
<1>2. /\ A \in Nat /\ B \in Nat /\ C \in Nat /\ E \in Nat /\ G \in Nat /\ H \in Nat
  BY <1>1, Counts
<1>3. /\ A2 \in Nat /\ B2 \in Nat /\ C2 \in Nat /\ G2 \in Nat
  BY <1>1, Counts
<1>4. n \in Nat /\ m \in Nat /\ x = 0
  BY Held DEF DataOK, Heaps, Carried
<1>5. m + A + B + C + G = n + A2 + B2 + C2 + G2
  OBVIOUS
<1> HIDE DEF A, A2, B, B2, C, C2, x, E, G, G2, H, n, m
<1>6. m + A + B + C + x + E + G + H = n + A2 + B2 + C2 + E + G2 + H
  BY <1>2, <1>3, <1>4, <1>5
<1> QED BY <1>6 DEF A, A2, B, B2, C, C2, x, E, G, G2, H, n, m

(* The same, when the pool's references stay as they are. *)
LEMMA FreesNothing ==
    ASSUME IInv, NEW r, Top.k # "init", UNCHANGED <<locals, self>>, rt.pool \subseteq rt'.pool,
           Leaves(Top, Len(r), Len(Rest')), SparesRest(Top, r, Rest')
    PROVE  Frees(r)
BY DEF Frees, Ends, SparesLocals, SparesSelf

(* The register cut at a mark. *)
LEMMA Cut ==
    ASSUME NEW t \in Seq(Objects), NEW m \in Nat, m <= Len(t)
    PROVE  /\ Until(t, m) \in Seq(Objects) /\ Len(Until(t, m)) = m
           /\ \A i \in 1..m : Until(t, m)[i] = t[i]
           /\ Since(t, m) \in Seq(Objects)
           /\ \A a : /\ Tally(Until(t, m), a) \in Nat /\ Tally(Since(t, m), a) \in Nat
                     /\ Tally(t, a) = Tally(Until(t, m), a) + Tally(Since(t, m), a)
<1> DEFINE p == SubSeq(t, 1, m)
<1>1. /\ p \in Seq(Objects) /\ Len(p) = m /\ \A i \in 1..m : p[i] = t[i]
      /\ Since(t, m) \in Seq(Objects)
      /\ \A a : /\ Tally(p, a) \in Nat /\ Tally(Since(t, m), a) \in Nat
                /\ Tally(t, a) = Tally(p, a) + Tally(Since(t, m), a)
  BY TallyCut DEF Since
<1>2. Until(t, m) = p
  <2>1. CASE Len(t) <= m
    <3>1. Len(t) = m /\ Len(t) \in Nat
      BY <2>1
    <3> HIDE DEF p
    <3>2. p = t
      BY <1>1, <3>1
    <3> QED BY <2>1, <3>2 DEF Until
  <2>2. CASE ~(Len(t) <= m)
    BY <2>2 DEF Until
  <2> QED BY <2>1, <2>2
<1> HIDE DEF p
<1> QED BY <1>1, <1>2

LEMMA ReleasedTemps ==
    ASSUME NEW h \in Heaps, NEW s \in Seq(Objects), \A a \in Objects : Tally(s, a) <= h.rc[a]
    PROVE  /\ ReleaseAll(h, s) \in Heaps /\ ReleaseAll(h, s).pool = h.pool
           /\ ReleaseAll(h, s).faults = h.faults
           /\ \A a \in Objects : ReleaseAll(h, s).rc[a] + Tally(s, a) = h.rc[a]
<1>1. s \in Seq(Contents) /\ \A k \in 1..Len(s) : s[k] \in Objects
  BY DEF Contents, Pointers
<1>2. \A k \in 1..Len(s) : s[k] # Garbage
  BY <1>1, Names DEF Pointers
<1> QED BY <1>1, <1>2, AllReleased

(* A value has arrived: it is alive, and a context may take it. *)
LEMMA Claiming ==
    ASSUME IInv, Have
    PROVE  /\ Take(val) = Rest /\ Claim(rt, val) \in Heaps
           /\ Claim(rt, val).pool = rt.pool /\ Claim(rt, val).faults = rt.faults
           /\ val.own => val.o # Nil
           /\ \A a \in Objects : /\ Claim(rt, val).rc[a] \in Nat
                                 /\ Claim(rt, val).rc[a] + Hand(val, a) = rt.rc[a] + Hit(val.o, a)
                                 /\ Claim(rt, val).rc[a] >= rt.rc[a]
                                 /\ Claim(rt, val).rc[a] >= Tally(Rest, a) + Hit(val.o, a)
           /\ val.o = Nil \/ rt.rc[val.o] >= 1
<1>1. /\ val \in Vals /\ temps \in Seq(Objects) /\ InHand(val, temps) /\ rt \in Heaps
      /\ val.own => val.o # Nil
      /\ locals \in [Locals -> Contents] /\ frames \in Seq(FrameRecords) /\ Rest \in Seq(Objects)
      /\ val.o \in Pointers
  BY Parts DEF IInv, TypeOK, DataOK, Moments
<1>2. val.o = Nil \/ rt.rc[val.o] >= 1
  <2>1. val.o # Nil => Holds(val.o)
    BY DEF IInv, ValueKept, Holds, Holding
  <2> QED BY <1>1, <2>1, Held DEF Pointers
<1>3. /\ Claim(rt, val) \in Heaps
      /\ Claim(rt, val).pool = rt.pool /\ Claim(rt, val).faults = rt.faults
      /\ \A a \in Objects : Claim(rt, val).rc[a] + Hand(val, a) = rt.rc[a] + Hit(val.o, a)
  BY <1>1, <1>2, Claimed
<1>4. Take(val) = Rest
  BY <1>1, Taken
<1>5. ASSUME NEW a \in Objects
      PROVE  /\ Claim(rt, val).rc[a] \in Nat /\ Claim(rt, val).rc[a] >= rt.rc[a]
             /\ Claim(rt, val).rc[a] >= Tally(Rest, a) + Hit(val.o, a)
  <2> DEFINE A == Tally(locals, a)  B == Tally(Rest, a)  C == Hand(val, a)
             D == Tally(Takings(frames), a)
             E == Hit(elsewhere, a)  F == Hit(given, a)  G == Pooled(rt, a)
             H == Mine(self, initializer, a)  n == rt.rc[a]  m == Claim(rt, val).rc[a]
             v == Hit(val.o, a)
  <2>1. /\ A \in Nat /\ B \in Nat /\ C \in Nat /\ D \in Nat
        /\ E \in Nat /\ F \in Nat /\ G \in Nat /\ H \in Nat
    BY <1>1, Counts
  <2>2. n = A + B + C + D + E + F + G + H
    BY DEF IInv, Even, Sum
  <2>3. m \in Nat /\ m + C = n + v
    BY <1>3 DEF Heaps
  <2>4. v \in Nat /\ C <= v
    BY DEF Hit, Hand
  <2> HIDE DEF A, B, C, D, E, F, G, H, n, m, v
  <2>5. m \in Nat /\ m >= n /\ m >= B + v
    BY <2>1, <2>2, <2>3, <2>4
  <2> QED BY <2>5 DEF m, n, B, v
<1> QED BY <1>1, <1>2, <1>3, <1>4, <1>5

(* What waits for a value. *)
LEMMA Waited ==
    ASSUME IInv, Have, NEW k, TopIs(k)
    PROVE  /\ mode = "have" /\ frames # <<>> /\ Top \in FrameRecords /\ Top.k = k
           /\ Len(frames) \in Nat \ {0} /\ frames[Len(frames)] = Top
           /\ frames \in Seq(FrameRecords) /\ locals \in [Locals -> Contents]
           /\ FrameOK(frames, Len(frames), initializer, Len(Rest)) /\ DataOK
<1>1. /\ mode = "have" /\ frames # <<>> /\ Top.k = k /\ Top = frames[Len(frames)]
      /\ frames \in Seq(FrameRecords) /\ locals \in [Locals -> Contents] /\ DataOK
      /\ Nested(frames, initializer, Len(Rest))
  BY DEF IInv, TypeOK, DataOK, Have, TopIs, Top
<1>2. Len(frames) \in Nat \ {0} /\ Len(frames) \in 1..Len(frames) /\ Top \in FrameRecords
  BY <1>1, Places
<1>3. FrameOK(frames, Len(frames), initializer, Len(Rest))
  BY <1>1, <1>2 DEF Nested
<1> QED BY <1>1, <1>2, <1>3

(* The value that an assignment leaves is what was stored. *)
LEMMA Stored ==
    ASSUME NEW o, val' = Borrowed(o), NEW r, temps' = r
    PROVE  /\ val' = [o |-> o, own |-> FALSE] /\ Rest' = r /\ InHand(val', temps')
           /\ \A a : Hand(val', a) = 0
BY DEF Borrowed, Rest, RestOf, InHand, Hand

LEMMA StrongAssigned ==
    ASSUME IInv, AssignStrong
    PROVE  IInv'
<1> DEFINE v == Top.name  old == locals[v]  g == Claim(rt, val)  o == val.o
<1>1. /\ Have /\ TopIs("assign") /\ frames' = Below /\ mode' = mode
      /\ rt' = Release(g, old) /\ locals' = [locals EXCEPT ![v] = o]
      /\ temps' = Take(val) /\ val' = Borrowed(o)
      /\ UNCHANGED <<initializer, self, elsewhere, given>>
  BY DEF AssignStrong, HaveFor, Replace
<1>2. /\ mode = "have" /\ frames # <<>> /\ Top \in FrameRecords /\ Top.k = "assign"
      /\ Len(frames) \in Nat \ {0} /\ frames[Len(frames)] = Top
      /\ locals \in [Locals -> Contents] /\ frames \in Seq(FrameRecords) /\ DataOK
  BY <1>1, Waited
<1>3. /\ Take(val) = Rest /\ g \in Heaps /\ g.pool = rt.pool /\ g.faults = rt.faults
      /\ \A a \in Objects : /\ g.rc[a] \in Nat
                            /\ g.rc[a] + Hand(val, a) = rt.rc[a] + Hit(o, a)
                            /\ g.rc[a] >= rt.rc[a]
  BY <1>1, Claiming
<1>4. v \in Locals /\ old \in Pointers /\ o \in Pointers /\ Rest \in Seq(Objects)
  <2>1. Len(frames) \in 1..Len(frames)
    BY <1>2
  <2>2. locals[frames[Len(frames)].name] \in Pointers
    BY <1>2, <2>1 DEF IInv, SlotsOK
  <2> QED BY <1>2, <2>2, FrameFacts, Parts
<1>5. old = Nil \/ g.rc[old] >= 1
  <2>1. old # Nil => old \in Objects /\ Holds(old)
    BY <1>4 DEF Holds, Holding, Pointers
  <2>2. old # Nil => rt.rc[old] >= 1 /\ rt.rc[old] \in Nat
    BY <2>1, Held
  <2> QED BY <1>3, <2>1, <2>2
<1>6. /\ Put(locals, v, o, locals') /\ locals' \in [Locals -> Contents]
      /\ \A w \in Locals \ {v} : locals'[w] = locals[w]
  BY <1>1, <1>2, <1>4 DEF Put, Contents
<1> HIDE DEF v, old, g, o
<1>7. /\ rt' \in Heaps /\ rt'.pool = g.pool /\ rt'.faults = g.faults
      /\ \A a \in Objects : rt'.rc[a] + Hit(old, a) = g.rc[a]
  BY <1>1, <1>3, <1>4, <1>5, Released
<1>8. /\ val' = [o |-> o, own |-> FALSE] /\ Rest' = Rest /\ InHand(val', temps')
      /\ \A a : Hand(val', a) = 0
  BY <1>1, <1>3, Stored
<1>9. DataOK'
  BY <1>1, <1>2, <1>3, <1>4, <1>6, <1>7, <1>8 DEF DataOK, Vals
<1>10. ASSUME NEW a \in Objects
       PROVE  rt'.rc[a] + Tally(locals, a) + Tally(Rest, a) + Hand(val, a) + Pooled(rt, a)
                = rt.rc[a] + Tally(locals', a) + Tally(Rest', a) + Hand(val', a) + Pooled(rt', a)
  <2> DEFINE A == Tally(locals, a)   A2 == Tally(locals', a)  B == Tally(Rest, a)
             C == Hand(val, a)  G == Pooled(rt, a)  n == rt.rc[a]  m == rt'.rc[a]  k == g.rc[a]
             x == Hit(old, a)  y == Hit(o, a)
  <2>1. A \in Nat /\ A2 \in Nat /\ A2 + x = A + y
    BY <1>2, <1>4, <1>6, TallyPut DEF old
  <2>2. B \in Nat /\ C \in Nat /\ G \in Nat /\ x \in Nat /\ y \in Nat
    BY <1>4, SeqTally DEF Hand, Hit, Pooled
  <2>3. n \in Nat /\ m \in Nat /\ k \in Nat /\ k + C = n + y /\ m + x = k
    BY <1>3, <1>7, Held DEF Heaps
  <2>4. Pooled(rt', a) = G /\ Tally(Rest', a) = B /\ Hand(val', a) = 0
    BY <1>3, <1>7, <1>8 DEF Pooled
  <2> HIDE DEF A, A2, B, C, G, n, m, k, x, y
  <2>5. m + A + B + C + G = n + A2 + B + 0 + G
    BY <2>1, <2>2, <2>3
  <2> QED BY <2>4, <2>5 DEF A, A2, B, C, G, n, m
<1>11. Drops
  BY <1>1, <1>2, <1>4, <1>8, <1>9, <1>10, DropsKept DEF IsTaken
<1>12. Frees(Rest)
  <2>1. Leaves(Top, Len(Rest), Len(Rest')) /\ SparesRest(Top, Rest, Rest')
    BY <1>8 DEF Leaves, SparesRest
  <2>2. Ends(Top, locals, locals')
    <3>1. locals'[v] \in Pointers /\ locals[v] \in Pointers /\ Garbage \notin Pointers
      BY <1>4, <1>6, Names DEF Put, old
    <3>2. ~IsBlock(Top) /\ Top.k # "init"
      BY <1>2 DEF IsBlock
    <3>3. \A w \in Locals : w = v \/ locals'[w] = locals[w]
      BY <1>6
    <3> QED BY <3>1, <3>2, <3>3 DEF Ends
  <2>3. SparesLocals(frames, locals, locals')
    BY <1>2, <1>6 DEF SparesLocals, v
  <2> QED BY <1>1, <1>3, <1>7, <2>1, <2>2, <2>3 DEF Frees, SparesSelf
<1>13. ValueKept'
  BY <1>4, <1>6, <1>8 DEF ValueKept, Put
<1>14. Clean'
  BY <1>3, <1>7 DEF IInv, Clean
<1> QED BY <1>1, <1>2, <1>8, <1>9, <1>11, <1>12, <1>13, <1>14, Dropped

LEMMA PoolAssigned ==
    ASSUME IInv, AssignAutoreleasing
    PROVE  IInv'
<1> DEFINE g == Claim(rt, val)  o == val.o
<1>1. /\ Have /\ TopIs("autoreleasing") /\ frames' = Below /\ mode' = mode
      /\ rt' = Autorelease(g, o) /\ temps' = Take(val) /\ val' = Borrowed(o)
      /\ UNCHANGED <<initializer, locals, self, elsewhere, given>>
  BY DEF AssignAutoreleasing, HaveFor
<1>2. /\ mode = "have" /\ frames # <<>> /\ Top \in FrameRecords /\ Top.k = "autoreleasing"
      /\ locals \in [Locals -> Contents] /\ DataOK
  BY <1>1, Waited
<1>3. /\ Take(val) = Rest /\ g \in Heaps /\ g.pool = rt.pool /\ g.faults = rt.faults
      /\ \A a \in Objects : /\ g.rc[a] \in Nat
                            /\ g.rc[a] + Hand(val, a) = rt.rc[a] + Hit(o, a)
                            /\ g.rc[a] >= rt.rc[a]
  BY <1>1, Claiming
<1>4. o \in Pointers /\ Rest \in Seq(Objects)
  BY Parts
<1>5. o \in g.pool => g.rc[o] >= 1
  <2>1. o \in g.pool => o \in Objects /\ Holds(o)
    BY <1>3 DEF Holds, Holding, Heaps
  <2>2. o \in g.pool => rt.rc[o] >= 1 /\ rt.rc[o] \in Nat
    BY <2>1, Held
  <2> QED BY <1>3, <2>1, <2>2
<1> HIDE DEF g, o
<1>6. /\ rt' \in Heaps /\ rt'.faults = g.faults
      /\ g.pool \subseteq rt'.pool /\ (o # Nil => o \in rt'.pool)
      /\ \A a \in Objects : rt'.rc[a] + Pooled(g, a) + Hit(o, a) = g.rc[a] + Pooled(rt', a)
  BY <1>1, <1>3, <1>4, <1>5, Autoreleased
<1>7. /\ val' = [o |-> o, own |-> FALSE] /\ Rest' = Rest /\ InHand(val', temps')
      /\ \A a : Hand(val', a) = 0
  BY <1>1, <1>3, Stored
<1>8. DataOK'
  BY <1>1, <1>2, <1>3, <1>4, <1>6, <1>7 DEF DataOK, Vals
<1>9. ASSUME NEW a \in Objects
       PROVE  rt'.rc[a] + Tally(locals, a) + Tally(Rest, a) + Hand(val, a) + Pooled(rt, a)
                = rt.rc[a] + Tally(locals', a) + Tally(Rest', a) + Hand(val', a) + Pooled(rt', a)
  <2> DEFINE A == Tally(locals, a)  B == Tally(Rest, a)  C == Hand(val, a)
             G == Pooled(rt, a)  G2 == Pooled(rt', a)
             n == rt.rc[a]  m == rt'.rc[a]  k == g.rc[a]  y == Hit(o, a)
  <2>1. A \in Nat /\ B \in Nat /\ C \in Nat /\ G \in Nat /\ G2 \in Nat /\ y \in Nat
    BY <1>2, <1>4, SeqTally, TallyLocals DEF Hand, Hit, Pooled
  <2>2. n \in Nat /\ m \in Nat /\ k \in Nat /\ k + C = n + y
    BY <1>3, <1>6, Held DEF Heaps
  <2>3. Pooled(g, a) = G /\ Tally(Rest', a) = B /\ Hand(val', a) = 0 /\ Tally(locals', a) = A
    BY <1>1, <1>3, <1>7 DEF Pooled
  <2>4. m + G + y = k + G2
    BY <1>6, <2>3
  <2> HIDE DEF A, B, C, G, G2, n, m, k, y
  <2>5. m + A + B + C + G = n + A + B + 0 + G2
    BY <2>1, <2>2, <2>4
  <2> QED BY <2>3, <2>5 DEF A, B, C, G, G2, n, m
<1>10. Drops
  BY <1>1, <1>2, <1>4, <1>7, <1>8, <1>9, DropsKept DEF IsTaken
<1>11. Frees(Rest)
  <2>1. Leaves(Top, Len(Rest), Len(Rest')) /\ SparesRest(Top, Rest, Rest')
    BY <1>7 DEF Leaves, SparesRest
  <2> QED BY <1>1, <1>2, <1>3, <1>6, <2>1, FreesNothing
<1>12. ValueKept'
  BY <1>6, <1>7 DEF ValueKept
<1>13. Clean'
  BY <1>3, <1>6 DEF IInv, Clean
<1> QED BY <1>1, <1>2, <1>7, <1>8, <1>10, <1>11, <1>12, <1>13, Dropped

LEMMA SelfAssigned ==
    ASSUME IInv, AssignSelf
    PROVE  IInv'
<1> DEFINE o == val.o
<1>1. /\ Have /\ TopIs("self") /\ frames' = Below /\ mode' = mode
      /\ self' = [o |-> o, owned |-> TRUE] /\ temps' = Take(val) /\ val' = Borrowed(o)
      /\ UNCHANGED <<initializer, locals, elsewhere, rt, given>>
  BY DEF AssignSelf, HaveFor
<1>2. /\ mode = "have" /\ frames # <<>> /\ Top \in FrameRecords /\ Top.k = "self"
      /\ frames[Len(frames)] = Top
      /\ locals \in [Locals -> Contents] /\ DataOK /\ initializer
  BY <1>1, Waited DEF FrameOK
<1>3. Take(val) = Rest /\ o \in Pointers /\ Rest \in Seq(Objects) /\ rt \in Heaps
  BY <1>1, <1>2, Claiming, Parts DEF DataOK
<1>4. (val.own \/ o = Nil) /\ ~self.owned
  BY <1>1 DEF IInv, Moments, SelfOK, HaveFor
<1> HIDE DEF o
<1>5. /\ val' = [o |-> o, own |-> FALSE] /\ Rest' = Rest /\ InHand(val', temps')
      /\ \A a : Hand(val', a) = 0
  BY <1>1, <1>3, Stored
<1>6. DataOK'
  BY <1>1, <1>2, <1>3, <1>5 DEF DataOK, Vals
<1>7. Drops
  <2> SUFFICES ASSUME NEW a \in Objects
               PROVE  rt.rc[a] + Tally(locals, a) + Tally(Rest, a) + Hand(val, a) + Carried(Top, a)
                          + Hit(elsewhere, a) + Pooled(rt, a) + Mine(self, initializer, a)
                      = rt.rc[a] + Tally(locals, a) + Tally(Rest, a) + Hand(val', a)
                          + Hit(elsewhere, a) + Pooled(rt, a) + Mine(self', initializer, a)
    BY <1>1, <1>5 DEF Drops, Pooled
  <2> DEFINE A == Tally(locals, a)  B == Tally(Rest, a)  C == Hand(val, a)  E == Hit(elsewhere, a)
             G == Pooled(rt, a)  n == rt.rc[a]
  <2>1. A \in Nat /\ B \in Nat /\ C \in Nat /\ E \in Nat /\ G \in Nat /\ n \in Nat
    BY <1>2, <1>3, SeqTally, TallyLocals, Held DEF Hand, Hit, Pooled
  <2>2. Carried(Top, a) = 0 /\ Mine(self, initializer, a) = 0 /\ Hand(val', a) = 0
    BY <1>2, <1>4, <1>5 DEF Carried, IsTaken, Mine, HeldBySelf
  <2>3. Mine(self', initializer, a) = Hit(o, a)
    BY <1>1, <1>2 DEF Mine, HeldBySelf, Hit
  <2>4. C = Hit(o, a)
    BY <1>4, Names DEF Hand, Hit, o
  <2> HIDE DEF A, B, C, E, G, n
  <2>5. n + A + B + C + 0 + E + G + 0 = n + A + B + 0 + E + G + C
    BY <2>1
  <2> QED BY <2>2, <2>3, <2>4, <2>5 DEF A, B, C, E, G, n
<1>8. Frees(Rest)
  <2>1. Leaves(Top, Len(Rest), Len(Rest')) /\ SparesRest(Top, Rest, Rest')
    BY <1>5 DEF Leaves, SparesRest
  <2>2. Ends(Top, locals, locals') /\ SparesLocals(frames, locals, locals')
    BY <1>1, <1>2 DEF Ends, SparesLocals
  <2>3. SparesSelf(frames, self, self', initializer)
    BY <1>2, <1>4 DEF SparesSelf, HeldBySelf
  <2> QED BY <1>1, <2>1, <2>2, <2>3 DEF Frees
<1>9. ValueKept'
  BY <1>1, <1>5 DEF ValueKept, HeldBySelf
<1>10. Clean' /\ self'.owned
  BY <1>1 DEF IInv, Clean
<1> QED BY <1>1, <1>2, <1>5, <1>6, <1>7, <1>8, <1>9, <1>10, Dropped

(* An arm's value, or a block's, leaves it at +1. *)
LEMMA ArmLeft ==
    ASSUME IInv, Have, NEW k, TopIs(k), Marked(Top), LeaveArm(Top.mark), frames' = Below,
           UNCHANGED <<initializer, mode, locals, self, elsewhere, given>>
    PROVE  IInv'
<1> DEFINE g == Claim(rt, val)  o == val.o  m == Top.mark  past == Since(Rest, m)
           left == Until(Rest, m)
<1>1. /\ mode = "have" /\ frames # <<>> /\ Top \in FrameRecords
      /\ locals \in [Locals -> Contents] /\ DataOK /\ m <= Len(Rest) /\ m \in Nat
      /\ Top.k \in {"elvis", "test", "arm"}
  BY Waited, FrameFacts DEF FrameOK, Marked
<1>2. /\ Take(val) = Rest /\ g \in Heaps /\ g.pool = rt.pool /\ g.faults = rt.faults
      /\ \A a \in Objects : /\ g.rc[a] \in Nat
                            /\ g.rc[a] + Hand(val, a) = rt.rc[a] + Hit(o, a)
                            /\ g.rc[a] >= Tally(Rest, a) + Hit(o, a)
  BY Claiming
<1>3. o \in Pointers /\ Rest \in Seq(Objects)
  BY Parts
<1>4. /\ rt' = ReleaseAll(g, past) /\ temps' = Register(left, o) /\ val' = Owned(o)
  BY <1>2 DEF LeaveArm
<1> HIDE DEF g, o, m
<1>5. /\ left \in Seq(Objects) /\ Len(left) = m /\ \A i \in 1..m : left[i] = Rest[i]
      /\ past \in Seq(Objects)
      /\ \A a : /\ Tally(left, a) \in Nat /\ Tally(past, a) \in Nat
                /\ Tally(Rest, a) = Tally(left, a) + Tally(past, a)
  BY <1>1, <1>3, Cut
<1> HIDE DEF past, left
<1>6. \A a \in Objects : Tally(past, a) <= g.rc[a]
  <2>1. \A a \in Objects : Hit(o, a) \in Nat
    BY DEF Hit
  <2> QED BY <1>2, <1>5, <2>1
<1>7. /\ rt' \in Heaps /\ rt'.pool = g.pool /\ rt'.faults = g.faults
      /\ \A a \in Objects : rt'.rc[a] + Tally(past, a) = g.rc[a]
  BY <1>2, <1>4, <1>5, <1>6, ReleasedTemps
<1>8. /\ temps' \in Seq(Objects) /\ val' \in Vals /\ InHand(val', temps') /\ Rest' = left
      /\ val'.o = o /\ (val'.own => o # Nil) /\ (val'.own \/ o = Nil)
      /\ \A a \in Objects : Hand(val', a) = Hit(o, a)
  <2>1. val'.own \/ o = Nil
    BY <1>4 DEF Owned
  <2> QED BY <1>3, <1>4, <1>5, <2>1, PutOn DEF Rest
<1>9. DataOK'
  BY <1>1, <1>7, <1>8 DEF DataOK
<1>10. ASSUME NEW a \in Objects
       PROVE  rt'.rc[a] + Tally(locals, a) + Tally(Rest, a) + Hand(val, a) + Pooled(rt, a)
                = rt.rc[a] + Tally(locals', a) + Tally(Rest', a) + Hand(val', a) + Pooled(rt', a)
  <2> DEFINE A == Tally(locals, a)  B == Tally(Rest, a)  C == Hand(val, a)
             G == Pooled(rt, a)  x == Tally(past, a)  z == Tally(left, a)
             n == rt.rc[a]  w == rt'.rc[a]  u == g.rc[a]  y == Hit(o, a)
  <2>1. A \in Nat /\ B \in Nat /\ C \in Nat /\ G \in Nat /\ y \in Nat
    BY <1>1, <1>3, SeqTally, TallyLocals DEF Hand, Hit, Pooled
  <2>2. n \in Nat /\ w \in Nat /\ u \in Nat /\ u + C = n + y /\ w + x = u
    BY <1>2, <1>7, Held DEF Heaps
  <2>3. x \in Nat /\ z \in Nat /\ B = z + x
    BY <1>5
  <2>4. Pooled(rt', a) = G /\ Tally(Rest', a) = z /\ Hand(val', a) = y /\ Tally(locals', a) = A
    BY <1>2, <1>7, <1>8 DEF Pooled
  <2> HIDE DEF A, B, C, G, x, z, n, w, u, y
  <2>5. w + A + B + C + G = n + A + z + y + G
    BY <2>1, <2>2, <2>3
  <2> QED BY <2>4, <2>5 DEF A, B, C, G, z, n, w, y
<1>11. Drops
  BY <1>1, <1>5, <1>8, <1>9, <1>10, DropsKept DEF IsTaken
<1>12. Frees(Rest)
  <2>1. Leaves(Top, Len(Rest), Len(Rest')) /\ SparesRest(Top, Rest, Rest')
    BY <1>5, <1>8 DEF Leaves, SparesRest, m
  <2> QED BY <1>1, <1>2, <1>7, <2>1, FreesNothing
<1>13. ValueKept'
  BY <1>8 DEF ValueKept
<1>14. Clean'
  BY <1>2, <1>7 DEF IInv, Clean
<1> QED BY <1>1, <1>8, <1>9, <1>11, <1>12, <1>13, <1>14, Dropped

LEMMA Arms ==
    ASSUME IInv, EndArm \/ ElvisHolds
    PROVE  IInv'
<1>1. CASE EndArm
  <2>1. Have /\ TopIs("arm")
    BY <1>1 DEF EndArm, HaveFor
  <2>2. Marked(Top)
    BY <2>1 DEF TopIs, Marked
  <2> QED BY <1>1, <2>1, <2>2, ArmLeft DEF EndArm
<1>2. CASE ElvisHolds
  <2>1. Have /\ TopIs("elvis")
    BY <1>2 DEF ElvisHolds, HaveFor
  <2>2. Marked(Top)
    BY <2>1 DEF TopIs, Marked
  <2> QED BY <1>2, <2>1, <2>2, ArmLeft DEF ElvisHolds
<1> QED BY <1>1, <1>2

-----------------------------------------------------------------------------
(* Steps that turn a frame into another.                                     *)

Turns(f) == \A a \in Objects :
    rt'.rc[a] + Tally(locals, a) + Tally(Rest, a) + Hand(val, a) + Pooled(rt, a) + Carried(Top, a)
      = rt.rc[a] + Tally(locals, a) + Tally(Rest', a) + Hand(val', a) + Pooled(rt', a) + Carried(f, a)

LEMMA TurnsEven ==
    ASSUME IInv, frames # <<>>, frames' \in Seq(FrameRecords), Retopped(frames, frames'),
           DataOK', Rest' \in Seq(Objects), UNCHANGED <<initializer, given, locals, self, elsewhere>>,
           NEW f, f = frames'[Len(frames)], Turns(f)
    PROVE  Even'
<1>1. /\ frames \in Seq(FrameRecords) /\ Rest \in Seq(Objects) /\ locals \in [Locals -> Contents]
      /\ Even
  BY Parts DEF IInv, TypeOK, DataOK
<1>2. /\ Below \in Seq(FrameRecords) /\ Under(Below, frames) /\ Under(Below, frames')
      /\ Top = frames[Len(frames)] /\ frames' # <<>> /\ frames'[Len(frames')] = f
  <2>1. /\ Below \in Seq(FrameRecords) /\ Under(Below, frames) /\ Len(frames) \in Nat \ {0}
    BY <1>1, Closed DEF Below
  <2>2. Len(frames') = Len(frames) /\ \A k \in 1..(Len(frames) - 1) : frames'[k] = frames[k]
    BY DEF Retopped
  <2>3. frames' # <<>>
    BY <2>1, <2>2, Places
  <2>4. Under(Below, frames')
    BY <2>1, <2>2 DEF Under
  <2> QED BY <2>1, <2>2, <2>3, <2>4 DEF Top
<1> SUFFICES ASSUME NEW a \in Objects
             PROVE  rt'.rc[a] = Sum(locals, Rest', val', frames', elsewhere, given, rt', self, initializer, a)
  BY DEF Even
<1> DEFINE A == Tally(locals, a)   B == Tally(Rest, a)  B2 == Tally(Rest', a)
           C == Hand(val, a)       C2 == Hand(val', a)      D == Tally(Takings(frames), a)
           D0 == Tally(Takings(Below), a)  D2 == Tally(Takings(frames'), a)  E == Hit(elsewhere, a)
           F == Hit(given, a)      G == Pooled(rt, a)       G2 == Pooled(rt', a)
           H == Mine(self, initializer, a)
           n == rt.rc[a]  m == rt'.rc[a]  x == Carried(Top, a)  y == Carried(f, a)
<1>3. /\ A \in Nat /\ B \in Nat /\ C \in Nat /\ D \in Nat
      /\ E \in Nat /\ F \in Nat /\ G \in Nat /\ H \in Nat
  BY <1>1, Counts
<1>4. B2 \in Nat /\ C2 \in Nat /\ D2 \in Nat /\ G2 \in Nat
  BY <1>1, Counts
<1>5. n = A + B + C + D + E + F + G + H
  BY <1>1 DEF Even, Sum
<1>6. m \in Nat
  BY DEF DataOK, Heaps
<1>7. x \in Nat /\ y \in Nat
  BY DEF Carried, Hit
<1>8. D0 \in Nat /\ D = D0 + x /\ D2 = D0 + y
  <2>1. D0 \in Nat /\ (IsTaken(Top) => D = D0 + Hit(Top.o, a)) /\ (~IsTaken(Top) => D = D0)
    BY <1>1, <1>2, Names, TakingsMore
  <2>2. (IsTaken(f) => D2 = D0 + Hit(f.o, a)) /\ (~IsTaken(f) => D2 = D0)
    BY <1>1, <1>2, Names, TakingsMore
  <2>3. (IsTaken(Top) => x = Hit(Top.o, a)) /\ (~IsTaken(Top) => x = 0)
    BY DEF Carried
  <2>4. (IsTaken(f) => y = Hit(f.o, a)) /\ (~IsTaken(f) => y = 0)
    BY DEF Carried
  <2> HIDE DEF D, D0, D2, x, y
  <2>5. D = D0 + x
    BY <2>1, <2>3
  <2>6. D2 = D0 + y
    BY <2>1, <2>2, <2>4
  <2> QED BY <2>1, <2>5, <2>6
<1>9. m + A + B + C + G + x = n + A + B2 + C2 + G2 + y
  BY DEF Turns
<1>10. Sum(locals, Rest', val', frames', elsewhere, given, rt', self, initializer, a)
         = A + B2 + C2 + D2 + E + F + G2 + H
  BY DEF Sum
<1> HIDE DEF A, B, B2, C, C2, D, D0, D2, E, F, G, G2, H, n, m, x, y
<1>11. m = A + B2 + C2 + D2 + E + F + G2 + H
  BY <1>3, <1>4, <1>5, <1>6, <1>7, <1>8, <1>9
<1> QED BY <1>10, <1>11 DEF m

(* The frame that another has become. *)
Succeeds(f) ==
    /\ f.k \notin {"expr", "init", "return", "self", "block", "assign"}
    /\ f.mark <= Len(Rest') /\ (Marked(f) => Marked(Top) /\ f.mark = Top.mark)
    /\ IsBlock(f) => IsBlock(Top) /\ f.name = Top.name

LEMMA Turning ==
    ASSUME IInv, NEW r, r = Rest \/ r = temps, frames # <<>>, frames' \in Seq(FrameRecords),
           Retopped(frames, frames'), mode \in {"statement", "have"}, mode' = "want",
           UNCHANGED <<initializer, given, locals, self, elsewhere>>, DataOK', ~val'.own,
           NEW f, f = frames'[Len(frames)], Succeeds(f),
           Top.k \notin {"self", "return", "init", "assign"}, Leaves(Top, Len(r), Len(Rest')),
           Turns(f), Waiters', Clean'
    PROVE  IInv'
<1>1. /\ frames \in Seq(FrameRecords) /\ Rest \in Seq(Objects) /\ locals \in [Locals -> Contents]
      /\ r \in Seq(Objects) /\ Len(r) \in Nat /\ Nested(frames, initializer, Len(r))
      /\ SlotsOK(frames, locals) /\ SelfOK /\ Moments /\ TypeOK
      /\ Top = frames[Len(frames)]
  BY Parts, Wider DEF IInv, TypeOK, DataOK, Top
<1>2. /\ val' \in Vals /\ temps' \in Seq(Objects) /\ InHand(val', temps')
  BY DEF DataOK, InHand
<1>3. Rest' \in Seq(Objects) /\ Len(Rest') \in Nat
  BY <1>2, RestType DEF Rest
<1>4. TypeOK'
  BY <1>1 DEF TypeOK
<1>5. Nested(frames', initializer, Len(Rest'))
  BY <1>1, <1>3, NestedTurned DEF Succeeds
<1>6. SlotsOK(frames', locals')
  BY <1>1, SlotsTurned DEF Succeeds
<1>7. Even'
  BY <1>3, TurnsEven
<1>8. Moments'
  BY <1>1, <1>2 DEF Moments, Statement, Have, HaveFor
<1>9. SelfOK'
  <2>1. ~TopIs("self")'
    <3>1. Len(frames') = Len(frames)
      BY DEF Retopped
    <3> QED BY <3>1 DEF TopIs, Top, Succeeds
  <2>2. initializer => self.owned
    BY <1>1 DEF SelfOK, HaveFor, TopIs
  <2> QED BY <2>1, <2>2 DEF SelfOK, HaveFor, Have
<1>10. ValueKept'
  BY DEF ValueKept, Have
<1> QED BY <1>4, <1>5, <1>6, <1>7, <1>8, <1>9, <1>10 DEF IInv

LEMMA TurnsPlainly ==
    ASSUME IInv, DataOK', UNCHANGED locals, ~IsTaken(Top), NEW f, ~IsTaken(f),
           \A a \in Objects :
               rt'.rc[a] + Tally(locals, a) + Tally(Rest, a) + Hand(val, a) + Pooled(rt, a)
                 = rt.rc[a] + Tally(locals', a) + Tally(Rest', a) + Hand(val', a) + Pooled(rt', a),
           Rest' \in Seq(Objects)
    PROVE  Turns(f)
<1> SUFFICES ASSUME NEW a \in Objects
             PROVE  rt'.rc[a] + Tally(locals, a) + Tally(Rest, a) + Hand(val, a) + Pooled(rt, a)
                          + Carried(Top, a)
                      = rt.rc[a] + Tally(locals, a) + Tally(Rest', a) + Hand(val', a) + Pooled(rt', a)
                          + Carried(f, a)
  BY DEF Turns
<1> DEFINE X == rt'.rc[a] + Tally(locals, a) + Tally(Rest, a) + Hand(val, a) + Pooled(rt, a)
           Y == rt.rc[a] + Tally(locals, a) + Tally(Rest', a) + Hand(val', a) + Pooled(rt', a)
<1>1. X = Y
  OBVIOUS
<1>2. Carried(Top, a) = 0 /\ Carried(f, a) = 0
  BY DEF Carried
<1> HIDE DEF X, Y
<1>3. X + Carried(Top, a) = Y + Carried(f, a)
  BY <1>1, <1>2
<1> QED BY <1>3 DEF X, Y

(* What was registered since a mark is released, and the value was no object. *)
LEMMA Cleared ==
    ASSUME IInv, Have, NEW k, TopIs(k), Marked(Top),
           rt' = ReleaseAll(rt, Since(temps, Top.mark)), temps' = Until(temps, Top.mark),
           val' = NoValue, UNCHANGED <<locals, self, elsewhere, given>>
    PROVE  /\ DataOK' /\ Rest' \in Seq(Objects) /\ Len(Rest') = Top.mark /\ Top.mark \in Nat
           /\ Leaves(Top, Len(temps), Len(Rest')) /\ SparesRest(Top, temps, Rest')
           /\ rt'.pool = rt.pool /\ Clean' /\ InHand(val', temps') /\ ~val'.own /\ ValueKept'
           /\ \A a \in Objects :
                 rt'.rc[a] + Tally(locals, a) + Tally(Rest, a) + Hand(val, a) + Pooled(rt, a)
                   = rt.rc[a] + Tally(locals', a) + Tally(Rest', a) + Hand(val', a) + Pooled(rt', a)
<1> DEFINE m == Top.mark  past == Since(temps, m)  left == Until(temps, m)
<1>1. /\ locals \in [Locals -> Contents] /\ DataOK /\ m <= Len(Rest) /\ m \in Nat
      /\ temps \in Seq(Objects) /\ rt \in Heaps
  BY Waited, FrameFacts DEF FrameOK, DataOK
<1>2. /\ Rest \in Seq(Objects) /\ Len(Rest) \in Nat /\ Len(temps) \in Nat /\ Len(Rest) <= Len(temps)
      /\ \A a \in Objects : Tally(temps, a) = Tally(Rest, a) + Hand(val, a)
  BY Parts
<1>3. m <= Len(temps)
  <2> DEFINE x == Len(Rest)  y == Len(temps)
  <2>1. x \in Nat /\ y \in Nat /\ x <= y /\ m <= x
    BY <1>1, <1>2
  <2> HIDE DEF m, x, y
  <2>2. m <= y
    BY <1>1, <2>1
  <2> QED BY <2>2 DEF y
<1>4. rt' = ReleaseAll(rt, past) /\ temps' = left /\ val' = [o |-> Nil, own |-> FALSE]
  BY DEF NoValue
<1> HIDE DEF m
<1>5. /\ left \in Seq(Objects) /\ Len(left) = m /\ \A i \in 1..m : left[i] = temps[i]
      /\ past \in Seq(Objects)
      /\ \A a : /\ Tally(left, a) \in Nat /\ Tally(past, a) \in Nat
                /\ Tally(temps, a) = Tally(left, a) + Tally(past, a)
  BY <1>1, <1>3, Cut
<1> HIDE DEF past, left
<1>6. ASSUME NEW a \in Objects PROVE Tally(past, a) <= rt.rc[a]
  <2> DEFINE A == Tally(locals, a)  B == Tally(Rest, a)  C == Hand(val, a)
             D == Tally(Takings(frames), a)
             E == Hit(elsewhere, a)  F == Hit(given, a)  G == Pooled(rt, a)
             H == Mine(self, initializer, a)  n == rt.rc[a]  x == Tally(past, a)
             y == Tally(left, a)
  <2>1. /\ A \in Nat /\ B \in Nat /\ C \in Nat /\ D \in Nat
        /\ E \in Nat /\ F \in Nat /\ G \in Nat /\ H \in Nat
    <3>1. frames \in Seq(FrameRecords)
      BY DEF IInv, TypeOK
    <3> QED BY <1>1, <1>2, <3>1, Counts
  <2>2. n = A + B + C + D + E + F + G + H
    BY DEF IInv, Even, Sum
  <2>3. x \in Nat /\ y \in Nat /\ B + C = y + x
    BY <1>2, <1>5
  <2> HIDE DEF A, B, C, D, E, F, G, H, n, x, y
  <2>4. x <= n
    BY <2>1, <2>2, <2>3
  <2> QED BY <2>4 DEF x, n
<1>7. /\ rt' \in Heaps /\ rt'.pool = rt.pool /\ rt'.faults = rt.faults
      /\ \A a \in Objects : rt'.rc[a] + Tally(past, a) = rt.rc[a]
  BY <1>1, <1>4, <1>5, <1>6, ReleasedTemps
<1>8. /\ Rest' = left /\ InHand(val', temps') /\ ~val'.own /\ val' \in Vals /\ ValueKept'
      /\ \A a : Hand(val', a) = 0
  BY <1>4 DEF Rest, RestOf, InHand, Vals, Pointers, ValueKept, Hand
<1>9. DataOK'
  BY <1>1, <1>4, <1>5, <1>7, <1>8 DEF DataOK
<1>10. ASSUME NEW a \in Objects
       PROVE  rt'.rc[a] + Tally(locals, a) + Tally(Rest, a) + Hand(val, a) + Pooled(rt, a)
                = rt.rc[a] + Tally(locals', a) + Tally(Rest', a) + Hand(val', a) + Pooled(rt', a)
  <2> DEFINE A == Tally(locals, a)  B == Tally(Rest, a)  C == Hand(val, a)
             G == Pooled(rt, a)  x == Tally(past, a)  z == Tally(left, a)
             n == rt.rc[a]  w == rt'.rc[a]
  <2>1. A \in Nat /\ B \in Nat /\ C \in Nat /\ G \in Nat
    BY <1>1, <1>2, SeqTally, TallyLocals DEF Hand, Hit, Pooled
  <2>2. n \in Nat /\ w \in Nat /\ w + x = n
    BY <1>7, Held DEF Heaps
  <2>3. x \in Nat /\ z \in Nat /\ B + C = z + x
    BY <1>2, <1>5
  <2>4. Pooled(rt', a) = G /\ Tally(Rest', a) = z /\ Hand(val', a) = 0 /\ Tally(locals', a) = A
    BY <1>7, <1>8 DEF Pooled
  <2> HIDE DEF A, B, C, G, x, z, n, w
  <2>5. w + A + B + C + G = n + A + z + 0 + G
    BY <2>1, <2>2, <2>3
  <2> QED BY <2>4, <2>5 DEF A, B, C, G, z, n, w
<1>11. Leaves(Top, Len(temps), Len(Rest')) /\ SparesRest(Top, temps, Rest')
  BY <1>5, <1>8 DEF Leaves, SparesRest, m
<1>12. Clean'
  BY <1>7 DEF IInv, Clean
<1> QED BY <1>1, <1>5, <1>7, <1>8, <1>9, <1>10, <1>11, <1>12 DEF m

LEMMA TestTurned ==
    ASSUME IInv, Have, NEW k \in {"test", "elvis"}, TopIs(k), mode' = "want",
           rt' = ReleaseAll(rt, Since(temps, Top.mark)), temps' = Until(temps, Top.mark),
           val' = NoValue, UNCHANGED <<initializer, locals, self, elsewhere, given>>,
           Become([Top EXCEPT !.k = "arm"]) \/ UNCHANGED frames
    PROVE  IInv'
<1>1. /\ mode = "have" /\ frames # <<>> /\ Top \in FrameRecords /\ Top.k = k
      /\ Len(frames) \in Nat \ {0} /\ frames[Len(frames)] = Top /\ frames \in Seq(FrameRecords)
  BY Waited
<1>2. Marked(Top) /\ Top.mark \in Nat /\ ~IsTaken(Top) /\ ~IsBlock(Top)
  BY <1>1, FrameFacts DEF Marked, IsTaken, IsBlock
<1>3. /\ DataOK' /\ Rest' \in Seq(Objects) /\ Len(Rest') = Top.mark
      /\ Leaves(Top, Len(temps), Len(Rest')) /\ SparesRest(Top, temps, Rest')
      /\ rt'.pool = rt.pool /\ Clean' /\ ~val'.own
      /\ \A a \in Objects :
             rt'.rc[a] + Tally(locals, a) + Tally(Rest, a) + Hand(val, a) + Pooled(rt, a)
               = rt.rc[a] + Tally(locals', a) + Tally(Rest', a) + Hand(val', a) + Pooled(rt', a)
  BY <1>2, Cleared
<1> DEFINE f == frames'[Len(frames)]
<1>4. /\ frames' \in Seq(FrameRecords) /\ Retopped(frames, frames')
      /\ f.k \in {"arm", "test", "elvis"} /\ f.mark = Top.mark
  <2>1. CASE UNCHANGED frames
    BY <1>1, <2>1 DEF Retopped
  <2>2. CASE Become([Top EXCEPT !.k = "arm"])
    <3> DEFINE g == [Top EXCEPT !.k = "arm"]
    <3>1. g \in FrameRecords /\ g.k = "arm" /\ g.mark = Top.mark
      <4>1. Top \in [k : {"elvis", "test", "arm"}, name : {""}, o : {Nil}, mark : Nat]
        BY <1>1 DEF FrameRecords
      <4>2. /\ g \in [k : {"elvis", "test", "arm"}, name : {""}, o : {Nil}, mark : Nat]
            /\ g.k = "arm" /\ g.mark = Top.mark
        BY <4>1
      <4> HIDE DEF g
      <4> QED BY <4>2 DEF FrameRecords
    <3>2. frames' = Append(Below, g)
      BY <2>2 DEF Become
    <3> HIDE DEF g
    <3>3. frames' \in Seq(FrameRecords) /\ Retopped(frames, frames') /\ f = g
      BY <1>1, <3>1, <3>2, Turned DEF Below
    <3> QED BY <3>1, <3>3
  <2> QED BY <2>1, <2>2
<1> HIDE DEF f
<1>5. ~IsTaken(f) /\ Marked(f) /\ ~IsBlock(f) /\ Succeeds(f)
  <2>1. f.mark <= Len(Rest')
    BY <1>2, <1>3, <1>4
  <2> QED BY <1>2, <1>4, <2>1 DEF Succeeds, IsTaken, Marked, IsBlock
<1>6. Turns(f)
  BY <1>2, <1>3, <1>5, TurnsPlainly
<1>7. Waiters'
  <2>1. GoesOn(frames, frames')
    BY <1>1, <1>2, <1>4, <1>5 DEF GoesOn, Retopped, f
  <2>2. /\ temps \in Seq(Objects) /\ Nested(frames, initializer, Len(temps))
        /\ ReceiversKept(frames, locals, self, initializer, rt.pool, temps)
    BY Wider
  <2>3. SparesLocals(frames, locals, locals') /\ SparesSelf(frames, self, self', initializer)
    BY DEF SparesLocals, SparesSelf
  <2>4. ReceiversKept(frames', locals', self', initializer, rt'.pool, Rest')
    BY <1>1, <1>3, <1>4, <2>1, <2>2, <2>3, WaitGoesOn
  <2> QED BY <2>4 DEF Waiters
<1> QED BY <1>1, <1>3, <1>4, <1>5, <1>6, <1>7, Turning DEF f

LEMMA Decisions ==
    ASSUME IInv, Decide \/ ElvisFails
    PROVE  IInv'
<1>1. CASE ElvisFails
  BY <1>1, TestTurned DEF ElvisFails, HaveFor
<1>2. CASE Decide
  <2>1. /\ Have /\ TopIs("test")
        /\ rt' = ReleaseAll(rt, Since(temps, Top.mark)) /\ temps' = Until(temps, Top.mark)
        /\ val' = NoValue /\ UNCHANGED <<initializer, locals, self, elsewhere, given>>
        /\ \/ mode' = "want" /\ (Become([Top EXCEPT !.k = "arm"]) \/ UNCHANGED frames)
           \/ mode' = "have" /\ frames' = Below
    BY <1>2 DEF Decide, HaveFor
  <2>2. CASE mode' = "want" /\ (Become([Top EXCEPT !.k = "arm"]) \/ UNCHANGED frames)
    BY <2>1, <2>2, TestTurned
  <2>3. CASE mode' = "have" /\ frames' = Below
    <3>1. mode = "have" /\ frames # <<>> /\ Top.k = "test"
      BY <2>1, Waited
    <3>2. Marked(Top) /\ ~IsTaken(Top)
      BY <3>1 DEF Marked, IsTaken
    <3>3. /\ DataOK' /\ Rest' \in Seq(Objects)
          /\ Leaves(Top, Len(temps), Len(Rest')) /\ SparesRest(Top, temps, Rest')
          /\ rt'.pool = rt.pool /\ Clean' /\ InHand(val', temps') /\ ~val'.own /\ ValueKept'
          /\ \A a \in Objects :
                 rt'.rc[a] + Tally(locals, a) + Tally(Rest, a) + Hand(val, a) + Pooled(rt, a)
                   = rt.rc[a] + Tally(locals', a) + Tally(Rest', a) + Hand(val', a) + Pooled(rt', a)
      BY <2>1, <3>2, Cleared
    <3>4. Frees(temps)
      BY <2>1, <3>1, <3>3, FreesNothing
    <3>5. Drops
      BY <2>1, <3>1, <3>2, <3>3, DropsKept
    <3> QED BY <2>1, <2>3, <3>1, <3>3, <3>4, <3>5, Dropped
  <2> QED BY <2>1, <2>2, <2>3
<1> QED BY <1>1, <1>2

LEMMA BlockEnding ==
    ASSUME IInv, BlockValue
    PROVE  IInv'
<1> DEFINE f == [Top EXCEPT !.k = "result"]
<1>1. /\ mode = "statement" /\ TopIs("block") /\ frames' = Append(Below, f) /\ mode' = "want"
      /\ UNCHANGED <<initializer, val, temps, locals, self, elsewhere, rt, given>>
  BY DEF BlockValue, Statement, InBlock, Become
<1>2. /\ ~val.own /\ Rest = temps /\ Rest \in Seq(Objects) /\ Len(Rest) \in Nat
      /\ frames \in Seq(FrameRecords) /\ locals \in [Locals -> Contents]
  BY <1>1, Idle
<1>3. /\ frames # <<>> /\ Top.k = "block" /\ Top \in FrameRecords /\ Top = frames[Len(frames)]
  BY <1>1, <1>2, Places DEF TopIs, Top
<1>4. /\ f \in FrameRecords /\ f.k = "result" /\ f.name = Top.name /\ f.mark = 0
  <2>1. Top \in [k : {"block", "result"}, name : SUBSET Locals, o : {Nil}, mark : {0}]
    BY <1>3 DEF FrameRecords
  <2>2. /\ f \in [k : {"block", "result"}, name : SUBSET Locals, o : {Nil}, mark : {0}]
        /\ f.k = "result" /\ f.name = Top.name /\ f.mark = 0
    BY <2>1
  <2> HIDE DEF f
  <2> QED BY <2>2 DEF FrameRecords
<1> HIDE DEF f
<1>5. /\ frames' \in Seq(FrameRecords) /\ Retopped(frames, frames') /\ f = frames'[Len(frames)]
      /\ Len(frames) \in Nat \ {0}
  BY <1>1, <1>2, <1>3, <1>4, Turned DEF Below
<1>6. Rest' = Rest /\ DataOK' /\ ~val'.own /\ Clean'
  BY <1>1, <1>2 DEF Rest, IInv, TypeOK, DataOK, Clean
<1>7. /\ ~IsTaken(f) /\ ~Marked(f) /\ IsBlock(f) /\ IsBlock(Top) /\ Succeeds(f) /\ ~IsTaken(Top)
  <2>1. f.mark <= Len(Rest')
    BY <1>2, <1>4, <1>6
  <2> QED BY <1>3, <1>4, <2>1 DEF Succeeds, IsTaken, Marked, IsBlock
<1>8. \A a \in Objects :
          rt'.rc[a] + Tally(locals, a) + Tally(Rest, a) + Hand(val, a) + Pooled(rt, a)
            = rt.rc[a] + Tally(locals', a) + Tally(Rest', a) + Hand(val', a) + Pooled(rt', a)
  BY <1>1, <1>6
<1>9. Turns(f)
  BY <1>1, <1>2, <1>6, <1>7, <1>8, TurnsPlainly
<1>10. Waiters'
  <2>1. GoesOn(frames, frames')
    BY <1>3, <1>4, <1>5, <1>7 DEF GoesOn, Retopped
  <2>2. /\ Nested(frames, initializer, Len(Rest))
        /\ ReceiversKept(frames, locals, self, initializer, rt.pool, Rest)
    BY Wider
  <2>3. SparesLocals(frames, locals, locals') /\ SparesSelf(frames, self, self', initializer)
    BY <1>1 DEF SparesLocals, SparesSelf
  <2>4. SparesRest(frames[Len(frames)], Rest, Rest') /\ rt.pool \subseteq rt'.pool
    BY <1>1, <1>6 DEF SparesRest
  <2>5. ReceiversKept(frames', locals', self', initializer, rt'.pool, Rest')
    BY <1>2, <1>3, <1>5, <1>6, <2>1, <2>2, <2>3, <2>4, WaitGoesOn
  <2> QED BY <1>1, <2>5 DEF Waiters
<1>11. Leaves(Top, Len(Rest), Len(Rest'))
  BY <1>6 DEF Leaves
<1> QED BY <1>1, <1>3, <1>5, <1>6, <1>7, <1>9, <1>10, <1>11, Turning

(* A receiver that begins to wait is kept by what kept it as a value. *)
LEMMA WaitTaken ==
    ASSUME NEW c \in Seq(FrameRecords), NEW d \in Seq(FrameRecords), c # <<>>, Retopped(c, d),
           c[Len(c)].k = "receiver", d[Len(c)].k = "argument",
           NEW lo, NEW rest \in Seq(Objects), NEW left \in Seq(Objects), NEW sf, NEW ini, NEW pool,
           ReceiversKept(c, lo, sf, ini, pool, rest),
           \A i \in 1..Len(rest) : i \in 1..Len(left) /\ left[i] = rest[i],
           NEW o, o = d[Len(c)].o,
           d[Len(c)].name = "plain" /\ o # Nil =>
               \/ \E v \in Locals : lo[v] = o
               \/ HeldBySelf(sf, ini, o)
               \/ o \in pool
               \/ \E i \in 1..Len(left) : left[i] = o
    PROVE  ReceiversKept(d, lo, sf, ini, pool, left)
<1> DEFINE n == Len(c)
<1>1. /\ n \in Nat \ {0} /\ Len(d) = n /\ n \in 1..n /\ \A k \in 1..(n - 1) : d[k] = c[k]
      /\ c[n].k = "receiver" /\ d[n].k = "argument" /\ o = d[n].o
  BY Places DEF Retopped
<1>2. n = Len(c)
  OBVIOUS
<1>7. \A k \in 1..n : Waits(c, k) => Kept(c, k, lo, sf, ini, pool, rest)
  BY DEF ReceiversKept
<1> HIDE DEF n
<1> SUFFICES ASSUME NEW k \in 1..n, Waits(d, k)
             PROVE  Kept(d, k, lo, sf, ini, pool, left)
  BY <1>1 DEF ReceiversKept
<1>3. CASE k = n
  <2>1. \A v : LocalStays(d, k, v)
    BY <1>1, <1>3 DEF LocalStays, Outlives
  <2>2. \A i : EntryStays(d, k, i)
    BY <1>1, <1>3 DEF EntryStays
  <2>3. d[n].name = "plain" /\ o # Nil
    BY <1>1, <1>3 DEF Waits
  <2> QED BY <1>1, <1>2, <1>3, <2>1, <2>2, <2>3 DEF Kept
<1>4. CASE k # n
  <2>1. k \in 1..(n - 1) /\ d[k] = c[k]
    BY <1>1, <1>4
  <2>2. \A j \in (k + 1)..n : j = n \/ (j \in 1..(n - 1) /\ d[j] = c[j])
    BY <1>1, <2>1
  <2>3. Waits(c, k)
    BY <1>1, <1>2, <2>1, <2>2 DEF Waits
  <2>4. Kept(c, k, lo, sf, ini, pool, rest)
    BY <1>7, <2>3
  <2>5. ASSUME NEW v, LocalStays(c, k, v) PROVE LocalStays(d, k, v)
    BY <1>1, <1>2, <2>2, <2>5 DEF LocalStays, Outlives, IsBlock
  <2>6. ASSUME NEW i, EntryStays(c, k, i) PROVE EntryStays(d, k, i)
    BY <1>1, <1>2, <2>2, <2>6 DEF EntryStays, IsBlock, Marked
  <2> QED BY <2>1, <2>4, <2>5, <2>6 DEF Kept
<1> QED BY <1>3, <1>4

LEMMA ReceiverTaken ==
    ASSUME IInv, TakeReceiver
    PROVE  IInv'
<1> DEFINE o == val.o  fam == Top.name  f == Frame("argument", fam, o, 0)  g == Claim(rt, val)
<1>1. /\ Have /\ TopIs("receiver") /\ frames' = Append(Below, f) /\ mode' = "want"
      /\ val' = [o |-> Nil, own |-> FALSE]
      /\ fam = "init" => temps' = Take(val) /\ rt' = g
      /\ fam # "init" => UNCHANGED <<temps, rt>>
      /\ UNCHANGED <<initializer, locals, self, elsewhere, given>>
  BY DEF TakeReceiver, HaveFor, Become, NoValue
<1>2. /\ mode = "have" /\ frames # <<>> /\ Top \in FrameRecords /\ Top.k = "receiver"
      /\ Len(frames) \in Nat \ {0} /\ frames[Len(frames)] = Top
      /\ frames \in Seq(FrameRecords) /\ locals \in [Locals -> Contents] /\ DataOK
  BY <1>1, Waited
<1>3. /\ Take(val) = Rest /\ g \in Heaps /\ g.pool = rt.pool /\ g.faults = rt.faults
      /\ \A a \in Objects : g.rc[a] \in Nat /\ g.rc[a] + Hand(val, a) = rt.rc[a] + Hit(o, a)
  BY <1>1, Claiming
<1>4. /\ o \in Pointers /\ Rest \in Seq(Objects) /\ temps \in Seq(Objects) /\ Len(Rest) \in Nat
      /\ Len(temps) \in Nat /\ Len(Rest) <= Len(temps)
      /\ \A i \in 1..Len(Rest) : Rest[i] = temps[i]
      /\ \A a \in Objects : Tally(temps, a) = Tally(Rest, a) + Hand(val, a)
      /\ InHand(val, temps) /\ ValueKept
  BY <1>2, Parts DEF DataOK, IInv, Moments
<1>5. /\ fam \in {"plain", "init"} /\ f \in FrameRecords /\ f.k = "argument" /\ f.name = fam
      /\ f.o = o /\ f.mark = 0
  <2>1. fam \in {"plain", "init"}
    BY <1>2, FrameFacts
  <2> QED BY <1>4, <2>1 DEF Frame, FrameRecords
<1> HIDE DEF f, g
<1>6. /\ frames' \in Seq(FrameRecords) /\ Retopped(frames, frames') /\ f = frames'[Len(frames)]
  BY <1>1, <1>2, <1>5, Turned DEF Below
<1>7. /\ Rest' = temps' /\ ~val'.own /\ val' \in Vals /\ \A a : Hand(val', a) = 0
  BY <1>1 DEF Rest, RestOf, Vals, Pointers, Hand
<1> DEFINE r == IF fam = "init" THEN Rest ELSE temps
<1>8. Rest' = r /\ r \in Seq(Objects) /\ Len(r) \in Nat /\ (r = Rest \/ r = temps)
  BY <1>1, <1>3, <1>4, <1>7
<1>9. rt' \in Heaps /\ rt'.pool = rt.pool /\ rt'.faults = rt.faults
  BY <1>1, <1>2, <1>3 DEF DataOK
<1>10. DataOK'
  BY <1>1, <1>2, <1>7, <1>8, <1>9 DEF DataOK
<1>11. Succeeds(f) /\ Leaves(Top, Len(r), Len(Rest'))
  <2>1. f.mark <= Len(Rest')
    BY <1>5, <1>8
  <2> QED BY <1>2, <1>5, <1>8, <2>1 DEF Succeeds, Marked, IsBlock, Leaves
<1>12. ASSUME NEW a \in Objects
       PROVE  rt'.rc[a] + Tally(locals, a) + Tally(Rest, a) + Hand(val, a) + Pooled(rt, a)
                    + Carried(Top, a)
                = rt.rc[a] + Tally(locals, a) + Tally(Rest', a) + Hand(val', a) + Pooled(rt', a)
                    + Carried(f, a)
  <2> DEFINE A == Tally(locals, a)  B == Tally(Rest, a)  T == Tally(temps, a)  C == Hand(val, a)
             G == Pooled(rt, a)  n == rt.rc[a]  w == rt'.rc[a]  y == Hit(o, a)
  <2>1. A \in Nat /\ B \in Nat /\ C \in Nat /\ G \in Nat /\ y \in Nat /\ T = B + C /\ n \in Nat
    BY <1>2, <1>4, SeqTally, TallyLocals, Held DEF Hand, Hit, Pooled
  <2>2. Pooled(rt', a) = G /\ Hand(val', a) = 0 /\ Carried(Top, a) = 0
    BY <1>2, <1>7, <1>9 DEF Pooled, Carried, IsTaken
  <2>3. CASE fam = "init"
    <3>1. Tally(Rest', a) = B /\ Carried(f, a) = y /\ w \in Nat /\ w + C = n + y
      BY <1>1, <1>3, <1>5, <1>8, <2>3 DEF Carried, IsTaken
    <3> HIDE DEF A, B, T, C, G, n, w, y
    <3>2. w + A + B + C + G + 0 = n + A + B + 0 + G + y
      BY <2>1, <3>1
    <3> QED BY <2>2, <3>1, <3>2 DEF A, B, C, G, n, w, y
  <2>4. CASE fam # "init"
    <3>1. Tally(Rest', a) = T /\ Carried(f, a) = 0 /\ w = n
      BY <1>1, <1>5, <1>8, <2>4 DEF Carried, IsTaken
    <3> HIDE DEF A, B, T, C, G, n, w, y
    <3>2. w + A + B + C + G + 0 = n + A + T + 0 + G + 0
      BY <2>1, <3>1
    <3> QED BY <2>2, <3>1, <3>2 DEF A, B, C, G, n, w
  <2> QED BY <2>3, <2>4
<1>13. Turns(f)
  BY <1>12 DEF Turns
<1>14. Waiters'
  <2>1. ReceiversKept(frames, locals, self, initializer, rt.pool, Rest)
    BY Wider
  <2>2. \A i \in 1..Len(Rest) : i \in 1..Len(r) /\ r[i] = Rest[i]
    <3>1. \A i \in 1..Len(Rest) : i \in 1..Len(temps)
      <4> DEFINE x == Len(Rest)  y == Len(temps)
      <4>1. x \in Nat /\ y \in Nat /\ x <= y
        BY <1>4
      <4> HIDE DEF x, y
      <4>2. \A i \in 1..x : i \in 1..y
        BY <4>1
      <4> QED BY <4>2 DEF x, y
    <3> QED BY <1>4, <3>1
  <2>3. fam = "plain" /\ o # Nil =>
            \/ \E v \in Locals : locals[v] = o
            \/ HeldBySelf(self, initializer, o)
            \/ o \in rt.pool
            \/ \E i \in 1..Len(r) : r[i] = o
    <3>1. CASE val.own
      <4>1. temps # <<>> /\ temps[Len(temps)] = o
        BY <1>4, <3>1 DEF InHand
      <4>2. Len(temps) \in 1..Len(temps)
        BY <1>4, <4>1, Places
      <4> QED BY <4>1, <4>2
    <3>2. CASE ~val.own
      BY <1>1, <1>4, <3>2 DEF ValueKept
    <3> QED BY <3>1, <3>2
  <2> DEFINE d == frames'
  <2>4. /\ d \in Seq(FrameRecords) /\ Retopped(frames, d) /\ d[Len(frames)].k = "argument"
        /\ d[Len(frames)].name = fam /\ o = d[Len(frames)].o
        /\ frames \in Seq(FrameRecords) /\ frames # <<>> /\ frames[Len(frames)].k = "receiver"
    BY <1>2, <1>5, <1>6
  <2> HIDE DEF r, o, fam, d
  <2>5. d[Len(frames)].name = "plain" /\ o # Nil =>
            \/ \E v \in Locals : locals[v] = o
            \/ HeldBySelf(self, initializer, o)
            \/ o \in rt.pool
            \/ \E i \in 1..Len(r) : r[i] = o
    BY <2>3, <2>4
  <2>6. Rest \in Seq(Objects) /\ r \in Seq(Objects)
    BY <1>4, <1>8
  <2>7. ReceiversKept(d, locals, self, initializer, rt.pool, r)
    BY <2>1, <2>2, <2>4, <2>5, <2>6, WaitTaken
  <2> QED BY <1>1, <1>8, <1>9, <2>7 DEF Waiters, d
<1>15. Clean'
  BY <1>9 DEF IInv, Clean
<1> HIDE DEF r
<1> QED BY <1>1, <1>2, <1>6, <1>7, <1>8, <1>10, <1>11, <1>13, <1>14, <1>15, Turning
-----------------------------------------------------------------------------
(* Sends.                                                                    *)

(* An object that what is in reach holds is alive whatever a callee does. *)
LEMMA LentAlive ==
    ASSUME IInv, NEW recv \in Pointers, recv = Nil \/ Holds(recv), NEW c, Lends(c, recv)
    PROVE  /\ c.o = Nil \/ c.h.rc[c.o] >= 1
           /\ \A a \in Objects : Holds(a) => c.h.rc[a] >= 1
           /\ c.o = Nil \/ c.o = recv \/ c.h.rc[c.o] >= 1 + Tally(locals, c.o)
<1>1. /\ c.h \in Heaps /\ rt.pool \subseteq c.h.pool /\ c.o \in Pointers
      /\ c.o = Nil \/ c.o = recv \/ c.o = c.e \/ c.o \in c.h.pool
      /\ \A a \in Objects : c.h.rc[a] + Hit(elsewhere, a) + Pooled(rt, a)
                                = rt.rc[a] + Hit(c.e, a) + Pooled(c.h, a)
  BY Lent
<1>2. ASSUME NEW a \in Objects
      PROVE  /\ Holds(a) => c.h.rc[a] >= 1
             /\ a = c.e \/ a \in c.h.pool => c.h.rc[a] >= 1 + Tally(locals, a) /\ c.h.rc[a] >= 1
  <2>1. /\ rt.rc[a] \in Nat /\ locals \in [Locals -> Contents] /\ frames \in Seq(FrameRecords)
        /\ Rest \in Seq(Objects)
        /\ rt.rc[a] = Sum(locals, Rest, val, frames, elsewhere, given, rt, self, initializer, a)
    BY Parts DEF IInv, TypeOK, DataOK, Heaps, Even
  <2>2. Holds(a) => rt.rc[a] >= 1 + Hit(elsewhere, a) + Hit(given, a)
    BY <2>1, HeldAlive DEF Holds
  <2> DEFINE A == Tally(locals, a)  B == Tally(Rest, a)  C == Hand(val, a)
             D == Tally(Takings(frames), a)
             E == Hit(elsewhere, a)  F == Hit(given, a)  G == Pooled(rt, a)
             H == Mine(self, initializer, a)  n == rt.rc[a]
             E2 == Hit(c.e, a)  G2 == Pooled(c.h, a)  m == c.h.rc[a]
  <2>3. /\ A \in Nat /\ B \in Nat /\ C \in Nat /\ D \in Nat
        /\ E \in Nat /\ F \in Nat /\ G \in Nat /\ H \in Nat
    BY <2>1, Counts
  <2>4. n = A + B + C + D + E + F + G + H
    BY <2>1 DEF Sum
  <2>5. E2 \in Nat /\ G2 \in Nat /\ m \in Nat /\ G <= G2
        /\ (a = c.e => E2 = 1) /\ (a \in c.h.pool => G2 = 1)
    BY <1>1 DEF Hit, Pooled, Heaps
  <2>6. m + E + G = n + E2 + G2
    BY <1>1
  <2> HIDE DEF A, B, C, D, E, F, G, H, n, E2, G2, m
  <2>7. m + E >= n + E2 /\ n >= A + E + G /\ n \in Nat
    BY <2>3, <2>4, <2>5, <2>6
  <2>8. n >= 1 + E + F => m >= 1
    BY <2>3, <2>4, <2>5, <2>7
  <2>9. E2 = 1 => m >= 1 + A
    BY <2>3, <2>5, <2>7
  <2>10. G2 = 1 => m >= 1 + A
    BY <2>3, <2>5, <2>6, <2>7
  <2>11. m >= 1 + A => m >= 1
    BY <2>3, <2>5
  <2> QED BY <2>2, <2>5, <2>8, <2>9, <2>10, <2>11 DEF n, E, F, m, A
<1> QED BY <1>1, <1>2 DEF Pointers

(* The receiver of the send that is about to be made. *)
LEMMA Receiving ==
    ASSUME IInv, TopIs("argument")
    PROVE  /\ frames # <<>> /\ Top \in FrameRecords /\ Top.k = "argument"
           /\ Len(frames) \in Nat \ {0} /\ frames[Len(frames)] = Top
           /\ frames \in Seq(FrameRecords) /\ locals \in [Locals -> Contents] /\ DataOK
           /\ Top.name \in {"plain", "init"} /\ Top.o \in Pointers
           /\ Top.o = Nil \/ Holds(Top.o)
           /\ (IsTaken(Top) <=> Top.name = "init")
<1>1. /\ frames # <<>> /\ Top.k = "argument" /\ frames \in Seq(FrameRecords)
      /\ locals \in [Locals -> Contents] /\ DataOK /\ Top = frames[Len(frames)]
      /\ Waiters /\ Rest \in Seq(Objects)
  BY Parts DEF IInv, TypeOK, DataOK, TopIs, Top
<1>2. /\ Len(frames) \in Nat \ {0} /\ Len(frames) \in 1..Len(frames) /\ Top \in FrameRecords
  BY <1>1, Places
<1>3. Top.name \in {"plain", "init"} /\ Top.o \in Pointers
  BY <1>1, <1>2, FrameFacts
<1>4. CASE Top.name = "plain" /\ Top.o # Nil
  <2>1. Waits(frames, Len(frames))
    BY <1>1, <1>2, <1>4 DEF Waits
  <2>2. Kept(frames, Len(frames), locals, self, initializer, rt.pool, Rest)
    BY <1>1, <1>2, <2>1 DEF Waiters, ReceiversKept
  <2> DEFINE o == Top.o
  <2>3. frames[Len(frames)].o = o
    BY <1>1
  <2> HIDE DEF o
  <2>4. Holds(o)
    BY <2>2, <2>3 DEF Kept, Holds, Holding
  <2> QED BY <1>1, <1>2, <1>3, <2>4 DEF IsTaken, o
<1>5. CASE Top.name = "init"
  <2>1. IsTaken(Top)
    BY <1>1, <1>5 DEF IsTaken
  <2>2. Holds(Top.o)
    BY <1>1, <1>2, <2>1 DEF Holds, Holding
  <2> QED BY <1>1, <1>2, <1>3, <2>1, <2>2 DEF IsTaken
<1>6. CASE Top.name = "plain" /\ Top.o = Nil
  BY <1>1, <1>2, <1>3, <1>6 DEF IsTaken
<1> QED BY <1>3, <1>4, <1>5, <1>6

(* The result of a send is a value on the register. *)
LEMMA Sent ==
    ASSUME IInv, TopIs("argument"), mode \in {"want", "have"}, mode' = "have", frames' = Below,
           UNCHANGED <<initializer, self, given>>, NEW o \in Pointers,
           val' = Owned(o), temps' = Register(temps, o),
           locals' \in [Locals -> Contents], elsewhere' \in Pointers, rt' \in Heaps,
           rt.pool \subseteq rt'.pool, rt'.faults = rt.faults,
           Ends(Top, locals, locals'), SparesLocals(frames, locals, locals'),
           \A a \in Objects :
               rt'.rc[a] + Tally(locals, a) + Carried(Top, a) + Hit(elsewhere, a) + Pooled(rt, a)
                 = rt.rc[a] + Tally(locals', a) + Hit(o, a) + Hit(elsewhere', a) + Pooled(rt', a)
    PROVE  IInv'
<1>1. /\ frames # <<>> /\ Top.k = "argument" /\ locals \in [Locals -> Contents]
      /\ temps \in Seq(Objects) /\ self \in [o : Pointers, owned : BOOLEAN] /\ given \in Pointers
  BY Receiving DEF DataOK
<1>2. /\ temps' \in Seq(Objects) /\ val' \in Vals /\ Rest' = temps
      /\ InHand(val', temps') /\ val'.o = o /\ (val'.own => val'.o # Nil)
      /\ \A a \in Objects : Hand(val', a) = Hit(o, a)
  BY <1>1, PutOn DEF Rest
<1>3. DataOK'
  BY <1>1, <1>2 DEF DataOK
<1>4. Drops
  <2> SUFFICES ASSUME NEW a \in Objects
               PROVE  rt'.rc[a] + Tally(locals, a) + Tally(Rest, a) + Hand(val, a) + Carried(Top, a)
                          + Hit(elsewhere, a) + Pooled(rt, a) + Mine(self, initializer, a)
                        = rt.rc[a] + Tally(locals', a) + Tally(Rest', a) + Hand(val', a)
                          + Hit(elsewhere', a) + Pooled(rt', a) + Mine(self', initializer, a)
    BY DEF Drops
  <2> DEFINE A == Tally(locals, a)  A2 == Tally(locals', a)  B == Tally(Rest, a)  C == Hand(val, a)
             x == Carried(Top, a)  E == Hit(elsewhere, a)  E2 == Hit(elsewhere', a)
             G == Pooled(rt, a)  G2 == Pooled(rt', a)  H == Mine(self, initializer, a)
             n == rt.rc[a]  m == rt'.rc[a]  y == Hit(o, a)  T == Tally(temps, a)
  <2>1. A \in Nat /\ A2 \in Nat /\ B \in Nat /\ C \in Nat /\ T = B + C
    BY <1>1, Parts, SeqTally, TallyLocals DEF Hand, Hit
  <2>2. /\ x \in Nat /\ E \in Nat /\ E2 \in Nat /\ G \in Nat /\ G2 \in Nat /\ H \in Nat /\ y \in Nat
        /\ n \in Nat /\ m \in Nat
    BY Held DEF Carried, Hit, Pooled, Mine, Heaps
  <2>3. Tally(Rest', a) = T /\ Hand(val', a) = y /\ Mine(self', initializer, a) = H
    BY <1>2
  <2>4. m + A + x + E + G = n + A2 + y + E2 + G2
    OBVIOUS
  <2> HIDE DEF A, A2, B, C, x, E, E2, G, G2, H, n, m, y, T
  <2>5. m + A + B + C + x + E + G + H = n + A2 + T + y + E2 + G2 + H
    BY <2>1, <2>2, <2>4
  <2> QED BY <2>3, <2>5 DEF A, A2, B, C, x, E, E2, G, G2, H, n, m
<1>5. Frees(temps)
  <2>1. Leaves(Top, Len(temps), Len(Rest')) /\ SparesRest(Top, temps, Rest')
    BY <1>2 DEF Leaves, SparesRest
  <2> QED BY <2>1 DEF Frees, SparesSelf
<1>6. ValueKept'
  BY <1>2 DEF ValueKept, Owned
<1>7. Clean'
  BY DEF IInv, Clean
<1>8. initializer => self'.owned \/ (self' = self /\ Top.k # "self")
  BY <1>1
<1> QED BY <1>1, <1>2, <1>3, <1>4, <1>5, <1>6, <1>7, <1>8, Dropped

(* claimResult, and a receiver that an init consumed. *)
LEMMA Sends ==
    ASSUME IInv, Send
    PROVE  IInv'
<1> DEFINE recv == Top.o
<1>1. /\ mode = "have" /\ TopIs("argument") /\ UNCHANGED locals
      /\ \E c \in Callees(Top.name, recv) : Returned(c, c.h, Top.name)
  BY DEF Send, HaveFor, Have
<1>2. PICK c \in Callees(Top.name, recv) : Returned(c, c.h, Top.name)
  BY <1>1
<1>3. /\ rt' = ClaimResult(c.h, Top.name, c.o) /\ val' = Owned(c.o)
      /\ temps' = Register(temps, c.o) /\ elsewhere' = c.e /\ frames' = Below
      /\ UNCHANGED <<initializer, self, given>> /\ mode' = "have"
  BY <1>1, <1>2 DEF Returned
<1>4. /\ Top.name \in {"plain", "init"} /\ recv \in Pointers /\ (recv = Nil \/ Holds(recv))
      /\ (IsTaken(Top) <=> Top.name = "init") /\ Top.k = "argument"
      /\ locals' \in [Locals -> Contents] /\ DataOK
  BY <1>1, Receiving
<1>5. /\ Top.name = "plain" => Lends(c, recv)
      /\ Top.name = "init" => Inits(c, recv)
  BY <1>4, Outcomes
<1>6. Ends(Top, locals, locals') /\ SparesLocals(frames, locals, locals')
  BY <1>1, <1>4, FreesNothing DEF Ends, SparesLocals
<1> HIDE DEF recv
<1>7. CASE Top.name = "plain"
  <2>1. /\ c.h \in Heaps /\ rt.pool \subseteq c.h.pool /\ c.h.faults = rt.faults
        /\ c.o \in Pointers /\ c.e \in Pointers
        /\ \A a \in Objects : c.h.rc[a] + Hit(elsewhere, a) + Pooled(rt, a)
                                  = rt.rc[a] + Hit(c.e, a) + Pooled(c.h, a)
    BY <1>4, <1>5, <1>7, Lent
  <2>2. c.o = Nil \/ c.h.rc[c.o] >= 1
    BY <1>4, <1>5, <1>7, LentAlive
  <2>3. rt' = Retain(c.h, c.o)
    BY <1>3, <1>7 DEF ClaimResult
  <2>4. /\ rt' \in Heaps /\ rt'.pool = c.h.pool /\ rt'.faults = c.h.faults
        /\ \A a \in Objects : rt'.rc[a] = c.h.rc[a] + Hit(c.o, a)
    BY <2>1, <2>2, <2>3, Retained
  <2>5. ASSUME NEW a \in Objects
        PROVE  rt'.rc[a] + Tally(locals, a) + Carried(Top, a) + Hit(elsewhere, a) + Pooled(rt, a)
                 = rt.rc[a] + Tally(locals', a) + Hit(c.o, a) + Hit(elsewhere', a) + Pooled(rt', a)
    <3> DEFINE A == Tally(locals, a)  E == Hit(elsewhere, a)  E2 == Hit(c.e, a)  G == Pooled(rt, a)
               G2 == Pooled(c.h, a)  n == rt.rc[a]  m == rt'.rc[a]  k == c.h.rc[a]  y == Hit(c.o, a)
    <3>1. /\ A \in Nat /\ E \in Nat /\ E2 \in Nat /\ G \in Nat /\ G2 \in Nat /\ y \in Nat
          /\ n \in Nat /\ k \in Nat /\ m = k + y
      BY <1>4, <2>1, <2>4, Held, TallyLocals DEF Hit, Pooled, Heaps, DataOK
    <3>2. k + E + G = n + E2 + G2
      BY <2>1
    <3>3. Carried(Top, a) = 0 /\ Tally(locals', a) = A /\ Hit(elsewhere', a) = E2 /\ Pooled(rt', a) = G2
      BY <1>1, <1>3, <1>4, <1>7, <2>4 DEF Carried, Pooled
    <3> HIDE DEF A, E, E2, G, G2, n, m, k, y
    <3>4. m + A + 0 + E + G = n + A + y + E2 + G2
      BY <3>1, <3>2
    <3> QED BY <3>3, <3>4 DEF A, E, E2, G, G2, n, m, y
  <2>6. elsewhere' \in Pointers /\ rt.pool \subseteq rt'.pool /\ rt'.faults = rt.faults
    BY <1>3, <2>1, <2>4
  <2> QED BY <1>1, <1>3, <1>4, <1>6, <2>1, <2>4, <2>5, <2>6, Sent
<1>8. CASE Top.name = "init"
  <2>1. recv = Nil \/ rt.rc[recv] >= 1
    BY <1>4, Held DEF Pointers
  <2>2. /\ c.h \in Heaps /\ c.h.pool = rt.pool /\ c.h.faults = rt.faults
        /\ c.o \in Pointers /\ c.e = elsewhere
        /\ \A a \in Objects : c.h.rc[a] + Hit(recv, a) = rt.rc[a] + Hit(c.o, a)
    BY <1>4, <1>5, <1>8, <2>1, Inited
  <2>3. rt' = c.h
    BY <1>3, <1>8 DEF ClaimResult
  <2>4. ASSUME NEW a \in Objects
        PROVE  rt'.rc[a] + Tally(locals, a) + Carried(Top, a) + Hit(elsewhere, a) + Pooled(rt, a)
                 = rt.rc[a] + Tally(locals', a) + Hit(c.o, a) + Hit(elsewhere', a) + Pooled(rt', a)
    <3> DEFINE A == Tally(locals, a)  E == Hit(elsewhere, a)  G == Pooled(rt, a)
               n == rt.rc[a]  m == rt'.rc[a]  x == Hit(recv, a)  y == Hit(c.o, a)
    <3>1. /\ A \in Nat /\ E \in Nat /\ G \in Nat /\ x \in Nat /\ y \in Nat
          /\ n \in Nat /\ m \in Nat /\ m + x = n + y
      BY <1>4, <2>2, <2>3, Held, TallyLocals DEF Hit, Pooled, Heaps, DataOK
    <3>2. Carried(Top, a) = x /\ Tally(locals', a) = A /\ Hit(elsewhere', a) = E /\ Pooled(rt', a) = G
      BY <1>1, <1>3, <1>4, <1>8, <2>2, <2>3 DEF Carried, Pooled, recv
    <3> HIDE DEF A, E, G, n, m, x, y
    <3>3. m + A + x + E + G = n + A + y + E + G
      BY <3>1
    <3> QED BY <3>2, <3>3 DEF A, E, G, n, m, x, y
  <2>5. elsewhere' \in Pointers /\ rt.pool \subseteq rt'.pool /\ rt'.faults = rt.faults /\ rt' \in Heaps
    BY <1>3, <1>4, <2>2, <2>3 DEF DataOK
  <2> QED BY <1>1, <1>3, <1>4, <1>6, <2>2, <2>4, <2>5, Sent
<1> QED BY <1>4, <1>7, <1>8

(* A result that the callee leaves in a local: what the local held goes. *)
LEMMA SendsOut ==
    ASSUME IInv, SendOut
    PROVE  IInv'
<1> DEFINE recv == Top.o
<1>1. /\ mode = "want" /\ TopIs("argument") /\ Top.name = "plain"
      /\ UNCHANGED <<initializer, self, given>> /\ mode' = "have" /\ frames' = Below
  BY DEF SendOut, Want
<1>2. PICK v \in Readable, c \in Callees("plain", recv) :
          /\ ~Waiting(locals[v])
          /\ \E out \in {Nil, locals[v], c.o} :
              /\ locals' = [locals EXCEPT ![v] = out]
              /\ rt' = ClaimResult(Release(Retain(c.h, out), locals[v]), "plain", c.o)
          /\ val' = Owned(c.o) /\ temps' = Register(temps, c.o) /\ elsewhere' = c.e
  BY DEF SendOut
<1>3. PICK out \in {Nil, locals[v], c.o} :
          /\ locals' = [locals EXCEPT ![v] = out]
          /\ rt' = ClaimResult(Release(Retain(c.h, out), locals[v]), "plain", c.o)
  BY <1>2
<1> DEFINE old == locals[v]  g == Retain(c.h, out)  h == Release(g, old)
<1>4. /\ recv \in Pointers /\ (recv = Nil \/ Holds(recv)) /\ ~IsTaken(Top)
      /\ locals \in [Locals -> Contents] /\ Top.k = "argument" /\ DataOK
      /\ Len(frames) \in Nat \ {0} /\ frames[Len(frames)] = Top
      /\ frames \in Seq(FrameRecords)
  BY <1>1, Receiving DEF IsTaken
<1>5. v \in Locals /\ old \in Pointers
  BY <1>4 DEF Readable, Contents
<1>6. old # recv
  <2>1. Len(frames) \in DOMAIN frames
    BY <1>4
  <2> QED BY <1>2, <1>4, <2>1 DEF Waiting
<1>7. Lends(c, recv)
  BY Outcomes
<1>8. /\ c.h \in Heaps /\ rt.pool \subseteq c.h.pool /\ c.h.faults = rt.faults
      /\ c.o \in Pointers /\ c.e \in Pointers
      /\ \A a \in Objects : c.h.rc[a] + Hit(elsewhere, a) + Pooled(rt, a)
                                = rt.rc[a] + Hit(c.e, a) + Pooled(c.h, a)
  BY <1>4, <1>7, Lent
<1>9. /\ c.o = Nil \/ c.h.rc[c.o] >= 1
      /\ \A a \in Objects : Holds(a) => c.h.rc[a] >= 1
      /\ c.o = Nil \/ c.o = recv \/ c.h.rc[c.o] >= 1 + Tally(locals, c.o)
  BY <1>4, <1>7, LentAlive
<1>10. rt' = Retain(h, c.o)
  BY <1>3 DEF ClaimResult
<1>11. out \in Pointers /\ (out = Nil \/ out = old \/ out = c.o)
  BY <1>5, <1>8, Names DEF Pointers
<1>12. old = Nil \/ c.h.rc[old] >= 1
  <2>1. old # Nil => old \in Objects /\ Holds(old)
    BY <1>5 DEF Holds, Holding, Pointers
  <2> QED BY <1>9, <2>1
<1>13. /\ Put(locals, v, out, locals') /\ locals' \in [Locals -> Contents]
       /\ \A w \in Locals \ {v} : locals'[w] = locals[w]
  BY <1>3, <1>4, <1>5, <1>11 DEF Put, Contents
<1> HIDE DEF recv, old, g, h
<1>14. /\ g \in Heaps /\ g.pool = c.h.pool /\ g.faults = c.h.faults
       /\ \A a \in Objects : g.rc[a] = c.h.rc[a] + Hit(out, a)
  <2>1. out = Nil \/ c.h.rc[out] >= 1
    BY <1>9, <1>11, <1>12
  <2> QED BY <1>8, <1>11, <2>1, Retained DEF g
<1>15. /\ h \in Heaps /\ h.pool = g.pool /\ h.faults = g.faults
       /\ \A a \in Objects : h.rc[a] + Hit(old, a) = g.rc[a]
  <2>1. old # Nil => old \in Objects /\ g.rc[old] = c.h.rc[old] + Hit(out, old) /\ c.h.rc[old] \in Nat
    BY <1>5, <1>8, <1>14 DEF Pointers, Heaps
  <2>2. Hit(out, old) \in Nat
    BY DEF Hit
  <2>3. old = Nil \/ g.rc[old] >= 1
    BY <1>12, <2>1, <2>2
  <2> QED BY <1>5, <1>14, <2>3, Released DEF h
<1>16. c.o = Nil \/ h.rc[c.o] >= 1
  <2> SUFFICES ASSUME c.o # Nil PROVE h.rc[c.o] >= 1
    OBVIOUS
  <2> DEFINE a == c.o  A == Tally(locals, a)  k == c.h.rc[a]  x == Hit(old, a)  y == Hit(out, a)
             m == g.rc[a]  n == h.rc[a]
  <2>1. a \in Objects
    BY <1>8 DEF Pointers
  <2>2. m = k + y /\ n + x = m /\ k \in Nat /\ n \in Nat
    BY <1>8, <1>14, <1>15, <2>1 DEF Heaps
  <2>3. x \in Nat /\ y \in Nat /\ A \in Nat /\ x <= 1 /\ (old = a => A >= 1) /\ (old # a => x = 0)
    BY <1>4, <1>5, TallyLocals DEF Hit, old
  <2>4. k >= 1 /\ (a = recv \/ k >= 1 + A)
    BY <1>9
  <2>5. a = recv => x = 0
    BY <1>6, <2>3
  <2> HIDE DEF a, A, k, x, y, m, n
  <2>6. n >= 1
    BY <2>2, <2>3, <2>4, <2>5
  <2> QED BY <2>6 DEF n, a
<1>17. /\ rt' \in Heaps /\ rt'.pool = h.pool /\ rt'.faults = h.faults
       /\ \A a \in Objects : rt'.rc[a] = h.rc[a] + Hit(c.o, a)
  BY <1>8, <1>10, <1>15, <1>16, Retained
<1>18. ASSUME NEW a \in Objects
       PROVE  rt'.rc[a] + Tally(locals, a) + Carried(Top, a) + Hit(elsewhere, a) + Pooled(rt, a)
                = rt.rc[a] + Tally(locals', a) + Hit(c.o, a) + Hit(elsewhere', a) + Pooled(rt', a)
  <2> DEFINE A == Tally(locals, a)  A2 == Tally(locals', a)  E == Hit(elsewhere, a)  E2 == Hit(c.e, a)
             G == Pooled(rt, a)  G2 == Pooled(c.h, a)  n == rt.rc[a]  m == rt'.rc[a]  k == c.h.rc[a]
             p == g.rc[a]  q == h.rc[a]  x == Hit(old, a)  z == Hit(out, a)  y == Hit(c.o, a)
  <2>1. A \in Nat /\ A2 \in Nat /\ A2 + x = A + z
    <3> DEFINE to == locals'
    <3>1. locals \in [Locals -> Contents] /\ v \in Locals /\ Put(locals, v, out, to)
      BY <1>4, <1>5, <1>13
    <3> HIDE DEF to
    <3>2. /\ Tally(locals, a) \in Nat /\ Tally(to, a) \in Nat
          /\ Tally(to, a) + Hit(locals[v], a) = Tally(locals, a) + Hit(out, a)
      BY <3>1, TallyPut
    <3> QED BY <3>2 DEF to, old
  <2>2. /\ E \in Nat /\ E2 \in Nat /\ G \in Nat /\ G2 \in Nat /\ y \in Nat /\ x \in Nat
        /\ z \in Nat
    BY DEF Hit, Pooled
  <2>3. n \in Nat /\ k \in Nat /\ p = k + z /\ q \in Nat /\ q + x = p /\ m = q + y
    BY <1>8, <1>14, <1>15, <1>17, Held DEF Heaps
  <2>4. k + E + G = n + E2 + G2
    BY <1>8
  <2>5. Carried(Top, a) = 0 /\ Hit(elsewhere', a) = E2 /\ Pooled(rt', a) = G2
    BY <1>2, <1>4, <1>14, <1>15, <1>17 DEF Carried, Pooled
  <2> HIDE DEF A, A2, E, E2, G, G2, n, m, k, p, q, x, y, z
  <2>6. m + A + 0 + E + G = n + A2 + y + E2 + G2
    BY <2>1, <2>2, <2>3, <2>4
  <2> QED BY <2>5, <2>6 DEF A, A2, E, E2, G, G2, n, m, y
<1>19. Ends(Top, locals, locals')
  <2>1. locals'[v] \in Pointers /\ locals[v] \in Pointers /\ Garbage \notin Pointers
    BY <1>5, <1>11, <1>13, Names DEF Put, old
  <2>2. ~IsBlock(Top) /\ Top.k # "init"
    BY <1>4 DEF IsBlock
  <2>3. \A w \in Locals : w = v \/ locals'[w] = locals[w]
    BY <1>13
  <2> QED BY <2>1, <2>2, <2>3 DEF Ends
<1>20. SparesLocals(frames, locals, locals')
  <2>1. \A w \in Locals : w = v \/ locals'[w] = locals[w]
    BY <1>13
  <2>2. \A k \in 1..Len(frames) : ~(frames[k].k = "argument" /\ frames[k].o = locals[v])
    BY <1>2, <1>4 DEF Waiting
  <2> QED BY <2>1, <2>2 DEF SparesLocals
<1>21. elsewhere' \in Pointers /\ rt.pool \subseteq rt'.pool /\ rt'.faults = rt.faults
  BY <1>2, <1>8, <1>14, <1>15, <1>17
<1> QED BY <1>1, <1>2, <1>8, <1>13, <1>17, <1>18, <1>19, <1>20, <1>21, Sent

-----------------------------------------------------------------------------
(* The ends of statements and of blocks.                                     *)

(* releaseTemps, and the next statement. *)
LEMMA Ended ==
    ASSUME IInv, Have, NEW k \in {"expr", "init"}, TopIs(k), NEW h \in Heaps, NEW left \in Seq(Objects),
           NextStatement(h, left), \A a \in Objects : Tally(left, a) <= h.rc[a],
           h.pool = rt.pool, h.faults = rt.faults, UNCHANGED <<initializer, self, elsewhere, given>>,
           locals' \in [Locals -> Contents],
           Ends(Top, locals, locals'), SparesLocals(frames, locals, locals'),
           \A a \in Objects : h.rc[a] + Tally(locals, a) + Tally(Rest, a) + Hand(val, a)
                                 = rt.rc[a] + Tally(locals', a) + Tally(left, a)
    PROVE  IInv'
<1>1. /\ rt' = ReleaseAll(h, left) /\ temps' = <<>> /\ mode' = "statement" /\ frames' = Below
      /\ val' = [o |-> Nil, own |-> FALSE]
  BY DEF NextStatement, NoValue
<1>2. /\ mode = "have" /\ frames # <<>> /\ Top.k = k /\ locals \in [Locals -> Contents] /\ DataOK
  BY Waited
<1>3. /\ rt' \in Heaps /\ rt'.pool = rt.pool /\ rt'.faults = rt.faults
      /\ \A a \in Objects : rt'.rc[a] + Tally(left, a) = h.rc[a]
  BY <1>1, ReleasedTemps
<1>4. Rest' = <<>> /\ InHand(val', temps') /\ \A a : Hand(val', a) = 0
  BY <1>1 DEF Rest, RestOf, InHand, Hand
<1>5. DataOK'
  BY <1>1, <1>2, <1>3, Names DEF DataOK, Vals, Pointers
<1>6. ASSUME NEW a \in Objects
      PROVE  rt'.rc[a] + Tally(locals, a) + Tally(Rest, a) + Hand(val, a) + Pooled(rt, a)
                = rt.rc[a] + Tally(locals', a) + Tally(Rest', a) + Hand(val', a) + Pooled(rt', a)
  <2> DEFINE A == Tally(locals, a)   A2 == Tally(locals', a)  B == Tally(Rest, a)
             C == Hand(val, a)  G == Pooled(rt, a)  n == rt.rc[a]  m == rt'.rc[a]  p == h.rc[a]
             L == Tally(left, a)
  <2>1. /\ A \in Nat /\ A2 \in Nat /\ B \in Nat /\ C \in Nat /\ G \in Nat /\ L \in Nat
        /\ n \in Nat /\ m \in Nat /\ p \in Nat
    BY <1>2, <1>3, Held, Parts, SeqTally, TallyLocals DEF Hand, Hit, Pooled, Heaps
  <2>2. m + L = p /\ p + A + B + C = n + A2 + L
    BY <1>3
  <2>3. Tally(<<>>, a) = 0
    <3>1. <<>> \in Seq(Objects) /\ \A i \in 1..Len(<<>>) : <<>>[i] # a
      OBVIOUS
    <3> QED BY <3>1, SeqTally
  <2>4. Pooled(rt', a) = G /\ Tally(Rest', a) = 0 /\ Hand(val', a) = 0
    BY <1>3, <1>4, <2>3 DEF Pooled
  <2> HIDE DEF A, A2, B, C, G, n, m, p, L
  <2>5. m + A + B + C + G = n + A2 + 0 + 0 + G
    BY <2>1, <2>2
  <2> QED BY <2>4, <2>5 DEF A, A2, B, C, G, n, m
<1>7. Rest' \in Seq(Objects)
  BY <1>4
<1>8. Drops
  BY <1>1, <1>2, <1>5, <1>6, <1>7, DropsKept DEF IsTaken
<1>9. Frees(Rest)
  BY <1>2, <1>3 DEF Frees, Leaves, SparesRest, SparesSelf
<1>10. ValueKept' /\ Clean'
  BY <1>1, <1>3 DEF ValueKept, Have, IInv, Clean
<1> QED BY <1>1, <1>2, <1>4, <1>5, <1>8, <1>9, <1>10, Dropped

LEMMA ExpressionEnds ==
    ASSUME IInv, EndExpr
    PROVE  IInv'
<1>1. /\ Have /\ TopIs("expr") /\ NextStatement(rt, temps)
      /\ UNCHANGED <<initializer, locals, self, elsewhere, given>>
  BY DEF EndExpr, HaveFor
<1>2. /\ rt \in Heaps /\ temps \in Seq(Objects) /\ locals \in [Locals -> Contents]
      /\ frames \in Seq(FrameRecords) /\ Rest \in Seq(Objects) /\ Even /\ Top.k = "expr"
  BY <1>1, Waited, Parts DEF IInv, DataOK
<1>3. ASSUME NEW a \in Objects
      PROVE  /\ Tally(temps, a) <= rt.rc[a]
             /\ rt.rc[a] + Tally(locals, a) + Tally(Rest, a) + Hand(val, a)
                  = rt.rc[a] + Tally(locals', a) + Tally(temps, a)
  <2> DEFINE A == Tally(locals, a)  B == Tally(Rest, a)  C == Hand(val, a)
             D == Tally(Takings(frames), a)  T == Tally(temps, a)
             E == Hit(elsewhere, a)  F == Hit(given, a)  G == Pooled(rt, a)
             H == Mine(self, initializer, a)  n == rt.rc[a]
  <2>1. /\ A \in Nat /\ B \in Nat /\ C \in Nat /\ D \in Nat
        /\ E \in Nat /\ F \in Nat /\ G \in Nat /\ H \in Nat
    BY <1>2, Counts
  <2>2. n = A + B + C + D + E + F + G + H
    BY <1>2 DEF Even, Sum
  <2>3. T = B + C /\ Tally(locals', a) = A
    BY <1>1, Parts
  <2> HIDE DEF A, B, C, D, E, F, G, H, n, T
  <2>4. T <= n /\ n + A + B + C = n + A + T
    BY <2>1, <2>2, <2>3
  <2> QED BY <2>3, <2>4 DEF A, B, C, n, T
<1>4. Ends(Top, locals, locals') /\ SparesLocals(frames, locals, locals')
  BY <1>1, <1>2 DEF Ends, SparesLocals
<1> QED BY <1>1, <1>2, <1>3, <1>4, Ended

(* initStrong: the slot, noted and never written, has nothing to let go of. *)
LEMMA DeclarationEnds ==
    ASSUME IInv, EndDeclaration
    PROVE  IInv'
<1> DEFINE v == Top.name  g == Claim(rt, val)  o == val.o
<1>1. /\ Have /\ TopIs("init") /\ NextStatement(g, Take(val))
      /\ locals' = [locals EXCEPT ![v] = o]
      /\ UNCHANGED <<initializer, self, elsewhere, given>>
  BY DEF EndDeclaration, HaveFor
<1>2. /\ mode = "have" /\ frames # <<>> /\ Top \in FrameRecords /\ Top.k = "init"
      /\ Len(frames) \in Nat \ {0} /\ frames[Len(frames)] = Top
      /\ locals \in [Locals -> Contents] /\ frames \in Seq(FrameRecords) /\ DataOK
  BY <1>1, Waited
<1>3. /\ Take(val) = Rest /\ g \in Heaps /\ g.pool = rt.pool /\ g.faults = rt.faults
      /\ \A a \in Objects : /\ g.rc[a] \in Nat
                            /\ g.rc[a] + Hand(val, a) = rt.rc[a] + Hit(o, a)
                            /\ g.rc[a] >= Tally(Rest, a) + Hit(o, a)
  BY <1>1, Claiming
<1>4. v \in Locals /\ locals[v] = Garbage /\ o \in Pointers /\ Rest \in Seq(Objects)
  <2>1. Len(frames) \in 1..Len(frames)
    BY <1>2
  <2>2. locals[frames[Len(frames)].name] = Garbage
    BY <1>2, <2>1 DEF IInv, SlotsOK
  <2> QED BY <1>2, <2>2, FrameFacts, Parts
<1>5. /\ Put(locals, v, o, locals') /\ locals' \in [Locals -> Contents]
      /\ \A w \in Locals \ {v} : locals'[w] = locals[w]
  BY <1>1, <1>2, <1>4 DEF Put, Contents
<1>6. v = Top.name /\ NextStatement(g, Rest)
  BY <1>1, <1>3
<1> HIDE DEF v, g, o
<1>7. ASSUME NEW a \in Objects
      PROVE  /\ Tally(Rest, a) <= g.rc[a]
             /\ g.rc[a] + Tally(locals, a) + Tally(Rest, a) + Hand(val, a)
                  = rt.rc[a] + Tally(locals', a) + Tally(Rest, a)
  <2> DEFINE A == Tally(locals, a)   A2 == Tally(locals', a)  B == Tally(Rest, a)
             C == Hand(val, a)  n == rt.rc[a]  p == g.rc[a]  y == Hit(o, a)
  <2>1. A \in Nat /\ A2 \in Nat /\ A2 + Hit(locals[v], a) = A + y
    BY <1>2, <1>4, <1>5, TallyPut
  <2>2. Hit(locals[v], a) = 0
    <3>1. a # Garbage
      BY Names DEF Pointers
    <3> QED BY <1>4, <3>1 DEF Hit
  <2>3. B \in Nat /\ C \in Nat /\ y \in Nat /\ n \in Nat /\ p \in Nat
    BY <1>3, <1>4, SeqTally, Held DEF Hand, Hit
  <2>4. p + C = n + y /\ p >= B + y
    BY <1>3
  <2>5. A2 = A + y
    BY <2>1, <2>2
  <2> HIDE DEF A, A2, B, C, n, p, y
  <2>6. B <= p /\ p + A + B + C = n + A2 + B
    BY <2>1, <2>3, <2>4, <2>5
  <2> QED BY <2>6 DEF A, A2, B, C, n, p
<1>8. Garbage \notin Pointers
  BY Names
<1>9. locals'[v] = o
  BY <1>5 DEF Put
<1>10. Ends(Top, locals, locals')
  <2>1. ~IsBlock(Top)
    BY <1>2 DEF IsBlock
  <2> QED BY <1>2, <1>4, <1>5, <1>6, <1>8, <1>9, <2>1 DEF Ends
<1>11. SparesLocals(frames, locals, locals')
  BY <1>4, <1>5, <1>8 DEF SparesLocals
<1> QED BY <1>1, <1>3, <1>4, <1>5, <1>6, <1>7, <1>10, <1>11, Ended

(* Locals that go out of scope are released, each once. *)
Emptied(lo, to, gone) == \A v \in Locals : to[v] = IF v \in gone THEN Absent ELSE lo[v]
Among(lo, gone, a) == Cardinality({v \in gone : lo[v] = a})

LEMMA TallyGone ==
    ASSUME NEW lo \in [Locals -> Contents], NEW to \in [Locals -> Contents],
           NEW gone \in SUBSET Locals, NEW a \in Objects,
           Emptied(lo, to, gone)
    PROVE  /\ Tally(lo, a) \in Nat /\ Tally(to, a) \in Nat /\ Among(lo, gone, a) \in Nat
           /\ Tally(lo, a) = Tally(to, a) + Among(lo, gone, a)
<1> DEFINE A == {v \in Locals : to[v] = a}  B == {v \in gone : lo[v] = a}
<1>1. a # Absent
  BY Names DEF Pointers
<1>2. /\ A \cap B = {} /\ {v \in DOMAIN lo : lo[v] = a} = A \cup B
      /\ {v \in DOMAIN to : to[v] = a} = A
  BY <1>1 DEF Emptied
<1>3. IsFiniteSet(A) /\ IsFiniteSet(B)
  <2>1. A \in SUBSET Locals /\ B \in SUBSET Locals
    OBVIOUS
  <2> HIDE DEF A, B
  <2> QED BY <2>1, Finite, FS_Subset
<1>4. Tally(lo, a) = Cardinality(A \cup B) /\ Tally(to, a) = Cardinality(A)
  BY <1>2 DEF Tally
<1> HIDE DEF A, B
<1>5. /\ Cardinality(A) \in Nat /\ Cardinality(B) \in Nat
      /\ Cardinality(A \cup B) = Cardinality(A) + Cardinality(B)
  <2>1. Cardinality(A \cap B) = 0
    BY <1>2, FS_EmptySet
  <2>2. Cardinality(A) \in Nat /\ Cardinality(B) \in Nat
    BY <1>3, FS_CardinalityType
  <2>3. Cardinality(A \cup B) = Cardinality(A) + Cardinality(B) - Cardinality(A \cap B)
    BY <1>3, FS_Union
  <2> QED BY <2>1, <2>2, <2>3
<1> QED BY <1>4, <1>5 DEF B, Among

LEMMA SlotsReleased ==
    ASSUME locals \in [Locals -> Contents], NEW to \in [Locals -> Contents],
           NEW gone \in SUBSET Locals, NEW h \in Heaps,
           Emptied(locals, to, gone),
           \A a \in Objects : Tally(locals, a) <= h.rc[a]
    PROVE  /\ ReleaseAll(h, Slots(gone)) \in Heaps /\ ReleaseAll(h, Slots(gone)).pool = h.pool
           /\ (\A v \in gone : locals[v] # Garbage) => ReleaseAll(h, Slots(gone)).faults = h.faults
           /\ \A a \in Objects : ReleaseAll(h, Slots(gone)).rc[a] + Tally(locals, a)
                                     = h.rc[a] + Tally(to, a)
<1> DEFINE t == Slots(gone)  n == Cardinality(gone)
<1>1. IsFiniteSet(gone)
  BY Finite, FS_Subset
<1>2. /\ DOMAIN t = 1..n /\ n \in Nat
      /\ \A k \in DOMAIN t : \E v \in gone : t[k] = locals[v]
      /\ \A a : Tally(t, a) = Cardinality({v \in gone : locals[v] = a})
  BY <1>1, TallySlots DEF Slots
<1>3. t \in Seq(Contents) /\ Len(t) = n
  <2>1. \A k \in 1..n : t[k] \in Contents
    BY <1>2
  <2>2. t = [k \in 1..n |-> t[k]]
    BY <1>2 DEF Slots
  <2> HIDE DEF t, n
  <2> QED BY <1>2, <2>1, <2>2
<1>4. ASSUME NEW a \in Objects
      PROVE  /\ Tally(t, a) \in Nat /\ Tally(to, a) \in Nat /\ Tally(locals, a) \in Nat
             /\ Tally(locals, a) = Tally(to, a) + Tally(t, a) /\ h.rc[a] \in Nat
  <2>1. Tally(t, a) = Among(locals, gone, a)
    BY <1>2 DEF Among
  <2>2. /\ Tally(locals, a) \in Nat /\ Tally(to, a) \in Nat /\ Among(locals, gone, a) \in Nat
        /\ Tally(locals, a) = Tally(to, a) + Among(locals, gone, a)
    BY TallyGone
  <2>3. h.rc[a] \in Nat
    BY DEF Heaps
  <2> HIDE DEF t
  <2> QED BY <2>1, <2>2, <2>3
<1> HIDE DEF t
<1>5. \A a \in Objects : Tally(t, a) <= h.rc[a]
  <2> SUFFICES ASSUME NEW a \in Objects PROVE Tally(t, a) <= h.rc[a]
    OBVIOUS
  <2> DEFINE x == Tally(t, a)  y == Tally(to, a)  z == Tally(locals, a)  r == h.rc[a]
  <2>1. x \in Nat /\ y \in Nat /\ z \in Nat /\ z = y + x /\ r \in Nat /\ z <= r
    BY <1>4
  <2> HIDE DEF x, y, z, r
  <2>2. x <= r
    BY <2>1
  <2> QED BY <2>2 DEF x, r
<1>6. /\ ReleaseAll(h, t) \in Heaps /\ ReleaseAll(h, t).pool = h.pool
      /\ (\A k \in 1..Len(t) : t[k] # Garbage) => ReleaseAll(h, t).faults = h.faults
      /\ \A a \in Objects : ReleaseAll(h, t).rc[a] + Tally(t, a) = h.rc[a]
  BY <1>3, <1>5, AllReleased
<1>7. (\A v \in gone : locals[v] # Garbage) => \A k \in 1..Len(t) : t[k] # Garbage
  BY <1>2, <1>3
<1>8. ASSUME NEW a \in Objects
      PROVE  ReleaseAll(h, t).rc[a] + Tally(locals, a) = h.rc[a] + Tally(to, a)
  <2> DEFINE x == Tally(t, a)  y == Tally(to, a)  z == Tally(locals, a)  r == h.rc[a]
             s == ReleaseAll(h, t).rc[a]
  <2>1. x \in Nat /\ y \in Nat /\ z \in Nat /\ z = y + x /\ r \in Nat
    BY <1>4
  <2>2. s + x = r /\ s \in Nat
    BY <1>6 DEF Heaps
  <2> HIDE DEF x, y, z, r, s
  <2>3. s + z = r + y
    BY <2>1, <2>2
  <2> QED BY <2>3 DEF y, z, r, s
<1> QED BY <1>6, <1>7, <1>8 DEF t

(* stmtExpr: the value leaves at +1, then the block's own locals go. *)
LEMMA BlocksEnd ==
    ASSUME IInv, EndBlock
    PROVE  IInv'
<1> DEFINE gone == Scope \ Top.name  g == Claim(rt, val)  o == val.o
<1>1. /\ Have /\ TopIs("result") /\ rt' = ReleaseAll(g, Slots(gone))
      /\ locals' = [v \in Locals |-> IF v \in gone THEN Absent ELSE locals[v]]
      /\ temps' = Register(Take(val), o) /\ val' = Owned(o) /\ frames' = Below
      /\ UNCHANGED <<initializer, mode, self, elsewhere, given>>
  BY DEF EndBlock, HaveFor
<1>2. /\ mode = "have" /\ frames # <<>> /\ Top \in FrameRecords /\ Top.k = "result"
      /\ Len(frames) \in Nat \ {0} /\ frames[Len(frames)] = Top
      /\ locals \in [Locals -> Contents] /\ frames \in Seq(FrameRecords) /\ DataOK
  BY <1>1, Waited
<1>3. /\ Take(val) = Rest /\ g \in Heaps /\ g.pool = rt.pool /\ g.faults = rt.faults
      /\ \A a \in Objects : /\ g.rc[a] \in Nat
                            /\ g.rc[a] + Hand(val, a) = rt.rc[a] + Hit(o, a)
                            /\ g.rc[a] >= rt.rc[a]
  BY <1>1, Claiming
<1>4. gone \in SUBSET Locals /\ o \in Pointers /\ Rest \in Seq(Objects) /\ Even
  BY Parts DEF Scope, IInv
<1>5. /\ locals' \in [Locals -> Contents]
      /\ \A v \in Locals : locals'[v] = IF v \in gone THEN Absent ELSE locals[v]
  BY <1>1, <1>2 DEF Contents
<1>6. \A v \in Locals : v \in Top.name => v \notin gone
  OBVIOUS
<1>7. \A v \in gone : locals[v] # Garbage
  <2> SUFFICES ASSUME NEW v \in gone, locals[v] = Garbage PROVE FALSE
    OBVIOUS
  <2>1. v \in Locals
    BY <1>4
  <2>2. PICK k \in 1..Len(frames) : frames[k].k = "init" /\ frames[k].name = v
    BY <2>1 DEF IInv, SlotsOK
  <2>3. Outlives(frames, k, v)
    BY <2>2 DEF IInv, SlotsOK
  <2>4. k # Len(frames)
    BY <1>2, <2>2
  <2>5. Len(frames) \in (k + 1)..Len(frames)
    BY <1>2, <2>4
  <2>6. v \in Top.name
    BY <1>2, <2>3, <2>5 DEF Outlives, IsBlock
  <2> QED BY <1>6, <2>1, <2>6
<1> HIDE DEF gone, g, o
<1>8. ASSUME NEW a \in Objects PROVE Tally(locals, a) <= g.rc[a]
  <2> DEFINE A == Tally(locals, a)  B == Tally(Rest, a)  C == Hand(val, a)
             D == Tally(Takings(frames), a)
             E == Hit(elsewhere, a)  F == Hit(given, a)  G == Pooled(rt, a)
             H == Mine(self, initializer, a)  n == rt.rc[a]  p == g.rc[a]
  <2>1. /\ A \in Nat /\ B \in Nat /\ C \in Nat /\ D \in Nat
        /\ E \in Nat /\ F \in Nat /\ G \in Nat /\ H \in Nat
    BY <1>2, <1>4, Counts
  <2>2. n = A + B + C + D + E + F + G + H /\ p >= n /\ p \in Nat
    BY <1>3, <1>4 DEF Even, Sum
  <2> HIDE DEF A, B, C, D, E, F, G, H, n, p
  <2>3. A <= p
    BY <2>1, <2>2
  <2> QED BY <2>3 DEF A, p
<1>9. /\ rt' \in Heaps /\ rt'.pool = g.pool /\ rt'.faults = g.faults
      /\ \A a \in Objects : rt'.rc[a] + Tally(locals, a) = g.rc[a] + Tally(locals', a)
  <2> DEFINE to == locals'  h == ReleaseAll(g, Slots(gone))
  <2>1. to \in [Locals -> Contents] /\ Emptied(locals, to, gone)
    BY <1>5 DEF Emptied
  <2> HIDE DEF to
  <2>2. /\ h \in Heaps /\ h.pool = g.pool /\ h.faults = g.faults
        /\ \A a \in Objects : h.rc[a] + Tally(locals, a) = g.rc[a] + Tally(to, a)
    BY <1>2, <1>3, <1>4, <1>7, <1>8, <2>1, SlotsReleased
  <2>3. rt' = h
    BY <1>1
  <2> HIDE DEF h
  <2> QED BY <2>2, <2>3 DEF to
<1>10. /\ temps' \in Seq(Objects) /\ val' \in Vals /\ Rest' = Rest
       /\ InHand(val', temps') /\ val'.o = o /\ (val'.own => val'.o # Nil)
       /\ \A a \in Objects : Hand(val', a) = Hit(o, a)
  <2>1. temps' = Register(Rest, o) /\ val' = Owned(o)
    BY <1>1, <1>3
  <2>2. Rest' = RestOf(val', temps')
    BY DEF Rest
  <2> QED BY <1>4, <2>1, <2>2, PutOn
<1>11. DataOK'
  BY <1>1, <1>2, <1>5, <1>9, <1>10 DEF DataOK
<1>12. ASSUME NEW a \in Objects
       PROVE  rt'.rc[a] + Tally(locals, a) + Tally(Rest, a) + Hand(val, a) + Pooled(rt, a)
                = rt.rc[a] + Tally(locals', a) + Tally(Rest', a) + Hand(val', a) + Pooled(rt', a)
  <2> DEFINE A == Tally(locals, a)   A2 == Tally(locals', a)  B == Tally(Rest, a)
             C == Hand(val, a)  G == Pooled(rt, a)  n == rt.rc[a]  m == rt'.rc[a]  p == g.rc[a]
             y == Hit(o, a)
  <2>1. /\ A \in Nat /\ A2 \in Nat /\ B \in Nat /\ C \in Nat /\ G \in Nat /\ y \in Nat
        /\ n \in Nat /\ m \in Nat /\ p \in Nat
    BY <1>2, <1>3, <1>4, <1>5, <1>9, Held, SeqTally, TallyLocals DEF Hand, Hit, Pooled, Heaps
  <2>2. m + A = p + A2 /\ p + C = n + y
    BY <1>3, <1>9
  <2>3. Pooled(rt', a) = G /\ Tally(Rest', a) = B /\ Hand(val', a) = y
    BY <1>3, <1>9, <1>10 DEF Pooled
  <2> HIDE DEF A, A2, B, C, G, n, m, p, y
  <2>4. m + A + B + C + G = n + A2 + B + y + G
    BY <2>1, <2>2
  <2> QED BY <2>3, <2>4 DEF A, A2, B, C, G, n, m
<1>13. Drops
  BY <1>1, <1>2, <1>4, <1>10, <1>11, <1>12, DropsKept DEF IsTaken
<1>14. Frees(Rest)
  <2>1. Leaves(Top, Len(Rest), Len(Rest')) /\ SparesRest(Top, Rest, Rest')
    BY <1>10 DEF Leaves, SparesRest
  <2>2. Ends(Top, locals, locals')
    <3>1. Garbage # Absent
      BY Names
    <3>2. IsBlock(Top) /\ Top.k # "init"
      BY <1>2 DEF IsBlock
    <3> QED BY <1>5, <1>6, <3>1, <3>2 DEF Ends
  <2>3. SparesLocals(frames, locals, locals')
    <3>1. IsBlock(Top)
      BY <1>2 DEF IsBlock
    <3> QED BY <1>2, <1>5, <1>6, <3>1 DEF SparesLocals
  <2> QED BY <1>1, <1>3, <1>9, <2>1, <2>2, <2>3 DEF Frees, SparesSelf
<1>15. ValueKept'
  <2>1. val' = Owned(o)
    BY <1>1
  <2> QED BY <2>1 DEF ValueKept, Owned
<1>16. Clean'
  BY <1>1, <1>3, <1>9 DEF IInv, Clean
<1> QED BY <1>1, <1>2, <1>10, <1>11, <1>13, <1>14, <1>15, <1>16, Dropped

-----------------------------------------------------------------------------
(* The return.                                                               *)

(* Nothing that a return abandons has taken a receiver, or is a slot not written. *)
LEMMA Returning ==
    ASSUME IInv, TopIs("return")
    PROVE  /\ frames # <<>> /\ frames \in Seq(FrameRecords)
           /\ \A a \in Objects : Tally(Takings(frames), a) = 0
           /\ "return in an initializer" \notin Shapes => \A v \in Locals : locals[v] # Garbage
<1> DEFINE n == Len(frames)
<1>1. /\ frames # <<>> /\ frames[n].k = "return" /\ frames \in Seq(FrameRecords)
      /\ Nested(frames, initializer, Len(Rest)) /\ SlotsOK(frames, locals)
  BY DEF IInv, TypeOK, TopIs, Top
<1>2. n \in Nat \ {0} /\ n \in 1..n
  BY <1>1, Places
<1>3. FrameOK(frames, n, initializer, Len(Rest))
  BY <1>1, <1>2 DEF Nested
<1>4. ASSUME NEW k \in 1..n PROVE ~IsTaken(frames[k])
  <2>1. CASE k = n
    BY <1>1, <2>1 DEF IsTaken
  <2>2. CASE k # n
    <3>1. n # 1 /\ n - 1 \in 1..n /\ k \in 1..(n - 1)
      <4>1. n \in Nat /\ k \in Nat /\ 1 <= k /\ k <= n /\ k # n
        BY <1>2, <2>2
      <4> HIDE DEF n
      <4> QED BY <4>1
    <3>2. frames[n - 1].k = "block"
      BY <1>1, <1>3, <3>1 DEF FrameOK
    <3>3. FrameOK(frames, n - 1, initializer, Len(Rest))
      BY <1>1, <3>1 DEF Nested
    <3>4. CASE k = n - 1
      BY <3>2, <3>4 DEF IsTaken
    <3>5. CASE k # n - 1
      <4>1. k \in 1..((n - 1) - 1)
        BY <1>2, <3>1, <3>5
      <4> QED BY <3>2, <3>3, <4>1 DEF FrameOK
    <3> QED BY <3>4, <3>5
  <2> QED BY <2>1, <2>2
<1>5. \A a \in Objects : Tally(Takings(frames), a) = 0
  <2>1. \A a \in Objects : a # Nil
    BY Names
  <2> QED BY <1>1, <1>4, <2>1, TakingsType
<1>6. ASSUME "return in an initializer" \notin Shapes, NEW v \in Locals, locals[v] = Garbage
      PROVE  FALSE
  <2>1. PICK k \in 1..n : frames[k].k = "init" /\ frames[k].name = v
    BY <1>1, <1>6 DEF SlotsOK
  <2>2. k \in 1..(n - 1)
    BY <1>1, <1>2, <2>1
  <2>3. frames[k].k # "init"
    BY <1>1, <1>3, <1>6, <2>2 DEF FrameOK
  <2> QED BY <2>1, <2>3
<1> QED BY <1>1, <1>5, <1>6

(* finishReturn: what is left is what others hold. *)
LEMMA Left ==
    ASSUME IInv, TopIs("return"), mode # "done", NEW o \in Pointers, NEW h \in Heaps, Leave(o, h, Rest),
           h.pool = rt.pool, h.faults = rt.faults,
           \A a \in Objects : h.rc[a] + Hand(val, a) + Mine(self, initializer, a)
                                 = rt.rc[a] + Hit(o, a) + Mine(self', initializer, a)
    PROVE  IInv'
<1> DEFINE left == ReleaseAll(h, Rest)  empty == ReleaseAll(left, Slots(Scope))
           to == [v \in Locals |-> Absent]
<1>1. /\ (rt' = Autorelease(empty, o) /\ given' = given) \/ (rt' = empty /\ given' = o)
      /\ self' = [self EXCEPT !.owned = FALSE] /\ locals' = to
      /\ temps' = <<>> /\ frames' = <<>> /\ val' = [o |-> Nil, own |-> FALSE] /\ mode' = "done"
      /\ UNCHANGED <<initializer, elsewhere>>
  BY DEF Leave, NoValue
<1>2. /\ Rest \in Seq(Objects) /\ locals \in [Locals -> Contents] /\ elsewhere \in Pointers
      /\ self \in [o : Pointers, owned : BOOLEAN] /\ Even /\ rt \in Heaps /\ given = Nil
      /\ initializer \in BOOLEAN
  BY Parts DEF IInv, TypeOK, DataOK, Moments
<1>3. /\ frames # <<>> /\ frames \in Seq(FrameRecords)
      /\ \A a \in Objects : Tally(Takings(frames), a) = 0
      /\ "return in an initializer" \notin Shapes => \A v \in Locals : locals[v] # Garbage
  BY Returning
<1>4. /\ to \in [Locals -> Contents] /\ Scope \in SUBSET Locals
      /\ \A v \in Locals : to[v] = Absent
      /\ \A v \in Locals : to[v] = IF v \in Scope THEN Absent ELSE locals[v]
  BY <1>2 DEF Scope, Contents
<1> HIDE DEF left, empty, to
(* What the counts are made of, before and after. *)
<1>5. ASSUME NEW a \in Objects
      PROVE  /\ Tally(Rest, a) <= h.rc[a]
             /\ h.rc[a] = Tally(locals, a) + Tally(Rest, a) + Hit(elsewhere, a) + Pooled(rt, a)
                            + Hit(o, a) + Mine(self', initializer, a)
  <2> DEFINE A == Tally(locals, a)  B == Tally(Rest, a)  C == Hand(val, a)
             D == Tally(Takings(frames), a)
             E == Hit(elsewhere, a)  F == Hit(given, a)  G == Pooled(rt, a)
             H == Mine(self, initializer, a)  n == rt.rc[a]  p == h.rc[a]
             y == Hit(o, a)  H2 == Mine(self', initializer, a)
  <2>1. /\ A \in Nat /\ B \in Nat /\ C \in Nat /\ D \in Nat
        /\ E \in Nat /\ F \in Nat /\ G \in Nat /\ H \in Nat
    BY <1>2, <1>3, Counts
  <2>2. n = A + B + C + D + E + F + G + H
    BY <1>2 DEF Even, Sum
  <2>3. y \in Nat /\ H2 \in Nat /\ p \in Nat /\ p + C + H = n + y + H2
    BY DEF Hit, Mine, Heaps
  <2>4. D = 0 /\ F = 0
    BY <1>2, <1>3, Names DEF Hit
  <2> HIDE DEF A, B, C, D, E, F, G, H, n, p, y, H2
  <2>5. B <= p /\ p = A + B + E + G + y + H2
    BY <2>1, <2>2, <2>3, <2>4
  <2> QED BY <2>5 DEF A, B, E, G, p, y, H2
<1>6. /\ left \in Heaps /\ left.pool = h.pool /\ left.faults = h.faults
      /\ \A a \in Objects : left.rc[a] + Tally(Rest, a) = h.rc[a]
  BY <1>2, <1>5, ReleasedTemps DEF left
<1>7. ASSUME NEW a \in Objects
      PROVE  /\ Tally(locals, a) <= left.rc[a]
             /\ left.rc[a] = Tally(locals, a) + Hit(elsewhere, a) + Pooled(rt, a)
                               + Hit(o, a) + Mine(self', initializer, a)
  <2> DEFINE A == Tally(locals, a)  B == Tally(Rest, a)
             E == Hit(elsewhere, a)  G == Pooled(rt, a)  p == h.rc[a]  q == left.rc[a]
             y == Hit(o, a)  H2 == Mine(self', initializer, a)
  <2>1. A \in Nat /\ B \in Nat
    BY <1>2, SeqTally, TallyLocals
  <2>2. E \in Nat /\ G \in Nat /\ y \in Nat /\ H2 \in Nat /\ q \in Nat
    BY <1>6 DEF Hit, Pooled, Mine, Heaps
  <2>3. q + B = p /\ p = A + B + E + G + y + H2
    BY <1>5, <1>6
  <2> HIDE DEF A, B, E, G, p, q, y, H2
  <2>4. A <= q /\ q = A + E + G + y + H2
    BY <2>1, <2>2, <2>3
  <2> QED BY <2>4 DEF A, E, G, q, y, H2
<1>8. /\ empty \in Heaps /\ empty.pool = left.pool
      /\ (\A v \in Scope : locals[v] # Garbage) => empty.faults = left.faults
      /\ \A a \in Objects : empty.rc[a] + Tally(locals, a) = left.rc[a] + Tally(to, a)
  <2>1. Emptied(locals, to, Scope)
    BY <1>4 DEF Emptied
  <2> QED BY <1>2, <1>4, <1>6, <1>7, <2>1, SlotsReleased DEF empty
<1>9. ASSUME NEW a \in Objects
      PROVE  /\ Tally(to, a) = 0
             /\ empty.rc[a] = Hit(elsewhere, a) + Pooled(rt, a) + Hit(o, a) + Mine(self', initializer, a)
  <2> DEFINE A == Tally(locals, a)  A2 == Tally(to, a)
             E == Hit(elsewhere, a)  G == Pooled(rt, a)  q == left.rc[a]  r == empty.rc[a]
             y == Hit(o, a)  H2 == Mine(self', initializer, a)
  <2>1. A \in Nat /\ A2 = 0
    <3>1. a # Absent
      BY Names DEF Pointers
    <3> QED BY <1>2, <1>4, <3>1, TallyLocals
  <2>2. E \in Nat /\ G \in Nat /\ y \in Nat /\ H2 \in Nat /\ r \in Nat
    BY <1>8 DEF Hit, Pooled, Mine, Heaps
  <2>3. r + A = q + A2 /\ q = A + E + G + y + H2
    BY <1>7, <1>8
  <2> HIDE DEF A, A2, E, G, q, r, y, H2
  <2>4. r = E + G + y + H2
    BY <2>1, <2>2, <2>3
  <2> QED BY <2>1, <2>4 DEF A2, E, G, r, y, H2
<1>10. Rest' = <<>> /\ \A a : Hand(val', a) = 0 /\ InHand(val', temps')
  BY <1>1 DEF Rest, RestOf, InHand, Hand
<1>11. \A a \in Objects : Tally(Takings(<<>>), a) = 0 /\ Tally(<<>>, a) = 0
  <2>1. /\ <<>> \in Seq(FrameRecords) /\ <<>> \in Seq(Objects) /\ Len(<<>>) = 0
        /\ 1..0 = {} /\ \A a \in Objects : a # Nil
    BY Names
  <2>2. \A a \in Objects : Tally(Takings(<<>>), a) = 0
    BY <2>1, TakingsType
  <2> QED BY <2>1, <2>2, SeqTally
(* A value at +0 goes to the pool, one at +1 to the caller. *)
<1>12. /\ rt' \in Heaps /\ given' \in Pointers /\ rt'.faults = empty.faults
       /\ \A a \in Objects : rt'.rc[a] = Hit(elsewhere, a) + Hit(given', a) + Pooled(rt', a)
                                            + Mine(self', initializer, a)
  <2>1. CASE rt' = Autorelease(empty, o) /\ given' = given
    <3>1. o \in empty.pool => empty.rc[o] >= 1
      <4> SUFFICES ASSUME o \in empty.pool PROVE empty.rc[o] >= 1
        OBVIOUS
      <4>1. o \in Objects /\ o \in rt.pool
        BY <1>2, <1>6, <1>8 DEF Heaps
      <4>2. Hit(o, o) = 1 /\ Pooled(rt, o) \in Nat /\ Hit(elsewhere, o) \in Nat
            /\ Mine(self', initializer, o) \in Nat
        BY DEF Hit, Pooled, Mine
      <4> QED BY <1>9, <4>1, <4>2
    <3>2. /\ rt' \in Heaps /\ rt'.faults = empty.faults
          /\ \A a \in Objects : rt'.rc[a] + Pooled(empty, a) + Hit(o, a)
                                    = empty.rc[a] + Pooled(rt', a)
      BY <1>8, <2>1, <3>1, Autoreleased
    <3>3. ASSUME NEW a \in Objects
          PROVE  rt'.rc[a] = Hit(elsewhere, a) + Hit(given', a) + Pooled(rt', a)
                                + Mine(self', initializer, a)
      <4> DEFINE E == Hit(elsewhere, a)  G == Pooled(rt, a)  G2 == Pooled(rt', a)
                 r == empty.rc[a]  m == rt'.rc[a]
                 y == Hit(o, a)  H2 == Mine(self', initializer, a)
      <4>1. /\ E \in Nat /\ G \in Nat /\ G2 \in Nat /\ y \in Nat /\ H2 \in Nat /\ m \in Nat
        BY <3>2 DEF Hit, Pooled, Mine, Heaps
      <4>2. Pooled(empty, a) = G /\ Hit(given', a) = 0
        BY <1>2, <1>6, <1>8, <2>1, Names DEF Pooled, Hit
      <4>3. r = E + G + y + H2 /\ m + G + y = r + G2
        BY <1>9, <3>2, <4>2
      <4> HIDE DEF E, G, G2, r, m, y, H2
      <4>4. m = E + 0 + G2 + H2
        BY <4>1, <4>3
      <4> QED BY <4>2, <4>4 DEF E, G2, m, H2
    <3> QED BY <1>2, <2>1, <3>2, <3>3 DEF Pointers
  <2>2. CASE rt' = empty /\ given' = o
    <3>1. ASSUME NEW a \in Objects
          PROVE  rt'.rc[a] = Hit(elsewhere, a) + Hit(given', a) + Pooled(rt', a)
                                + Mine(self', initializer, a)
      <4> DEFINE E == Hit(elsewhere, a)  G == Pooled(rt, a)
                 r == empty.rc[a]  y == Hit(o, a)  H2 == Mine(self', initializer, a)
      <4>1. E \in Nat /\ G \in Nat /\ y \in Nat /\ H2 \in Nat
        BY DEF Hit, Pooled, Mine
      <4>2. Pooled(rt', a) = G /\ rt'.rc[a] = r /\ Hit(given', a) = y
        BY <1>6, <1>8, <2>2 DEF Pooled
      <4>3. r = E + G + y + H2
        BY <1>9
      <4> HIDE DEF E, G, r, y, H2
      <4>4. r = E + y + G + H2
        BY <4>1, <4>3
      <4> QED BY <4>2, <4>4 DEF E, G, r, y, H2
    <3> QED BY <1>8, <2>2, <3>1
  <2> QED BY <1>1, <2>1, <2>2
<1>13. TypeOK'
  <2>1. val' \in Vals /\ <<>> \in Seq(Objects) /\ <<>> \in Seq(FrameRecords)
    BY <1>1 DEF Vals, Pointers
  <2>2. self' \in [o : Pointers, owned : BOOLEAN]
    BY <1>1, <1>2
  <2> QED BY <1>1, <1>2, <1>4, <1>12, <2>1, <2>2 DEF TypeOK, DataOK
<1>14. Nested(frames', initializer', Len(Rest')) /\ SlotsOK(frames', locals') /\ Waiters'
  <2>1. 1..Len(frames') = {}
    BY <1>1
  <2>2. \A v \in Locals : locals'[v] # Garbage
    BY <1>1, <1>4, Names
  <2> QED BY <2>1, <2>2 DEF Nested, SlotsOK, Waiters, ReceiversKept
<1>15. Moments' /\ SelfOK' /\ ValueKept'
  BY <1>1, <1>10 DEF Moments, SelfOK, ValueKept, Statement, HaveFor, Have, TopIs
<1>16. Even'
  <2> SUFFICES ASSUME NEW a \in Objects
               PROVE  rt'.rc[a] = Sum(locals', Rest', val', frames', elsewhere', given', rt',
                                      self', initializer', a)
    BY DEF Even
  <2> DEFINE E == Hit(elsewhere, a)  F2 == Hit(given', a)  G2 == Pooled(rt', a)
             H2 == Mine(self', initializer, a)  m == rt'.rc[a]
  <2>1. E \in Nat /\ F2 \in Nat /\ G2 \in Nat /\ H2 \in Nat /\ m = E + F2 + G2 + H2
    BY <1>12 DEF Hit, Pooled, Mine
  <2>2. /\ Tally(locals', a) = 0 /\ Tally(Rest', a) = 0 /\ Hand(val', a) = 0
        /\ Tally(Takings(frames'), a) = 0 /\ Hit(elsewhere', a) = E
        /\ Mine(self', initializer', a) = H2
    BY <1>1, <1>9, <1>10, <1>11
  <2> HIDE DEF E, F2, G2, H2, m
  <2>3. m = 0 + 0 + 0 + 0 + E + F2 + G2 + H2
    BY <2>1
  <2> QED BY <2>2, <2>3 DEF Sum, F2, G2, m
<1>17. Clean'
  <2>1. Clean
    BY DEF IInv
  <2>2. "return in an initializer" \notin Shapes => empty.faults = rt.faults
    BY <1>3, <1>4, <1>6, <1>8
  <2> QED BY <1>12, <2>1, <2>2 DEF Clean
<1> QED BY <1>13, <1>14, <1>15, <1>16, <1>17 DEF IInv

(* returnObject: a value is claimed, and an initializer has passed self on. *)
LEMMA Returns ==
    ASSUME IInv, EndReturn
    PROVE  IInv'
<1> DEFINE g == Claim(rt, val)  o == val.o
<1>1. Have /\ TopIs("return") /\ Leave(o, g, Take(val)) /\ mode # "done"
  BY DEF EndReturn, HaveFor, Have
<1>2. /\ Take(val) = Rest /\ g \in Heaps /\ g.pool = rt.pool /\ g.faults = rt.faults
      /\ \A a \in Objects : /\ g.rc[a] \in Nat
                            /\ g.rc[a] + Hand(val, a) = rt.rc[a] + Hit(o, a)
  BY <1>1, Claiming
<1>3. o \in Pointers /\ Leave(o, g, Rest) /\ self \in [o : Pointers, owned : BOOLEAN]
  BY <1>1, <1>2, Parts DEF IInv, TypeOK, DataOK
<1>4. self'.o = self.o /\ ~self'.owned
  BY <1>3 DEF Leave
<1> HIDE DEF g, o
<1>5. ASSUME NEW a \in Objects
      PROVE  g.rc[a] + Hand(val, a) + Mine(self, initializer, a)
                = rt.rc[a] + Hit(o, a) + Mine(self', initializer, a)
  <2>1. initializer => ~self.owned \/ self.o = Nil
    BY <1>1 DEF IInv, SelfOK, HaveFor
  <2>2. Mine(self', initializer, a) = Mine(self, initializer, a)
    BY <1>4, <2>1, Names DEF Mine, HeldBySelf
  <2> QED BY <1>2, <2>2
<1> QED BY <1>1, <1>2, <1>3, <1>5, Left

(* return self, in an initializer: the frame's reference is the caller's. *)
LEMMA SelfReturns ==
    ASSUME IInv, ReturnSelf
    PROVE  IInv'
<1>1. mode = "want" /\ TopIs("return") /\ initializer /\ Leave(self.o, rt, temps)
  BY DEF ReturnSelf, Want
<1>2. ~val.own /\ Rest = temps /\ rt \in Heaps /\ self \in [o : Pointers, owned : BOOLEAN]
      /\ self.owned
  BY <1>1, Parts DEF IInv, Moments, Have, HaveFor, TypeOK, DataOK, SelfOK
<1>3. self'.o = self.o /\ ~self'.owned /\ Leave(self.o, rt, Rest) /\ self.o \in Pointers
  BY <1>1, <1>2 DEF Leave
<1>4. ASSUME NEW a \in Objects
      PROVE  rt.rc[a] + Hand(val, a) + Mine(self, initializer, a)
                = rt.rc[a] + Hit(self.o, a) + Mine(self', initializer, a)
  <2>1. /\ Hand(val, a) = 0 /\ Mine(self, initializer, a) = Hit(self.o, a)
        /\ Mine(self', initializer, a) = 0
    BY <1>1, <1>2, <1>3 DEF Hand, Mine, HeldBySelf, Hit
  <2>2. Hit(self.o, a) \in Nat /\ rt.rc[a] \in Nat
    BY <1>2 DEF Hit, Heaps
  <2> DEFINE x == Hit(self.o, a)  n == rt.rc[a]
  <2> HIDE DEF x, n
  <2>3. n + 0 + x = n + x + 0
    BY <2>2 DEF x, n
  <2> QED BY <2>1, <2>3 DEF x, n
<1> QED BY <1>1, <1>2, <1>3, <1>4, Left

-----------------------------------------------------------------------------
(* Every step keeps the invariant.                                           *)

LEMMA Stutters ==
    ASSUME IInv, UNCHANGED vars
    PROVE  IInv'
<1>1. /\ UNCHANGED <<initializer, mode, frames, val, temps, locals, self, elsewhere, rt, given>>
      /\ Rest' = Rest
  BY DEF vars, Rest
<1>2. TypeOK' /\ Nested(frames, initializer, Len(Rest))' /\ SlotsOK(frames, locals)'
  BY <1>1 DEF IInv, TypeOK, DataOK
<1>3. Moments' /\ SelfOK'
  BY <1>1 DEF IInv, Moments, SelfOK, Statement, HaveFor, Have, TopIs, Top, Waiting
<1>4. ValueKept' /\ Waiters' /\ Clean'
  BY <1>1 DEF IInv, ValueKept, Waiters, Clean, Have
<1>5. Even'
  BY <1>1 DEF IInv, Even
<1> QED BY <1>2, <1>3, <1>4, <1>5 DEF IInv

LEMMA Steps ==
    ASSUME Counting, IInv, [Next]_vars
    PROVE  IInv'
<1>1. CASE ExprStatement \/ DeclareStrong \/ ReturnStatement
  BY <1>1, Statements
<1>2. CASE BlockValue
  BY <1>2, BlockEnding
<1>3. CASE LoadLocal \/ LoadNil \/ LoadSelf \/ LoadWeak \/ MakeOwned
  BY <1>3, Values
<1>4. CASE OpenSend \/ OpenElvis \/ OpenAssign \/ OpenAutoreleasing \/ OpenTest
  BY <1>4, Operands
<1>5. CASE OpenBlock
  BY <1>5, Blocks
<1>6. CASE OpenSelf
  BY <1>6, Selves
<1>7. CASE TakeReceiver
  BY <1>7, ReceiverTaken
<1>8. CASE Send
  BY <1>8, Sends
<1>9. CASE SendOut
  BY <1>9, SendsOut
<1>10. CASE ConsumeSelf
  BY <1>10, Supers
<1>11. CASE AssignSelf
  BY <1>11, SelfAssigned
<1>12. CASE AssignStrong
  BY <1>12, StrongAssigned
<1>13. CASE AssignAutoreleasing
  BY <1>13, PoolAssigned
<1>14. CASE Decide \/ ElvisFails
  BY <1>14, Decisions
<1>15. CASE EndArm \/ ElvisHolds
  BY <1>15, Arms
<1>16. CASE EndBlock
  BY <1>16, BlocksEnd
<1>17. CASE EndExpr
  BY <1>17, ExpressionEnds
<1>18. CASE EndDeclaration
  BY <1>18, DeclarationEnds
<1>19. CASE EndReturn
  BY <1>19, Returns
<1>20. CASE ReturnSelf
  BY <1>20, SelfReturns
<1>21. CASE Finished \/ UNCHANGED vars
  BY <1>21, Stutters DEF Finished
<1> QED BY <1>1, <1>2, <1>3, <1>4, <1>5, <1>6, <1>7, <1>8, <1>9, <1>10, <1>11, <1>12, <1>13,
           <1>14, <1>15, <1>16, <1>17, <1>18, <1>19, <1>20, <1>21 DEF Next

LEMMA Invariant == ASSUME Counting PROVE Spec => []IInv
<1>1. Init => IInv
  BY Starts
<1>2. IInv /\ [Next]_vars => IInv'
  BY Steps
<1> QED BY <1>1, <1>2, PTL DEF Spec

-----------------------------------------------------------------------------
(* What follows from it.                                                     *)

LEMMA TwoOutside ==
    ASSUME NEW e, NEW g, NEW a
    PROVE  Cardinality({h \in {<<"elsewhere", e>>, <<"given", g>>} : h[2] = a}) = Hit(e, a) + Hit(g, a)
<1> DEFINE x == <<"elsewhere", e>>  y == <<"given", g>>  S == {h \in {x, y} : h[2] = a}
<1>1. x # y /\ x[2] = e /\ y[2] = g
  OBVIOUS
<1> HIDE DEF x, y
<1>2. CASE e = a /\ g = a
  <2>1. S = {x} \cup {y} /\ y \notin {x}
    BY <1>1, <1>2
  <2>2. IsFiniteSet({x}) /\ Cardinality({x}) = 1
    BY FS_Singleton
  <2>3. Cardinality({x} \cup {y}) = 2
    BY <2>1, <2>2, FS_AddElement
  <2> QED BY <1>2, <2>1, <2>3 DEF Hit, x, y
<1>3. CASE e = a /\ g # a
  <2>1. S = {x}
    BY <1>1, <1>3
  <2>2. Cardinality(S) = 1
    BY <2>1, FS_Singleton
  <2>3. Hit(e, a) + Hit(g, a) = 1
    BY <1>3 DEF Hit
  <2> QED BY <2>2, <2>3 DEF x, y
<1>4. CASE e # a /\ g = a
  <2>1. S = {y}
    BY <1>1, <1>4
  <2>2. Cardinality(S) = 1
    BY <2>1, FS_Singleton
  <2>3. Hit(e, a) + Hit(g, a) = 1
    BY <1>4 DEF Hit
  <2> QED BY <2>2, <2>3 DEF x, y
<1>5. CASE e # a /\ g # a
  <2>1. S = {}
    BY <1>1, <1>5
  <2> QED BY <1>5, <2>1, FS_EmptySet DEF Hit, x, y
<1> QED BY <1>2, <1>3, <1>4, <1>5

LEMMA EvenIsAccounted ==
    ASSUME IInv
    PROVE  Accounted
<1> SUFFICES ASSUME NEW a \in Objects PROVE rt.rc[a] = Holders(a)
  BY DEF Accounted
<1> DEFINE A == Tally(locals, a)  B == Tally(Rest, a)  C == Hand(val, a)
           D == Tally(Takings(frames), a)  T == Tally(temps, a)
           E == Hit(elsewhere, a)  F == Hit(given, a)  G == Pooled(rt, a)
           H == Mine(self, initializer, a)  n == rt.rc[a]
           X == Cardinality({h \in {<<"elsewhere", elsewhere>>, <<"given", given>>} : h[2] = a})
<1>1. /\ locals \in [Locals -> Contents] /\ frames \in Seq(FrameRecords) /\ Rest \in Seq(Objects)
      /\ Even /\ initializer \in BOOLEAN
  BY Parts DEF IInv, TypeOK, DataOK
<1>2. /\ A \in Nat /\ B \in Nat /\ C \in Nat /\ D \in Nat
      /\ E \in Nat /\ F \in Nat /\ G \in Nat /\ H \in Nat
  BY <1>1, Counts
<1>3. n = A + B + C + D + E + F + G + H
  BY <1>1 DEF Even, Sum
<1>4. T = B + C /\ X = E + F
  BY Parts, TwoOutside
<1>5. Cardinality({v \in Locals : locals[v] = a}) = A
  BY <1>1 DEF Tally
<1>6. Times(temps, a) = T
  BY DEF Times, Tally
<1>7. Cardinality({k \in DOMAIN frames : Consumed(k) /\ frames[k].o = a}) = D
  <2>1. DOMAIN Takings(frames) = DOMAIN frames
    BY <1>1 DEF Takings
  <2>2. \A k \in DOMAIN frames : Takings(frames)[k] = IF IsTaken(frames[k]) THEN frames[k].o ELSE Nil
    BY <1>1 DEF Takings
  <2>3. a # Nil
    BY Names
  <2>4. {k \in DOMAIN frames : Consumed(k) /\ frames[k].o = a}
          = {k \in DOMAIN Takings(frames) : Takings(frames)[k] = a}
    BY <2>1, <2>2, <2>3 DEF Consumed, IsTaken
  <2> QED BY <2>4 DEF Tally
<1>8. (IF a \in rt.pool THEN 1 ELSE 0) = G
  BY DEF Pooled
<1>9. (IF initializer THEN (IF self.owned /\ self.o = a THEN 1 ELSE 0)
       ELSE IF self.o = a THEN 1 ELSE 0) = H
  BY <1>1 DEF Mine, HeldBySelf
<1>10. Holders(a) = A + T + D + X + G + H
  BY <1>5, <1>6, <1>7, <1>8, <1>9 DEF Holders
<1> HIDE DEF A, B, C, D, E, F, G, H, n, T, X
<1>11. n = A + T + D + X + G + H
  BY <1>2, <1>3, <1>4
<1> QED BY <1>10, <1>11 DEF n

LEMMA KeptIsAlive ==
    ASSUME IInv
    PROVE  PendingAlive
<1>1. \A a \in Objects : Holds(a) => rt.rc[a] > 0 /\ rt.rc[a] \in Nat
  BY Held
<1>2. Have => Alive(val.o)
  <2>1. Have => val.o = Nil \/ rt.rc[val.o] >= 1
    BY Claiming
  <2>2. val.o \in Pointers /\ \A a \in Objects : rt.rc[a] \in Nat
    BY Parts, Held
  <2> QED BY <2>1, <2>2 DEF Alive, Pointers
<1>3. ASSUME NEW k \in DOMAIN frames, frames[k].k = "argument", ~Abandoned(k)
      PROVE  Alive(frames[k].o)
  <2> DEFINE o == frames[k].o
  <2>1. frames \in Seq(FrameRecords) /\ DOMAIN frames = 1..Len(frames) /\ k \in 1..Len(frames)
    BY DEF IInv, TypeOK
  <2>2. frames[k].name \in {"plain", "init"} /\ o \in Pointers
    BY <1>3, <2>1, FrameFacts, Places
  <2>3. CASE frames[k].name = "init"
    <3>1. IsTaken(frames[k])
      BY <1>3, <2>3 DEF IsTaken
    <3>2. Holds(o)
      BY <2>1, <3>1 DEF Holds, Holding
    <3> QED BY <1>1, <2>2, <3>2 DEF Alive, Pointers
  <2>4. CASE frames[k].name = "plain" /\ o # Nil
    <3>1. \A j \in (k + 1)..Len(frames) : frames[j].k # "return"
      <4>1. \A j \in (k + 1)..Len(frames) : j \in DOMAIN frames /\ j > k
        BY <2>1
      <4> QED BY <1>3, <4>1 DEF Abandoned
    <3>2. Waits(frames, k)
      BY <1>3, <2>4, <3>1 DEF Waits
    <3>3. Kept(frames, k, locals, self, initializer, rt.pool, Rest)
      BY <2>1, <3>2 DEF IInv, Waiters, ReceiversKept
    <3>4. Holds(o)
      BY <3>3 DEF Kept, Holds, Holding
    <3> QED BY <1>1, <2>2, <3>4 DEF Alive, Pointers
  <2> QED BY <2>2, <2>3, <2>4 DEF Alive
<1> QED BY <1>2, <1>3 DEF PendingAlive, Have

-----------------------------------------------------------------------------
(* The theorems, for methods of the shapes whose counts come out even.       *)

(* Every reference a method body takes has exactly one place that will let go of it,
   at every point of every method: a local, the register fn.temps, a pool, a
   consuming call, the caller; so at the return none is left over and none was
   released twice (arc.go: claimResult, storeStrong, returnObject, releaseTemps). *)
THEOREM EveryReferenceAccounted == ASSUME Counting PROVE Spec => []Accounted
BY Invariant, EvenIsAccounted, PTL

(* The value in hand and every receiver that waits for its argument are alive, in
   whatever order calls, assignments and the ends of blocks let go of what held them
   when they were evaluated (arc.go:12-15, 104-110). *)
THEOREM WaitingStaysAlive == ASSUME Counting PROVE Spec => []PendingAlive
BY Invariant, KeptIsAlive, PTL

(* Where no statement expression returns out of an initializer either, no retain or
   release is of an object that is gone or of a slot never written
   (arc.go:364-369). *)
THEOREM NothingFaults ==
    ASSUME Counting, "return in an initializer" \notin Shapes
    PROVE  Spec => []NoFaults
<1>1. IInv => NoFaults
  BY DEF IInv, Clean, NoFaults
<1> QED BY <1>1, Invariant, PTL
=============================================================================
