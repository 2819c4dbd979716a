--------------------------- MODULE Includes_proofs ---------------------------
(* Proofs about Includes, for every set of files, macros and programs and every
   depth limit: its typing, that a file marked once is never read again, that the
   flags on the conditional stack agree with a reading of the lines that needs no
   stack, that exactly the ill-nested files are diagnosed, and that an inclusion
   skipped for its guard would have read nothing. *)
EXTENDS Includes, Reader_proofs

-----------------------------------------------------------------------------
(* The lines of a file, and the depth at each. *)

LEMMA DepthCounts ==
    ASSUME NEW ls, NEW i \in Nat \ {0}, NEW P \in SUBSET (1..(i - 1))
    PROVE  IsFiniteSet(P) /\ Cardinality(P) \in Nat /\ Cardinality(P \cup {i}) = Cardinality(P) + 1
<1>1. IsFiniteSet(1..(i - 1))
  BY FS_Interval
<1>2. IsFiniteSet(P)
  BY <1>1, FS_Subset
<1>3. i \notin P
  OBVIOUS
<1> QED BY <1>2, <1>3, FS_AddElement, FS_CardinalityType

(* The depth is an integer, 0 at the first line; an opening line adds one to it,
   #endif takes one, and no other line changes it. *)
LEMMA DepthStep ==
    ASSUME NEW ls, NEW i \in Nat \ {0}
    PROVE  /\ DepthAt(ls, i) \in Int
           /\ ls[i].op \in Opening => DepthAt(ls, i + 1) = DepthAt(ls, i) + 1
           /\ ls[i].op = "endif" => DepthAt(ls, i + 1) = DepthAt(ls, i) - 1
           /\ ls[i].op \notin Opening \cup {"endif"} => DepthAt(ls, i + 1) = DepthAt(ls, i)
<1> DEFINE O(n) == {j \in 1..(n - 1) : ls[j].op \in Opening}
           E(n) == {j \in 1..(n - 1) : ls[j].op = "endif"}
<1>1. O(i) \in SUBSET (1..(i - 1)) /\ E(i) \in SUBSET (1..(i - 1))
  OBVIOUS
<1>2. /\ Cardinality(O(i)) \in Nat /\ Cardinality(O(i) \cup {i}) = Cardinality(O(i)) + 1
      /\ Cardinality(E(i)) \in Nat /\ Cardinality(E(i) \cup {i}) = Cardinality(E(i)) + 1
  <2> HIDE DEF O, E
  <2> QED BY <1>1, DepthCounts
<1>3. O(i + 1) = IF ls[i].op \in Opening THEN O(i) \cup {i} ELSE O(i)
  OBVIOUS
<1>4. E(i + 1) = IF ls[i].op = "endif" THEN E(i) \cup {i} ELSE E(i)
  OBVIOUS
<1>5. DepthAt(ls, i) = Cardinality(O(i)) - Cardinality(E(i))
  BY DEF DepthAt
<1>6. DepthAt(ls, i + 1) = Cardinality(O(i + 1)) - Cardinality(E(i + 1))
  BY DEF DepthAt
<1>7. ~(ls[i].op \in Opening /\ ls[i].op = "endif")
  BY DEF Opening
<1> HIDE DEF O, E
<1> DEFINE a == Cardinality(O(i))
           b == Cardinality(E(i))
<1>8. /\ Cardinality(O(i + 1)) = IF ls[i].op \in Opening THEN a + 1 ELSE a
      /\ Cardinality(E(i + 1)) = IF ls[i].op = "endif" THEN b + 1 ELSE b
  BY <1>2, <1>3, <1>4
<1>9. a \in Nat /\ b \in Nat
  BY <1>2
<1> HIDE DEF a, b
<1> QED BY <1>5, <1>6, <1>7, <1>8, <1>9 DEF a, b

LEMMA DepthAtFirst ==
    ASSUME NEW ls
    PROVE  DepthAt(ls, 1) = 0
<1>1. {j \in 1..(1 - 1) : ls[j].op \in Opening} = {} /\ {j \in 1..(1 - 1) : ls[j].op = "endif"} = {}
  OBVIOUS
<1>2. Cardinality({}) = 0
  BY FS_EmptySet
<1> QED BY <1>1, <1>2 DEF DepthAt

(* The chains a line lies in are nested: the one that opened later is the
   deeper one. *)
LEMMA SpansNest ==
    ASSUME NEW ls, NEW i \in Nat \ {0}, NEW p \in 1..(i - 1), NEW o \in 1..(i - 1),
           Spans(ls, p, i), Spans(ls, o, i)
    PROVE  p < o <=> DepthAt(ls, p) < DepthAt(ls, o)
<1>1. DepthAt(ls, p) \in Int /\ DepthAt(ls, o) \in Int
  BY DepthStep
<1>2. p < o => DepthAt(ls, o) > DepthAt(ls, p)
  <2>1. p < o => o \in (p + 1)..i
    OBVIOUS
  <2> QED BY <2>1 DEF Spans
<1>3. o < p => DepthAt(ls, p) > DepthAt(ls, o)
  <2>1. o < p => p \in (o + 1)..i
    OBVIOUS
  <2> QED BY <2>1 DEF Spans
<1> QED BY <1>1, <1>2, <1>3

(* A line's chains are shallower than the line. *)
LEMMA SpansBelow ==
    ASSUME NEW ls, NEW i \in Nat \ {0}, NEW o \in 1..(i - 1), Spans(ls, o, i)
    PROVE  DepthAt(ls, o) < DepthAt(ls, i)
<1>1. i \in (o + 1)..i /\ DepthAt(ls, o) \in Int /\ DepthAt(ls, i) \in Int
  BY DepthStep
<1> QED BY <1>1 DEF Spans

(* An earlier chain goes on over the next line while that line is deeper. *)
LEMMA SpansStep ==
    ASSUME NEW ls, NEW i \in Nat \ {0}, NEW o \in 1..(i - 1)
    PROVE  Spans(ls, o, i + 1) <=> Spans(ls, o, i) /\ DepthAt(ls, i + 1) > DepthAt(ls, o)
<1>1. (o + 1)..(i + 1) = (o + 1)..i \cup {i + 1}
  OBVIOUS
<1> QED BY <1>1 DEF Spans

(* An opening line's chain covers the next line; no other line opens one. *)
LEMMA SpansOpened ==
    ASSUME NEW ls, NEW i \in Nat \ {0}
    PROVE  Spans(ls, i, i + 1) <=> ls[i].op \in Opening
<1>1. (i + 1)..(i + 1) = {i + 1}
  OBVIOUS
<1>2. ls[i].op \in Opening => DepthAt(ls, i + 1) > DepthAt(ls, i)
  BY DepthStep
<1> QED BY <1>1, <1>2 DEF Spans

(* A line adds a group to a chain when it is an arm at the chain's depth. *)
StartsGroup(ls, o, i) == /\ ls[i].op \in {"elif", "else"}
                         /\ Spans(ls, o, i)
                         /\ DepthAt(ls, i) = DepthAt(ls, o) + 1

LEMMA ArmsBefore ==
    ASSUME NEW ls, NEW i \in Nat \ {0}, NEW o \in 1..(i - 1)
    PROVE  Arms(ls, o, i) \subseteq 1..(i - 1) /\ o \in Arms(ls, o, i)
BY DEF Arms

LEMMA ArmsStep ==
    ASSUME NEW ls, NEW i \in Nat \ {0}, NEW o \in 1..(i - 1)
    PROVE  Arms(ls, o, i + 1) = IF StartsGroup(ls, o, i) THEN Arms(ls, o, i) \cup {i}
                                ELSE Arms(ls, o, i)
<1>1. (o + 1)..((i + 1) - 1) = (o + 1)..(i - 1) \cup {i} /\ i \notin (o + 1)..(i - 1)
  OBVIOUS
<1> QED BY <1>1 DEF Arms, StartsGroup

LEMMA ArmsOpened ==
    ASSUME NEW ls, NEW i \in Nat \ {0}
    PROVE  Arms(ls, i, i + 1) = {i}
<1>1. (i + 1)..((i + 1) - 1) = {}
  OBVIOUS
<1> QED BY <1>1 DEF Arms

-----------------------------------------------------------------------------
(* Groups, and what the macro tables met so far say of them.  met holds one table
   for each line before line i; the step appends line i's. *)

Tables == SUBSET Macros

Met(met, i) == met \in Seq(Tables) /\ Len(met) = i - 1

(* Every group around o's chain is read. *)
ParentsRead(ls, o, i, met) ==
    \A p \in 1..(o - 1) : Spans(ls, p, i) => GroupRead(ls, p, i, met)

SomeChosen(ls, o, i, met) == \E a \in Arms(ls, o, i) : Chosen(ls, a, met)

SomeElse(ls, o, i) == \E a \in Arms(ls, o, i) : ls[a].op = "else"

LEMMA MetStep ==
    ASSUME NEW i \in Nat \ {0}, NEW met, Met(met, i), NEW m \in Tables
    PROVE  /\ Met(Append(met, m), i + 1)
           /\ Append(met, m)[i] = m
           /\ \A a \in 1..(i - 1) : Append(met, m)[a] = met[a]
BY AppendProperties DEF Met

(* An arm already passed has been chosen or not. *)
LEMMA ChosenStep ==
    ASSUME NEW ls, NEW i \in Nat \ {0}, NEW met, Met(met, i), NEW m \in Tables,
           NEW a \in 1..(i - 1)
    PROVE  Chosen(ls, a, Append(met, m)) <=> Chosen(ls, a, met)
<1>1. Append(met, m)[a] = met[a]
  BY AppendProperties DEF Met
<1> QED BY <1>1 DEF Chosen

(* A chain that line i adds no group to stands as it stood. *)
LEMMA GroupKept ==
    ASSUME NEW ls, NEW i \in Nat \ {0}, NEW met, Met(met, i), NEW m \in Tables,
           NEW o \in 1..(i - 1), ~StartsGroup(ls, o, i)
    PROVE  /\ GroupRead(ls, o, i + 1, Append(met, m)) <=> GroupRead(ls, o, i, met)
           /\ SomeChosen(ls, o, i + 1, Append(met, m)) <=> SomeChosen(ls, o, i, met)
           /\ SomeElse(ls, o, i + 1) <=> SomeElse(ls, o, i)
<1> DEFINE arms == Arms(ls, o, i)
<1>1. Arms(ls, o, i + 1) = arms
  BY ArmsStep
<1>2. arms \subseteq 1..(i - 1)
  BY ArmsBefore
<1>3. \A a \in arms : Chosen(ls, a, Append(met, m)) <=> Chosen(ls, a, met)
  BY <1>2, ChosenStep
<1> HIDE DEF arms
<1>4. GroupRead(ls, o, i + 1, Append(met, m)) <=> GroupRead(ls, o, i, met)
  <2> DEFINE Last(a, mt) == /\ \A b \in arms : b <= a
                            /\ Chosen(ls, a, mt)
                            /\ \A b \in arms \ {a} : ~Chosen(ls, b, mt)
  <2>1. \A a \in arms : Last(a, Append(met, m)) <=> Last(a, met)
    BY <1>3
  <2>2. /\ GroupRead(ls, o, i + 1, Append(met, m)) <=> \E a \in arms : Last(a, Append(met, m))
        /\ GroupRead(ls, o, i, met) <=> \E a \in arms : Last(a, met)
    BY <1>1 DEF GroupRead, arms
  <2> HIDE DEF Last
  <2> QED BY <2>1, <2>2
<1> QED BY <1>1, <1>3, <1>4 DEF SomeChosen, SomeElse, arms

(* The group that line i starts is read when it is chosen and none was before. *)
LEMMA GroupStarted ==
    ASSUME NEW ls, NEW i \in Nat \ {0}, NEW met, Met(met, i), NEW m \in Tables,
           NEW o \in 1..(i - 1), StartsGroup(ls, o, i)
    PROVE  LET next == Append(met, m) IN
           /\ GroupRead(ls, o, i + 1, next) <=> Chosen(ls, i, next) /\ ~SomeChosen(ls, o, i, met)
           /\ SomeChosen(ls, o, i + 1, next) <=> Chosen(ls, i, next) \/ SomeChosen(ls, o, i, met)
           /\ SomeElse(ls, o, i + 1) <=> ls[i].op = "else" \/ SomeElse(ls, o, i)
<1> DEFINE arms == Arms(ls, o, i)
           next == Append(met, m)
<1>1. Arms(ls, o, i + 1) = arms \cup {i}
  BY ArmsStep
<1>2. arms \subseteq 1..(i - 1)
  BY ArmsBefore
<1>3. \A a \in arms : Chosen(ls, a, next) <=> Chosen(ls, a, met)
  BY <1>2, ChosenStep
<1>4. i \notin arms /\ \A a \in arms : a <= i /\ ~(i <= a)
  BY <1>2
<1> HIDE DEF arms, next
<1>5. GroupRead(ls, o, i + 1, next)
        <=> \E last \in arms \cup {i} : /\ \A b \in arms \cup {i} : b <= last
                                        /\ Chosen(ls, last, next)
                                        /\ \A a \in (arms \cup {i}) \ {last} : ~Chosen(ls, a, next)
  BY <1>1 DEF GroupRead
<1>6. ASSUME GroupRead(ls, o, i + 1, next)
      PROVE  Chosen(ls, i, next) /\ \A a \in arms : ~Chosen(ls, a, next)
  BY <1>4, <1>5, <1>6
<1>7. ASSUME Chosen(ls, i, next), \A a \in arms : ~Chosen(ls, a, next)
      PROVE  GroupRead(ls, o, i + 1, next)
  BY <1>4, <1>5, <1>7
<1>8. SomeChosen(ls, o, i, met) <=> \E a \in arms : Chosen(ls, a, next)
  BY <1>3 DEF SomeChosen, arms
<1>9. SomeChosen(ls, o, i + 1, next) <=> Chosen(ls, i, next) \/ \E a \in arms : Chosen(ls, a, next)
  BY <1>1 DEF SomeChosen
<1>10. SomeElse(ls, o, i + 1) <=> ls[i].op = "else" \/ SomeElse(ls, o, i)
  BY <1>1 DEF SomeElse, arms
<1> QED BY <1>6, <1>7, <1>8, <1>9, <1>10 DEF next

(* The chain that line i opens has one group. *)
LEMMA GroupOpened ==
    ASSUME NEW ls, NEW i \in Nat \ {0}, NEW met
    PROVE  /\ GroupRead(ls, i, i + 1, met) <=> Chosen(ls, i, met)
           /\ SomeChosen(ls, i, i + 1, met) <=> Chosen(ls, i, met)
           /\ SomeElse(ls, i, i + 1) <=> ls[i].op = "else"
BY ArmsOpened DEF GroupRead, SomeChosen, SomeElse

(* Whatever line i is, the chains around one that was open there go on, and no
   group of theirs starts. *)
LEMMA ParentsStep ==
    ASSUME NEW ls, NEW i \in Nat \ {0}, NEW o \in 1..(i - 1), Spans(ls, o, i),
           NEW p \in 1..(o - 1)
    PROVE  /\ Spans(ls, p, i + 1) <=> Spans(ls, p, i)
           /\ Spans(ls, p, i) => ~StartsGroup(ls, p, i)
<1>1. p \in 1..(i - 1)
  OBVIOUS
<1>2. DepthAt(ls, o) < DepthAt(ls, i)
  BY SpansBelow
<1>3. /\ DepthAt(ls, o) \in Int /\ DepthAt(ls, p) \in Int /\ DepthAt(ls, i) \in Int
      /\ DepthAt(ls, i + 1) \in Int /\ DepthAt(ls, i + 1) >= DepthAt(ls, i) - 1
  BY <1>1, DepthStep DEF Opening
<1>4. Spans(ls, p, i) => DepthAt(ls, p) < DepthAt(ls, o)
  BY <1>1, SpansNest
<1>5. Spans(ls, p, i + 1) <=> Spans(ls, p, i) /\ DepthAt(ls, i + 1) > DepthAt(ls, p)
  BY <1>1, SpansStep
<1> QED BY <1>2, <1>3, <1>4, <1>5 DEF StartsGroup

LEMMA ParentsKept ==
    ASSUME NEW ls, NEW i \in Nat \ {0}, NEW met, Met(met, i), NEW m \in Tables,
           NEW o \in 1..(i - 1), Spans(ls, o, i)
    PROVE  ParentsRead(ls, o, i + 1, Append(met, m)) <=> ParentsRead(ls, o, i, met)
<1>1. ASSUME NEW p \in 1..(o - 1)
      PROVE  (Spans(ls, p, i + 1) => GroupRead(ls, p, i + 1, Append(met, m)))
                <=> (Spans(ls, p, i) => GroupRead(ls, p, i, met))
  <2>1. p \in 1..(i - 1)
    OBVIOUS
  <2>2. /\ Spans(ls, p, i + 1) <=> Spans(ls, p, i)
        /\ Spans(ls, p, i) => ~StartsGroup(ls, p, i)
    BY ParentsStep
  <2>3. CASE Spans(ls, p, i)
    BY <2>1, <2>2, <2>3, GroupKept
  <2>4. CASE ~Spans(ls, p, i)
    BY <2>2, <2>4
  <2> QED BY <2>3, <2>4
<1> QED BY <1>1 DEF ParentsRead

-----------------------------------------------------------------------------
(* The stack as a reading of the lines: one frame for each chain that line i lies
   in, from the outermost, and in each frame's flags what the groups of its chain
   have come to. *)

Describes(c, ls, o, i, met) ==
    /\ c.sawElse <=> SomeElse(ls, o, i)
    /\ c.active <=> ParentsRead(ls, o, i, met) /\ GroupRead(ls, o, i, met)
    /\ ParentsRead(ls, o, i, met) => (c.taken <=> SomeChosen(ls, o, i, met))

FrameOf(ls, o) == DepthAt(ls, o) + 1

Mirrors(cs, ls, i, met) ==
    /\ DepthAt(ls, i) = Len(cs)
    /\ \A k \in 1..Len(cs) : \E o \in 1..(i - 1) : Spans(ls, o, i) /\ FrameOf(ls, o) = k
    /\ \A o \in 1..(i - 1) :
         Spans(ls, o, i) => /\ FrameOf(ls, o) \in 1..Len(cs)
                            /\ Describes(cs[FrameOf(ls, o)], ls, o, i, met)

LEMMA MirrorsFirst ==
    ASSUME NEW ls
    PROVE  Mirrors(<<>>, ls, 1, <<>>)
BY DepthAtFirst DEF Mirrors

(* A frame that line i adds no group to. *)
LEMMA DescribesKept ==
    ASSUME NEW ls, NEW i \in Nat \ {0}, NEW met, Met(met, i), NEW m \in Tables,
           NEW o \in 1..(i - 1), Spans(ls, o, i), ~StartsGroup(ls, o, i),
           NEW c, Describes(c, ls, o, i, met)
    PROVE  Describes(c, ls, o, i + 1, Append(met, m))
BY GroupKept, ParentsKept DEF Describes

(* The innermost frame belongs to the deepest chain; the frames around it are all
   active exactly when the groups around that chain are read. *)
LEMMA Innermost ==
    ASSUME NEW ls, NEW i \in Nat \ {0}, NEW met, NEW cs \in Seq(Cond), cs # <<>>,
           Mirrors(cs, ls, i, met)
    PROVE  \E o \in 1..(i - 1) :
               /\ Spans(ls, o, i) /\ FrameOf(ls, o) = Len(cs)
               /\ (\A k \in 1..(Len(cs) - 1) : cs[k].active) <=> ParentsRead(ls, o, i, met)
<1> DEFINE n == Len(cs)
<1>1. n \in Nat \ {0}
  OBVIOUS
<1>2. PICK o \in 1..(i - 1) : Spans(ls, o, i) /\ FrameOf(ls, o) = n
  BY <1>1 DEF Mirrors
<1>3. ASSUME ParentsRead(ls, o, i, met), NEW k \in 1..(n - 1)
      PROVE  cs[k].active
  <2>1. k \in 1..n
    BY <1>1
  <2>2. PICK p \in 1..(i - 1) : Spans(ls, p, i) /\ FrameOf(ls, p) = k
    BY <2>1 DEF Mirrors
  <2>3. DepthAt(ls, p) \in Int /\ DepthAt(ls, o) \in Int
    BY DepthStep
  <2>4. p < o
    BY <1>1, <1>2, <2>2, <2>3, SpansNest DEF FrameOf
  <2>5. Describes(cs[k], ls, p, i, met)
    BY <2>2 DEF Mirrors
  <2>6. ParentsRead(ls, p, i, met) /\ GroupRead(ls, p, i, met)
    BY <1>3, <2>2, <2>4 DEF ParentsRead
  <2> QED BY <2>5, <2>6 DEF Describes
<1>4. ASSUME \A k \in 1..(n - 1) : cs[k].active, NEW p \in 1..(o - 1), Spans(ls, p, i)
      PROVE  GroupRead(ls, p, i, met)
  <2>1. p \in 1..(i - 1) /\ p < o
    OBVIOUS
  <2>2. DepthAt(ls, p) \in Int /\ DepthAt(ls, o) \in Int /\ DepthAt(ls, p) < DepthAt(ls, o)
    <3>1. DepthAt(ls, p) \in Int /\ DepthAt(ls, o) \in Int
      BY <2>1, DepthStep
    <3>2. p < o <=> DepthAt(ls, p) < DepthAt(ls, o)
      BY <1>2, <1>4, <2>1, SpansNest
    <3> QED BY <2>1, <3>1, <3>2
  <2>3. FrameOf(ls, p) \in 1..n /\ Describes(cs[FrameOf(ls, p)], ls, p, i, met)
    BY <1>4, <2>1 DEF Mirrors
  <2>4. FrameOf(ls, p) \in 1..(n - 1)
    BY <1>1, <1>2, <2>2, <2>3 DEF FrameOf
  <2> QED BY <1>4, <2>3, <2>4 DEF Describes
<1> QED BY <1>2, <1>3, <1>4 DEF ParentsRead

(* live() on such a stack is the reading of the lines. *)
LEMMA LiveReads ==
    ASSUME NEW ls, NEW i \in Nat \ {0}, NEW met, NEW cs \in Seq(Cond),
           Mirrors(cs, ls, i, met)
    PROVE  (\A k \in 1..Len(cs) : cs[k].active) <=> InReadGroups(ls, i, met)
<1>1. ASSUME \A k \in 1..Len(cs) : cs[k].active, NEW o \in 1..(i - 1), Spans(ls, o, i)
      PROVE  GroupRead(ls, o, i, met)
  BY <1>1 DEF Mirrors, Describes
<1>2. ASSUME InReadGroups(ls, i, met), NEW k \in 1..Len(cs)
      PROVE  cs[k].active
  <2>1. PICK o \in 1..(i - 1) : Spans(ls, o, i) /\ FrameOf(ls, o) = k
    BY DEF Mirrors
  <2>2. Describes(cs[k], ls, o, i, met)
    BY <2>1 DEF Mirrors
  <2>3. ParentsRead(ls, o, i, met) /\ GroupRead(ls, o, i, met)
    BY <1>2, <2>1 DEF InReadGroups, ParentsRead
  <2> QED BY <2>2, <2>3 DEF Describes
<1> QED BY <1>1, <1>2 DEF InReadGroups

(* A line that is no conditional leaves the stack right as it is. *)
LEMMA MirrorsKept ==
    ASSUME NEW ls, NEW i \in Nat \ {0}, NEW met, Met(met, i), NEW m \in Tables,
           NEW cs \in Seq(Cond), Mirrors(cs, ls, i, met),
           ls[i].op \notin Conditionals
    PROVE  Mirrors(cs, ls, i + 1, Append(met, m))
<1>1. /\ DepthAt(ls, i + 1) = DepthAt(ls, i)
      /\ ls[i].op \notin Opening
      /\ ls[i].op \notin {"elif", "else"}
  BY DepthStep DEF Conditionals, Opening
<1>2. ~Spans(ls, i, i + 1)
  BY <1>1, SpansOpened
<1>3. ASSUME NEW o \in 1..(i - 1)
      PROVE  /\ Spans(ls, o, i + 1) <=> Spans(ls, o, i)
             /\ ~StartsGroup(ls, o, i)
  <2>1. Spans(ls, o, i + 1) <=> Spans(ls, o, i) /\ DepthAt(ls, i + 1) > DepthAt(ls, o)
    BY SpansStep
  <2>2. Spans(ls, o, i) => DepthAt(ls, i) > DepthAt(ls, o)
    <3>1. DepthAt(ls, i) \in Int /\ DepthAt(ls, o) \in Int
      BY DepthStep
    <3> QED BY <3>1, SpansBelow
  <2> QED BY <1>1, <2>1, <2>2 DEF StartsGroup
<1>4. ASSUME NEW o \in 1..((i + 1) - 1), Spans(ls, o, i + 1)
      PROVE  FrameOf(ls, o) \in 1..Len(cs) /\ Describes(cs[FrameOf(ls, o)], ls, o, i + 1, Append(met, m))
  <2>1. o \in 1..(i - 1) /\ Spans(ls, o, i) /\ ~StartsGroup(ls, o, i)
    BY <1>2, <1>3, <1>4
  <2>2. FrameOf(ls, o) \in 1..Len(cs) /\ Describes(cs[FrameOf(ls, o)], ls, o, i, met)
    BY <2>1 DEF Mirrors
  <2> QED BY <2>1, <2>2, DescribesKept
<1>5. ASSUME NEW k \in 1..Len(cs)
      PROVE  \E o \in 1..((i + 1) - 1) : Spans(ls, o, i + 1) /\ FrameOf(ls, o) = k
  <2>1. PICK o \in 1..(i - 1) : Spans(ls, o, i) /\ FrameOf(ls, o) = k
    BY DEF Mirrors
  <2> QED BY <1>3, <2>1
<1> QED BY <1>1, <1>4, <1>5 DEF Mirrors

(* An opening line adds the frame of its own chain, active when everything around
   it is read and its condition holds. *)
LEMMA MirrorsOpened ==
    ASSUME NEW ls, NEW i \in Nat \ {0}, NEW met, Met(met, i), NEW m \in Tables,
           NEW cs \in Seq(Cond), Mirrors(cs, ls, i, met),
           ls[i].op \in Opening,
           NEW c \in Cond,
           c.active <=> (\A k \in 1..Len(cs) : cs[k].active) /\ Verdict(ls[i], m),
           c.taken = c.active, ~c.sawElse
    PROVE  Mirrors(Append(cs, c), ls, i + 1, Append(met, m))
<1> DEFINE n == Len(cs)
           ds == Append(cs, c)
           next == Append(met, m)
<1>1. /\ n \in Nat /\ DepthAt(ls, i) = n /\ DepthAt(ls, i + 1) = n + 1
      /\ ls[i].op \notin {"elif", "else"}
  <2>1. n \in Nat /\ DepthAt(ls, i) = n
    BY DEF Mirrors
  <2>2. DepthAt(ls, i + 1) = DepthAt(ls, i) + 1
    BY DepthStep
  <2> QED BY <2>1, <2>2 DEF Opening
<1>2. Len(ds) = n + 1 /\ ds[n + 1] = c /\ \A k \in 1..n : ds[k] = cs[k]
  BY AppendProperties
<1>3. Spans(ls, i, i + 1)
  BY SpansOpened
<1> HIDE DEF ds
<1>4. ASSUME NEW o \in 1..(i - 1)
      PROVE  (Spans(ls, o, i + 1) <=> Spans(ls, o, i)) /\ ~StartsGroup(ls, o, i)
  <2>1. Spans(ls, o, i + 1) <=> Spans(ls, o, i) /\ DepthAt(ls, i + 1) > DepthAt(ls, o)
    BY SpansStep
  <2>2. Spans(ls, o, i) => DepthAt(ls, i) > DepthAt(ls, o)
    <3>1. DepthAt(ls, i) \in Int /\ DepthAt(ls, o) \in Int
      BY DepthStep
    <3> QED BY <3>1, SpansBelow
  <2>3. DepthAt(ls, o) \in Int
    BY DepthStep
  <2> QED BY <1>1, <2>1, <2>2, <2>3 DEF StartsGroup
<1>5. ASSUME NEW o \in 1..(i - 1), Spans(ls, o, i + 1)
      PROVE  FrameOf(ls, o) \in 1..(n + 1) /\ Describes(ds[FrameOf(ls, o)], ls, o, i + 1, next)
  <2>1. Spans(ls, o, i) /\ ~StartsGroup(ls, o, i)
    BY <1>4, <1>5
  <2>2. FrameOf(ls, o) \in 1..n /\ Describes(cs[FrameOf(ls, o)], ls, o, i, met)
    BY <2>1 DEF Mirrors
  <2>3. Describes(cs[FrameOf(ls, o)], ls, o, i + 1, next)
    BY <2>1, <2>2, DescribesKept
  <2> QED BY <1>1, <1>2, <2>2, <2>3
<1>6. FrameOf(ls, i) = n + 1 /\ Describes(c, ls, i, i + 1, next)
  <2>1. next[i] = m
    BY AppendProperties DEF Met
  <2>2. Chosen(ls, i, next) <=> Verdict(ls[i], m)
    BY <1>1, <2>1 DEF Chosen
  <2>3. ParentsRead(ls, i, i + 1, next) <=> InReadGroups(ls, i, met)
    <3>1. ASSUME NEW p \in 1..(i - 1)
          PROVE  (Spans(ls, p, i + 1) => GroupRead(ls, p, i + 1, next))
                    <=> (Spans(ls, p, i) => GroupRead(ls, p, i, met))
      BY <1>4, GroupKept
    <3> QED BY <3>1 DEF ParentsRead, InReadGroups
  <2>4. c.active <=> ParentsRead(ls, i, i + 1, next) /\ Chosen(ls, i, next)
    BY <2>2, <2>3, LiveReads
  <2>5. /\ GroupRead(ls, i, i + 1, next) <=> Chosen(ls, i, next)
        /\ SomeChosen(ls, i, i + 1, next) <=> Chosen(ls, i, next)
        /\ ~SomeElse(ls, i, i + 1)
    BY <1>1, GroupOpened
  <2> QED BY <1>1, <2>4, <2>5 DEF Describes, FrameOf
<1>7. ASSUME NEW o \in 1..((i + 1) - 1), Spans(ls, o, i + 1)
      PROVE  FrameOf(ls, o) \in 1..(n + 1) /\ Describes(ds[FrameOf(ls, o)], ls, o, i + 1, next)
  <2>1. CASE o \in 1..(i - 1)
    BY <1>5, <1>7, <2>1
  <2>2. CASE o = i
    BY <1>1, <1>2, <1>6, <2>2
  <2> QED BY <2>1, <2>2
<1>8. ASSUME NEW k \in 1..(n + 1)
      PROVE  \E o \in 1..((i + 1) - 1) : Spans(ls, o, i + 1) /\ FrameOf(ls, o) = k
  <2>1. CASE k = n + 1
    BY <1>3, <1>6, <2>1
  <2>2. CASE k \in 1..n
    <3>1. PICK o \in 1..(i - 1) : Spans(ls, o, i) /\ FrameOf(ls, o) = k
      BY <2>2 DEF Mirrors
    <3> QED BY <1>4, <3>1
  <2> QED BY <1>1, <2>1, <2>2
<1> HIDE DEF next
<1>9. Mirrors(ds, ls, i + 1, next)
  BY <1>1, <1>2, <1>7, <1>8 DEF Mirrors
<1> QED BY <1>9 DEF ds, next

(* #endif closes the deepest chain and drops its frame. *)
LEMMA MirrorsClosed ==
    ASSUME NEW ls, NEW i \in Nat \ {0}, NEW met, Met(met, i), NEW m \in Tables,
           NEW cs \in Seq(Cond), Mirrors(cs, ls, i, met), cs # <<>>,
           ls[i].op = "endif"
    PROVE  Mirrors(SubSeq(cs, 1, Len(cs) - 1), ls, i + 1, Append(met, m))
<1> DEFINE n == Len(cs)
           ds == SubSeq(cs, 1, n - 1)
           next == Append(met, m)
<1>1. /\ n \in Nat \ {0} /\ DepthAt(ls, i) = n /\ DepthAt(ls, i + 1) = n - 1
      /\ ls[i].op \notin Opening \cup {"elif", "else"}
  BY DepthStep DEF Opening, Mirrors
<1>2. Len(ds) = n - 1 /\ \A k \in 1..(n - 1) : ds[k] = cs[k]
  <2>1. 1 \in 1..(n + 1) /\ n - 1 \in 0..n
    BY <1>1
  <2> QED BY <1>1, <2>1, SubSeqProperties
<1>3. ~Spans(ls, i, i + 1)
  BY <1>1, SpansOpened
<1> HIDE DEF ds, next
<1>4. ASSUME NEW o \in 1..(i - 1)
      PROVE  /\ Spans(ls, o, i + 1) <=> Spans(ls, o, i) /\ FrameOf(ls, o) < n
             /\ ~StartsGroup(ls, o, i)
  <2>1. Spans(ls, o, i + 1) <=> Spans(ls, o, i) /\ DepthAt(ls, i + 1) > DepthAt(ls, o)
    BY SpansStep
  <2>2. DepthAt(ls, o) \in Int
    BY DepthStep
  <2> QED BY <1>1, <2>1, <2>2 DEF StartsGroup, FrameOf
<1>5. ASSUME NEW o \in 1..((i + 1) - 1), Spans(ls, o, i + 1)
      PROVE  FrameOf(ls, o) \in 1..(n - 1) /\ Describes(ds[FrameOf(ls, o)], ls, o, i + 1, next)
  <2>1. o \in 1..(i - 1)
    BY <1>3, <1>5
  <2>2. Spans(ls, o, i) /\ FrameOf(ls, o) < n /\ ~StartsGroup(ls, o, i)
    BY <1>4, <1>5, <2>1
  <2>3. FrameOf(ls, o) \in 1..n /\ Describes(cs[FrameOf(ls, o)], ls, o, i, met)
    BY <2>1, <2>2 DEF Mirrors
  <2>4. Describes(cs[FrameOf(ls, o)], ls, o, i + 1, next)
    BY <2>1, <2>2, <2>3, DescribesKept DEF next
  <2>5. FrameOf(ls, o) \in 1..(n - 1)
    BY <1>1, <2>2, <2>3
  <2> QED BY <1>2, <2>4, <2>5
<1>6. ASSUME NEW k \in 1..(n - 1)
      PROVE  \E o \in 1..((i + 1) - 1) : Spans(ls, o, i + 1) /\ FrameOf(ls, o) = k
  <2>1. k \in 1..n /\ k < n
    BY <1>1
  <2>2. PICK o \in 1..(i - 1) : Spans(ls, o, i) /\ FrameOf(ls, o) = k
    BY <2>1 DEF Mirrors
  <2> QED BY <1>4, <2>1, <2>2
<1>7. Mirrors(ds, ls, i + 1, next)
  BY <1>1, <1>2, <1>5, <1>6 DEF Mirrors
<1> QED BY <1>7 DEF ds, next

(* #elif and #else start a group of the deepest chain: read when the groups around
   the chain are, no earlier one was chosen and this one is. *)
LEMMA MirrorsArm ==
    ASSUME NEW ls, NEW i \in Nat \ {0}, NEW met, Met(met, i), NEW m \in Tables,
           NEW cs \in Seq(Cond), Mirrors(cs, ls, i, met), cs # <<>>,
           ls[i].op \in {"elif", "else"},
           NEW v \in BOOLEAN, v <=> ls[i].op = "else" \/ Verdict(ls[i], m),
           ~cs[Len(cs)].sawElse,
           NEW c \in Cond,
           c.active <=> /\ ~cs[Len(cs)].taken
                        /\ \A k \in 1..(Len(cs) - 1) : cs[k].active
                        /\ v,
           c.taken <=> cs[Len(cs)].taken \/ c.active,
           c.sawElse <=> ls[i].op = "else"
    PROVE  Mirrors([cs EXCEPT ![Len(cs)] = c], ls, i + 1, Append(met, m))
<1> DEFINE n == Len(cs)
           ds == [cs EXCEPT ![n] = c]
           next == Append(met, m)
<1>1. /\ n \in Nat \ {0} /\ DepthAt(ls, i) = n /\ DepthAt(ls, i + 1) = n
      /\ ls[i].op \notin Opening
  <2>1. n \in Nat \ {0} /\ DepthAt(ls, i) = n
    BY DEF Mirrors
  <2>2. ls[i].op \notin Opening \cup {"endif"}
    BY DEF Opening
  <2>3. DepthAt(ls, i + 1) = DepthAt(ls, i)
    BY <2>2, DepthStep
  <2> QED BY <2>1, <2>2, <2>3
<1>2. Len(ds) = n /\ \A k \in 1..n : ds[k] = IF k = n THEN c ELSE cs[k]
  OBVIOUS
<1>3. ~Spans(ls, i, i + 1)
  BY <1>1, SpansOpened
<1> HIDE DEF ds, next
<1>4. ASSUME NEW o \in 1..(i - 1)
      PROVE  /\ Spans(ls, o, i + 1) <=> Spans(ls, o, i)
             /\ Spans(ls, o, i) => (StartsGroup(ls, o, i) <=> FrameOf(ls, o) = n)
  <2>1. Spans(ls, o, i + 1) <=> Spans(ls, o, i) /\ DepthAt(ls, i + 1) > DepthAt(ls, o)
    BY SpansStep
  <2>2. Spans(ls, o, i) => DepthAt(ls, i) > DepthAt(ls, o)
    <3>1. DepthAt(ls, i) \in Int /\ DepthAt(ls, o) \in Int
      BY DepthStep
    <3> QED BY <3>1, SpansBelow
  <2>3. DepthAt(ls, o) \in Int
    BY DepthStep
  <2> QED BY <1>1, <2>1, <2>2, <2>3 DEF StartsGroup, FrameOf
<1>5. PICK t \in 1..(i - 1) :
          /\ Spans(ls, t, i) /\ FrameOf(ls, t) = n
          /\ (\A k \in 1..(n - 1) : cs[k].active) <=> ParentsRead(ls, t, i, met)
  BY Innermost
<1>6. Describes(c, ls, t, i + 1, next)
  <2>1. Describes(cs[n], ls, t, i, met)
    BY <1>5 DEF Mirrors
  <2>2. StartsGroup(ls, t, i)
    BY <1>4, <1>5
  <2>3. Chosen(ls, i, next) <=> v
    <3>1. next[i] = m
      BY AppendProperties DEF Met, next
    <3> QED BY <3>1 DEF Chosen
  <2>4. /\ GroupRead(ls, t, i + 1, next) <=> v /\ ~SomeChosen(ls, t, i, met)
        /\ SomeChosen(ls, t, i + 1, next) <=> v \/ SomeChosen(ls, t, i, met)
        /\ SomeElse(ls, t, i + 1) <=> ls[i].op = "else" \/ SomeElse(ls, t, i)
    BY <2>2, <2>3, GroupStarted DEF next
  <2>5. ParentsRead(ls, t, i + 1, next) <=> ParentsRead(ls, t, i, met)
    BY <1>5, ParentsKept DEF next
  <2>6. c.active <=> /\ ~cs[n].taken
                     /\ ParentsRead(ls, t, i, met)
                     /\ v
    BY <1>5
  <2> QED BY <2>1, <2>4, <2>5, <2>6 DEF Describes
<1>7. ASSUME NEW o \in 1..((i + 1) - 1), Spans(ls, o, i + 1)
      PROVE  FrameOf(ls, o) \in 1..n /\ Describes(ds[FrameOf(ls, o)], ls, o, i + 1, next)
  <2>1. o \in 1..(i - 1)
    BY <1>3, <1>7
  <2>2. Spans(ls, o, i)
    BY <1>4, <1>7, <2>1
  <2>3. FrameOf(ls, o) \in 1..n /\ Describes(cs[FrameOf(ls, o)], ls, o, i, met)
    BY <2>1, <2>2 DEF Mirrors
  <2>4. CASE FrameOf(ls, o) = n
    <3>1. DepthAt(ls, o) = DepthAt(ls, t) /\ DepthAt(ls, o) \in Int
      <4>1. DepthAt(ls, o) \in Int /\ DepthAt(ls, t) \in Int
        BY <2>1, DepthStep
      <4> QED BY <1>5, <2>4, <4>1 DEF FrameOf
    <3>2. ~(o < t) /\ ~(t < o)
      BY <1>5, <2>1, <2>2, <3>1, SpansNest
    <3>3. o = t
      BY <2>1, <3>2
    <3> QED BY <1>1, <1>2, <1>6, <2>4, <3>3
  <2>5. CASE FrameOf(ls, o) # n
    <3>1. Describes(cs[FrameOf(ls, o)], ls, o, i + 1, next)
      BY <1>4, <2>1, <2>2, <2>3, <2>5, DescribesKept DEF next
    <3> QED BY <1>2, <2>3, <2>5, <3>1
  <2> QED BY <2>4, <2>5
<1>8. ASSUME NEW k \in 1..n
      PROVE  \E o \in 1..((i + 1) - 1) : Spans(ls, o, i + 1) /\ FrameOf(ls, o) = k
  <2>1. PICK o \in 1..(i - 1) : Spans(ls, o, i) /\ FrameOf(ls, o) = k
    BY DEF Mirrors
  <2> QED BY <1>4, <2>1
<1>9. Mirrors(ds, ls, i + 1, next)
  BY <1>1, <1>2, <1>7, <1>8 DEF Mirrors
<1> QED BY <1>9 DEF ds, next

-----------------------------------------------------------------------------
(* The handlers of condition.go on a stack that mirrors the lines before line i. *)

(* #endif is reported exactly where no chain is open. *)
LEMMA EndifPlaced ==
    ASSUME NEW ls, NEW i \in Nat \ {0}, NEW met, NEW rd \in ReaderStates,
           Mirrors(rd.conds, ls, i, met), ls[i].op = "endif"
    PROVE  Stray(rd) <=> ~PlacedAt(ls, i)
BY DEF Mirrors, PlacedAt, Stray, ReaderStates

(* #elif and #else are reported exactly where no chain is open, or the innermost
   one has had its #else. *)
LEMMA ArmPlaced ==
    ASSUME NEW ls, NEW i \in Nat \ {0}, NEW met, NEW rd \in ReaderStates,
           Mirrors(rd.conds, ls, i, met), ls[i].op \in {"elif", "else"}
    PROVE  Misplaced(rd) <=> ~PlacedAt(ls, i)
<1> DEFINE cs == rd.conds
           n == Len(cs)
<1>1. cs \in Seq(Cond) /\ n \in Nat /\ DepthAt(ls, i) = n
  BY DEF Mirrors, ReaderStates
<1>2. CASE cs = <<>>
  BY <1>1, <1>2 DEF PlacedAt, Misplaced, Stray
<1>3. CASE cs # <<>>
  <2>1. n > 0
    BY <1>1, <1>3
  <2>2. PICK t \in 1..(i - 1) : Spans(ls, t, i) /\ FrameOf(ls, t) = n
    BY <1>1, <2>1 DEF Mirrors
  <2>3. cs[n].sawElse <=> SomeElse(ls, t, i)
    BY <2>2 DEF Mirrors, Describes
  <2>4. ASSUME NEW o \in 1..(i - 1), Spans(ls, o, i), DepthAt(ls, i) = DepthAt(ls, o) + 1
        PROVE  o = t
    <3>1. DepthAt(ls, o) \in Int /\ DepthAt(ls, t) \in Int
      BY DepthStep
    <3>2. ~(o < t) /\ ~(t < o)
      BY <1>1, <2>2, <2>4, <3>1, SpansNest DEF FrameOf
    <3> QED BY <3>2
  <2>5. PlacedAt(ls, i) <=> ~SomeElse(ls, t, i)
    <3>1. DepthAt(ls, t) \in Int /\ DepthAt(ls, i) = DepthAt(ls, t) + 1
      <4>1. DepthAt(ls, t) \in Int
        BY DepthStep
      <4> QED BY <1>1, <2>2, <4>1 DEF FrameOf
    <3>2. PlacedAt(ls, i) <=> \A o \in 1..(i - 1) :
              (Spans(ls, o, i) /\ DepthAt(ls, i) = DepthAt(ls, o) + 1)
                  => \A a \in Arms(ls, o, i) : ls[a].op # "else"
      BY <1>1, <2>1 DEF PlacedAt
    <3> QED BY <2>2, <2>4, <3>1, <3>2 DEF SomeElse
  <2>6. Misplaced(rd) <=> cs[n].sawElse
    BY <1>3 DEF Misplaced, Stray, TopCond
  <2> QED BY <2>3, <2>5, <2>6
<1> QED BY <1>2, <1>3

LEMMA OpenMirrors ==
    ASSUME NEW ls, NEW i \in Nat \ {0}, NEW met, Met(met, i), NEW m \in Tables,
           NEW rd \in ReaderStates, Mirrors(rd.conds, ls, i, met),
           ls[i].op \in Opening, NEW g \in GuardNames, Verdict(ls[i], m) \in BOOLEAN
    PROVE  Mirrors(BeginIf(rd, Verdict(ls[i], m), g).conds, ls, i + 1, Append(met, m))
<1> DEFINE v == Verdict(ls[i], m)
<1>1. rd.conds \in Seq(Cond) /\ v \in BOOLEAN
  BY DEF ReaderStates
<1> HIDE DEF v
<1>2. PICK c \in Cond : BeginIf(rd, v, g).conds = Append(rd.conds, c) /\ OpenFrame(rd, c, v)
  BY <1>1, BeginIfFrames
<1>3. Mirrors(Append(rd.conds, c), ls, i + 1, Append(met, m))
  BY <1>1, <1>2, MirrorsOpened DEF v, Live, OpenFrame
<1> QED BY <1>2, <1>3 DEF v

LEMMA ElifMirrors ==
    ASSUME NEW ls, NEW i \in Nat \ {0}, NEW met, Met(met, i), NEW m \in Tables,
           NEW rd \in ReaderStates, Mirrors(rd.conds, ls, i, met),
           ls[i].op = "elif", ~Misplaced(rd), Verdict(ls[i], m) \in BOOLEAN
    PROVE  Mirrors(DoElif(rd, Verdict(ls[i], m)).conds, ls, i + 1, Append(met, m))
<1> DEFINE v == Verdict(ls[i], m)
<1>1. /\ rd.conds \in Seq(Cond) /\ rd.conds # <<>>
      /\ ~rd.conds[Len(rd.conds)].sawElse
  BY DEF ReaderStates, Misplaced, Stray, TopCond
<1>2. PICK c \in Cond : /\ DoElif(rd, v).conds = [rd.conds EXCEPT ![Len(rd.conds)] = c]
                        /\ ArmFrame(rd, c, v)
                        /\ ~c.sawElse
  BY DoElifFrames
<1>3. v <=> ls[i].op = "else" \/ Verdict(ls[i], m)
  OBVIOUS
<1> HIDE DEF v
<1>4. v \in BOOLEAN
  BY DEF v
<1>5. Mirrors([rd.conds EXCEPT ![Len(rd.conds)] = c], ls, i + 1, Append(met, m))
  BY <1>1, <1>2, <1>3, <1>4, MirrorsArm DEF ArmFrame
<1> QED BY <1>2, <1>5 DEF v

LEMMA ElseMirrors ==
    ASSUME NEW ls, NEW i \in Nat \ {0}, NEW met, Met(met, i), NEW m \in Tables,
           NEW rd \in ReaderStates, Mirrors(rd.conds, ls, i, met),
           ls[i].op = "else", ~Misplaced(rd)
    PROVE  Mirrors(DoElse(rd).conds, ls, i + 1, Append(met, m))
<1>1. /\ rd.conds \in Seq(Cond) /\ rd.conds # <<>>
      /\ ~rd.conds[Len(rd.conds)].sawElse
  BY DEF ReaderStates, Misplaced, Stray, TopCond
<1>2. PICK c \in Cond : /\ DoElse(rd).conds = [rd.conds EXCEPT ![Len(rd.conds)] = c]
                        /\ ArmFrame(rd, c, TRUE)
                        /\ c.sawElse
  BY DoElseFrames
<1>3. Mirrors([rd.conds EXCEPT ![Len(rd.conds)] = c], ls, i + 1, Append(met, m))
  <2>1. TRUE <=> ls[i].op = "else" \/ Verdict(ls[i], m)
    OBVIOUS
  <2>2. /\ c.active <=> /\ ~rd.conds[Len(rd.conds)].taken
                        /\ \A k \in 1..(Len(rd.conds) - 1) : rd.conds[k].active
                        /\ TRUE
        /\ c.taken <=> rd.conds[Len(rd.conds)].taken \/ c.active
    BY <1>2 DEF ArmFrame
  <2>3. c.sawElse <=> ls[i].op = "else"
    BY <1>2
  <2> QED BY <1>1, <2>1, <2>2, <2>3, MirrorsArm
<1> QED BY <1>2, <1>3

LEMMA EndifMirrors ==
    ASSUME NEW ls, NEW i \in Nat \ {0}, NEW met, Met(met, i), NEW m \in Tables,
           NEW rd \in ReaderStates, Mirrors(rd.conds, ls, i, met),
           ls[i].op = "endif", ~Stray(rd)
    PROVE  Mirrors(DoEndif(rd).conds, ls, i + 1, Append(met, m))
<1>1. rd.conds \in Seq(Cond) /\ rd.conds # <<>>
  BY DEF ReaderStates, Stray
<1> QED BY <1>1, DoEndifFrames, MirrorsClosed

-----------------------------------------------------------------------------
(* The inductive invariant: types; a file that asked for once is marked; the files
   reported are ill-nested, and a file read to its end unreported is well-nested;
   and every reader on the stack mirrors the lines it has passed, or its file has
   been reported. *)

CacheEntries == [guard : GuardNames, done : BOOLEAN, once : BOOLEAN, entered : BOOLEAN,
                 reads : Nat]

Modes == {"primary", "include", "import"}

Frames == [file : Files, mode : Modes, pc : Nat \ {0}, rd : ReaderStates, met : Seq(Tables)]

Texts == [Files -> Seq(LineRecords)]

TypeOK == /\ text \in Texts
          /\ macros \in Tables
          /\ cache \in [Files -> CacheEntries]
          /\ stack \in Seq(Frames)
          /\ out \in Seq(Files \X Nat)
          /\ nesting \subseteq Files
          /\ asked \subseteq Files

OnceMarked == \A f \in asked : cache[f].once

ReportedIllNested(nest, txt) == \A f \in nest : ~WellNested(txt[f])

DoneReported == \A f \in Files : cache[f].done => f \in nesting \/ WellNested(text[f])

(* Every line before line i stands where it may. *)
Placed(ls, i) == \A j \in 1..(i - 1) : PlacedAt(ls, j)

FrameOK(fr, nest, txt) ==
    LET ls == txt[fr.file]
    IN  /\ Good(fr.rd)
        /\ fr.pc <= Len(ls) + 1
        /\ Met(fr.met, fr.pc)
        /\ Placed(ls, fr.pc) \/ fr.file \in nest
        /\ Placed(ls, fr.pc) => Mirrors(fr.rd.conds, ls, fr.pc, fr.met)

StackOK(stk, nest, txt) == \A k \in 1..Len(stk) : FrameOK(stk[k], nest, txt)

IInv == /\ TypeOK
        /\ OnceMarked
        /\ ReportedIllNested(nesting, text)
        /\ DoneReported
        /\ StackOK(stack, nesting, text)

(* A frame stays right when more files are reported. *)
LEMMA FrameReported ==
    ASSUME NEW fr, NEW txt, NEW nest, NEW more, nest \subseteq more, FrameOK(fr, nest, txt)
    PROVE  FrameOK(fr, more, txt)
BY DEF FrameOK

(* A new reader stands right at its first line. *)
LEMMA NewFrameOK ==
    ASSUME NEW txt \in Texts, NEW nest, NEW f \in Files, NEW mode \in Modes
    PROVE  NewFrame(f, mode) \in Frames /\ FrameOK(NewFrame(f, mode), nest, txt)
<1> DEFINE fr == NewFrame(f, mode)
<1>1. /\ fr.file = f /\ fr.mode = mode /\ fr.pc = 1 /\ fr.rd = NewReader /\ fr.met = <<>>
      /\ fr = [file |-> f, mode |-> mode, pc |-> 1, rd |-> NewReader, met |-> <<>>]
  BY DEF NewFrame
<1>2. Good(NewReader) /\ NewReader.conds = <<>>
  BY NewReaderGood DEF NewReader
<1>3. NewReader \in ReaderStates
  BY <1>2 DEF Good
<1>4. <<>> \in Seq(Tables) /\ Len(<<>>) = 1 - 1
  OBVIOUS
<1>5. Len(txt[f]) \in Nat
  BY DEF Texts
<1>6. Mirrors(<<>>, txt[f], 1, <<>>)
  BY MirrorsFirst
<1> HIDE DEF fr
<1>7. fr \in Frames
  BY <1>1, <1>3, <1>4 DEF Frames
<1>8. FrameOK(fr, nest, txt)
  BY <1>1, <1>2, <1>4, <1>5, <1>6 DEF FrameOK, Met, Placed
<1> QED BY <1>7, <1>8 DEF fr

(* One line: a handler that reports exactly the lines that may not stand where they
   do, and otherwise goes from a mirror of the lines before to a mirror of the
   lines up to and including this one, keeps the frame right. *)
Handles(fr, txt, re, m, broken) ==
    LET ls == txt[fr.file]
    IN  Mirrors(fr.rd.conds, ls, fr.pc, fr.met) =>
            /\ broken <=> ~PlacedAt(ls, fr.pc)
            /\ ~broken => Mirrors(re.conds, ls, fr.pc + 1, Append(fr.met, m))

Moved(fr, re, m) == [fr EXCEPT !.rd = re, !.pc = @ + 1, !.met = Append(@, m)]

LEMMA MovedFields ==
    ASSUME NEW fr \in Frames, NEW re, NEW m, NEW gr, gr = Moved(fr, re, m)
    PROVE  /\ gr = [file |-> fr.file, mode |-> fr.mode, pc |-> fr.pc + 1, rd |-> re,
                    met |-> Append(fr.met, m)]
           /\ gr.file = fr.file /\ gr.mode = fr.mode /\ gr.pc = fr.pc + 1 /\ gr.rd = re
           /\ gr.met = Append(fr.met, m)
<1>1. gr = [fr EXCEPT !.rd = re, !.pc = fr.pc + 1, !.met = Append(fr.met, m)]
  BY DEF Moved, Frames
<1>2. fr = [file |-> fr.file, mode |-> fr.mode, pc |-> fr.pc, rd |-> fr.rd, met |-> fr.met]
  BY DEF Frames
<1>3. gr = [file |-> fr.file, mode |-> fr.mode, pc |-> fr.pc + 1, rd |-> re,
            met |-> Append(fr.met, m)]
  BY <1>1, <1>2
<1> QED BY <1>3

LEMMA FramePast ==
    ASSUME NEW txt \in Texts, NEW nest, NEW fr \in Frames, FrameOK(fr, nest, txt),
           fr.pc <= Len(txt[fr.file]),
           NEW re, Good(re), NEW m \in Tables, NEW broken \in BOOLEAN,
           Handles(fr, txt, re, m, broken),
           NEW more, more = IF broken THEN nest \cup {fr.file} ELSE nest
    PROVE  /\ Moved(fr, re, m) \in Frames
           /\ FrameOK(Moved(fr, re, m), more, txt)
           /\ broken => ~WellNested(txt[fr.file])
<1> DEFINE ls == txt[fr.file]
           i == fr.pc
           gr == Moved(fr, re, m)
<1>1. /\ gr = [file |-> fr.file, mode |-> fr.mode, pc |-> i + 1, rd |-> re, met |-> Append(fr.met, m)]
      /\ gr.file = fr.file /\ gr.mode = fr.mode /\ gr.pc = i + 1 /\ gr.rd = re
      /\ gr.met = Append(fr.met, m)
  BY MovedFields
<1> HIDE DEF gr
<1>2. /\ fr.file \in Files /\ fr.mode \in Modes /\ i \in Nat \ {0} /\ fr.met \in Seq(Tables)
      /\ ls \in Seq(LineRecords) /\ Len(ls) \in Nat
  BY DEF Frames, Texts
<1>3. re \in ReaderStates
  BY DEF Good
<1>4. Met(Append(fr.met, m), i + 1)
  BY <1>2, AppendProperties DEF FrameOK, Met
<1>5. Append(fr.met, m) \in Seq(Tables)
  BY <1>4 DEF Met
<1>6. gr \in Frames
  <2>1. i + 1 \in Nat \ {0}
    BY <1>2
  <2>2. [file |-> fr.file, mode |-> fr.mode, pc |-> i + 1, rd |-> re, met |-> Append(fr.met, m)] \in Frames
    BY <1>2, <1>3, <1>5, <2>1 DEF Frames
  <2> QED BY <1>1, <2>2
<1>7. Placed(ls, i + 1) <=> Placed(ls, i) /\ PlacedAt(ls, i)
  <2>1. 1..((i + 1) - 1) = 1..(i - 1) \cup {i}
    BY <1>2
  <2> QED BY <2>1 DEF Placed
<1>8. /\ Placed(ls, i) \/ fr.file \in nest
      /\ Placed(ls, i) => Mirrors(fr.rd.conds, ls, i, fr.met)
  BY DEF FrameOK
<1>9. Placed(ls, i) => /\ broken <=> ~PlacedAt(ls, i)
                       /\ ~broken => Mirrors(re.conds, ls, i + 1, Append(fr.met, m))
  BY <1>8 DEF Handles
<1>10. Placed(ls, i + 1) \/ fr.file \in more
  BY <1>7, <1>8, <1>9
<1>11. Placed(ls, i + 1) => Mirrors(re.conds, ls, i + 1, Append(fr.met, m))
  BY <1>7, <1>9
<1>12. i + 1 <= Len(ls) + 1
  BY <1>2
<1>13. FrameOK(gr, more, txt)
  BY <1>1, <1>4, <1>10, <1>11, <1>12 DEF FrameOK
<1>14. broken => ~PlacedAt(ls, i) \/ ~Placed(ls, i)
  BY <1>9
<1>15. WellNested(ls) => PlacedAt(ls, i) /\ Placed(ls, i)
  <2>1. i \in 1..Len(ls) /\ 1..(i - 1) \subseteq 1..Len(ls)
    BY <1>2
  <2> QED BY <2>1 DEF WellNested, Placed
<1> QED BY <1>6, <1>13, <1>14, <1>15 DEF gr

(* The handlers, each as the reading of its line. *)
LEMMA HandlesOther ==
    ASSUME NEW txt, NEW nest, NEW fr \in Frames, FrameOK(fr, nest, txt), NEW m \in Tables,
           txt[fr.file][fr.pc].op \notin Conditionals,
           NEW re, re.conds = fr.rd.conds
    PROVE  Handles(fr, txt, re, m, FALSE)
<1>1. /\ fr.pc \in Nat \ {0} /\ Met(fr.met, fr.pc)
      /\ fr.rd.conds \in Seq(Cond)
  BY DEF Frames, FrameOK, ReaderStates
<1>2. PlacedAt(txt[fr.file], fr.pc)
  BY DEF PlacedAt, Conditionals
<1> QED BY <1>1, <1>2, MirrorsKept DEF Handles

LEMMA HandlesOpen ==
    ASSUME NEW txt, NEW nest, NEW fr \in Frames, FrameOK(fr, nest, txt), NEW m \in Tables,
           txt[fr.file][fr.pc].op \in Opening, NEW g \in GuardNames,
           NEW v, v = Verdict(txt[fr.file][fr.pc], m), v \in BOOLEAN
    PROVE  Handles(fr, txt, BeginIf(fr.rd, v, g), m, FALSE)
<1>1. /\ fr.pc \in Nat \ {0} /\ Met(fr.met, fr.pc)
      /\ fr.rd \in ReaderStates
  BY DEF Frames, FrameOK
<1>2. PlacedAt(txt[fr.file], fr.pc)
  BY DEF PlacedAt, Opening
<1> QED BY <1>1, <1>2, OpenMirrors DEF Handles

LEMMA HandlesElif ==
    ASSUME NEW txt, NEW nest, NEW fr \in Frames, FrameOK(fr, nest, txt), NEW m \in Tables,
           txt[fr.file][fr.pc].op = "elif",
           NEW v, v = Verdict(txt[fr.file][fr.pc], m), v \in BOOLEAN
    PROVE  Handles(fr, txt, DoElif(fr.rd, v), m, Misplaced(fr.rd))
<1>1. /\ fr.pc \in Nat \ {0} /\ Met(fr.met, fr.pc)
      /\ fr.rd \in ReaderStates
  BY DEF Frames, FrameOK
<1> QED BY <1>1, ArmPlaced, ElifMirrors DEF Handles

LEMMA HandlesElse ==
    ASSUME NEW txt, NEW nest, NEW fr \in Frames, FrameOK(fr, nest, txt), NEW m \in Tables,
           txt[fr.file][fr.pc].op = "else"
    PROVE  Handles(fr, txt, DoElse(fr.rd), m, Misplaced(fr.rd))
<1>1. /\ fr.pc \in Nat \ {0} /\ Met(fr.met, fr.pc)
      /\ fr.rd \in ReaderStates
  BY DEF Frames, FrameOK
<1> QED BY <1>1, ArmPlaced, ElseMirrors DEF Handles

LEMMA HandlesEndif ==
    ASSUME NEW txt, NEW nest, NEW fr \in Frames, FrameOK(fr, nest, txt), NEW m \in Tables,
           txt[fr.file][fr.pc].op = "endif"
    PROVE  Handles(fr, txt, DoEndif(fr.rd), m, Stray(fr.rd))
<1>1. /\ fr.pc \in Nat \ {0} /\ Met(fr.met, fr.pc)
      /\ fr.rd \in ReaderStates
  BY DEF Frames, FrameOK
<1> QED BY <1>1, EndifPlaced, EndifMirrors DEF Handles

-----------------------------------------------------------------------------
(* Steps of the walk. *)

(* The top reader and the line it is at. *)
LEMMA AtLine ==
    ASSUME IInv, Running
    PROVE  /\ Len(stack) \in Nat \ {0}
           /\ Top \in Frames /\ FrameOK(Top, nesting, text) /\ Good(Top.rd)
           /\ Top.file \in Files /\ Lines = text[Top.file] /\ Lines \in Seq(LineRecords)
           /\ Top.pc \in Nat \ {0}
           /\ ~AtEnd => /\ Top.pc <= Len(Lines)
                        /\ Line = text[Top.file][Top.pc]
                        /\ Line \in LineRecords
<1>1. Len(stack) \in Nat \ {0} /\ stack \in Seq(Frames)
  BY DEF IInv, TypeOK, Running
<1>2. Top \in Frames /\ FrameOK(Top, nesting, text)
  BY <1>1 DEF IInv, StackOK, Top
<1>3. Top.file \in Files /\ Top.pc \in Nat \ {0}
  BY <1>2 DEF Frames
<1>4. Lines = text[Top.file] /\ Lines \in Seq(LineRecords)
  BY <1>3 DEF IInv, TypeOK, Texts, Lines
<1>5. ~AtEnd => Top.pc <= Len(Lines) /\ Line \in LineRecords
  BY <1>3, <1>4 DEF AtEnd, Line
<1> QED BY <1>1, <1>2, <1>3, <1>4, <1>5 DEF FrameOK, Line

(* The top reader past its line. *)
LEMMA PastLine ==
    ASSUME IInv, Running, ~AtEnd,
           NEW re, Good(re), NEW broken \in BOOLEAN,
           Handles(Top, text, re, macros, broken),
           NEW more, more = IF broken THEN nesting \cup {Top.file} ELSE nesting
    PROVE  /\ Past(re) \in Seq(Frames)
           /\ more \subseteq Files /\ nesting \subseteq more
           /\ StackOK(Past(re), more, text)
           /\ ReportedIllNested(more, text)
<1> DEFINE n == Len(stack)
           gr == Moved(Top, re, macros)
<1>1. /\ n \in Nat \ {0}
      /\ Top \in Frames /\ FrameOK(Top, nesting, text)
      /\ Top.file \in Files /\ Top.pc <= Len(text[Top.file])
  BY AtLine
<1>2. stack \in Seq(Frames) /\ text \in Texts /\ macros \in Tables
  BY DEF IInv, TypeOK
<1>3. Past(re) = [stack EXCEPT ![n] = gr]
  BY <1>1, <1>2 DEF Past, Top, Frames, Moved
<1>4. /\ gr \in Frames
      /\ FrameOK(gr, more, text)
      /\ broken => ~WellNested(text[Top.file])
  BY <1>1, <1>2, FramePast
<1> HIDE DEF gr
<1>5. Past(re) \in Seq(Frames) /\ Len(Past(re)) = n
  BY <1>1, <1>2, <1>3, <1>4
<1>6. \A k \in 1..n : Past(re)[k] = IF k = n THEN gr ELSE stack[k]
  BY <1>1, <1>2, <1>3
<1>7. more \subseteq Files /\ nesting \subseteq more
  BY <1>1 DEF IInv, TypeOK
<1>8. ASSUME NEW k \in 1..n
      PROVE  FrameOK(Past(re)[k], more, text)
  <2>1. CASE k = n
    BY <1>4, <1>6, <2>1
  <2>2. CASE k # n
    <3>1. FrameOK(stack[k], nesting, text)
      BY DEF IInv, StackOK
    <3> QED BY <1>6, <1>7, <2>2, <3>1, FrameReported
  <2> QED BY <2>1, <2>2
<1>9. ReportedIllNested(more, text)
  BY <1>4 DEF IInv, ReportedIllNested
<1> QED BY <1>5, <1>7, <1>8, <1>9 DEF StackOK

(* A line keeps the invariant when what it marks in the cache keeps every file that
   asked for once marked, and finishes none. *)
CacheKept == /\ cache' \in [Files -> CacheEntries]
             /\ asked' \subseteq Files
             /\ OnceMarked'
             /\ \A f \in Files : cache'[f].done = cache[f].done

LEMMA LineKeeps ==
    ASSUME IInv, Running, ~AtEnd,
           NEW re, Good(re), NEW broken \in BOOLEAN,
           Handles(Top, text, re, macros, broken),
           Advance(re), Diagnose(broken), UNCHANGED text,
           macros' \in Tables, out' \in Seq(Files \X Nat), CacheKept
    PROVE  IInv'
<1> DEFINE more == IF broken THEN nesting \cup {Top.file} ELSE nesting
<1>1. nesting' = more /\ stack' = Past(re)
  BY DEF Advance, Diagnose
<1>2. /\ Past(re) \in Seq(Frames)
      /\ more \subseteq Files /\ nesting \subseteq more
      /\ StackOK(Past(re), more, text)
      /\ ReportedIllNested(more, text)
  <2> HIDE DEF more
  <2> QED BY PastLine DEF more
<1> HIDE DEF more
<1>3. TypeOK'
  BY <1>1, <1>2 DEF IInv, TypeOK, CacheKept
<1>4. OnceMarked' /\ DoneReported'
  BY <1>1, <1>2 DEF IInv, DoneReported, CacheKept
<1> QED BY <1>1, <1>2, <1>3, <1>4 DEF IInv

LEMMA CacheUnchanged ==
    ASSUME IInv, UNCHANGED <<cache, asked>>
    PROVE  CacheKept
BY DEF IInv, TypeOK, OnceMarked, CacheKept

(* What a line's operator says of its other field. *)
LEMMA LineFields ==
    ASSUME NEW l \in LineRecords
    PROVE  /\ l.op \in {"define", "undef", "ifdef", "ifndef"} => l.m \in Macros
           /\ l.op \in Inclusions => l.file \in Files
           /\ l.op \in {"if", "elif"} => l.lits \in Seq(Literals)
BY DEF LineRecords, Inclusions

LEMMA GuardNamedType ==
    ASSUME NEW l \in LineRecords
    PROVE  GuardNamed(l) \in GuardNames
<1>1. CASE l.op = "ifndef"
  BY <1>1, LineFields DEF GuardNamed, GuardNames
<1>2. CASE l.op = "if" /\ l.lits # <<>> /\ l.lits[1].neg
  <2>1. l.lits \in Seq(Literals)
    BY <1>2, LineFields
  <2>2. l.lits[1] \in Literals
    BY <1>2, <2>1
  <2> QED BY <1>2, <2>2 DEF GuardNamed, GuardNames, Literals
<1>3. CASE ~(l.op = "ifndef") /\ ~(l.op = "if" /\ l.lits # <<>> /\ l.lits[1].neg)
  BY <1>3 DEF GuardNamed, GuardNames
<1> QED BY <1>1, <1>2, <1>3

LEMMA VerdictType ==
    ASSUME NEW l, NEW m
    PROVE  Verdict(l, m) \in BOOLEAN
<1>1. CASE l.op = "ifdef"
  BY <1>1 DEF Verdict
<1>2. CASE l.op = "ifndef"
  BY <1>2 DEF Verdict
<1>3. CASE l.op \notin {"ifdef", "ifndef"}
  BY <1>3 DEF Verdict, Holds
<1> QED BY <1>1, <1>2, <1>3

(* A line that is no conditional, and closes the guard window or not. *)
LEMMA PlainLineKeeps ==
    ASSUME IInv, Running, ~AtEnd, Line.op \notin Conditionals,
           NEW re, Good(re), re.conds = Top.rd.conds,
           Advance(re), UNCHANGED <<text, nesting>>,
           macros' \in Tables, out' \in Seq(Files \X Nat), CacheKept
    PROVE  IInv'
<1>1. /\ Top \in Frames /\ FrameOK(Top, nesting, text)
      /\ Line = text[Top.file][Top.pc] /\ macros \in Tables
  BY AtLine DEF IInv, TypeOK
<1>2. Handles(Top, text, re, macros, FALSE)
  BY <1>1, HandlesOther
<1>3. Diagnose(FALSE)
  BY DEF Diagnose
<1> QED BY <1>2, <1>3, LineKeeps

LEMMA TextLineKeeps == ASSUME IInv, TextLine PROVE IInv'
<1>1. Running /\ ~AtEnd /\ Line.op \notin Conditionals
  BY DEF TextLine, ReadingLive, Reading, Conditionals
<1>2. /\ Good(Top.rd) /\ Top.file \in Files /\ Top.pc \in Nat
  BY <1>1, AtLine
<1>3. Good(TakeText(Top.rd)) /\ TakeText(Top.rd).conds = Top.rd.conds
  BY <1>2, TakeTextGood DEF TakeText, Good, ReaderStates
<1>4. out' \in Seq(Files \X Nat) /\ macros' \in Tables
  BY <1>2 DEF TextLine, IInv, TypeOK
<1>5. CacheKept
  BY CacheUnchanged DEF TextLine
<1> QED BY <1>1, <1>3, <1>4, <1>5, PlainLineKeeps DEF TextLine

(* The lines that are ignored, or do nothing to what is modelled. *)
LEMMA IdleLineKeeps ==
    ASSUME IInv, Running, ~AtEnd, Line.op \notin Conditionals,
           Advance(Top.rd) \/ Advance(CloseWindow(Top.rd)),
           UNCHANGED <<text, nesting, out>>, macros' \in Tables, CacheKept
    PROVE  IInv'
<1>1. Good(Top.rd)
  BY AtLine
<1>2. Good(CloseWindow(Top.rd)) /\ CloseWindow(Top.rd).conds = Top.rd.conds
  BY <1>1, CloseWindowGood
<1>3. out' \in Seq(Files \X Nat)
  BY DEF IInv, TypeOK
<1>4. CASE Advance(Top.rd)
  BY <1>1, <1>3, <1>4, PlainLineKeeps
<1>5. CASE Advance(CloseWindow(Top.rd))
  BY <1>2, <1>3, <1>5, PlainLineKeeps
<1> QED BY <1>4, <1>5

LEMMA SkipLineKeeps == ASSUME IInv, SkipLine PROVE IInv'
<1>1. macros' \in Tables /\ CacheKept
  BY CacheUnchanged DEF SkipLine, IInv, TypeOK
<1> QED BY <1>1, IdleLineKeeps DEF SkipLine

LEMMA NullDirectiveKeeps == ASSUME IInv, NullDirective PROVE IInv'
<1>1. macros' \in Tables /\ CacheKept
  BY CacheUnchanged DEF NullDirective, IInv, TypeOK
<1> QED BY <1>1, IdleLineKeeps DEF NullDirective, Reading, Conditionals

LEMMA DefineKeeps == ASSUME IInv, Define PROVE IInv'
<1>1. Running /\ ~AtEnd /\ Line.op = "define"
  BY DEF Define, ReadingLive, Reading
<1>2. Line.m \in Macros
  BY <1>1, AtLine, LineFields
<1>3. macros' \in Tables /\ CacheKept
  BY <1>2, CacheUnchanged DEF Define, IInv, TypeOK, Tables
<1> QED BY <1>1, <1>3, IdleLineKeeps DEF Define, Conditionals

LEMMA UndefKeeps == ASSUME IInv, Undef PROVE IInv'
<1>1. Running /\ ~AtEnd /\ Line.op = "undef"
  BY DEF Undef, ReadingLive, Reading
<1>2. macros' \in Tables /\ CacheKept
  BY CacheUnchanged DEF Undef, IInv, TypeOK, Tables
<1> QED BY <1>1, <1>2, IdleLineKeeps DEF Undef, Conditionals

LEMMA OtherKeeps == ASSUME IInv, Other PROVE IInv'
<1>1. macros' \in Tables /\ CacheKept
  BY CacheUnchanged DEF Other, IInv, TypeOK
<1> QED BY <1>1, IdleLineKeeps DEF Other, ReadingLive, Reading, Conditionals

LEMMA OpenConditionalKeeps == ASSUME IInv, OpenConditional PROVE IInv'
<1> DEFINE v == Verdict(Line, macros)
           g == GuardNamed(Line)
<1>1. Running /\ ~AtEnd /\ Line.op \in Opening
  BY DEF OpenConditional, Reading
<1>2. /\ Top \in Frames /\ FrameOK(Top, nesting, text) /\ Good(Top.rd)
      /\ Line = text[Top.file][Top.pc] /\ Line \in LineRecords /\ macros \in Tables
  BY <1>1, AtLine DEF IInv, TypeOK
<1>3. g \in GuardNames /\ v \in BOOLEAN
  BY <1>2, GuardNamedType, VerdictType
<1>4. /\ Advance(BeginIf(Top.rd, v, g)) /\ Diagnose(FALSE) /\ UNCHANGED text
      /\ macros' \in Tables /\ out' \in Seq(Files \X Nat) /\ CacheKept
  BY CacheUnchanged DEF OpenConditional, Diagnose, IInv, TypeOK
<1>5. v = Verdict(text[Top.file][Top.pc], macros)
  BY <1>2
<1> HIDE DEF v, g
<1>6. Good(BeginIf(Top.rd, v, g))
  BY <1>2, <1>3, BeginIfGood
<1>7. Handles(Top, text, BeginIf(Top.rd, v, g), macros, FALSE)
  BY <1>1, <1>2, <1>3, <1>5, HandlesOpen
<1> QED BY <1>1, <1>4, <1>6, <1>7, LineKeeps

LEMMA ElifKeeps == ASSUME IInv, Elif PROVE IInv'
<1> DEFINE v == Verdict(Line, macros)
<1>1. Running /\ ~AtEnd /\ Line.op = "elif"
  BY DEF Elif, Reading
<1>2. /\ Top \in Frames /\ FrameOK(Top, nesting, text) /\ Good(Top.rd)
      /\ Line = text[Top.file][Top.pc] /\ macros \in Tables
  BY <1>1, AtLine DEF IInv, TypeOK
<1>3. v \in BOOLEAN /\ v = Verdict(text[Top.file][Top.pc], macros)
  BY <1>2, VerdictType
<1>4. /\ Advance(DoElif(Top.rd, v)) /\ Diagnose(Misplaced(Top.rd)) /\ UNCHANGED text
      /\ macros' \in Tables /\ out' \in Seq(Files \X Nat) /\ CacheKept
  BY CacheUnchanged DEF Elif, IInv, TypeOK
<1> HIDE DEF v
<1>5. Good(DoElif(Top.rd, v))
  BY <1>2, <1>3, DoElifGood
<1>6. Handles(Top, text, DoElif(Top.rd, v), macros, Misplaced(Top.rd))
  BY <1>1, <1>2, <1>3, HandlesElif
<1>7. Misplaced(Top.rd) \in BOOLEAN
  BY <1>2, TopCondType DEF Misplaced, Stray, Good, Cond
<1> QED BY <1>1, <1>4, <1>5, <1>6, <1>7, LineKeeps

LEMMA ElseKeeps == ASSUME IInv, Else PROVE IInv'
<1>1. Running /\ ~AtEnd /\ Line.op = "else"
  BY DEF Else, Reading
<1>2. /\ Top \in Frames /\ FrameOK(Top, nesting, text) /\ Good(Top.rd)
      /\ Line = text[Top.file][Top.pc] /\ macros \in Tables
  BY <1>1, AtLine DEF IInv, TypeOK
<1>3. /\ Advance(DoElse(Top.rd)) /\ Diagnose(Misplaced(Top.rd)) /\ UNCHANGED text
      /\ macros' \in Tables /\ out' \in Seq(Files \X Nat) /\ CacheKept
  BY CacheUnchanged DEF Else, IInv, TypeOK
<1>4. Good(DoElse(Top.rd))
  BY <1>2, DoElseGood
<1>5. Handles(Top, text, DoElse(Top.rd), macros, Misplaced(Top.rd))
  BY <1>1, <1>2, HandlesElse
<1>6. Misplaced(Top.rd) \in BOOLEAN
  BY <1>2, TopCondType DEF Misplaced, Stray, Good, Cond
<1> QED BY <1>1, <1>3, <1>4, <1>5, <1>6, LineKeeps

LEMMA EndifKeeps == ASSUME IInv, Endif PROVE IInv'
<1>1. Running /\ ~AtEnd /\ Line.op = "endif"
  BY DEF Endif, Reading
<1>2. /\ Top \in Frames /\ FrameOK(Top, nesting, text) /\ Good(Top.rd)
      /\ Line = text[Top.file][Top.pc] /\ macros \in Tables
  BY <1>1, AtLine DEF IInv, TypeOK
<1>3. /\ Advance(DoEndif(Top.rd)) /\ Diagnose(Stray(Top.rd)) /\ UNCHANGED text
      /\ macros' \in Tables /\ out' \in Seq(Files \X Nat) /\ CacheKept
  BY CacheUnchanged DEF Endif, IInv, TypeOK
<1>4. Good(DoEndif(Top.rd))
  BY <1>2, DoEndifGood
<1>5. Handles(Top, text, DoEndif(Top.rd), macros, Stray(Top.rd))
  BY <1>1, <1>2, HandlesEndif
<1>6. Stray(Top.rd) \in BOOLEAN
  BY DEF Stray
<1> QED BY <1>1, <1>3, <1>4, <1>5, <1>6, LineKeeps

(* What the marks make of the cache. *)
LEMMA OnceMark ==
    ASSUME NEW c \in [Files -> CacheEntries], NEW f \in Files
    PROVE  LET d == [c EXCEPT ![f].once = TRUE] IN
           /\ d \in [Files -> CacheEntries]
           /\ \A h \in Files : /\ d[h].done = c[h].done
                                /\ d[h].once = (c[h].once \/ h = f)
<1> DEFINE e == [c[f] EXCEPT !.once = TRUE]
           d == [c EXCEPT ![f] = e]
<1>1. e \in CacheEntries /\ e.done = c[f].done /\ e.once = TRUE
  BY DEF CacheEntries
<1>2. \A h \in Files : c[h].once \in BOOLEAN
  BY DEF CacheEntries
<1>3. [c EXCEPT ![f].once = TRUE] = d
  OBVIOUS
<1> HIDE DEF e
<1>4. d \in [Files -> CacheEntries] /\ \A h \in Files : d[h] = IF h = f THEN e ELSE c[h]
  BY <1>1
<1> HIDE DEF d
<1>5. ASSUME NEW h \in Files
      PROVE  d[h].done = c[h].done /\ d[h].once = (c[h].once \/ h = f)
  <2>1. CASE h = f
    BY <1>1, <1>4, <2>1
  <2>2. CASE h # f
    BY <1>2, <1>4, <2>2
  <2> QED BY <2>1, <2>2
<1> QED BY <1>3, <1>4, <1>5

Finished(c, f, g) == [c EXCEPT ![f].done = TRUE, ![f].guard = g]

LEMMA DoneMark ==
    ASSUME NEW c \in [Files -> CacheEntries], NEW f \in Files, NEW g \in GuardNames
    PROVE  /\ Finished(c, f, g) \in [Files -> CacheEntries]
           /\ \A h \in Files : Finished(c, f, g)[h].once = c[h].once
           /\ \A h \in Files : h # f => Finished(c, f, g)[h].done = c[h].done
<1> DEFINE e == [c[f] EXCEPT !.done = TRUE, !.guard = g]
           d == [c EXCEPT ![f] = e]
<1>1. e \in CacheEntries /\ e.once = c[f].once
  BY DEF CacheEntries
<1>2. Finished(c, f, g) = d
  BY DEF Finished
<1> HIDE DEF e
<1>3. d \in [Files -> CacheEntries] /\ \A h \in Files : d[h] = IF h = f THEN e ELSE c[h]
  BY <1>1
<1> HIDE DEF d
<1> QED BY <1>1, <1>2, <1>3

LEMMA PragmaOnceKeeps == ASSUME IInv, PragmaOnce PROVE IInv'
<1> DEFINE f == Top.file
<1>1. Running /\ ~AtEnd /\ Line.op = "once" /\ f \in Files
  BY AtLine DEF PragmaOnce, ReadingLive, Reading
<1>2. CASE Top.mode = "primary"
  <2>1. CacheKept
    BY <1>2, CacheUnchanged DEF PragmaOnce
  <2> QED BY <1>1, <2>1, IdleLineKeeps DEF PragmaOnce, Conditionals, IInv, TypeOK
<1>3. CASE Top.mode # "primary"
  <2>1. cache' = [cache EXCEPT ![f].once = TRUE] /\ asked' = asked \cup {f}
    BY <1>3 DEF PragmaOnce
  <2>2. cache \in [Files -> CacheEntries] /\ asked \subseteq Files /\ OnceMarked
    BY DEF IInv, TypeOK
  <2>3. /\ cache' \in [Files -> CacheEntries]
        /\ \A h \in Files : /\ cache'[h].done = cache[h].done
                             /\ cache'[h].once = (cache[h].once \/ h = f)
    BY <1>1, <2>1, <2>2, OnceMark
  <2>4. CacheKept
    BY <1>1, <2>1, <2>2, <2>3 DEF CacheKept, OnceMarked
  <2> QED BY <1>1, <2>4, IdleLineKeeps DEF PragmaOnce, Conditionals, IInv, TypeOK
<1> QED BY <1>2, <1>3

LEMMA IncludeTooDeepKeeps == ASSUME IInv, IncludeTooDeep PROVE IInv'
<1>1. macros' \in Tables /\ CacheKept
  BY CacheUnchanged DEF IncludeTooDeep, IInv, TypeOK
<1> QED BY <1>1, IdleLineKeeps DEF IncludeTooDeep, ReadingLive, Reading, Inclusions, Conditionals

(* The file an inclusion names, and that it is no conditional. *)
LEMMA IncludeLine ==
    ASSUME IInv, ReadingLive(Inclusions)
    PROVE  /\ Running /\ ~AtEnd /\ Line.op \notin Conditionals
           /\ Line.file \in Files /\ Line.op \in Modes
<1>1. Running /\ ~AtEnd /\ Line.op \in Inclusions
  BY DEF ReadingLive, Reading
<1>2. Line.file \in Files
  BY <1>1, AtLine, LineFields
<1> QED BY <1>1, <1>2 DEF Inclusions, Conditionals, Modes

LEMMA IncludeSkippedKeeps == ASSUME IInv, IncludeSkipped PROVE IInv'
<1> DEFINE f == Line.file
<1>1. Running /\ ~AtEnd /\ Line.op \notin Conditionals /\ f \in Files
  BY IncludeLine DEF IncludeSkipped
<1>2. CacheKept
  <2>1. CASE Line.op = "import"
    <3>1. cache' = [cache EXCEPT ![f].once = TRUE] /\ asked' = asked \cup {f}
      BY <2>1 DEF IncludeSkipped, Asked
    <3>2. cache \in [Files -> CacheEntries] /\ asked \subseteq Files /\ OnceMarked
      BY DEF IInv, TypeOK
    <3>3. /\ cache' \in [Files -> CacheEntries]
          /\ \A h \in Files : /\ cache'[h].done = cache[h].done
                               /\ cache'[h].once = (cache[h].once \/ h = f)
      BY <1>1, <3>1, <3>2, OnceMark
    <3> QED BY <1>1, <3>1, <3>2, <3>3 DEF CacheKept, OnceMarked
  <2>2. CASE Line.op # "import"
    BY <2>2, CacheUnchanged DEF IncludeSkipped, Asked
  <2> QED BY <2>1, <2>2
<1> QED BY <1>1, <1>2, IdleLineKeeps DEF IncludeSkipped, IInv, TypeOK

EntryRead(c, mode) == [c EXCEPT !.entered = TRUE, !.once = @ \/ mode = "import", !.reads = @ + 1]

LEMMA EntryReadFields ==
    ASSUME NEW c \in CacheEntries, NEW mode, NEW d, d = EntryRead(c, mode)
    PROVE  d \in CacheEntries /\ d.done = c.done /\ d.once = (c.once \/ mode = "import")
<1> DEFINE b == c.once \/ mode = "import"
           n == c.reads + 1
<1>1. b \in BOOLEAN /\ n \in Nat /\ c.guard \in GuardNames /\ c.done \in BOOLEAN
  BY DEF CacheEntries
<1>2. c = [guard |-> c.guard, done |-> c.done, once |-> c.once, entered |-> c.entered,
           reads |-> c.reads]
  BY DEF CacheEntries
<1>3. d = [c EXCEPT !.entered = TRUE, !.once = b, !.reads = n]
  BY DEF EntryRead
<1> HIDE DEF b, n
<1>4. d = [guard |-> c.guard, done |-> c.done, once |-> b, entered |-> TRUE, reads |-> n]
  BY <1>2, <1>3
<1> QED BY <1>1, <1>4 DEF CacheEntries, b

(* What entering a file makes of the cache. *)
LEMMA EnteredMarks ==
    ASSUME IInv, NEW f \in Files, NEW mode
    PROVE  /\ Entered(f, mode) \in [Files -> CacheEntries]
           /\ \A h \in Files :
                /\ Entered(f, mode)[h].done = cache[h].done
                /\ Entered(f, mode)[h].once = (cache[h].once \/ (h = f /\ mode = "import"))
                /\ h # f => Entered(f, mode)[h].reads = cache[h].reads
<1> DEFINE e == EntryRead(cache[f], mode)
<1>1. cache \in [Files -> CacheEntries] /\ cache[f] \in CacheEntries
  BY DEF IInv, TypeOK
<1>2. e \in CacheEntries /\ e.done = cache[f].done /\ e.once = (cache[f].once \/ mode = "import")
  BY <1>1, EntryReadFields
<1>3. Entered(f, mode) = [cache EXCEPT ![f] = e]
  BY <1>1 DEF Entered, EntryRead, CacheEntries
<1> HIDE DEF e
<1>4. \A h \in Files : Entered(f, mode)[h] = IF h = f THEN e ELSE cache[h]
  BY <1>1, <1>3
<1>5. \A h \in Files : cache[h].once \in BOOLEAN
  BY <1>1 DEF CacheEntries
<1> QED BY <1>1, <1>2, <1>3, <1>4, <1>5

LEMMA IncludeReadKeeps == ASSUME IInv, IncludeRead PROVE IInv'
<1> DEFINE f == Line.file
           mode == Line.op
           re == CloseWindow(Top.rd)
           past == Past(re)
<1>1. Running /\ ~AtEnd /\ Line.op \notin Conditionals /\ f \in Files /\ mode \in Modes
  BY IncludeLine DEF IncludeRead
<1>2. /\ Top \in Frames /\ FrameOK(Top, nesting, text) /\ Good(Top.rd)
      /\ Line = text[Top.file][Top.pc] /\ macros \in Tables
      /\ text \in Texts
  BY <1>1, AtLine DEF IInv, TypeOK
<1>3. Good(re) /\ re.conds = Top.rd.conds
  BY <1>2, CloseWindowGood
<1>4. Handles(Top, text, re, macros, FALSE)
  BY <1>1, <1>2, <1>3, HandlesOther
<1>5. past \in Seq(Frames) /\ StackOK(past, nesting, text)
  <2> HIDE DEF re
  <2> QED BY <1>1, <1>3, <1>4, PastLine
<1>6. NewFrame(f, mode) \in Frames /\ FrameOK(NewFrame(f, mode), nesting, text)
  BY <1>1, <1>2, NewFrameOK
<1>7. stack' = Append(past, NewFrame(f, mode))
  BY DEF IncludeRead
<1> HIDE DEF past, re
<1>8. stack' \in Seq(Frames) /\ StackOK(stack', nesting, text)
  <2>1. /\ stack' \in Seq(Frames) /\ Len(stack') = Len(past) + 1
        /\ \A k \in 1..Len(past) : stack'[k] = past[k]
        /\ stack'[Len(past) + 1] = NewFrame(f, mode)
    BY <1>5, <1>6, <1>7, AppendProperties
  <2>2. Len(past) \in Nat
    BY <1>5
  <2> QED BY <1>5, <1>6, <2>1, <2>2 DEF StackOK
<1>9. /\ cache' = Entered(f, mode)
      /\ asked' = IF mode = "import" THEN asked \cup {f} ELSE asked
      /\ UNCHANGED <<text, macros, out, nesting>>
  BY DEF IncludeRead, Asked
<1> HIDE DEF f, mode
<1>10. /\ cache' \in [Files -> CacheEntries]
       /\ \A h \in Files : /\ cache'[h].done = cache[h].done
                            /\ cache'[h].once = (cache[h].once \/ (h = f /\ mode = "import"))
  BY <1>1, <1>9, EnteredMarks
<1>11. TypeOK' /\ OnceMarked' /\ DoneReported'
  BY <1>1, <1>8, <1>9, <1>10 DEF IInv, TypeOK, OnceMarked, DoneReported
<1> QED BY <1>8, <1>9, <1>11 DEF IInv

(* At the end of a file the open conditionals are reported, which are what is left
   to be wrong. *)
LEMMA EndOfFileKeeps == ASSUME IInv, EndOfFile PROVE IInv'
<1> DEFINE f == Top.file
           n == Len(stack)
           open == Top.rd.conds # <<>>
<1>1. Running /\ AtEnd
  BY DEF EndOfFile
<1>2. /\ n \in Nat \ {0} /\ Top \in Frames /\ FrameOK(Top, nesting, text) /\ Good(Top.rd)
      /\ f \in Files /\ Lines = text[f] /\ Lines \in Seq(LineRecords) /\ Top.pc \in Nat \ {0}
  BY <1>1, AtLine
<1>3. Top.pc = Len(text[f]) + 1
  BY <1>1, <1>2 DEF AtEnd, FrameOK
<1>4. /\ open => ~WellNested(text[f])
      /\ ~open => f \in nesting \/ WellNested(text[f])
  <2> DEFINE ls == text[f]
  <2>1. Placed(ls, Len(ls) + 1) <=> \A i \in 1..Len(ls) : PlacedAt(ls, i)
    BY <1>2 DEF Placed
  <2>2. /\ Placed(ls, Len(ls) + 1) \/ f \in nesting
        /\ Placed(ls, Len(ls) + 1) => DepthAt(ls, Len(ls) + 1) = Len(Top.rd.conds)
    BY <1>2, <1>3 DEF FrameOK, Mirrors
  <2>3. open <=> Len(Top.rd.conds) # 0
    BY <1>2 DEF Good, ReaderStates
  <2> QED BY <2>1, <2>2, <2>3 DEF WellNested
<1>5. /\ nesting' = IF open THEN nesting \cup {f} ELSE nesting
      /\ stack' = SubSeq(stack, 1, n - 1)
      /\ UNCHANGED <<text, macros, out, asked>>
  BY DEF EndOfFile, Diagnose
<1>6. stack \in Seq(Frames) /\ text \in Texts /\ cache \in [Files -> CacheEntries]
  BY DEF IInv, TypeOK
<1>7. /\ stack' \in Seq(Frames) /\ Len(stack') = n - 1
      /\ \A k \in 1..(n - 1) : stack'[k] = stack[k]
  BY <1>2, <1>5, <1>6, Popped
<1>8. GuardFound(Top.rd) \in GuardNames
  BY <1>2 DEF GuardFound, Good, ReaderStates, GuardNames
<1>9. /\ cache' \in [Files -> CacheEntries]
      /\ \A h \in Files : cache'[h].once = cache[h].once
      /\ \A h \in Files : h # f => cache'[h].done = cache[h].done
  <2>1. CASE Top.mode = "primary" \/ cache[f].done
    BY <1>6, <2>1 DEF EndOfFile
  <2>2. CASE ~(Top.mode = "primary" \/ cache[f].done)
    <3>1. cache' = [cache EXCEPT ![f].done = TRUE, ![f].guard = GuardFound(Top.rd)]
      BY <2>2 DEF EndOfFile
    <3>2. f \in Files
      BY <1>2
    <3>3. cache' = Finished(cache, f, GuardFound(Top.rd))
      BY <3>1 DEF Finished
    <3> QED BY <1>6, <1>8, <3>2, <3>3, DoneMark
  <2> QED BY <2>1, <2>2
<1> HIDE DEF f, n, open
<1>10. nesting' \subseteq Files /\ nesting \subseteq nesting'
  BY <1>2, <1>5 DEF IInv, TypeOK
<1>11. StackOK(stack', nesting', text')
  <2>1. \A k \in 1..(n - 1) : FrameOK(stack'[k], nesting', text)
    <3>1. ASSUME NEW k \in 1..(n - 1)
          PROVE  FrameOK(stack'[k], nesting', text)
      <4>1. FrameOK(stack[k], nesting, text)
        BY <1>2 DEF IInv, StackOK, n
      <4> QED BY <1>7, <1>10, <4>1, FrameReported
    <3> QED BY <3>1
  <2> QED BY <1>5, <1>7, <2>1 DEF StackOK
<1>12. ReportedIllNested(nesting', text')
  BY <1>4, <1>5 DEF IInv, ReportedIllNested
<1>13. ASSUME NEW h \in Files, cache'[h].done
       PROVE  h \in nesting' \/ WellNested(text[h])
  <2>1. CASE h = f
    BY <1>4, <1>5, <2>1
  <2>2. CASE h # f
    <3>1. cache[h].done
      BY <1>9, <1>13, <2>2
    <3>2. h \in nesting \/ WellNested(text[h])
      BY <3>1 DEF IInv, DoneReported
    <3> QED BY <1>10, <3>2
  <2> QED BY <2>1, <2>2
<1>14. ASSUME NEW h \in asked'
       PROVE  cache'[h].once
  <2>1. h \in Files /\ cache[h].once
    BY <1>5 DEF IInv, OnceMarked, TypeOK
  <2> QED BY <1>9, <2>1
<1>15. TypeOK'
  BY <1>5, <1>7, <1>9, <1>10 DEF IInv, TypeOK
<1> QED BY <1>5, <1>11, <1>12, <1>13, <1>14, <1>15 DEF IInv, DoneReported, OnceMarked

-----------------------------------------------------------------------------
LEMMA IInvInit == Init => IInv
<1> SUFFICES ASSUME Init
             PROVE  IInv
  OBVIOUS
<1> DEFINE fr == NewFrame(Main, "primary")
<1>1. text \in Texts /\ Main \in Files
  BY IncludesAssumption DEF Init, Texts
<1>2. fr \in Frames /\ FrameOK(fr, nesting, text)
  BY <1>1, NewFrameOK DEF Modes
<1>3. stack = <<fr>>
  BY DEF Init
<1> HIDE DEF fr
<1>4. stack \in Seq(Frames) /\ Len(stack) = 1 /\ stack[1] = fr
  BY <1>2, <1>3
<1>5. StackOK(stack, nesting, text)
  BY <1>2, <1>4 DEF StackOK
<1>6. cache \in [Files -> CacheEntries] /\ \A f \in Files : ~cache[f].done
  BY DEF Init, Unread, CacheEntries, GuardNames
<1>7. TypeOK
  BY <1>1, <1>4, <1>6 DEF Init, TypeOK, Tables
<1> QED BY <1>5, <1>6, <1>7 DEF Init, IInv, OnceMarked, ReportedIllNested, DoneReported

LEMMA IInvStep == IInv /\ [Next]_vars => IInv'
<1> SUFFICES ASSUME IInv, [Next]_vars
             PROVE  IInv'
  OBVIOUS
<1>1. CASE UNCHANGED vars
  BY <1>1 DEF vars, IInv, TypeOK, OnceMarked, DoneReported
<1>2. CASE Next
  BY <1>2, TextLineKeeps, SkipLineKeeps, NullDirectiveKeeps, DefineKeeps, UndefKeeps,
     OtherKeeps, OpenConditionalKeeps, ElifKeeps, ElseKeeps, EndifKeeps, PragmaOnceKeeps,
     IncludeTooDeepKeeps, IncludeSkippedKeeps, IncludeReadKeeps, EndOfFileKeeps DEF Next
<1> QED BY <1>1, <1>2

LEMMA Invariant == Spec => []IInv
BY IInvInit, IInvStep, PTL DEF Spec

(* The walk keeps its types: readers, marks and tables stay what they are. *)
THEOREM Typing == Spec => []TypeOK
<1>1. IInv => TypeOK
  BY DEF IInv
<1> QED BY <1>1, Invariant, PTL

(* For every program and every nesting of files: the flags that live() asks are the
   counting reading of the lines passed, so a line is kept exactly when the
   conditionals around it say so. *)
THEOREM LiveIsTheReading == Spec => []LiveMatchesStructure
<1>1. IInv => LiveMatchesStructure
  <2> SUFFICES ASSUME IInv, Running, ~AtEnd, WellNested(Lines)
               PROVE  Live(Top.rd) <=> InReadGroups(Lines, Top.pc, Top.met)
    BY DEF LiveMatchesStructure
  <2>1. /\ FrameOK(Top, nesting, text) /\ Good(Top.rd) /\ Lines = text[Top.file]
        /\ Lines \in Seq(LineRecords)
        /\ Top.pc \in Nat \ {0} /\ Top.pc <= Len(Lines)
    BY AtLine
  <2>2. Placed(Lines, Top.pc)
    BY <2>1 DEF WellNested, Placed
  <2>3. Mirrors(Top.rd.conds, Lines, Top.pc, Top.met)
    BY <2>1, <2>2 DEF FrameOK
  <2>4. Top.rd.conds \in Seq(Cond)
    BY <2>1 DEF Good, ReaderStates
  <2>5. (\A k \in 1..Len(Top.rd.conds) : Top.rd.conds[k].active) <=> InReadGroups(Lines, Top.pc, Top.met)
    BY <2>1, <2>3, <2>4, LiveReads
  <2> QED BY <2>5 DEF Live
<1> QED BY <1>1, Invariant, PTL

(* A file read to its end has been reported exactly when its conditionals do not
   nest: no misplaced #elif, #else or #endif and no unclosed #if goes unreported,
   and none that stands where it may is reported. *)
THEOREM ReportedExactly == Spec => []DiagnosedIffIllNested
<1>1. IInv => DiagnosedIffIllNested
  BY DEF IInv, ReportedIllNested, DoneReported, DiagnosedIffIllNested
<1> QED BY <1>1, Invariant, PTL

(* A file that has asked for once, or has been asked for once, is never read again,
   whatever includes it. *)
THEOREM ReadOnce == Spec => OnceStands
<1>1. IInv /\ [Next]_vars => [\A f \in asked : cache'[f].reads = cache[f].reads]_vars
  <2> SUFFICES ASSUME IInv, Next, NEW f \in asked
               PROVE  cache'[f].reads = cache[f].reads
    OBVIOUS
  <2>1. cache \in [Files -> CacheEntries] /\ f \in Files /\ cache[f].once
    BY DEF IInv, TypeOK, OnceMarked
  <2>2. CASE IncludeRead
    <3>1. Line.file \in Files /\ Line.op \in Modes
      BY <2>2, IncludeLine DEF IncludeRead
    <3>2. Line.file # f
      BY <2>1, <2>2 DEF IncludeRead, NotAgain
    <3>3. cache' = Entered(Line.file, Line.op)
      BY <2>2 DEF IncludeRead
    <3>4. \A h \in Files : h # Line.file => Entered(Line.file, Line.op)[h].reads = cache[h].reads
      BY <3>1, EnteredMarks
    <3> QED BY <2>1, <3>2, <3>3, <3>4
  <2>3. CASE IncludeSkipped
    BY <2>1, <2>3 DEF IncludeSkipped, CacheEntries
  <2>4. CASE PragmaOnce
    BY <2>1, <2>4 DEF PragmaOnce, CacheEntries
  <2>5. CASE EndOfFile
    BY <2>1, <2>5 DEF EndOfFile, CacheEntries
  <2>6. CASE UNCHANGED cache
    BY <2>6
  <2> QED BY <2>2, <2>3, <2>4, <2>5, <2>6 DEF Next, TextLine, SkipLine, NullDirective, Define,
          Undef, Other, OpenConditional, Elif, Else, Endif, IncludeTooDeep
<1> QED BY <1>1, Invariant, PTL DEF Spec, OnceStands

-----------------------------------------------------------------------------
(* The guard.  While a reader may still record one, what it holds describes the
   lines it has passed: nothing but null directives, or those and one chain, of
   the line that names the guard, that has no #else; and while the chain is open
   the current line lies in it. *)

Whole(ls, o, i) == \A j \in 1..(i - 1) : ls[j].op = "null" \/ j = o \/ Spans(ls, o, j)

GuardChain(ls, o, i, g) ==
    /\ NamesGuard(ls, o) /\ GuardNamed(ls[o]) = g
    /\ Whole(ls, o, i)
    /\ ~SomeElse(ls, o, i)

Recorded(rd, ls, i) ==
    (rd.conds = <<>> /\ rd.miValid) =>
        IF rd.pendingGuard = NoGuard THEN \A j \in 1..(i - 1) : ls[j].op = "null"
        ELSE \E o \in 1..(i - 1) : GuardChain(ls, o, i, rd.pendingGuard)

Candidate(rd, ls, i) ==
    (rd.conds # <<>> /\ rd.conds[1].guard # NoGuard) =>
        \E o \in 1..(i - 1) : Spans(ls, o, i) /\ GuardChain(ls, o, i, rd.conds[1].guard)

Window(rd, ls, i) == Recorded(rd, ls, i) /\ Candidate(rd, ls, i)

(* One more line: a null directive, or one of the chain that is no #else of it. *)
LEMMA GuardChainStep ==
    ASSUME NEW ls, NEW i \in Nat \ {0}, NEW g, NEW o \in 1..(i - 1), GuardChain(ls, o, i, g),
           ls[i].op = "null" \/ Spans(ls, o, i),
           ~(StartsGroup(ls, o, i) /\ ls[i].op = "else")
    PROVE  o \in 1..((i + 1) - 1) /\ GuardChain(ls, o, i + 1, g)
<1>1. 1..((i + 1) - 1) = 1..(i - 1) \cup {i} /\ o \in 1..((i + 1) - 1)
  OBVIOUS
<1>2. Whole(ls, o, i + 1)
  BY <1>1 DEF GuardChain, Whole
<1>3. ~SomeElse(ls, o, i + 1)
  BY ArmsStep DEF GuardChain, SomeElse
<1> QED BY <1>1, <1>2, <1>3 DEF GuardChain

(* The line that names the guard, with nothing before it. *)
LEMMA GuardChainOpened ==
    ASSUME NEW ls, NEW i \in Nat \ {0}, NamesGuard(ls, i),
           \A j \in 1..(i - 1) : ls[j].op = "null"
    PROVE  /\ i \in 1..((i + 1) - 1) /\ Spans(ls, i, i + 1)
           /\ GuardChain(ls, i, i + 1, GuardNamed(ls[i]))
<1>1. 1..((i + 1) - 1) = 1..(i - 1) \cup {i} /\ i \in 1..((i + 1) - 1)
  OBVIOUS
<1>2. Whole(ls, i, i + 1)
  BY <1>1 DEF Whole
<1>3. Spans(ls, i, i + 1) /\ ls[i].op # "else"
  BY SpansOpened DEF NamesGuard, Opening
<1>4. ~SomeElse(ls, i, i + 1)
  BY <1>3, GroupOpened
<1> QED BY <1>1, <1>2, <1>3, <1>4 DEF GuardChain

(* What a line makes of the window, by what its handler makes of the reader.
   d and e are the depths at the line and after it. *)

(* A line that leaves the reader as it is: a null directive, or any line of a dead
   group that is no arm. *)
LEMMA WindowIdle ==
    ASSUME NEW ls, NEW i \in Nat \ {0}, NEW rd \in ReaderStates, Window(rd, ls, i),
           DepthAt(ls, i) = Len(rd.conds), ls[i].op \notin Conditionals,
           ls[i].op = "null" \/ rd.conds # <<>>
    PROVE  Window(rd, ls, i + 1)
<1>1. 1..((i + 1) - 1) = 1..(i - 1) \cup {i}
  OBVIOUS
<1>2. \A o \in 1..(i - 1) : ~StartsGroup(ls, o, i)
  BY DEF StartsGroup, Conditionals
<1>3. Recorded(rd, ls, i + 1)
  <2> SUFFICES ASSUME rd.conds = <<>>, rd.miValid
               PROVE  IF rd.pendingGuard = NoGuard
                      THEN \A j \in 1..((i + 1) - 1) : ls[j].op = "null"
                      ELSE \E o \in 1..((i + 1) - 1) : GuardChain(ls, o, i + 1, rd.pendingGuard)
    BY DEF Recorded
  <2>1. ls[i].op = "null"
    OBVIOUS
  <2>2. CASE rd.pendingGuard = NoGuard
    BY <1>1, <2>1, <2>2 DEF Window, Recorded
  <2>3. CASE rd.pendingGuard # NoGuard
    <3>1. PICK o \in 1..(i - 1) : GuardChain(ls, o, i, rd.pendingGuard)
      BY <2>3 DEF Window, Recorded
    <3> QED BY <1>2, <2>1, <2>3, <3>1, GuardChainStep
  <2> QED BY <2>2, <2>3
<1>4. Candidate(rd, ls, i + 1)
  <2> SUFFICES ASSUME rd.conds # <<>>, rd.conds[1].guard # NoGuard
               PROVE  \E o \in 1..((i + 1) - 1) :
                          Spans(ls, o, i + 1) /\ GuardChain(ls, o, i + 1, rd.conds[1].guard)
    BY DEF Candidate
  <2>1. PICK o \in 1..(i - 1) : Spans(ls, o, i) /\ GuardChain(ls, o, i, rd.conds[1].guard)
    BY DEF Window, Candidate
  <2>2. DepthAt(ls, i + 1) = Len(rd.conds) /\ Len(rd.conds) > 0 /\ DepthAt(ls, o) = 0
    <3>1. DepthAt(ls, i + 1) = DepthAt(ls, i)
      BY DepthStep DEF Conditionals, Opening
    <3>2. rd.conds \in Seq(Cond)
      BY DEF ReaderStates
    <3> QED BY <2>1, <3>1, <3>2 DEF GuardChain, NamesGuard
  <2>3. Spans(ls, o, i + 1)
    BY <2>1, <2>2, SpansStep
  <2> QED BY <1>2, <2>1, <2>3, GuardChainStep
<1> QED BY <1>3, <1>4 DEF Window

(* Any handler that leaves conditionals open and the outermost frame's guard as it
   was, or forgotten, and that forgets it at an #else of the outermost chain. *)
LEMMA CandidateKept ==
    ASSUME NEW ls, NEW i \in Nat \ {0}, NEW rd \in ReaderStates, Window(rd, ls, i),
           DepthAt(ls, i) = Len(rd.conds), rd.conds # <<>>,
           NEW re, DepthAt(ls, i + 1) > 0,
           re.conds[1].guard \in {rd.conds[1].guard, NoGuard},
           ls[i].op = "else" /\ Len(rd.conds) = 1 => re.conds[1].guard = NoGuard
    PROVE  Candidate(re, ls, i + 1)
<1> SUFFICES ASSUME re.conds # <<>>, re.conds[1].guard # NoGuard
             PROVE  \E o \in 1..((i + 1) - 1) :
                        Spans(ls, o, i + 1) /\ GuardChain(ls, o, i + 1, re.conds[1].guard)
  BY DEF Candidate
<1>1. re.conds[1].guard = rd.conds[1].guard
  OBVIOUS
<1>2. PICK o \in 1..(i - 1) : Spans(ls, o, i) /\ GuardChain(ls, o, i, rd.conds[1].guard)
  BY <1>1 DEF Window, Candidate
<1>3. DepthAt(ls, o) = 0
  BY <1>2 DEF GuardChain, NamesGuard
<1>4. Spans(ls, o, i + 1)
  BY <1>2, <1>3, SpansStep
<1>5. ~(StartsGroup(ls, o, i) /\ ls[i].op = "else")
  BY <1>3 DEF StartsGroup
<1> QED BY <1>1, <1>2, <1>4, <1>5, GuardChainStep

(* A line that ends the window, and is no conditional. *)
LEMMA WindowClosed ==
    ASSUME NEW ls, NEW i \in Nat \ {0}, NEW rd \in ReaderStates, Window(rd, ls, i),
           DepthAt(ls, i) = Len(rd.conds), ls[i].op \notin Conditionals,
           NEW re, re.conds = rd.conds, ~re.miValid
    PROVE  Window(re, ls, i + 1)
<1>1. Recorded(re, ls, i + 1)
  BY DEF Recorded
<1>2. CASE rd.conds = <<>>
  BY <1>1, <1>2 DEF Window, Candidate
<1>3. CASE rd.conds # <<>>
  <2>1. rd.conds \in Seq(Cond) /\ Len(rd.conds) > 0
    BY <1>3 DEF ReaderStates
  <2>2. DepthAt(ls, i + 1) > 0
    <3>1. DepthAt(ls, i + 1) = DepthAt(ls, i)
      BY DepthStep DEF Conditionals, Opening
    <3> QED BY <2>1, <3>1
  <2>3. Candidate(re, ls, i + 1)
    BY <1>3, <2>2, CandidateKept DEF Conditionals
  <2> QED BY <1>1, <2>3 DEF Window
<1> QED BY <1>2, <1>3

(* An opening line names the file's guard where the window stands open; a second
   guard would break the idiom. *)
LEMMA WindowOpen ==
    ASSUME NEW ls, NEW i \in 1..Len(ls), Len(ls) \in Nat, GuardIdiom(ls),
           NEW rd \in ReaderStates, Window(rd, ls, i),
           DepthAt(ls, i) = Len(rd.conds), ls[i].op \in Opening, NEW v
    PROVE  Window(BeginIf(rd, v, GuardNamed(ls[i])), ls, i + 1)
<1> DEFINE g == GuardNamed(ls[i])
           on == Live(rd) /\ v
           c == [taken |-> on, active |-> on, sawElse |-> FALSE,
                 guard |-> IF GuardWindow(rd) THEN g ELSE NoGuard]
           re == BeginIf(rd, v, g)
           n == Len(rd.conds)
<1>1. rd.conds \in Seq(Cond) /\ n \in Nat /\ i \in Nat \ {0}
  BY DEF ReaderStates
<1>2. re.conds = Append(rd.conds, c) /\ c.guard = IF GuardWindow(rd) THEN g ELSE NoGuard
  BY DEF BeginIf, ReaderStates
<1> HIDE DEF c, re, g
<1>3. /\ re.conds # <<>>
      /\ n = 0 => re.conds[1] = c
      /\ n > 0 => re.conds[1] = rd.conds[1]
  BY <1>1, <1>2
<1>4. Recorded(re, ls, i + 1)
  BY <1>3 DEF Recorded
<1>5. CASE rd.conds # <<>>
  <2>1. n > 0
    BY <1>1, <1>5
  <2>2. DepthAt(ls, i + 1) > 0
    BY <1>1, <2>1, DepthStep
  <2>3. Candidate(re, ls, i + 1)
    BY <1>1, <1>3, <1>5, <2>1, <2>2, CandidateKept DEF Opening
  <2> QED BY <1>4, <2>3 DEF Window, re, g
<1>6. CASE rd.conds = <<>>
  <2>1. n = 0
    BY <1>1, <1>6
  <2>2. ASSUME re.conds[1].guard # NoGuard
        PROVE  \E o \in 1..((i + 1) - 1) :
                   Spans(ls, o, i + 1) /\ GuardChain(ls, o, i + 1, re.conds[1].guard)
    <3>1. re.conds[1].guard = g /\ g # NoGuard /\ rd.miValid
      BY <1>2, <1>3, <2>1, <2>2 DEF GuardWindow
    <3>2. NamesGuard(ls, i)
      BY <2>1, <3>1 DEF NamesGuard, g
    <3>3. rd.pendingGuard = NoGuard
      <4> SUFFICES ASSUME rd.pendingGuard # NoGuard
                   PROVE  FALSE
        OBVIOUS
      <4>1. PICK o \in 1..(i - 1) : GuardChain(ls, o, i, rd.pendingGuard)
        BY <1>6, <3>1 DEF Window, Recorded
      <4>2. o \in 1..Len(ls) /\ NamesGuard(ls, o) /\ o # i
        BY <4>1 DEF GuardChain
      <4> QED BY <3>2, <4>2 DEF GuardIdiom
    <3>4. \A j \in 1..(i - 1) : ls[j].op = "null"
      BY <1>6, <3>1, <3>3 DEF Window, Recorded
    <3> QED BY <1>1, <3>1, <3>2, <3>4, GuardChainOpened DEF g
  <2>3. Candidate(re, ls, i + 1)
    BY <2>2 DEF Candidate
  <2> QED BY <1>4, <2>3 DEF Window, re, g
<1> QED BY <1>5, <1>6

(* An arm replaces the innermost frame; an #else forgets its guard. *)
LEMMA WindowArm ==
    ASSUME NEW ls, NEW i \in Nat \ {0}, NEW rd \in ReaderStates, Window(rd, ls, i),
           DepthAt(ls, i) = Len(rd.conds), ls[i].op \in {"elif", "else"},
           rd.conds # <<>>,
           NEW re, ~re.miValid,
           NEW d, re.conds = [rd.conds EXCEPT ![Len(rd.conds)] = d],
           d.guard = IF ls[i].op = "else" THEN NoGuard ELSE TopCond(rd).guard
    PROVE  Window(re, ls, i + 1)
<1> DEFINE n == Len(rd.conds)
<1>1. rd.conds \in Seq(Cond) /\ n \in Nat /\ n > 0
  BY DEF ReaderStates
<1>2. /\ n = 1 => re.conds[1] = d
      /\ n > 1 => re.conds[1] = rd.conds[1]
  BY <1>1
<1>3. n = 1 => TopCond(rd) = rd.conds[1]
  BY DEF TopCond
<1>4. re.conds[1].guard \in {rd.conds[1].guard, NoGuard}
  BY <1>1, <1>2, <1>3
<1>5. ls[i].op = "else" /\ n = 1 => re.conds[1].guard = NoGuard
  BY <1>2
<1>6. DepthAt(ls, i + 1) > 0
  <2>1. DepthAt(ls, i + 1) = DepthAt(ls, i)
    BY DepthStep DEF Opening
  <2> QED BY <1>1, <2>1
<1>7. Candidate(re, ls, i + 1)
  BY <1>4, <1>5, <1>6, CandidateKept
<1> QED BY <1>7 DEF Window, Recorded

LEMMA WindowElif ==
    ASSUME NEW ls, NEW i \in Nat \ {0}, NEW rd \in ReaderStates, Window(rd, ls, i),
           DepthAt(ls, i) = Len(rd.conds), ls[i].op = "elif", ~Misplaced(rd), NEW v
    PROVE  Window(DoElif(rd, v), ls, i + 1)
<1> DEFINE c == TopCond(rd)
           on == ~c.taken /\ ~ParentSkipping(rd) /\ v
           d == [c EXCEPT !.active = on, !.taken = @ \/ on]
           re == DoElif(rd, v)
<1>1. rd.conds # <<>> /\ c \in Cond
  BY TopCondType DEF Misplaced, Stray
<1>2. d.guard = c.guard
  BY <1>1 DEF Cond
<1>3. re = CloseWindow(SetTop(rd, d))
  BY DEF DoElif
<1> HIDE DEF d, re
<1>4. ~re.miValid /\ re.conds = [rd.conds EXCEPT ![Len(rd.conds)] = d]
  BY <1>3 DEF CloseWindow, SetTop, ReaderStates
<1>5. Window(re, ls, i + 1)
  BY <1>1, <1>2, <1>4, WindowArm
<1> QED BY <1>5 DEF re

LEMMA WindowElse ==
    ASSUME NEW ls, NEW i \in Nat \ {0}, NEW rd \in ReaderStates, Window(rd, ls, i),
           DepthAt(ls, i) = Len(rd.conds), ls[i].op = "else", ~Misplaced(rd)
    PROVE  Window(DoElse(rd), ls, i + 1)
<1> DEFINE c == TopCond(rd)
           on == ~c.taken /\ ~ParentSkipping(rd)
           d == [c EXCEPT !.active = on, !.taken = @ \/ on, !.sawElse = TRUE, !.guard = NoGuard]
           re == DoElse(rd)
<1>1. rd.conds # <<>> /\ c \in Cond /\ ~c.sawElse /\ ~Stray(rd)
  BY TopCondType DEF Misplaced, Stray
<1>2. d.guard = NoGuard
  BY <1>1 DEF Cond
<1>3. re = CloseWindow(SetTop(rd, d))
  BY <1>1 DEF DoElse
<1> HIDE DEF d, re
<1>4. ~re.miValid /\ re.conds = [rd.conds EXCEPT ![Len(rd.conds)] = d]
  BY <1>3 DEF CloseWindow, SetTop, ReaderStates
<1>5. Window(re, ls, i + 1)
  BY <1>1, <1>2, <1>4, WindowArm
<1> QED BY <1>5 DEF re

(* #endif: what it closes, when that is the outermost chain, becomes what the
   reader has recorded. *)
LEMMA WindowEndif ==
    ASSUME NEW ls, NEW i \in Nat \ {0}, NEW rd \in ReaderStates, Window(rd, ls, i),
           DepthAt(ls, i) = Len(rd.conds), ls[i].op = "endif", ~Stray(rd)
    PROVE  Window(DoEndif(rd), ls, i + 1)
<1> DEFINE n == Len(rd.conds)
           re == DoEndif(rd)
<1>1. /\ rd.conds \in Seq(Cond) /\ rd.conds # <<>> /\ n \in Nat /\ n > 0
      /\ DepthAt(ls, i + 1) = n - 1
  BY DepthStep DEF ReaderStates, Stray
<1>2. re.conds = SubSeq(rd.conds, 1, n - 1)
  BY DoEndifFrames
<1>3. Len(re.conds) = n - 1 /\ \A k \in 1..(n - 1) : re.conds[k] = rd.conds[k]
  BY <1>1, <1>2, Popped
<1>4. CASE n = 1
  <2>1. re.conds = <<>> /\ TopCond(rd) = rd.conds[1]
    BY <1>1, <1>2, <1>4 DEF TopCond
  <2>2. re.pendingGuard = rd.conds[1].guard /\ re.miValid = (rd.conds[1].guard # NoGuard)
    BY <1>1, <1>2, <2>1 DEF DoEndif, Stray, CloseWindow, ReaderStates
  <2> HIDE DEF re
  <2>3. ASSUME re.miValid
        PROVE  \E o \in 1..((i + 1) - 1) : GuardChain(ls, o, i + 1, re.pendingGuard)
    <3>1. PICK o \in 1..(i - 1) : Spans(ls, o, i) /\ GuardChain(ls, o, i, rd.conds[1].guard)
      BY <1>1, <2>2, <2>3 DEF Window, Candidate
    <3> QED BY <2>2, <3>1, GuardChainStep
  <2>4. Recorded(re, ls, i + 1)
    BY <2>2, <2>3 DEF Recorded
  <2>5. Window(re, ls, i + 1)
    BY <2>1, <2>4 DEF Window, Candidate
  <2> QED BY <2>5 DEF re
<1>5. CASE n # 1
  <2> HIDE DEF re, n
  <2>0. 1 \in 1..(n - 1) /\ n - 1 # 0 /\ DepthAt(ls, i + 1) > 0
    BY <1>1, <1>5
  <2>1. re.conds # <<>> /\ re.conds[1] = rd.conds[1]
    BY <1>3, <2>0
  <2>2. DepthAt(ls, i + 1) > 0
    BY <2>0
  <2>3. Candidate(re, ls, i + 1)
    BY <1>1, <2>1, <2>2, CandidateKept
  <2>4. Window(re, ls, i + 1)
    BY <2>1, <2>3 DEF Window, Recorded
  <2> QED BY <2>4 DEF re
<1> QED BY <1>4, <1>5

-----------------------------------------------------------------------------
(* The invariant for the guard: what every reader may still record, and what the
   cache has recorded, are as the lines say, in a unit that keeps to the idiom. *)

Windowed(fr, txt) ==
    LET ls == txt[fr.file]
    IN  Placed(ls, fr.pc) => Window(fr.rd, ls, fr.pc)

Windows(stk, txt) == \A k \in 1..Len(stk) : Windowed(stk[k], txt)

Sealed(ls, g) == \E o \in 1..Len(ls) : GuardChain(ls, o, Len(ls) + 1, g)

Seals(c, txt) ==
    \A f \in Files :
        (c[f].done /\ c[f].guard # NoGuard /\ WellNested(txt[f])) => Sealed(txt[f], c[f].guard)

GInv == IInv /\ Idiomatic /\ Windows(stack, text) /\ Seals(cache, text)

(* A line of the top reader that stands where it may. *)
Turns(re) ==
    (/\ Mirrors(Top.rd.conds, Lines, Top.pc, Top.met)
     /\ PlacedAt(Lines, Top.pc)
     /\ Window(Top.rd, Lines, Top.pc))
        => Window(re, Lines, Top.pc + 1)

LEMMA PastWindows ==
    ASSUME GInv, Running, ~AtEnd, NEW re, Turns(re)
    PROVE  /\ Windows(Past(re), text)
           /\ Past(re) \in Seq(Frames \cup {Moved(Top, re, macros)})
<1> DEFINE n == Len(stack)
           gr == Moved(Top, re, macros)
<1>1. /\ n \in Nat \ {0} /\ Top \in Frames /\ FrameOK(Top, nesting, text)
      /\ Lines = text[Top.file] /\ Top.pc \in Nat \ {0}
  BY AtLine DEF GInv
<1>2. stack \in Seq(Frames)
  BY DEF GInv, IInv, TypeOK
<1>3. Past(re) = [stack EXCEPT ![n] = gr]
  BY <1>1, <1>2 DEF Past, Top, Frames, Moved
<1>4. gr.file = Top.file /\ gr.pc = Top.pc + 1 /\ gr.rd = re
  BY <1>1, MovedFields
<1> HIDE DEF gr
<1>5. Len(Past(re)) = n /\ \A k \in 1..n : Past(re)[k] = IF k = n THEN gr ELSE stack[k]
  BY <1>1, <1>2, <1>3
<1>6. Windowed(gr, text)
  <2> SUFFICES ASSUME Placed(Lines, Top.pc + 1)
               PROVE  Window(re, Lines, Top.pc + 1)
    BY <1>1, <1>4 DEF Windowed
  <2>1. 1..((Top.pc + 1) - 1) = 1..(Top.pc - 1) \cup {Top.pc}
    BY <1>1
  <2>2. Placed(Lines, Top.pc) /\ PlacedAt(Lines, Top.pc)
    BY <2>1 DEF Placed
  <2>3. Mirrors(Top.rd.conds, Lines, Top.pc, Top.met)
    BY <1>1, <2>2 DEF FrameOK
  <2>4. Window(Top.rd, Lines, Top.pc)
    BY <1>1, <2>2 DEF GInv, Windows, Windowed, Top
  <2> QED BY <2>2, <2>3, <2>4 DEF Turns
<1>7. Past(re) \in Seq(Frames \cup {gr})
  BY <1>1, <1>2, <1>3
<1> QED BY <1>5, <1>6, <1>7 DEF GInv, Windows, gr

(* What a line, or the opening of a file, marks in the cache is no guard. *)
GuardsKept == \A f \in Files : cache'[f].done = cache[f].done /\ cache'[f].guard = cache[f].guard

LEMMA LineGuards ==
    ASSUME GInv, IInv', Running, ~AtEnd, NEW re, Turns(re),
           Advance(re), UNCHANGED text, GuardsKept
    PROVE  GInv'
<1>1. Windows(stack, text)'
  BY PastWindows DEF Advance
<1>2. Seals(cache, text)'
  BY DEF GInv, Seals, GuardsKept
<1> QED BY <1>1, <1>2 DEF GInv, Idiomatic

(* The top reader's types and depth where its conditionals mirror the lines. *)
LEMMA TopDepth ==
    ASSUME GInv, Running, ~AtEnd
    PROVE  /\ Top.pc \in Nat \ {0} /\ Top.rd \in ReaderStates /\ Line = Lines[Top.pc]
           /\ Line \in LineRecords
           /\ Top.pc \in 1..Len(Lines) /\ Len(Lines) \in Nat
           /\ GuardIdiom(Lines)
           /\ Mirrors(Top.rd.conds, Lines, Top.pc, Top.met) =>
                  DepthAt(Lines, Top.pc) = Len(Top.rd.conds)
<1>1. /\ Top \in Frames /\ Good(Top.rd) /\ Top.file \in Files
      /\ Lines = text[Top.file] /\ Lines \in Seq(LineRecords)
      /\ Top.pc \in Nat \ {0} /\ Top.pc <= Len(Lines) /\ Line = text[Top.file][Top.pc]
      /\ Line \in LineRecords
  BY AtLine DEF GInv
<1>2. GuardIdiom(Lines)
  BY <1>1 DEF GInv, Idiomatic
<1> QED BY <1>1, <1>2 DEF Good, Mirrors

(* A line that ends the window. *)
LEMMA TurnsClosed ==
    ASSUME GInv, Running, ~AtEnd, Line.op \notin Conditionals,
           NEW re, re.conds = Top.rd.conds, ~re.miValid
    PROVE  Turns(re)
BY TopDepth, WindowClosed DEF Turns

LEMMA CloseWindowCloses ==
    ASSUME NEW rd \in ReaderStates
    PROVE  /\ CloseWindow(rd).conds = rd.conds /\ ~CloseWindow(rd).miValid
           /\ TakeText(rd).conds = rd.conds /\ ~TakeText(rd).miValid
BY DEF CloseWindow, TakeText, ReaderStates

(* Lines that are no conditional: those that end the window, and those that leave
   the reader as it is. *)
LEMMA ClosingGuards ==
    ASSUME GInv, IInv', Running, ~AtEnd, Line.op \notin Conditionals,
           Advance(CloseWindow(Top.rd)) \/ Advance(TakeText(Top.rd)),
           UNCHANGED text, GuardsKept
    PROVE  GInv'
<1>1. Top.rd \in ReaderStates
  BY TopDepth
<1>2. Turns(CloseWindow(Top.rd)) /\ Turns(TakeText(Top.rd))
  BY <1>1, CloseWindowCloses, TurnsClosed
<1> QED BY <1>2, LineGuards

LEMMA IdleGuards ==
    ASSUME GInv, IInv', Running, ~AtEnd, Line.op \notin Conditionals,
           Line.op = "null" \/ ~Live(Top.rd),
           Advance(Top.rd), UNCHANGED text, GuardsKept
    PROVE  GInv'
<1>1. ~Live(Top.rd) => Top.rd.conds # <<>>
  BY DEF Live
<1>2. Turns(Top.rd)
  BY <1>1, TopDepth, WindowIdle DEF Turns
<1> QED BY <1>2, LineGuards

LEMMA CacheAsIs ==
    ASSUME UNCHANGED cache
    PROVE  GuardsKept
BY DEF GuardsKept

(* The conditionals. *)
LEMMA OpenGuards == ASSUME GInv, IInv', OpenConditional PROVE GInv'
<1>1. Running /\ ~AtEnd /\ Line.op \in Opening
  BY DEF OpenConditional, Reading
<1>2. Turns(BeginIf(Top.rd, Verdict(Line, macros), GuardNamed(Line)))
  BY <1>1, TopDepth, WindowOpen DEF Turns
<1> QED BY <1>1, <1>2, LineGuards, CacheAsIs DEF OpenConditional

LEMMA ElifGuarded == ASSUME GInv, IInv', Elif PROVE GInv'
<1>1. Running /\ ~AtEnd /\ Line.op = "elif"
  BY DEF Elif, Reading
<1>2. Turns(DoElif(Top.rd, Verdict(Line, macros)))
  <2> SUFFICES ASSUME Mirrors(Top.rd.conds, Lines, Top.pc, Top.met), PlacedAt(Lines, Top.pc),
                      Window(Top.rd, Lines, Top.pc)
               PROVE  Window(DoElif(Top.rd, Verdict(Line, macros)), Lines, Top.pc + 1)
    BY DEF Turns
  <2>1. ~Misplaced(Top.rd)
    BY <1>1, TopDepth, ArmPlaced
  <2> QED BY <1>1, <2>1, TopDepth, WindowElif
<1> QED BY <1>1, <1>2, LineGuards, CacheAsIs DEF Elif

LEMMA ElseGuarded == ASSUME GInv, IInv', Else PROVE GInv'
<1>1. Running /\ ~AtEnd /\ Line.op = "else"
  BY DEF Else, Reading
<1>2. Turns(DoElse(Top.rd))
  <2> SUFFICES ASSUME Mirrors(Top.rd.conds, Lines, Top.pc, Top.met), PlacedAt(Lines, Top.pc),
                      Window(Top.rd, Lines, Top.pc)
               PROVE  Window(DoElse(Top.rd), Lines, Top.pc + 1)
    BY DEF Turns
  <2>1. ~Misplaced(Top.rd)
    BY <1>1, TopDepth, ArmPlaced
  <2> QED BY <1>1, <2>1, TopDepth, WindowElse
<1> QED BY <1>1, <1>2, LineGuards, CacheAsIs DEF Else

LEMMA EndifGuarded == ASSUME GInv, IInv', Endif PROVE GInv'
<1>1. Running /\ ~AtEnd /\ Line.op = "endif"
  BY DEF Endif, Reading
<1>2. Turns(DoEndif(Top.rd))
  <2> SUFFICES ASSUME Mirrors(Top.rd.conds, Lines, Top.pc, Top.met), PlacedAt(Lines, Top.pc),
                      Window(Top.rd, Lines, Top.pc)
               PROVE  Window(DoEndif(Top.rd), Lines, Top.pc + 1)
    BY DEF Turns
  <2>1. ~Stray(Top.rd)
    BY <1>1, TopDepth, EndifPlaced
  <2> QED BY <1>1, <2>1, TopDepth, WindowEndif
<1> QED BY <1>1, <1>2, LineGuards, CacheAsIs DEF Endif

(* A mark in one entry of the cache. *)
LEMMA MarkKeepsGuards ==
    ASSUME NEW c \in [Files -> CacheEntries], NEW f \in Files
    PROVE  LET d == [c EXCEPT ![f].once = TRUE] IN
           \A h \in Files : d[h].done = c[h].done /\ d[h].guard = c[h].guard
BY DEF CacheEntries

LEMMA EntryKeepsGuards ==
    ASSUME IInv, NEW f \in Files, NEW mode
    PROVE  \A h \in Files : /\ Entered(f, mode)[h].done = cache[h].done
                            /\ Entered(f, mode)[h].guard = cache[h].guard
<1> DEFINE e == EntryRead(cache[f], mode)
<1>1. cache \in [Files -> CacheEntries] /\ cache[f] \in CacheEntries
  BY DEF IInv, TypeOK
<1>2. e.done = cache[f].done /\ e.guard = cache[f].guard
  BY <1>1 DEF EntryRead, CacheEntries
<1>3. Entered(f, mode) = [cache EXCEPT ![f] = e]
  BY <1>1 DEF Entered, EntryRead, CacheEntries
<1> HIDE DEF e
<1> QED BY <1>1, <1>2, <1>3

LEMMA OnceGuards == ASSUME GInv, IInv', PragmaOnce PROVE GInv'
<1>1. Running /\ ~AtEnd /\ Line.op \notin Conditionals
  BY DEF PragmaOnce, ReadingLive, Reading, Conditionals
<1>2. cache \in [Files -> CacheEntries] /\ Top.file \in Files
  BY <1>1, AtLine DEF GInv, IInv, TypeOK
<1>3. GuardsKept
  BY <1>2, MarkKeepsGuards DEF PragmaOnce, GuardsKept
<1> QED BY <1>1, <1>3, ClosingGuards DEF PragmaOnce

LEMMA SkippedGuards == ASSUME GInv, IInv', IncludeSkipped PROVE GInv'
<1>1. Running /\ ~AtEnd /\ Line.op \notin Conditionals /\ Line.file \in Files
  BY IncludeLine DEF IncludeSkipped, GInv
<1>2. cache \in [Files -> CacheEntries]
  BY DEF GInv, IInv, TypeOK
<1>3. GuardsKept
  BY <1>1, <1>2, MarkKeepsGuards DEF IncludeSkipped, GuardsKept
<1> QED BY <1>1, <1>3, ClosingGuards DEF IncludeSkipped

(* A new reader has passed no line. *)
LEMMA NewWindow ==
    ASSUME NEW f, NEW mode, NEW txt
    PROVE  Windowed(NewFrame(f, mode), txt)
BY DEF Windowed, NewFrame, Window, Recorded, Candidate, NewReader

LEMMA ReadGuards == ASSUME GInv, IInv', IncludeRead PROVE GInv'
<1> DEFINE re == CloseWindow(Top.rd)
           past == Past(re)
           fr == NewFrame(Line.file, Line.op)
<1>1. Running /\ ~AtEnd /\ Line.op \notin Conditionals /\ Line.file \in Files
  BY IncludeLine DEF IncludeRead, GInv
<1>2. Turns(re)
  BY <1>1, TopDepth, CloseWindowCloses, TurnsClosed
<1> HIDE DEF re
<1>3. Windows(past, text) /\ past \in Seq(Frames \cup {Moved(Top, re, macros)})
  BY <1>1, <1>2, PastWindows
<1>4. stack' = Append(past, fr) /\ text' = text /\ cache' = Entered(Line.file, Line.op)
  BY DEF IncludeRead, re
<1>5. Windowed(fr, text)
  BY NewWindow
<1> HIDE DEF past, fr
<1>6. Len(past) \in Nat
  BY <1>3
<1>7. \E S : past \in Seq(S) /\ fr \in S
  <2>1. past \in Seq(Frames \cup {Moved(Top, re, macros)} \cup {fr})
    BY <1>3
  <2> QED BY <2>1
<1>8. /\ Len(stack') = Len(past) + 1 /\ stack'[Len(past) + 1] = fr
      /\ \A k \in 1..Len(past) : stack'[k] = past[k]
  BY <1>4, <1>7, AppendProperties
<1>9. Windows(stack', text')
  BY <1>3, <1>4, <1>5, <1>6, <1>8 DEF Windows
<1>10. GuardsKept
  BY <1>1, <1>4, EntryKeepsGuards DEF GInv, GuardsKept
<1>11. Seals(cache', text')
  BY <1>4, <1>10 DEF GInv, Seals, GuardsKept
<1> QED BY <1>4, <1>9, <1>11 DEF GInv, Idiomatic

(* The end of a file records what its reader holds; a reader that stands at the
   end of a file that nests has no conditional open. *)
LEMMA EndGuards == ASSUME GInv, IInv', EndOfFile PROVE GInv'
<1> DEFINE f == Top.file
           n == Len(stack)
           g == GuardFound(Top.rd)
<1>1. Running /\ AtEnd
  BY DEF EndOfFile
<1>2. /\ n \in Nat \ {0} /\ Top \in Frames /\ FrameOK(Top, nesting, text) /\ Good(Top.rd)
      /\ f \in Files /\ Lines = text[f] /\ Lines \in Seq(LineRecords) /\ Top.pc \in Nat \ {0}
  BY <1>1, AtLine DEF GInv
<1>3. Top.pc = Len(text[f]) + 1
  BY <1>1, <1>2 DEF AtEnd, FrameOK
<1>4. stack \in Seq(Frames) /\ cache \in [Files -> CacheEntries]
  BY DEF GInv, IInv, TypeOK
<1>5. /\ stack' = SubSeq(stack, 1, n - 1) /\ text' = text
      /\ cache' = IF Top.mode = "primary" \/ cache[f].done THEN cache ELSE Finished(cache, f, g)
  BY DEF EndOfFile, Finished
<1>6. Len(stack') = n - 1 /\ \A k \in 1..(n - 1) : stack'[k] = stack[k]
  BY <1>2, <1>4, <1>5, Popped
<1>7. Windows(stack', text')
  <2> HIDE DEF n
  <2>1. \A k \in 1..(n - 1) : k \in 1..n
    BY <1>2
  <2> QED BY <1>5, <1>6, <2>1 DEF GInv, Windows, n
<1>8. ASSUME WellNested(text[f]), g # NoGuard
      PROVE  Sealed(text[f], g)
  <2> DEFINE ls == text[f]
             i == Len(ls) + 1
  <2>1. i = Top.pc /\ Len(ls) \in Nat /\ 1..(i - 1) = 1..Len(ls)
    BY <1>2, <1>3
  <2>2. Placed(ls, i)
    BY <1>8, <2>1 DEF WellNested, Placed
  <2>3. Top.rd.conds = <<>>
    <3>1. Mirrors(Top.rd.conds, ls, i, Top.met)
      BY <1>2, <1>3, <2>2 DEF FrameOK
    <3>2. Len(Top.rd.conds) = 0
      BY <1>8, <3>1 DEF Mirrors, WellNested
    <3>3. Top.rd.conds \in Seq(Cond)
      BY <1>2 DEF Good, ReaderStates
    <3> QED BY <3>2, <3>3
  <2>4. Window(Top.rd, ls, i)
    BY <1>2, <2>1, <2>2 DEF GInv, Windows, Windowed, Top
  <2>5. Top.rd.miValid /\ Top.rd.pendingGuard = g
    BY <1>8 DEF GuardFound
  <2>6. \E o \in 1..(i - 1) : GuardChain(ls, o, i, g)
    <3> HIDE DEF ls, i, g
    <3> QED BY <1>8, <2>3, <2>4, <2>5 DEF Window, Recorded
  <2> QED BY <2>1, <2>6 DEF Sealed
<1> HIDE DEF g
<1>9. Seals(cache', text')
  <2>1. CASE Top.mode = "primary" \/ cache[f].done
    BY <1>5, <2>1 DEF GInv
  <2>2. CASE ~(Top.mode = "primary" \/ cache[f].done)
    <3>1. cache' = [cache EXCEPT ![f] = [cache[f] EXCEPT !.done = TRUE, !.guard = g]]
      BY <1>2, <1>4, <1>5, <2>2 DEF Finished
    <3>2. /\ cache'[f].guard = g
          /\ \A h \in Files : h # f => cache'[h] = cache[h]
      BY <1>2, <1>4, <3>1 DEF CacheEntries
    <3> QED BY <1>5, <1>8, <3>2 DEF GInv, Seals
  <2> QED BY <2>1, <2>2
<1> QED BY <1>5, <1>7, <1>9 DEF GInv, Idiomatic

-----------------------------------------------------------------------------
(* What a sealed file does when it is read again with its guard defined: every
   line of it that does anything is in the one group of the guard's chain, and
   that group is not read. *)
LEMMA SealedInert ==
    ASSUME NEW ls \in Seq(LineRecords), GuardIdiom(ls), NEW g, Sealed(ls, g),
           NEW defined, g \in defined
    PROVE  Inert(ls, defined)
<1> DEFINE table == [j \in 1..Len(ls) |-> defined]
<1>1. PICK o \in 1..Len(ls) : GuardChain(ls, o, Len(ls) + 1, g)
  BY DEF Sealed
<1>2. Len(ls) \in Nat /\ (Len(ls) + 1) - 1 = Len(ls)
  OBVIOUS
<1>3. NamesGuard(ls, o) /\ GuardNamed(ls[o]) = g /\ ls[o] \in LineRecords
  BY <1>1 DEF GuardChain
<1>4. ~Verdict(ls[o], defined)
  <2>1. CASE ls[o].op = "ifndef"
    BY <1>3, <2>1 DEF GuardNamed, Verdict
  <2>2. CASE ls[o].op # "ifndef"
    <3>1. /\ ls[o].op = "if" /\ ls[o].lits # <<>> /\ ls[o].lits[1].neg
          /\ ls[o].lits[1].m = g
      BY <1>3, <2>2 DEF NamesGuard, GuardNamed
    <3>2. Len(ls[o].lits) = 1
      BY <1>3, <3>1 DEF GuardIdiom
    <3>3. Verdict(ls[o], defined) = Holds(ls[o].lits, defined)
      BY <3>1 DEF Verdict
    <3>4. ls[o].lits[1].neg = TRUE
      <4>1. ls[o].lits \in Seq(Literals)
        BY <1>3, <3>1, LineFields
      <4> QED BY <3>1, <4>1 DEF Literals
    <3>5. ASSUME NEW k \in 1..1
          PROVE  ~((ls[o].lits[k].m \in defined) # ls[o].lits[k].neg)
      <4>1. k = 1
        OBVIOUS
      <4>2. (ls[o].lits[1].m \in defined) = TRUE
        BY <3>1
      <4> QED BY <3>4, <4>1, <4>2
    <3> QED BY <3>2, <3>3, <3>5 DEF Holds
  <2> QED BY <2>1, <2>2
<1>5. ASSUME NEW i \in 1..Len(ls), ls[i].op \notin Conditionals \cup {"null"}
      PROVE  ~InReadGroups(ls, i, table)
  <2>1. i # o
    BY <1>3, <1>5 DEF NamesGuard, Opening, Conditionals
  <2>2. Spans(ls, o, i)
    BY <1>1, <1>2, <1>5, <2>1 DEF GuardChain, Whole
  <2>3. o \in 1..(i - 1)
    BY <2>2 DEF Spans
  <2>4. Arms(ls, o, i) = {o}
    <3>1. ASSUME NEW a \in (o + 1)..(i - 1), ls[a].op \in {"elif", "else"}, Spans(ls, o, a),
                 DepthAt(ls, a) = DepthAt(ls, o) + 1
          PROVE  FALSE
      <4>1. a \in Arms(ls, o, Len(ls) + 1)
        BY <1>2, <3>1 DEF Arms
      <4>2. ls[a].op # "else"
        BY <1>1, <4>1 DEF GuardChain, SomeElse
      <4>3. ls[a].op # "elif"
        BY <1>3, <4>1 DEF GuardIdiom
      <4> QED BY <3>1, <4>2, <4>3
    <3> QED BY <3>1 DEF Arms
  <2>5. ~Chosen(ls, o, table)
    <3>1. table[o] = defined /\ ls[o].op # "else"
      BY <1>3 DEF NamesGuard, Opening
    <3> HIDE DEF table
    <3> QED BY <1>4, <3>1 DEF Chosen
  <2> HIDE DEF table
  <2>6. ~GroupRead(ls, o, i, table)
    BY <2>4, <2>5 DEF GroupRead
  <2> QED BY <2>2, <2>3, <2>6 DEF InReadGroups
<1> QED BY <1>5 DEF Inert

LEMMA GInvInit == Init /\ Idiomatic => GInv
<1> SUFFICES ASSUME Init, Idiomatic
             PROVE  GInv
  OBVIOUS
<1> DEFINE fr == NewFrame(Main, "primary")
<1>1. stack = <<fr>> /\ Windowed(fr, text)
  BY NewWindow DEF Init
<1> HIDE DEF fr
<1>2. Windows(stack, text)
  BY <1>1 DEF Windows
<1>3. \A f \in Files : ~cache[f].done
  BY DEF Init, Unread
<1> QED BY <1>2, <1>3, IInvInit DEF GInv, Seals

LEMMA GInvStep == GInv /\ IInv' /\ [Next]_vars => GInv'
<1> SUFFICES ASSUME GInv, IInv', [Next]_vars
             PROVE  GInv'
  OBVIOUS
<1>1. CASE UNCHANGED vars
  BY <1>1 DEF vars, GInv, Idiomatic
<1>2. CASE TextLine
  BY <1>2, ClosingGuards, CacheAsIs DEF TextLine, ReadingLive, Reading, Conditionals
<1>3. CASE SkipLine
  BY <1>3, IdleGuards, CacheAsIs DEF SkipLine
<1>4. CASE NullDirective
  BY <1>4, IdleGuards, CacheAsIs DEF NullDirective, Reading, Conditionals
<1>5. CASE Define
  BY <1>5, ClosingGuards, CacheAsIs DEF Define, ReadingLive, Reading, Conditionals
<1>6. CASE Undef
  BY <1>6, ClosingGuards, CacheAsIs DEF Undef, ReadingLive, Reading, Conditionals
<1>7. CASE Other
  BY <1>7, ClosingGuards, CacheAsIs DEF Other, ReadingLive, Reading, Conditionals
<1>8. CASE IncludeTooDeep
  BY <1>8, ClosingGuards, CacheAsIs DEF IncludeTooDeep, ReadingLive, Reading, Inclusions, Conditionals
<1> QED BY <1>1, <1>2, <1>3, <1>4, <1>5, <1>6, <1>7, <1>8, OpenGuards, ElifGuarded,
       ElseGuarded, EndifGuarded, OnceGuards, SkippedGuards, ReadGuards, EndGuards DEF Next

(* In every unit whose files keep to the include-guard idiom, a file that is skipped
   because its guard is defined would have contributed nothing, whatever was defined
   when the guard was recorded and whatever is now. *)
THEOREM GuardSkipsNothing == Spec /\ Idiomatic => []GuardSkipInvisible
<1>1. GInv => GuardSkipInvisible
  <2> SUFFICES ASSUME GInv, ReadingLive(Inclusions), Guarded(Line.file),
                      WellNested(text[Line.file])
               PROVE  Inert(text[Line.file], macros)
    BY DEF GuardSkipInvisible
  <2> DEFINE f == Line.file
  <2>1. f \in Files
    BY IncludeLine DEF GInv
  <2>2. text[f] \in Seq(LineRecords) /\ macros \in Tables /\ GuardIdiom(text[f])
    BY <2>1 DEF GInv, IInv, TypeOK, Texts, Idiomatic
  <2>3. cache[f].done /\ cache[f].guard \in macros /\ cache[f].guard # NoGuard
    BY <2>2, NoGuardAssumption DEF Guarded, Tables
  <2>4. Sealed(text[f], cache[f].guard)
    BY <2>1, <2>3 DEF GInv, Seals
  <2> QED BY <2>2, <2>3, <2>4, SealedInert
<1> QED BY <1>1, GInvInit, GInvStep, Invariant, PTL DEF Spec
=============================================================================
