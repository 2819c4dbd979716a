---------------------------- MODULE Byref_proofs ----------------------------
(* What holds of Byref for every number of objects, blocks, structures and
   nested assignments and calls: references are counted, nothing reaches what
   has gone, and everyone reads the one variable. *)
EXTENDS Byref, Bookkeeping

USE ByrefAssumption

(* The programs the counts speak of: no block lets go of itself while it runs,
   and no initializer assigns the variable it is about to set. *)
Counting == Shapes \cap {"block dies running", "assigned by its initializer"} = {}

----------------------------------------------------------------------------
(* The inductive invariant.                                                *)

Slots == Structs \cup {Stack}

(* What a variable of a kind holds. *)
ValuesOf(k) == CASE k = "int"   -> Ints
                 [] k = "block" -> Blocks \cup {Nil}
                 [] OTHER       -> Objects \cup {Nil}

Entries == [type : {"store", "body"}, dst : {"x", "held", "none"},
            op : {"assign", "compound", "init", "call"}, addr : Slots \cup {Nil},
            slot : Slots, block : Blocks \cup {Nil}, val : Values \cup {Unset}]

Item(what, id) == [what |-> what, id |-> id]

Items == {Item("struct", s) : s \in Structs} \cup {Item("block", b) : b \in Blocks}
         \cup {Item("object", o) : o \in Objects}

HeapRecords(k) == [refs : Nat \ {0}, era : Eras, payload : ValuesOf(k)]
BlockRecords == [refs : Nat \ {0}, field : Structs]

FrameOK(fr, k) ==
    /\ fr \in [open : BOOLEAN, era : Eras, fwd : Slots, payload : Values]
    /\ fr.open => fr.payload \in ValuesOf(k)
    /\ ~fr.open => fr.fwd = Stack

HeapOK(hp, k) == /\ DOMAIN hp \subseteq Structs
                 /\ \A h \in DOMAIN hp : hp[h] \in HeapRecords(k)

BlocksOK(bl) == /\ DOMAIN bl \subseteq Blocks
                /\ \A b \in DOMAIN bl : bl[b] \in BlockRecords

ObjectsOK(ob) == /\ DOMAIN ob \subseteq Objects
                 /\ \A o \in DOMAIN ob : ob[o] \in Nat \ {0}

Typed ==
    /\ kind \in Kinds
    /\ FrameOK(frame, kind)
    /\ HeapOK(heap, kind)
    /\ BlocksOK(blocks)
    /\ ObjectsOK(objects)
    /\ kind # "weak" => weaks = {}
    /\ held \in Blocks \cup {Nil}
    /\ owner \in Objects \cup {Nil}
    /\ ctl \in Seq(Entries)
    /\ due \in Seq(Items)
    /\ last \in [Eras -> Values]

(* An entry by itself: a body has no value of its own, a store has one of its
   destination's. *)
EntryOK(f, k) ==
    /\ f.type = "body" => f.val = Unset /\ f.dst = "none" /\ f.op = "call"
    /\ f.type = "store" => f.block = Nil /\ f.dst # "none" /\ f.op # "call"
    /\ f.val # Unset => f.val \in (IF f.dst = "x" THEN ValuesOf(k) ELSE Blocks \cup {Nil})
    /\ f.op = "init" => f.dst = "x" /\ f.slot = Stack /\ f.addr = Stack
    /\ f.op = "compound" => k = "int" /\ f.dst = "x" /\ f.addr \in Slots

(* What runs reaches x in the frame, or by the field of a block that is running
   around it and alive. *)
Grounded(c, i, bl) ==
    /\ c[i].block # Nil => c[i].block \in DOMAIN bl
    /\ c[i].slot # Stack => \E j \in 1..i : /\ c[j].block \in DOMAIN bl
                                            /\ bl[c[j].block].field = c[i].slot

(* Only an assignment to the function's local waits outside the scope of x. *)
InScope(c, i, open) ==
    c[i].slot = Stack /\ ~open => \A j \in 1..i : c[j].type = "store" /\ c[j].dst = "held"

Sound(c, bl, open, k) ==
    \A i \in 1..Len(c) :
        /\ EntryOK(c[i], k)
        /\ i # Len(c) => c[i].val = Unset
        /\ c[i].op = "init" => i = 1
        /\ Grounded(c, i, bl)
        /\ InScope(c, i, open)

(* While the initializer of an x that owns runs, x is nil and nothing else
   stores into it. *)
InitAlone ==
    Owns /\ ctl # <<>> /\ ctl[1].op = "init" =>
        /\ frame.open
        /\ Payload(Fwd(Stack)) = Nil
        /\ \A i \in 2..Len(ctl) : ctl[i].dst # "x"

(* The references that are counted, by what holds them. *)
Hand(c) == IF c = <<>> THEN Unset ELSE c[Len(c)].val
Fields(bl) == [b \in DOMAIN bl |-> bl[b].field]
Payloads(hp) == [h \in DOMAIN hp |-> hp[h].payload]

Refs(f, x) == IF x \in DOMAIN f THEN f[x].refs ELSE 0
Uses(f, x) == IF x \in DOMAIN f THEN f[x] ELSE 0

InFrame(fr, v) == IF fr.open THEN Hit(fr.payload, v) ELSE 0
ToHeap(fr, s) == IF fr.open THEN Hit(fr.fwd, s) ELSE 0

Kept(hp, fr, v) == Tally(Payloads(hp), v) + InFrame(fr, v)

StructSum(s) == Tally(Fields(blocks), s) + ToHeap(frame, s) + Tally(due, Item("struct", s))

BlockSum(b) == Hit(held, b) + Hit(Hand(ctl), b)
               + (IF kind = "block" THEN Kept(heap, frame, b) ELSE 0)
               + Tally(due, Item("block", b))

ObjectSum(o) == Hit(owner, o)
                + (IF kind = "strong" THEN Hit(Hand(ctl), o) + Kept(heap, frame, o) ELSE 0)
                + Tally(due, Item("object", o))

StructsEven == \A s \in Structs : StructSum(s) = Refs(heap, s)
BlocksEven == \A b \in Blocks : BlockSum(b) = Refs(blocks, b)
ObjectsEven == \A o \in Objects : ObjectSum(o) = Uses(objects, o)

Counted == StructsEven /\ BlocksEven /\ ObjectsEven

IInv == Typed /\ Sound(ctl, blocks, frame.open, kind) /\ InitAlone /\ Counted
----------------------------------------------------------------------------
(* What is under way: entries pushed, finished and evaluated.              *)

Place(c) == IF c = <<>> THEN Stack ELSE c[Len(c)].slot

LEMMA SoundPush ==
    ASSUME NEW c \in Seq(Entries), NEW f \in Entries, NEW bl, NEW open \in BOOLEAN, NEW k,
           Sound(c, bl, open, k), Hand(c) = Unset,
           EntryOK(f, k),
           f.op = "init" => c = <<>>,
           f.block # Nil => f.block \in DOMAIN bl,
           \/ f.slot = Place(c)
           \/ f.block \in DOMAIN bl /\ bl[f.block].field = f.slot,
           f.slot = Stack =>
               open \/ (f.type = "store" /\ f.dst = "held" /\ Place(c) = Stack)
    PROVE  Append(c, f) \in Seq(Entries) /\ Sound(Append(c, f), bl, open, k)
<1> DEFINE n == Len(c)
           d == Append(c, f)
<1>1. /\ n \in Nat /\ d \in Seq(Entries) /\ Len(d) = n + 1
      /\ d[n + 1] = f /\ \A i \in 1..n : d[i] = c[i] /\ c[i] \in Entries
      /\ c = <<>> <=> n = 0
  OBVIOUS
<1> HIDE DEF n, d
<1>2. \A i \in 1..n : EntryOK(c[i], k) /\ Grounded(c, i, bl) /\ InScope(c, i, open)
                     /\ (i # n => c[i].val = Unset) /\ (c[i].op = "init" => i = 1)
  BY DEF Sound, n
<1>3. ASSUME NEW i \in 1..n
      PROVE  /\ EntryOK(d[i], k) /\ d[i].val = Unset /\ (d[i].op = "init" => i = 1)
             /\ Grounded(d, i, bl) /\ InScope(d, i, open)
  <2>1. c[i].val = Unset
    BY <1>1, <1>2 DEF Hand, n
  <2>2. \A j \in 1..i : d[j] = c[j]
    BY <1>1
  <2>3. Grounded(d, i, bl)
    <3>1. Grounded(c, i, bl) /\ d[i] = c[i]
      BY <1>1, <1>2
    <3> QED BY <2>2, <3>1 DEF Grounded
  <2>4. InScope(d, i, open)
    BY <1>1, <1>2, <2>2 DEF InScope
  <2> QED BY <1>1, <1>2, <2>1, <2>3, <2>4
<1>4. Grounded(d, n + 1, bl)
  <2>1. ASSUME f.slot # Stack
        PROVE  \E j \in 1..(n + 1) : d[j].block \in DOMAIN bl /\ bl[d[j].block].field = f.slot
    <3>1. CASE f.block \in DOMAIN bl /\ bl[f.block].field = f.slot
      BY <1>1, <3>1
    <3>2. CASE f.slot = Place(c)
      <4>1. n > 0 /\ c[n].slot = f.slot
        BY <1>1, <2>1, <3>2 DEF Place, n
      <4>2. Grounded(c, n, bl)
        BY <1>1, <1>2, <4>1
      <4>3. PICK j \in 1..n : c[j].block \in DOMAIN bl /\ bl[c[j].block].field = c[n].slot
        BY <2>1, <4>1, <4>2 DEF Grounded
      <4>4. d[j] = c[j] /\ j \in 1..(n + 1)
        BY <1>1
      <4> QED BY <4>1, <4>3, <4>4
    <3> QED BY <3>1, <3>2
  <2> QED BY <1>1, <2>1 DEF Grounded
<1>5. InScope(d, n + 1, open)
  <2> SUFFICES ASSUME f.slot = Stack, ~open
               PROVE  \A j \in 1..(n + 1) : d[j].type = "store" /\ d[j].dst = "held"
    BY <1>1 DEF InScope
  <2>1. f.type = "store" /\ f.dst = "held" /\ Place(c) = Stack
    OBVIOUS
  <2>2. \A j \in 1..n : c[j].type = "store" /\ c[j].dst = "held"
    <3>1. CASE n = 0
      BY <3>1
    <3>2. CASE n # 0
      <4>1. n \in 1..n /\ c[n].slot = Stack
        BY <1>1, <2>1, <3>2 DEF Place, n
      <4>2. InScope(c, n, open)
        BY <1>2, <4>1
      <4> QED BY <4>1, <4>2 DEF InScope
    <3> QED BY <3>1, <3>2
  <2> QED BY <1>1, <2>1, <2>2
<1>6. d[n + 1].op = "init" => n + 1 = 1
  BY <1>1
<1>7. ASSUME NEW i \in 1..(n + 1)
      PROVE  /\ EntryOK(d[i], k) /\ (i # n + 1 => d[i].val = Unset) /\ (d[i].op = "init" => i = 1)
             /\ Grounded(d, i, bl) /\ InScope(d, i, open)
  <2>1. CASE i = n + 1
    BY <1>1, <1>4, <1>5, <1>6, <2>1
  <2>2. CASE i # n + 1
    <3>1. i \in 1..n
      BY <1>1, <2>2
    <3> QED BY <1>3, <2>2, <3>1
  <2> QED BY <2>1, <2>2
<1>8. Sound(d, bl, open, k)
  BY <1>1, <1>7 DEF Sound
<1> QED BY <1>1, <1>8 DEF d

LEMMA SoundPop ==
    ASSUME NEW c \in Seq(Entries), c # <<>>, NEW bl, NEW open, NEW k, Sound(c, bl, open, k)
    PROVE  /\ SubSeq(c, 1, Len(c) - 1) \in Seq(Entries)
           /\ Sound(SubSeq(c, 1, Len(c) - 1), bl, open, k)
           /\ Hand(SubSeq(c, 1, Len(c) - 1)) = Unset
<1> DEFINE n == Len(c)
           d == SubSeq(c, 1, n - 1)
<1>1. /\ n \in Nat \ {0} /\ d \in Seq(Entries) /\ Len(d) = n - 1
      /\ \A i \in 1..(n - 1) : d[i] = c[i]
  BY Popped
<1> HIDE DEF n, d
<1>2. \A i \in 1..n : EntryOK(c[i], k) /\ Grounded(c, i, bl) /\ InScope(c, i, open)
                     /\ (i # n => c[i].val = Unset) /\ (c[i].op = "init" => i = 1)
  BY DEF Sound, n
<1>3. ASSUME NEW i \in 1..(n - 1)
      PROVE  /\ EntryOK(d[i], k) /\ d[i].val = Unset /\ (d[i].op = "init" => i = 1)
             /\ Grounded(d, i, bl) /\ InScope(d, i, open)
  <2>1. i \in 1..n /\ i # n /\ \A j \in 1..i : d[j] = c[j]
    BY <1>1
  <2>2. Grounded(d, i, bl)
    BY <1>1, <1>2, <2>1 DEF Grounded
  <2>3. InScope(d, i, open)
    BY <1>1, <1>2, <2>1 DEF InScope
  <2> QED BY <1>1, <1>2, <2>1, <2>2, <2>3
<1>4. Sound(d, bl, open, k)
  BY <1>1, <1>3 DEF Sound
<1>5. Hand(d) = Unset
  <2>1. CASE d = <<>>
    BY <2>1 DEF Hand
  <2>2. CASE d # <<>>
    <3>1. n - 1 \in 1..(n - 1)
      BY <1>1, <2>2
    <3> QED BY <1>1, <1>3, <2>2, <3>1 DEF Hand
  <2> QED BY <2>1, <2>2
<1> QED BY <1>1, <1>4, <1>5 DEF n, d

(* The right side of the innermost assignment has its value. *)
Given(c, v) == [c EXCEPT ![Len(c)].val = v]

LEMMA SoundGiven ==
    ASSUME NEW c \in Seq(Entries), c # <<>>, NEW bl, NEW open, NEW k, Sound(c, bl, open, k),
           c[Len(c)].type = "store", NEW v \in Values,
           v \in (IF c[Len(c)].dst = "x" THEN ValuesOf(k) ELSE Blocks \cup {Nil})
    PROVE  /\ Given(c, v) \in Seq(Entries) /\ Len(Given(c, v)) = Len(c)
           /\ Sound(Given(c, v), bl, open, k)
           /\ Hand(Given(c, v)) = v
           /\ \A i \in 1..Len(c) : /\ Given(c, v)[i].dst = c[i].dst
                                  /\ Given(c, v)[i].op = c[i].op
                                  /\ Given(c, v)[i].slot = c[i].slot
                                  /\ Given(c, v)[i].addr = c[i].addr
<1> DEFINE n == Len(c)
           d == Given(c, v)
           g == [c[n] EXCEPT !.val = v]
<1>1. n \in Nat \ {0} /\ n \in 1..n /\ \A i \in 1..n : c[i] \in Entries
  OBVIOUS
<1>2. /\ g \in Entries /\ g.val = v /\ g.type = c[n].type /\ g.dst = c[n].dst /\ g.op = c[n].op
      /\ g.addr = c[n].addr /\ g.slot = c[n].slot /\ g.block = c[n].block
  BY <1>1 DEF Entries
<1>3. d \in Seq(Entries) /\ Len(d) = n /\ \A i \in 1..n : d[i] = IF i = n THEN g ELSE c[i]
  BY <1>1, <1>2 DEF Given
<1> HIDE DEF n, d, g
<1>4. \A i \in 1..n : /\ d[i].type = c[i].type /\ d[i].dst = c[i].dst /\ d[i].op = c[i].op
                     /\ d[i].addr = c[i].addr /\ d[i].slot = c[i].slot /\ d[i].block = c[i].block
  BY <1>2, <1>3
<1>5. \A i \in 1..n : EntryOK(c[i], k) /\ Grounded(c, i, bl) /\ InScope(c, i, open)
                     /\ (i # n => c[i].val = Unset) /\ (c[i].op = "init" => i = 1)
  BY DEF Sound, n
<1>6. EntryOK(g, k)
  BY <1>1, <1>2, <1>5 DEF EntryOK, n
<1>7. ASSUME NEW i \in 1..n
      PROVE  /\ EntryOK(d[i], k) /\ (i # n => d[i].val = Unset) /\ (d[i].op = "init" => i = 1)
             /\ Grounded(d, i, bl) /\ InScope(d, i, open)
  <2>1. \A j \in 1..i : j \in 1..n
    BY <1>1
  <2>2. Grounded(d, i, bl)
    BY <1>4, <1>5, <2>1 DEF Grounded
  <2>3. InScope(d, i, open)
    BY <1>4, <1>5, <2>1 DEF InScope
  <2> QED BY <1>3, <1>4, <1>5, <1>6, <2>2, <2>3
<1>8. Sound(d, bl, open, k)
  BY <1>3, <1>7 DEF Sound
<1>9. Hand(d) = v
  BY <1>1, <1>2, <1>3 DEF Hand
<1> QED BY <1>3, <1>4, <1>8, <1>9 DEF n, d

(* Blocks that come and go leave what runs alone, as long as those running stay. *)
LEMMA SoundBlocks ==
    ASSUME NEW c \in Seq(Entries), NEW bl, NEW bm, NEW open, NEW k, Sound(c, bl, open, k),
           \A i \in 1..Len(c) : c[i].block \in DOMAIN bl =>
               c[i].block \in DOMAIN bm /\ bm[c[i].block].field = bl[c[i].block].field
    PROVE  Sound(c, bm, open, k)
<1>1. ASSUME NEW i \in 1..Len(c) PROVE Grounded(c, i, bm)
  <2>1. Grounded(c, i, bl) /\ \A j \in 1..i : j \in 1..Len(c)
    BY DEF Sound
  <2> QED BY <2>1 DEF Grounded
<1> QED BY <1>1 DEF Sound
----------------------------------------------------------------------------
(* What is counted is there.                                               *)

LEMMA FiniteParts ==
    ASSUME Typed
    PROVE  /\ IsFiniteSet(DOMAIN heap) /\ IsFiniteSet(DOMAIN blocks)
           /\ IsFiniteSet(DOMAIN objects) /\ IsFiniteSet(DOMAIN due)
           /\ DOMAIN Fields(blocks) = DOMAIN blocks
           /\ DOMAIN Payloads(heap) = DOMAIN heap
<1>1. IsFiniteSet(DOMAIN heap)
  BY FS_Subset DEF Typed, HeapOK
<1>2. IsFiniteSet(DOMAIN blocks)
  BY FS_Subset DEF Typed, BlocksOK
<1>3. IsFiniteSet(DOMAIN objects)
  BY FS_Subset DEF Typed, ObjectsOK
<1>4. IsFiniteSet(DOMAIN due)
  <2>1. DOMAIN due = 1..Len(due) /\ Len(due) \in Int /\ 1 \in Int
    BY DEF Typed
  <2> QED BY <2>1, FS_Interval
<1> QED BY <1>1, <1>2, <1>3, <1>4 DEF Fields, Payloads

LEMMA Tallies ==
    ASSUME Typed, NEW v, NEW d
    PROVE  /\ Tally(Fields(blocks), v) \in Nat /\ Tally(Payloads(heap), v) \in Nat
           /\ Tally(due, d) \in Nat
           /\ InFrame(frame, v) \in Nat /\ ToHeap(frame, v) \in Nat
           /\ Kept(heap, frame, v) \in Nat
           /\ Hit(held, v) \in Nat /\ Hit(owner, v) \in Nat /\ Hit(Hand(ctl), v) \in Nat
<1>1. Tally(Fields(blocks), v) \in Nat /\ Tally(Payloads(heap), v) \in Nat /\ Tally(due, d) \in Nat
  BY FiniteParts, TallyType
<1> QED BY <1>1 DEF InFrame, ToHeap, Kept, Hit

LEMMA StructThere ==
    ASSUME IInv, NEW s \in Structs,
           \/ \E b \in DOMAIN blocks : blocks[b].field = s
           \/ frame.open /\ frame.fwd = s
           \/ \E i \in DOMAIN due : due[i] = Item("struct", s)
    PROVE  s \in DOMAIN heap /\ heap[s].refs \in Nat \ {0}
<1>1. Typed /\ StructSum(s) = Refs(heap, s)
  BY DEF IInv, Counted, StructsEven
<1> DEFINE n == Tally(Fields(blocks), s)  m == ToHeap(frame, s)  k == Tally(due, Item("struct", s))
<1>2. n \in Nat /\ m \in Nat /\ k \in Nat
  BY <1>1, Tallies
<1>3. n >= 1 \/ m >= 1 \/ k >= 1
  <2>1. CASE \E b \in DOMAIN blocks : blocks[b].field = s
    <3>1. \E b \in DOMAIN Fields(blocks) : Fields(blocks)[b] = s
      BY <2>1 DEF Fields
    <3> QED BY <1>1, <3>1, FiniteParts, TallyType
  <2>2. CASE frame.open /\ frame.fwd = s
    BY <2>2 DEF ToHeap, Hit
  <2>3. CASE \E i \in DOMAIN due : due[i] = Item("struct", s)
    BY <1>1, <2>3, FiniteParts, TallyType
  <2> QED BY <2>1, <2>2, <2>3
<1>4. Refs(heap, s) = n + m + k
  BY <1>1 DEF StructSum
<1> HIDE DEF n, m, k
<1>5. Refs(heap, s) >= 1
  BY <1>2, <1>3, <1>4
<1>6. s \in DOMAIN heap
  BY <1>5 DEF Refs
<1> QED BY <1>1, <1>6 DEF Typed, HeapOK, HeapRecords

LEMMA BlockThere ==
    ASSUME IInv, NEW b \in Blocks,
           \/ held = b
           \/ kind = "block" /\ \E h \in DOMAIN heap : heap[h].payload = b
           \/ kind = "block" /\ frame.open /\ frame.payload = b
           \/ \E i \in DOMAIN due : due[i] = Item("block", b)
    PROVE  b \in DOMAIN blocks /\ blocks[b].refs \in Nat \ {0} /\ blocks[b].field \in Structs
<1>1. Typed /\ BlockSum(b) = Refs(blocks, b)
  BY DEF IInv, Counted, BlocksEven
<1> DEFINE l == Hit(held, b)  n == Hit(Hand(ctl), b)  t == Tally(Payloads(heap), b)
           f == InFrame(frame, b)  k == Tally(due, Item("block", b))
<1>2. l \in Nat /\ n \in Nat /\ t \in Nat /\ f \in Nat /\ k \in Nat
  BY <1>1, Tallies
<1>3. l >= 1 \/ (kind = "block" /\ t >= 1) \/ (kind = "block" /\ f >= 1) \/ k >= 1
  <2>1. CASE held = b
    BY <2>1 DEF Hit
  <2>2. CASE kind = "block" /\ \E h \in DOMAIN heap : heap[h].payload = b
    <3>1. \E h \in DOMAIN Payloads(heap) : Payloads(heap)[h] = b
      BY <2>2 DEF Payloads
    <3> QED BY <1>1, <2>2, <3>1, FiniteParts, TallyType
  <2>3. CASE kind = "block" /\ frame.open /\ frame.payload = b
    BY <2>3 DEF InFrame, Hit
  <2>4. CASE \E i \in DOMAIN due : due[i] = Item("block", b)
    BY <1>1, <2>4, FiniteParts, TallyType
  <2> QED BY <2>1, <2>2, <2>3, <2>4
<1>4. Refs(blocks, b) = l + n + (IF kind = "block" THEN t + f ELSE 0) + k
  BY <1>1 DEF BlockSum, Kept
<1> HIDE DEF l, n, t, f, k
<1>5. Refs(blocks, b) >= 1
  BY <1>2, <1>3, <1>4
<1>6. b \in DOMAIN blocks
  BY <1>5 DEF Refs
<1> QED BY <1>1, <1>6 DEF Typed, BlocksOK, BlockRecords

LEMMA ObjectThere ==
    ASSUME IInv, NEW o \in Objects,
           \/ owner = o
           \/ kind = "strong" /\ \E h \in DOMAIN heap : heap[h].payload = o
           \/ kind = "strong" /\ frame.open /\ frame.payload = o
           \/ \E i \in DOMAIN due : due[i] = Item("object", o)
    PROVE  o \in DOMAIN objects /\ objects[o] \in Nat \ {0}
<1>1. Typed /\ ObjectSum(o) = Uses(objects, o)
  BY DEF IInv, Counted, ObjectsEven
<1> DEFINE l == Hit(owner, o)  n == Hit(Hand(ctl), o)  t == Tally(Payloads(heap), o)
           f == InFrame(frame, o)  k == Tally(due, Item("object", o))
<1>2. l \in Nat /\ n \in Nat /\ t \in Nat /\ f \in Nat /\ k \in Nat
  BY <1>1, Tallies
<1>3. l >= 1 \/ (kind = "strong" /\ t >= 1) \/ (kind = "strong" /\ f >= 1) \/ k >= 1
  <2>1. CASE owner = o
    BY <2>1 DEF Hit
  <2>2. CASE kind = "strong" /\ \E h \in DOMAIN heap : heap[h].payload = o
    <3>1. \E h \in DOMAIN Payloads(heap) : Payloads(heap)[h] = o
      BY <2>2 DEF Payloads
    <3> QED BY <1>1, <2>2, <3>1, FiniteParts, TallyType
  <2>3. CASE kind = "strong" /\ frame.open /\ frame.payload = o
    BY <2>3 DEF InFrame, Hit
  <2>4. CASE \E i \in DOMAIN due : due[i] = Item("object", o)
    BY <1>1, <2>4, FiniteParts, TallyType
  <2> QED BY <2>1, <2>2, <2>3, <2>4
<1>4. Uses(objects, o) = l + (IF kind = "strong" THEN n + (t + f) ELSE 0) + k
  BY <1>1 DEF ObjectSum, Kept
<1> HIDE DEF l, n, t, f, k
<1>5. Uses(objects, o) >= 1
  BY <1>2, <1>3, <1>4
<1>6. o \in DOMAIN objects
  BY <1>5 DEF Uses
<1> QED BY <1>1, <1>6 DEF Typed, ObjectsOK

(* The address that running code reaches x by. *)
At(a) == IF a = Stack THEN frame.open /\ frame.fwd = Stack ELSE a \in DOMAIN heap

LEMMA SeesOpen ==
    ASSUME IInv, Sees, Slot = Stack
    PROVE  frame.open
<1>1. CASE InFunction
  BY <1>1 DEF Sees
<1>2. CASE ~InFunction
  <2>1. PICK i \in DOMAIN ctl : ctl[i].type = "body"
    BY <1>2 DEF InFunction
  <2>2. Len(ctl) \in 1..Len(ctl) /\ DOMAIN ctl = 1..Len(ctl) /\ ctl # <<>>
    BY <2>1 DEF IInv, Typed
  <2>3. InScope(ctl, Len(ctl), frame.open) /\ ctl[Len(ctl)].slot = Stack
    BY <2>1, <2>2 DEF IInv, Sound, Slot
  <2> QED BY <2>1, <2>2, <2>3 DEF InScope
<1> QED BY <1>1, <1>2

LEMMA StoreOpen ==
    ASSUME IInv, ctl # <<>>, Top.dst = "x", Slot = Stack
    PROVE  frame.open
<1>1. Len(ctl) \in 1..Len(ctl) /\ ctl[Len(ctl)].dst = "x"
  BY DEF IInv, Typed, Top
<1>2. InScope(ctl, Len(ctl), frame.open) /\ ctl[Len(ctl)].slot = Stack
  BY <1>1 DEF IInv, Sound, Slot
<1> QED BY <1>1, <1>2 DEF InScope

LEMMA SlotType ==
    ASSUME IInv
    PROVE  Slot \in Slots /\ Slot = Place(ctl) /\ Fwd(Slot) \in Slots
<1>1. ctl # <<>> => ctl[Len(ctl)] \in Entries
  BY DEF IInv, Typed
<1>2. Slot \in Slots /\ Slot = Place(ctl)
  BY <1>1 DEF Slot, Place, Entries, Slots
<1> QED BY <1>2 DEF Fwd, IInv, Typed, FrameOK, Slots

LEMMA Reached ==
    ASSUME IInv, Slot = Stack => frame.open
    PROVE  At(Fwd(Slot))
<1>1. CASE Slot = Stack
  <2>1. frame.open /\ Fwd(Slot) = frame.fwd /\ frame.fwd \in Slots
    BY <1>1 DEF Fwd, IInv, Typed, FrameOK
  <2>2. frame.fwd # Stack => frame.fwd \in DOMAIN heap
    BY <2>1, StructThere DEF Slots
  <2> QED BY <2>1, <2>2 DEF At
<1>2. CASE Slot # Stack
  <2>1. ctl # <<>> /\ Len(ctl) \in 1..Len(ctl) /\ Slot = ctl[Len(ctl)].slot
    BY <1>2 DEF Slot, IInv, Typed
  <2>2. Grounded(ctl, Len(ctl), blocks)
    BY <2>1 DEF IInv, Sound
  <2>3. PICK j \in 1..Len(ctl) : ctl[j].block \in DOMAIN blocks /\ blocks[ctl[j].block].field = Slot
    BY <1>2, <2>1, <2>2 DEF Grounded
  <2>4. Slot \in Structs
    BY <1>2, SlotType DEF Slots
  <2>5. Slot \in DOMAIN heap
    BY <2>3, <2>4, StructThere
  <2> QED BY <1>2, <2>5 DEF At, Fwd
<1> QED BY <1>1, <1>2

LEMMA PayloadType ==
    ASSUME IInv, NEW a, At(a)
    PROVE  Payload(a) \in ValuesOf(kind)
BY DEF IInv, Typed, FrameOK, HeapOK, HeapRecords, At, Payload
----------------------------------------------------------------------------
(* Steps that touch no reference.                                          *)

(* Nothing that holds a reference changes. *)
LEMMA Uncounted ==
    ASSUME IInv, UNCHANGED <<kind, frame, heap, blocks, objects, held, owner, due>>,
           \A v \in Blocks \cup Objects : Hit(Hand(ctl), v)' = Hit(Hand(ctl), v)
    PROVE  Counted'
<1>1. ASSUME NEW t \in Structs PROVE (StructSum(t) = Refs(heap, t))'
  BY DEF IInv, Counted, StructsEven, StructSum
<1>2. ASSUME NEW b \in Blocks PROVE (BlockSum(b) = Refs(blocks, b))'
  BY DEF IInv, Counted, BlocksEven, BlockSum
<1>3. ASSUME NEW o \in Objects PROVE (ObjectSum(o) = Uses(objects, o))'
  BY DEF IInv, Counted, ObjectsEven, ObjectSum
<1> QED BY <1>1, <1>2, <1>3 DEF Counted, StructsEven, BlocksEven, ObjectsEven

LEMMA InitPushed ==
    ASSUME IInv, NEW f \in Entries, ctl' = Append(ctl, f),
           UNCHANGED <<kind, frame, heap>>,
           f.op # "init",
           f.dst = "x" => ~Owns \/ \A i \in DOMAIN ctl : ctl[i].op # "init"
    PROVE  InitAlone'
<1> DEFINE n == Len(ctl)
<1>1. /\ n \in Nat /\ DOMAIN ctl = 1..n /\ Len(ctl') = n + 1 /\ ctl'[n + 1] = f
      /\ \A i \in 1..n : ctl'[i] = ctl[i]
      /\ ctl = <<>> <=> n = 0
  BY DEF IInv, Typed
<1> HIDE DEF n
<1>2. SUFFICES ASSUME Owns', ctl'[1].op = "init"
               PROVE  /\ frame'.open
                      /\ Payload(Fwd(Stack))' = Nil
                      /\ \A i \in 2..(n + 1) : ctl'[i].dst # "x"
  BY <1>1 DEF InitAlone
<1>3. n >= 1 /\ ctl[1].op = "init" /\ Owns
  BY <1>1, <1>2 DEF Owns
<1>4. frame.open /\ Payload(Fwd(Stack)) = Nil /\ \A i \in 2..n : ctl[i].dst # "x"
  BY <1>1, <1>3 DEF IInv, InitAlone, n
<1>5. f.dst # "x"
  BY <1>1, <1>3
<1>6. Payload(Fwd(Stack))' = Payload(Fwd(Stack))
  BY DEF Payload, Fwd
<1> QED BY <1>1, <1>4, <1>5, <1>6

LEMMA InitPopped ==
    ASSUME IInv, ctl # <<>>, ctl' = Pop, UNCHANGED <<kind, frame, heap>>
    PROVE  InitAlone'
<1> DEFINE n == Len(ctl)
<1>1. /\ n \in Nat \ {0} /\ ctl' \in Seq(Entries) /\ Len(ctl') = n - 1
      /\ \A i \in 1..(n - 1) : ctl'[i] = ctl[i]
  BY Popped DEF IInv, Typed, Pop
<1>2. SUFFICES ASSUME Owns', ctl' # <<>>, ctl'[1].op = "init"
               PROVE  /\ frame'.open
                      /\ Payload(Fwd(Stack))' = Nil
                      /\ \A i \in 2..(n - 1) : ctl'[i].dst # "x"
  BY <1>1 DEF InitAlone
<1>3. n > 1 /\ ctl[1].op = "init" /\ Owns
  BY <1>1, <1>2 DEF Owns
<1>4. frame.open /\ Payload(Fwd(Stack)) = Nil /\ \A i \in 2..n : ctl[i].dst # "x"
  BY <1>1, <1>3 DEF IInv, InitAlone
<1>5. Payload(Fwd(Stack))' = Payload(Fwd(Stack))
  BY DEF Payload, Fwd
<1> QED BY <1>1, <1>4, <1>5

LEMMA InitGiven ==
    ASSUME IInv, ctl # <<>>, Len(ctl') = Len(ctl),
           \A i \in 1..Len(ctl) : ctl'[i].op = ctl[i].op /\ ctl'[i].dst = ctl[i].dst,
           ctl' \in Seq(Entries), UNCHANGED kind, frame'.open = frame.open,
           frame.open /\ Payload(Fwd(Stack)) = Nil => Payload(Fwd(Stack))' = Nil
    PROVE  InitAlone'
<1>1. Len(ctl) \in Nat \ {0}
  BY DEF IInv, Typed
<1>2. SUFFICES ASSUME Owns', ctl'[1].op = "init"
               PROVE  /\ frame'.open
                      /\ Payload(Fwd(Stack))' = Nil
                      /\ \A i \in 2..Len(ctl) : ctl'[i].dst # "x"
  BY <1>1 DEF InitAlone
<1>3. Owns /\ ctl[1].op = "init"
  BY <1>1, <1>2 DEF Owns
<1>4. frame.open /\ Payload(Fwd(Stack)) = Nil /\ \A i \in 2..Len(ctl) : ctl[i].dst # "x"
  BY <1>3 DEF IInv, InitAlone
<1> QED BY <1>1, <1>4

(* An assignment begun or a block called. *)
LEMMA Pushed ==
    ASSUME IInv, NEW f \in Entries, ctl' = Append(ctl, f), Unmoved, Ready,
           EntryOK(f, kind), f.val = Unset, f.op # "init",
           f.dst = "x" => ~Owns \/ \A i \in DOMAIN ctl : ctl[i].op # "init",
           f.block # Nil => f.block \in DOMAIN blocks,
           \/ f.slot = Slot
           \/ f.block \in DOMAIN blocks /\ blocks[f.block].field = f.slot,
           f.slot = Stack =>
               frame.open \/ (f.type = "store" /\ f.dst = "held" /\ Slot = Stack)
    PROVE  IInv'
<1>1. Typed /\ Sound(ctl, blocks, frame.open, kind) /\ ctl \in Seq(Entries) /\ frame.open \in BOOLEAN
  BY DEF IInv, Typed, FrameOK
<1>2. Hand(ctl) = Unset
  BY DEF Ready, Hand
<1>3. Slot = Place(ctl)
  BY SlotType
<1>4. ctl' \in Seq(Entries) /\ Sound(ctl', blocks, frame.open, kind)
  BY <1>1, <1>2, <1>3, SoundPush
<1>5. Hand(ctl') = Unset
  BY <1>1 DEF Hand
<1>6. Typed'
  BY <1>1, <1>4 DEF Typed, Unmoved
<1>7. Sound(ctl, blocks, frame.open, kind)'
  BY <1>4 DEF Unmoved
<1>8. InitAlone'
  BY InitPushed DEF Unmoved
<1>9. Counted'
  BY <1>2, <1>5, Uncounted DEF Unmoved
<1> QED BY <1>6, <1>7, <1>8, <1>9 DEF IInv

LEMMA StoreEntry ==
    ASSUME IInv, NEW dst \in {"x", "held"}, NEW op \in {"assign", "compound", "init"},
           NEW addr \in Slots \cup {Nil}
    PROVE  /\ Store(dst, op, addr) \in Entries
           /\ Store(dst, op, addr).type = "store" /\ Store(dst, op, addr).dst = dst
           /\ Store(dst, op, addr).op = op /\ Store(dst, op, addr).addr = addr
           /\ Store(dst, op, addr).slot = Slot /\ Store(dst, op, addr).block = Nil
           /\ Store(dst, op, addr).val = Unset
BY SlotType DEF Store, Entries

LEMMA BodyEntry ==
    ASSUME NEW b \in Blocks \cup {Nil}, NEW slot \in Slots
    PROVE  /\ Body(b, slot) \in Entries
           /\ Body(b, slot).type = "body" /\ Body(b, slot).dst = "none"
           /\ Body(b, slot).op = "call" /\ Body(b, slot).slot = slot
           /\ Body(b, slot).block = b /\ Body(b, slot).val = Unset
BY DEF Body, Entries

LEMMA BeginAssignKeeps ==
    ASSUME IInv, Counting, BeginAssign
    PROVE  IInv'
<1> DEFINE f == Store("x", "assign", Fwd(Slot))
<1>1. Ready /\ Sees /\ Unmoved /\ ctl' = Append(ctl, f)
  BY DEF BeginAssign, Push
<1>2. ~Owns \/ \A i \in DOMAIN ctl : ctl[i].op # "init"
  BY DEF BeginAssign, Counting
<1>3. /\ f \in Entries /\ f.type = "store" /\ f.dst = "x" /\ f.op = "assign"
      /\ f.slot = Slot /\ f.block = Nil /\ f.val = Unset
  BY SlotType, StoreEntry
<1> HIDE DEF f
<1>4. EntryOK(f, kind)
  BY <1>3 DEF EntryOK
<1>5. f.slot = Stack => frame.open
  BY <1>1, <1>3, SeesOpen
<1> QED BY <1>1, <1>2, <1>3, <1>4, <1>5, Pushed

LEMMA BeginCompoundKeeps ==
    ASSUME IInv, BeginCompound
    PROVE  IInv'
<1> DEFINE f == Store("x", "compound", Fwd(Slot))
<1>1. Ready /\ Sees /\ Unmoved /\ ctl' = Append(ctl, f) /\ kind = "int"
  BY DEF BeginCompound, Push
<1>2. ~Owns
  BY <1>1 DEF Owns
<1>3. /\ f \in Entries /\ f.type = "store" /\ f.dst = "x" /\ f.op = "compound"
      /\ f.slot = Slot /\ f.block = Nil /\ f.val = Unset /\ f.addr = Fwd(Slot) /\ Fwd(Slot) \in Slots
  BY SlotType, StoreEntry
<1> HIDE DEF f
<1>4. EntryOK(f, kind)
  BY <1>1, <1>3 DEF EntryOK
<1>5. f.slot = Stack => frame.open
  BY <1>1, <1>3, SeesOpen
<1> QED BY <1>1, <1>2, <1>3, <1>4, <1>5, Pushed

LEMMA BeginHeldKeeps ==
    ASSUME IInv, BeginHeld
    PROVE  IInv'
<1> DEFINE f == Store("held", "assign", Nil)
<1>1. Ready /\ Unmoved /\ ctl' = Append(ctl, f)
  BY DEF BeginHeld, Push
<1>2. /\ f \in Entries /\ f.type = "store" /\ f.dst = "held" /\ f.op = "assign"
      /\ f.slot = Slot /\ f.block = Nil /\ f.val = Unset
  BY StoreEntry
<1> HIDE DEF f
<1>3. EntryOK(f, kind)
  BY <1>2 DEF EntryOK
<1> QED BY <1>1, <1>2, <1>3, Pushed

(* The body of a block that is alive. *)
LEMMA Called ==
    ASSUME IInv, Ready, Unmoved, NEW b \in Blocks, b \in DOMAIN blocks, blocks[b].field \in Structs,
           ctl' = Append(ctl, Body(b, blocks[b].field))
    PROVE  IInv'
<1> DEFINE f == Body(b, blocks[b].field)
<1>1. /\ f \in Entries /\ f.type = "body" /\ f.dst = "none" /\ f.op = "call"
      /\ f.slot = blocks[b].field /\ f.block = b /\ f.val = Unset
  BY BodyEntry DEF Slots
<1>2. ctl' = Append(ctl, f)
  OBVIOUS
<1> HIDE DEF f
<1>3. EntryOK(f, kind) /\ f.slot # Stack
  BY <1>1 DEF EntryOK
<1> QED BY <1>1, <1>2, <1>3, Pushed

LEMMA CallHeldKeeps ==
    ASSUME IInv, CallHeld
    PROVE  IInv'
<1>1. held \in Blocks /\ Ready /\ Unmoved /\ ctl' = Append(ctl, Body(held, blocks[held].field))
  BY DEF CallHeld, Invoke, Push, IInv, Typed
<1>2. held \in DOMAIN blocks /\ blocks[held].field \in Structs
  BY <1>1, BlockThere
<1> QED BY <1>1, <1>2, Called

LEMMA CallXKeeps ==
    ASSUME IInv, CallX
    PROVE  IInv'
<1> DEFINE a == Fwd(Slot)  b == Payload(a)
<1>1. /\ Ready /\ Sees /\ Unmoved /\ kind = "block" /\ b # Nil
      /\ ctl' = Append(ctl, Body(b, blocks[b].field))
  BY DEF CallX, Invoke, Push
<1>2. At(a)
  BY <1>1, SeesOpen, Reached
<1>3. b \in ValuesOf(kind)
  BY <1>2, PayloadType
<1>4. b \in Blocks
  BY <1>1, <1>3 DEF ValuesOf
<1>5. \/ \E h \in DOMAIN heap : heap[h].payload = b
      \/ frame.open /\ frame.payload = b
  BY <1>2 DEF At, Payload
<1> HIDE DEF b
<1>6. b \in DOMAIN blocks /\ blocks[b].field \in Structs
  BY <1>1, <1>4, <1>5, BlockThere
<1> QED BY <1>1, <1>4, <1>6, Called

LEMMA CallLiteralKeeps ==
    ASSUME IInv, CallLiteral
    PROVE  IInv'
<1> DEFINE f == Body(Nil, Slot)
<1>1. Ready /\ Sees /\ Unmoved /\ ctl' = Append(ctl, f)
  BY DEF CallLiteral, Invoke, Push
<1>2. /\ f \in Entries /\ f.type = "body" /\ f.dst = "none" /\ f.op = "call"
      /\ f.slot = Slot /\ f.block = Nil /\ f.val = Unset
  BY SlotType, BodyEntry
<1> HIDE DEF f
<1>3. EntryOK(f, kind)
  BY <1>2 DEF EntryOK
<1>4. f.slot = Stack => frame.open
  BY <1>1, <1>2, SeesOpen
<1> QED BY <1>1, <1>2, <1>3, <1>4, Pushed

LEMMA ReturnKeeps ==
    ASSUME IInv, Return
    PROVE  IInv'
<1>1. Ready /\ ctl # <<>> /\ ctl' = Pop /\ Unmoved
  BY DEF Return
<1>2. Typed /\ ctl \in Seq(Entries) /\ Sound(ctl, blocks, frame.open, kind)
  BY DEF IInv, Typed
<1>3. ctl' \in Seq(Entries) /\ Sound(ctl', blocks, frame.open, kind) /\ Hand(ctl') = Unset
  BY <1>1, <1>2, SoundPop DEF Pop
<1>4. Hand(ctl) = Unset
  BY <1>1 DEF Ready, Hand
<1>5. Typed' /\ Sound(ctl, blocks, frame.open, kind)'
  BY <1>1, <1>2, <1>3 DEF Typed, Unmoved
<1>6. InitAlone'
  BY <1>1, InitPopped DEF Unmoved
<1>7. Counted'
  BY <1>1, <1>3, <1>4, Uncounted DEF Unmoved
<1> QED BY <1>5, <1>6, <1>7 DEF IInv
----------------------------------------------------------------------------
(* Right sides.                                                            *)

LEMMA Evaluates ==
    ASSUME IInv, Ready, ctl # <<>>, Top.type = "store", NEW v \in Values, Evaluated(v),
           v \in (IF Top.dst = "x" THEN ValuesOf(kind) ELSE Blocks \cup {Nil})
    PROVE  /\ ctl' \in Seq(Entries) /\ Sound(ctl', blocks, frame.open, kind)
           /\ Hand(ctl) = Unset /\ Hand(ctl') = v
           /\ Len(ctl') = Len(ctl)
           /\ \A i \in 1..Len(ctl) : /\ ctl'[i].dst = ctl[i].dst /\ ctl'[i].op = ctl[i].op
                                    /\ ctl'[i].slot = ctl[i].slot /\ ctl'[i].addr = ctl[i].addr
<1>1. ctl' = Given(ctl, v)
  BY DEF Evaluated, Given
<1>2. ctl \in Seq(Entries) /\ Sound(ctl, blocks, frame.open, kind)
  BY DEF IInv, Typed
<1>3. Hand(ctl) = Unset
  BY DEF Ready, Hand
<1>4. ctl[Len(ctl)].type = "store"
      /\ v \in (IF ctl[Len(ctl)].dst = "x" THEN ValuesOf(kind) ELSE Blocks \cup {Nil})
  BY DEF Top
<1> QED BY <1>1, <1>2, <1>3, <1>4, SoundGiven

(* A value that is no reference. *)
LEMMA ValuePlain ==
    ASSUME IInv, Ready, ctl # <<>>, Top.type = "store", NEW v \in Values, Evaluated(v), Unmoved,
           v \in (IF Top.dst = "x" THEN ValuesOf(kind) ELSE Blocks \cup {Nil}),
           v \notin Blocks \cup Objects
    PROVE  IInv'
<1>1. /\ ctl' \in Seq(Entries) /\ Sound(ctl', blocks, frame.open, kind)
      /\ Hand(ctl) = Unset /\ Hand(ctl') = v /\ Len(ctl') = Len(ctl)
      /\ \A i \in 1..Len(ctl) : ctl'[i].dst = ctl[i].dst /\ ctl'[i].op = ctl[i].op
  BY Evaluates
<1>2. Typed' /\ Sound(ctl, blocks, frame.open, kind)'
  BY <1>1 DEF IInv, Typed, Unmoved
<1>3. InitAlone'
  BY <1>1, InitGiven DEF Unmoved, Payload, Fwd
<1>4. \A w \in Blocks \cup Objects : Hit(Hand(ctl), w)' = Hit(Hand(ctl), w)
  BY <1>1 DEF Hit
<1>5. Counted'
  BY <1>4, Uncounted DEF Unmoved
<1> QED BY <1>2, <1>3, <1>5 DEF IInv

LEMMA ValueNilKeeps ==
    ASSUME IInv, ValueNil
    PROVE  IInv'
<1>1. /\ Ready /\ ctl # <<>> /\ Top.type = "store" /\ Evaluated(Nil) /\ Unmoved
      /\ Top.dst = "held" \/ (Top.dst = "x" /\ Helpers)
  BY DEF ValueNil, Waiting
<1>2. kind \in Kinds
  BY DEF IInv, Typed
<1>3. Nil \in (IF Top.dst = "x" THEN ValuesOf(kind) ELSE Blocks \cup {Nil})
  BY <1>1, <1>2 DEF Helpers, ValuesOf
<1> QED BY <1>1, <1>3, ValuePlain DEF Values

LEMMA ValueIntKeeps ==
    ASSUME IInv, ValueInt
    PROVE  IInv'
<1>1. /\ Ready /\ ctl # <<>> /\ Top.type = "store" /\ Unmoved
      /\ Top.dst = "x" /\ kind = "int"
  BY DEF ValueInt, Waiting
<1>2. PICK v \in Ints : Evaluated(v)
  BY DEF ValueInt
<1>3. v \in (IF Top.dst = "x" THEN ValuesOf(kind) ELSE Blocks \cup {Nil}) /\ v \in Values
  BY <1>1 DEF ValuesOf, Values
<1>4. v \notin Blocks \cup Objects
  OBVIOUS
<1> QED BY <1>1, <1>2, <1>3, <1>4, ValuePlain

(* A block with one reference more or less. *)
LEMMA BlockRefs ==
    ASSUME Typed, NEW b \in DOMAIN blocks, NEW n \in Nat \ {0},
           blocks' = [blocks EXCEPT ![b].refs = n]
    PROVE  /\ BlocksOK(blocks')
           /\ DOMAIN blocks' = DOMAIN blocks
           /\ \A c \in DOMAIN blocks : blocks'[c].field = blocks[c].field
           /\ \A c \in Blocks : c # b => Refs(blocks', c) = Refs(blocks, c)
           /\ Refs(blocks', b) = n
           /\ \A t : Tally(Fields(blocks'), t) = Tally(Fields(blocks), t)
<1>1. /\ DOMAIN blocks \subseteq Blocks /\ DOMAIN blocks' = DOMAIN blocks
      /\ \A c \in DOMAIN blocks : blocks[c] \in BlockRecords
      /\ blocks'[b] = [blocks[b] EXCEPT !.refs = n]
      /\ \A c \in DOMAIN blocks : c # b => blocks'[c] = blocks[c]
  BY DEF Typed, BlocksOK
<1>2. blocks'[b] \in BlockRecords /\ blocks'[b].refs = n /\ blocks'[b].field = blocks[b].field
  BY <1>1 DEF BlockRecords
<1>3. \A c \in DOMAIN blocks : blocks'[c].field = blocks[c].field
  BY <1>1, <1>2
<1>4. Alike(Fields(blocks'), Fields(blocks))
  BY <1>1, <1>3 DEF Fields, Alike
<1>5. ASSUME NEW t PROVE Tally(Fields(blocks'), t) = Tally(Fields(blocks), t)
  BY <1>4, TallySame
<1>6. BlocksOK(blocks')
  BY <1>1, <1>2 DEF BlocksOK
<1>7. \A c \in Blocks : c # b => Refs(blocks', c) = Refs(blocks, c)
  BY <1>1 DEF Refs
<1>8. Refs(blocks', b) = n
  BY <1>1, <1>2 DEF Refs
<1> QED BY <1>1, <1>3, <1>5, <1>6, <1>7, <1>8

LEMMA ObjectRefs ==
    ASSUME Typed, NEW o \in DOMAIN objects, NEW n \in Nat \ {0},
           objects' = [objects EXCEPT ![o] = n]
    PROVE  /\ ObjectsOK(objects')
           /\ \A p \in Objects : p # o => Uses(objects', p) = Uses(objects, p)
           /\ Uses(objects', o) = n
BY DEF Typed, ObjectsOK, Uses

LEMMA ObjectMade ==
    ASSUME Typed, NEW o \in Objects \ DOMAIN objects, objects' = With(objects, o, 1)
    PROVE  /\ ObjectsOK(objects')
           /\ \A p \in Objects : p # o => Uses(objects', p) = Uses(objects, p)
           /\ Uses(objects, o) = 0 /\ Uses(objects', o) = 1
BY DEF Typed, ObjectsOK, Uses, With

LEMMA ValueHeldKeeps ==
    ASSUME IInv, ValueHeld
    PROVE  IInv'
<1>1. /\ Ready /\ ctl # <<>> /\ Top.type = "store" /\ Top.dst = "x" /\ kind = "block"
      /\ held # Nil /\ Evaluated(held)
      /\ blocks' = [blocks EXCEPT ![held].refs = @ + 1]
      /\ UNCHANGED <<kind, frame, heap, objects, weaks, held, owner, due, last>>
  BY DEF ValueHeld, Waiting
<1>2. Typed /\ held \in Blocks /\ Counted
  BY <1>1 DEF IInv, Typed
<1>3. held \in DOMAIN blocks /\ blocks[held].refs \in Nat \ {0}
  BY <1>2, BlockThere
<1> DEFINE n == blocks[held].refs + 1
<1>4. n \in Nat \ {0} /\ blocks' = [blocks EXCEPT ![held].refs = n] /\ Refs(blocks, held) = n - 1
  BY <1>1, <1>3 DEF Refs
<1> HIDE DEF n
<1>5. /\ BlocksOK(blocks')
      /\ DOMAIN blocks' = DOMAIN blocks
      /\ \A c \in DOMAIN blocks : blocks'[c].field = blocks[c].field
      /\ \A c \in Blocks : c # held => Refs(blocks', c) = Refs(blocks, c)
      /\ Refs(blocks', held) = n
      /\ \A t : Tally(Fields(blocks'), t) = Tally(Fields(blocks), t)
  BY <1>2, <1>3, <1>4, BlockRefs
<1>6. held \in Values /\ held \in (IF Top.dst = "x" THEN ValuesOf(kind) ELSE Blocks \cup {Nil})
  BY <1>1, <1>2 DEF Values, ValuesOf
<1>7. /\ ctl' \in Seq(Entries) /\ Sound(ctl', blocks, frame.open, kind)
      /\ Hand(ctl) = Unset /\ Hand(ctl') = held /\ Len(ctl') = Len(ctl)
      /\ \A i \in 1..Len(ctl) : ctl'[i].dst = ctl[i].dst /\ ctl'[i].op = ctl[i].op
  BY <1>1, <1>6, Evaluates
<1>8. Typed'
  BY <1>1, <1>2, <1>5, <1>7 DEF Typed
<1>9. Sound(ctl, blocks, frame.open, kind)'
  BY <1>1, <1>5, <1>7, SoundBlocks
<1>10. InitAlone'
  BY <1>1, <1>7, InitGiven DEF Payload, Fwd
<1>11. StructsEven'
  BY <1>1, <1>2, <1>5 DEF Counted, StructsEven, StructSum
<1>12. ASSUME NEW b \in Blocks PROVE (BlockSum(b) = Refs(blocks, b))'
  <2>1. BlockSum(b) = Refs(blocks, b)
    BY <1>2 DEF Counted, BlocksEven
  <2>2. /\ Hit(held, b) \in Nat /\ Kept(heap, frame, b) \in Nat /\ Tally(due, Item("block", b)) \in Nat
    BY <1>2, Tallies
  <2>3. Hit(Hand(ctl), b) = 0 /\ Hit(Hand(ctl'), b) = Hit(held, b)
    BY <1>7 DEF Hit
  <2>4. BlockSum(b)' = BlockSum(b) + Hit(held, b)
    BY <1>1, <2>2, <2>3 DEF BlockSum
  <2>5. Refs(blocks', b) = Refs(blocks, b) + Hit(held, b)
    <3>1. CASE b = held
      BY <1>4, <1>5, <3>1 DEF Hit
    <3>2. CASE b # held
      <4>1. Refs(blocks, b) \in Nat
        BY <2>1, <2>2, <2>3 DEF BlockSum
      <4> QED BY <1>5, <3>2, <4>1 DEF Hit
    <3> QED BY <3>1, <3>2
  <2> QED BY <2>1, <2>4, <2>5
<1>13. ASSUME NEW o \in Objects PROVE (ObjectSum(o) = Uses(objects, o))'
  BY <1>1, <1>2 DEF Counted, ObjectsEven, ObjectSum
<1> QED BY <1>8, <1>9, <1>10, <1>11, <1>12, <1>13 DEF IInv, Counted, BlocksEven, ObjectsEven

LEMMA ValueOwnerKeeps ==
    ASSUME IInv, ValueOwner
    PROVE  IInv'
<1>1. /\ Ready /\ ctl # <<>> /\ Top.type = "store" /\ Top.dst = "x" /\ kind \in {"strong", "weak"}
      /\ owner # Nil /\ Evaluated(owner)
      /\ objects' = IF Owns THEN [objects EXCEPT ![owner] = @ + 1] ELSE objects
      /\ UNCHANGED <<kind, frame, heap, blocks, weaks, held, owner, due, last>>
  BY DEF ValueOwner, Waiting
<1>2. Typed /\ owner \in Objects /\ Counted
  BY <1>1 DEF IInv, Typed
<1>3. owner \in DOMAIN objects /\ objects[owner] \in Nat \ {0}
  BY <1>2, ObjectThere
<1>4. owner \in Values /\ owner \in (IF Top.dst = "x" THEN ValuesOf(kind) ELSE Blocks \cup {Nil})
  BY <1>1, <1>2 DEF Values, ValuesOf
<1>5. /\ ctl' \in Seq(Entries) /\ Sound(ctl', blocks, frame.open, kind)
      /\ Hand(ctl) = Unset /\ Hand(ctl') = owner /\ Len(ctl') = Len(ctl)
      /\ \A i \in 1..Len(ctl) : ctl'[i].dst = ctl[i].dst /\ ctl'[i].op = ctl[i].op
  BY <1>1, <1>4, Evaluates
<1>6. Sound(ctl, blocks, frame.open, kind)'
  BY <1>1, <1>5
<1>7. InitAlone'
  BY <1>1, <1>5, InitGiven DEF Payload, Fwd
<1>8. StructsEven'
  BY <1>1, <1>2 DEF Counted, StructsEven, StructSum
<1>9. BlocksEven'
  <2>1. \A b \in Blocks : Hit(Hand(ctl'), b) = Hit(Hand(ctl), b)
    BY <1>2, <1>5 DEF Hit
  <2> QED BY <1>1, <1>2, <2>1 DEF Counted, BlocksEven, BlockSum
<1>10. CASE kind = "strong"
  <2> DEFINE n == objects[owner] + 1
  <2>1. n \in Nat \ {0} /\ objects' = [objects EXCEPT ![owner] = n] /\ Uses(objects, owner) = n - 1
    BY <1>1, <1>3, <1>10 DEF Uses, Owns
  <2> HIDE DEF n
  <2>2. /\ ObjectsOK(objects')
        /\ \A p \in Objects : p # owner => Uses(objects', p) = Uses(objects, p)
        /\ Uses(objects', owner) = n
    BY <1>2, <1>3, <2>1, ObjectRefs
  <2>3. ASSUME NEW o \in Objects PROVE (ObjectSum(o) = Uses(objects, o))'
    <3>1. ObjectSum(o) = Uses(objects, o)
      BY <1>2 DEF Counted, ObjectsEven
    <3>2. Hit(owner, o) \in Nat /\ Kept(heap, frame, o) \in Nat /\ Tally(due, Item("object", o)) \in Nat
      BY <1>2, Tallies
    <3>3. Hit(Hand(ctl), o) = 0 /\ Hit(Hand(ctl'), o) = Hit(owner, o)
      BY <1>5 DEF Hit
    <3>4. ObjectSum(o)' = ObjectSum(o) + Hit(owner, o)
      BY <1>1, <1>10, <3>2, <3>3 DEF ObjectSum
    <3>5. Uses(objects', o) = Uses(objects, o) + Hit(owner, o)
      <4>1. CASE o = owner
        BY <2>1, <2>2, <4>1 DEF Hit
      <4>2. CASE o # owner
        <5>1. Uses(objects, o) \in Nat
          BY <3>1, <3>2, <3>3 DEF ObjectSum
        <5> QED BY <2>2, <4>2, <5>1 DEF Hit
      <4> QED BY <4>1, <4>2
    <3> QED BY <3>1, <3>4, <3>5
  <2>4. Typed'
    BY <1>1, <1>2, <1>5, <2>2 DEF Typed
  <2> QED BY <1>6, <1>7, <1>8, <1>9, <2>3, <2>4 DEF IInv, Counted, ObjectsEven
<1>11. CASE kind = "weak"
  <2>1. objects' = objects
    BY <1>1, <1>11 DEF Owns
  <2>2. ObjectsEven'
    BY <1>1, <1>2, <1>11, <2>1 DEF Counted, ObjectsEven, ObjectSum
  <2>3. Typed'
    BY <1>1, <1>2, <1>5, <2>1 DEF Typed
  <2> QED BY <1>6, <1>7, <1>8, <1>9, <2>2, <2>3 DEF IInv, Counted
<1> QED BY <1>1, <1>10, <1>11

LEMMA ValueNewKeeps ==
    ASSUME IInv, ValueNew
    PROVE  IInv'
<1>1. PICK o \in Objects \ DOMAIN objects : objects' = With(objects, o, 1) /\ Evaluated(o)
  BY DEF ValueNew
<1>2. /\ Ready /\ ctl # <<>> /\ Top.type = "store" /\ Top.dst = "x" /\ kind = "strong"
      /\ UNCHANGED <<kind, frame, heap, blocks, weaks, held, owner, due, last>>
  BY DEF ValueNew, Waiting
<1>3. Typed /\ Counted
  BY DEF IInv
<1>4. o \in Values /\ o \in (IF Top.dst = "x" THEN ValuesOf(kind) ELSE Blocks \cup {Nil})
  BY <1>2 DEF Values, ValuesOf
<1>5. /\ ctl' \in Seq(Entries) /\ Sound(ctl', blocks, frame.open, kind)
      /\ Hand(ctl) = Unset /\ Hand(ctl') = o /\ Len(ctl') = Len(ctl)
      /\ \A i \in 1..Len(ctl) : ctl'[i].dst = ctl[i].dst /\ ctl'[i].op = ctl[i].op
  BY <1>1, <1>2, <1>4, Evaluates
<1>6. Sound(ctl, blocks, frame.open, kind)'
  BY <1>2, <1>5
<1>7. InitAlone'
  BY <1>2, <1>5, InitGiven DEF Payload, Fwd
<1>8. StructsEven'
  BY <1>2, <1>3 DEF Counted, StructsEven, StructSum
<1>9. BlocksEven'
  <2>1. \A b \in Blocks : Hit(Hand(ctl'), b) = Hit(Hand(ctl), b)
    BY <1>5 DEF Hit
  <2> QED BY <1>2, <1>3, <2>1 DEF Counted, BlocksEven, BlockSum
<1>10. /\ ObjectsOK(objects')
       /\ \A p \in Objects : p # o => Uses(objects', p) = Uses(objects, p)
       /\ Uses(objects, o) = 0 /\ Uses(objects', o) = 1
  BY <1>1, <1>3, ObjectMade
<1>11. ASSUME NEW p \in Objects PROVE (ObjectSum(p) = Uses(objects, p))'
  <2>1. ObjectSum(p) = Uses(objects, p)
    BY <1>3 DEF Counted, ObjectsEven
  <2>2. Hit(owner, p) \in Nat /\ Kept(heap, frame, p) \in Nat /\ Tally(due, Item("object", p)) \in Nat
    BY <1>3, Tallies
  <2>3. Hit(Hand(ctl), p) = 0 /\ Hit(Hand(ctl'), p) = Hit(o, p)
    BY <1>5 DEF Hit
  <2> DEFINE ow == Hit(owner, p)  kp == Kept(heap, frame, p)  du == Tally(due, Item("object", p))
  <2>4. ObjectSum(p)' = ObjectSum(p) + Hit(o, p)
    <3>1. ObjectSum(p) = ow + (Hit(Hand(ctl), p) + kp) + du
      BY <1>2 DEF ObjectSum
    <3>2. ObjectSum(p)' = ow + (Hit(Hand(ctl'), p) + kp) + du
      BY <1>2 DEF ObjectSum
    <3>3. ow \in Nat /\ kp \in Nat /\ du \in Nat /\ Hit(o, p) \in Nat
      BY <2>2 DEF Hit
    <3> HIDE DEF ow, kp, du
    <3> QED BY <2>3, <3>1, <3>2, <3>3
  <2>5. Uses(objects', p) = Uses(objects, p) + Hit(o, p)
    <3>1. CASE p = o
      BY <1>10, <3>1 DEF Hit
    <3>2. CASE p # o
      <4>1. Uses(objects, p) \in Nat
        BY <2>1, <2>2, <2>3 DEF ObjectSum
      <4> QED BY <1>10, <3>2, <4>1 DEF Hit
    <3> QED BY <3>1, <3>2
  <2> QED BY <2>1, <2>4, <2>5
<1>12. Typed'
  BY <1>2, <1>3, <1>5, <1>10 DEF Typed
<1> QED BY <1>6, <1>7, <1>8, <1>9, <1>11, <1>12 DEF IInv, Counted, ObjectsEven
----------------------------------------------------------------------------
(* Debts.                                                                  *)

LEMMA DebtTally ==
    ASSUME NEW what, NEW id, id # Nil => Item(what, id) \in Items, NEW w, NEW k, k # Nil
    PROVE  /\ Debt(what, id) \in Seq(Items) /\ Len(Debt(what, id)) <= 1
           /\ w # what => Tally(Debt(what, id), Item(w, k)) = 0
           /\ w = what => Tally(Debt(what, id), Item(w, k)) = Hit(id, k)
<1> DEFINE a == Item(what, id)  d == Item(w, k)
<1>1. Tally(<<>>, d) = 0 /\ <<>> \in Seq(Items)
  BY TallyEmpty
<1>2. CASE id = Nil
  BY <1>1, <1>2 DEF Debt, Hit
<1>3. CASE id # Nil
  <2>1. Debt(what, id) = <<a>> /\ a \in Items
    BY <1>3 DEF Debt, Item
  <2>2. a = d <=> (what = w /\ id = k)
    BY DEF Item
  <2> HIDE DEF a, d
  <2>3. <<a>> \in Seq(Items) /\ Len(<<a>>) = 1
    BY <2>1
  <2>5. Tally(<<a>>, d) = Hit(a, d)
    BY TallyOne
  <2>6. w # what => Hit(a, d) = 0
    BY <2>2 DEF Hit
  <2>7. w = what => Hit(a, d) = Hit(id, k)
    BY <2>2 DEF Hit
  <2> QED BY <2>1, <2>3, <2>5, <2>6, <2>7 DEF d
<1> QED BY <1>2, <1>3

LEMMA OwedPayload ==
    ASSUME NEW v, v = Nil \/ v \in ValuesOf(kind), NEW k, k # Nil
    PROVE  /\ DebtOf(v) \in Seq(Items) /\ Len(DebtOf(v)) <= 1
           /\ Tally(DebtOf(v), Item("struct", k)) = 0
           /\ Tally(DebtOf(v), Item("block", k)) = IF kind = "block" THEN Hit(v, k) ELSE 0
           /\ Tally(DebtOf(v), Item("object", k)) = IF kind = "strong" THEN Hit(v, k) ELSE 0
<1>1. CASE ~Owns
  <2>1. DebtOf(v) = <<>> /\ kind # "block" /\ kind # "strong"
    BY <1>1 DEF DebtOf, Owns
  <2> QED BY <2>1, TallyEmpty
<1>2. CASE kind = "block"
  <2>1. DebtOf(v) = Debt("block", v) /\ (v # Nil => Item("block", v) \in Items)
    BY <1>2 DEF DebtOf, Owns, ValuesOf, Items
  <2>2. DebtOf(v) \in Seq(Items) /\ Len(DebtOf(v)) <= 1
    BY <2>1, DebtTally
  <2>3. Tally(DebtOf(v), Item("struct", k)) = 0 /\ Tally(DebtOf(v), Item("object", k)) = 0
    BY <2>1, DebtTally
  <2>4. Tally(DebtOf(v), Item("block", k)) = Hit(v, k)
    BY <2>1, DebtTally
  <2> QED BY <1>2, <2>2, <2>3, <2>4
<1>3. CASE kind = "strong"
  <2>1. DebtOf(v) = Debt("object", v) /\ (v # Nil => Item("object", v) \in Items)
    BY <1>3 DEF DebtOf, Owns, ValuesOf, Items
  <2>2. DebtOf(v) \in Seq(Items) /\ Len(DebtOf(v)) <= 1
    BY <2>1, DebtTally
  <2>3. Tally(DebtOf(v), Item("struct", k)) = 0 /\ Tally(DebtOf(v), Item("block", k)) = 0
    BY <2>1, DebtTally
  <2>4. Tally(DebtOf(v), Item("object", k)) = Hit(v, k)
    BY <2>1, DebtTally
  <2> QED BY <1>3, <2>2, <2>3, <2>4
<1> QED BY <1>1, <1>2, <1>3 DEF Owns

LEMMA OwedStruct ==
    ASSUME Typed, NEW slot \in Slots, NEW k, k # Nil
    PROVE  /\ DisposeByref(slot) \in Seq(Items) /\ Len(DisposeByref(slot)) <= 1
           /\ k # Stack => Tally(DisposeByref(slot), Item("struct", k)) = Hit(Fwd(slot), k)
           /\ Tally(DisposeByref(slot), Item("block", k)) = 0
           /\ Tally(DisposeByref(slot), Item("object", k)) = 0
<1> DEFINE a == Fwd(slot)
<1>1. a \in Slots
  BY DEF Fwd, Typed, FrameOK, Slots
<1>2. CASE a = Stack
  <2>1. DisposeByref(slot) = <<>>
    BY <1>2 DEF DisposeByref
  <2>2. k # Stack => Hit(a, k) = 0
    BY <1>2 DEF Hit
  <2> QED BY <2>1, <2>2, TallyEmpty
<1>3. CASE a # Stack
  <2>1. DisposeByref(slot) = Debt("struct", a) /\ a \in Structs /\ Item("struct", a) \in Items
    BY <1>1, <1>3 DEF DisposeByref, Slots, Items
  <2> HIDE DEF a
  <2>2. DisposeByref(slot) \in Seq(Items) /\ Len(DisposeByref(slot)) <= 1
    BY <2>1, DebtTally
  <2>3. Tally(DisposeByref(slot), Item("struct", k)) = Hit(a, k)
    BY <2>1, DebtTally
  <2>4. Tally(DisposeByref(slot), Item("block", k)) = 0 /\ Tally(DisposeByref(slot), Item("object", k)) = 0
    BY <2>1, DebtTally
  <2> QED BY <2>2, <2>3, <2>4 DEF a
<1> QED BY <1>2, <1>3

----------------------------------------------------------------------------
(* Stores.                                                                 *)

LEMMA Popping ==
    ASSUME IInv, ctl # <<>>, ctl' = Pop
    PROVE  /\ ctl' \in Seq(Entries) /\ Sound(ctl', blocks, frame.open, kind) /\ Hand(ctl') = Unset
           /\ Hand(ctl) = Top.val /\ Top \in Entries /\ EntryOK(Top, kind)
           /\ Top.op = "init" => Len(ctl) = 1
           /\ Slot = Top.slot
<1>1. ctl \in Seq(Entries) /\ Sound(ctl, blocks, frame.open, kind)
  BY DEF IInv, Typed
<1>2. ctl' \in Seq(Entries) /\ Sound(ctl', blocks, frame.open, kind) /\ Hand(ctl') = Unset
  BY <1>1, SoundPop DEF Pop
<1>3. Len(ctl) \in 1..Len(ctl) /\ Top = ctl[Len(ctl)]
  BY <1>1 DEF Top
<1>4. EntryOK(Top, kind) /\ (Top.op = "init" => Len(ctl) = 1)
  BY <1>1, <1>3 DEF Sound
<1>5. Top \in Entries
  BY <1>1, <1>3
<1> QED BY <1>2, <1>3, <1>4, <1>5 DEF Hand, Slot

LEMMA StoreHeldKeeps ==
    ASSUME IInv, StoreHeld
    PROVE  IInv'
<1>1. /\ due = <<>> /\ ctl # <<>> /\ Top.dst = "held" /\ Top.val # Unset
      /\ held' = Top.val /\ due' = Debt("block", held) /\ ctl' = Pop
      /\ UNCHANGED <<kind, frame, heap, blocks, objects, weaks, owner, last>>
  BY DEF StoreHeld, Arrived
<1>2. /\ ctl' \in Seq(Entries) /\ Sound(ctl', blocks, frame.open, kind) /\ Hand(ctl') = Unset
      /\ Hand(ctl) = Top.val /\ EntryOK(Top, kind)
  BY <1>1, Popping
<1>3. held' \in Blocks \cup {Nil}
  BY <1>1, <1>2 DEF EntryOK
<1>4. Typed /\ Counted /\ held \in Blocks \cup {Nil}
  BY DEF IInv, Typed
<1>5. held # Nil => Item("block", held) \in Items
  BY <1>4 DEF Items
<1>6. due' \in Seq(Items)
  BY <1>1, <1>5, DebtTally
<1>7. Typed' /\ Sound(ctl, blocks, frame.open, kind)'
  BY <1>1, <1>2, <1>3, <1>4, <1>6 DEF Typed
<1>8. InitAlone'
  BY <1>1, InitPopped
<1>9. ASSUME NEW s \in Structs PROVE (StructSum(s) = Refs(heap, s))'
  <2>1. Tally(due, Item("struct", s)) = 0
    BY <1>1, TallyEmpty
  <2>2. s # Nil
    OBVIOUS
  <2>3. Tally(due', Item("struct", s)) = 0
    BY <1>1, <1>5, <2>2, DebtTally
  <2> QED BY <1>1, <1>4, <2>1, <2>3 DEF Counted, StructsEven, StructSum
<1>10. ASSUME NEW b \in Blocks PROVE (BlockSum(b) = Refs(blocks, b))'
  <2>1. Tally(due, Item("block", b)) = 0
    BY <1>1, TallyEmpty
  <2>2. b # Nil
    OBVIOUS
  <2>3. Tally(due', Item("block", b)) = Hit(held, b)
    BY <1>1, <1>5, <2>2, DebtTally
  <2>4. Hit(Hand(ctl), b) = Hit(held', b) /\ Hit(Hand(ctl'), b) = 0
    BY <1>1, <1>2 DEF Hit
  <2>5. Kept(heap, frame, b) \in Nat /\ Hit(held, b) \in Nat /\ Hit(held', b) \in Nat
    BY <1>4, Tallies DEF Hit
  <2>6. BlockSum(b)' = BlockSum(b)
    <3> DEFINE kp == IF kind = "block" THEN Kept(heap, frame, b) ELSE 0
    <3>1. kp \in Nat
      BY <2>5
    <3>2. BlockSum(b) = Hit(held, b) + Hit(held', b) + kp + 0
      BY <2>1, <2>4 DEF BlockSum
    <3>3. BlockSum(b)' = Hit(held', b) + 0 + kp + Hit(held, b)
      BY <1>1, <2>3, <2>4 DEF BlockSum
    <3> HIDE DEF kp
    <3> QED BY <2>5, <3>1, <3>2, <3>3
  <2> QED BY <1>1, <1>4, <2>6 DEF Counted, BlocksEven
<1>11. ASSUME NEW o \in Objects PROVE (ObjectSum(o) = Uses(objects, o))'
  <2>1. Tally(due, Item("object", o)) = 0
    BY <1>1, TallyEmpty
  <2>2. o # Nil
    OBVIOUS
  <2>3. Tally(due', Item("object", o)) = 0
    BY <1>1, <1>5, <2>2, DebtTally
  <2>4. Hit(Hand(ctl), o) = 0 /\ Hit(Hand(ctl'), o) = 0
    BY <1>1, <1>2, <1>3 DEF Hit
  <2> QED BY <1>1, <1>4, <2>1, <2>3, <2>4 DEF Counted, ObjectsEven, ObjectSum
<1> QED BY <1>7, <1>8, <1>9, <1>10, <1>11 DEF IInv, Counted, StructsEven, BlocksEven, ObjectsEven

LEMMA StoreOwnerKeeps ==
    ASSUME IInv, StoreOwner
    PROVE  IInv'
<1>1. PICK o \in (Objects \ DOMAIN objects) \cup {Nil} :
          /\ o # owner /\ owner' = o
          /\ objects' = IF o = Nil THEN objects ELSE With(objects, o, 1)
  BY DEF StoreOwner
<1>2. /\ Ready /\ due' = Debt("object", owner)
      /\ UNCHANGED <<kind, frame, heap, blocks, weaks, held, ctl, last>>
  BY DEF StoreOwner
<1>3. Typed /\ Counted /\ owner \in Objects \cup {Nil} /\ due = <<>>
  BY <1>2 DEF IInv, Typed, Ready
<1>4. owner # Nil => Item("object", owner) \in Items
  BY <1>3 DEF Items
<1>5. due' \in Seq(Items)
  BY <1>2, <1>4, DebtTally
<1>6. /\ ObjectsOK(objects')
      /\ \A p \in Objects : p # o => Uses(objects', p) = Uses(objects, p)
      /\ o # Nil => Uses(objects, o) = 0 /\ Uses(objects', o) = 1
  <2>1. CASE o = Nil
    BY <1>1, <1>3, <2>1 DEF Typed
  <2>2. CASE o # Nil
    BY <1>1, <1>3, <2>2, ObjectMade
  <2> QED BY <2>1, <2>2
<1>7. Typed'
  BY <1>1, <1>2, <1>3, <1>5, <1>6 DEF Typed
<1>8. Sound(ctl, blocks, frame.open, kind)'
  BY <1>2 DEF IInv
<1>9. InitAlone'
  BY <1>2 DEF IInv, InitAlone, Owns, Payload, Fwd
<1>10. ASSUME NEW s \in Structs PROVE (StructSum(s) = Refs(heap, s))'
  <2>1. Tally(due, Item("struct", s)) = 0
    BY <1>3, TallyEmpty
  <2>2. s # Nil
    OBVIOUS
  <2>3. Tally(due', Item("struct", s)) = 0
    BY <1>2, <1>4, <2>2, DebtTally
  <2> QED BY <1>2, <1>3, <2>1, <2>3 DEF Counted, StructsEven, StructSum
<1>11. ASSUME NEW b \in Blocks PROVE (BlockSum(b) = Refs(blocks, b))'
  <2>1. Tally(due, Item("block", b)) = 0
    BY <1>3, TallyEmpty
  <2>2. b # Nil
    OBVIOUS
  <2>3. Tally(due', Item("block", b)) = 0
    BY <1>2, <1>4, <2>2, DebtTally
  <2> QED BY <1>2, <1>3, <2>1, <2>3 DEF Counted, BlocksEven, BlockSum
<1>12. ASSUME NEW p \in Objects PROVE (ObjectSum(p) = Uses(objects, p))'
  <2>1. Tally(due, Item("object", p)) = 0
    BY <1>3, TallyEmpty
  <2>2. p # Nil
    OBVIOUS
  <2>3. Tally(due', Item("object", p)) = Hit(owner, p)
    BY <1>2, <1>4, <2>2, DebtTally
  <2> DEFINE kp == IF kind = "strong" THEN Hit(Hand(ctl), p) + Kept(heap, frame, p) ELSE 0
  <2>4. kp \in Nat /\ Hit(owner, p) \in Nat /\ Hit(o, p) \in Nat
    BY <1>3, Tallies DEF Hit
  <2>5. ObjectSum(p) = Hit(owner, p) + kp + 0
    BY <2>1 DEF ObjectSum
  <2>6. ObjectSum(p)' = Hit(o, p) + kp + Hit(owner, p)
    BY <1>1, <1>2, <2>3 DEF ObjectSum
  <2> HIDE DEF kp
  <2>7. ObjectSum(p) = Uses(objects, p)
    BY <1>3 DEF Counted, ObjectsEven
  <2>8. Uses(objects', p) = Uses(objects, p) + Hit(o, p)
    <3>1. CASE p = o
      BY <1>6, <2>2, <3>1 DEF Hit
    <3>2. CASE p # o
      BY <1>6, <2>4, <2>5, <2>7, <3>2 DEF Hit
    <3> QED BY <3>1, <3>2
  <2> QED BY <2>4, <2>5, <2>6, <2>7, <2>8
<1> QED BY <1>7, <1>8, <1>9, <1>10, <1>11, <1>12 DEF IInv, Counted, StructsEven, BlocksEven, ObjectsEven
(* A structure whose payload is set. *)
LEMMA PayloadSet ==
    ASSUME Typed, NEW a, NEW v \in ValuesOf(kind), heap' = [heap EXCEPT ![a].payload = v]
    PROVE  /\ HeapOK(heap', kind) /\ DOMAIN heap' = DOMAIN heap
           /\ \A s \in Structs : Refs(heap', s) = Refs(heap, s)
           /\ \A h \in DOMAIN heap : heap'[h].era = heap[h].era
           /\ \A h \in DOMAIN heap : heap'[h].payload = IF h = a THEN v ELSE heap[h].payload
           /\ a \in DOMAIN heap => OneMoved(Payloads(heap), Payloads(heap'), a)
           /\ a \in DOMAIN heap => Payloads(heap')[a] = v /\ Payloads(heap)[a] = heap[a].payload
<1>1. /\ DOMAIN heap \subseteq Structs /\ DOMAIN heap' = DOMAIN heap
      /\ \A h \in DOMAIN heap : heap[h] \in HeapRecords(kind)
      /\ \A h \in DOMAIN heap : heap'[h] = IF h = a THEN [heap[h] EXCEPT !.payload = v] ELSE heap[h]
  BY DEF Typed, HeapOK
<1>2. \A h \in DOMAIN heap :
          /\ heap'[h] \in HeapRecords(kind) /\ heap'[h].refs = heap[h].refs
          /\ heap'[h].era = heap[h].era
          /\ heap'[h].payload = IF h = a THEN v ELSE heap[h].payload
  BY <1>1 DEF HeapRecords
<1>3. \A s \in Structs : Refs(heap', s) = Refs(heap, s)
  BY <1>1, <1>2 DEF Refs
<1>4. a \in DOMAIN heap => OneMoved(Payloads(heap), Payloads(heap'), a)
  BY <1>1, <1>2 DEF OneMoved, Payloads
<1>5. a \in DOMAIN heap => Payloads(heap')[a] = v /\ Payloads(heap)[a] = heap[a].payload
  BY <1>1, <1>2 DEF Payloads
<1>6. HeapOK(heap', kind)
  BY <1>1, <1>2 DEF HeapOK
<1> QED BY <1>1, <1>2, <1>3, <1>4, <1>5, <1>6

(* Where a store into x goes. *)
StoredAt(a, v) ==
    \/ a = Stack /\ frame' = [frame EXCEPT !.payload = v] /\ UNCHANGED heap
    \/ a # Stack /\ heap' = [heap EXCEPT ![a].payload = v] /\ UNCHANGED frame

LEMMA StoredKeeps ==
    ASSUME Typed, NEW a, NEW v \in ValuesOf(kind), StoredAt(a, v), UNCHANGED kind
    PROVE  /\ FrameOK(frame', kind) /\ HeapOK(heap', kind)
           /\ frame'.open = frame.open /\ frame'.fwd = frame.fwd /\ frame'.era = frame.era
           /\ \A s \in Structs : Refs(heap', s) = Refs(heap, s)
           /\ DOMAIN heap' = DOMAIN heap
           /\ \A h \in DOMAIN heap : heap'[h].era = heap[h].era
<1>1. ValuesOf(kind) \subseteq Values
  BY DEF ValuesOf, Values
<1>2. CASE a = Stack
  <2>1. frame' = [frame EXCEPT !.payload = v] /\ heap' = heap
    BY <1>2 DEF StoredAt
  <2>2. FrameOK(frame', kind) /\ frame'.open = frame.open /\ frame'.fwd = frame.fwd /\ frame'.era = frame.era
    BY <1>1, <2>1 DEF Typed, FrameOK
  <2> QED BY <2>1, <2>2 DEF Typed
<1>3. CASE a # Stack
  <2>1. frame' = frame /\ heap' = [heap EXCEPT ![a].payload = v]
    BY <1>3 DEF StoredAt
  <2> QED BY <2>1, PayloadSet DEF Typed
<1> QED BY <1>2, <1>3

LEMMA StoredMoves ==
    ASSUME Typed, NEW a, At(a), NEW v \in ValuesOf(kind), StoredAt(a, v), UNCHANGED kind, NEW w
    PROVE  /\ Kept(heap, frame, w) \in Nat /\ Kept(heap', frame', w) \in Nat
           /\ Kept(heap', frame', w) + Hit(Payload(a), w) = Kept(heap, frame, w) + Hit(v, w)
<1> DEFINE t == Tally(Payloads(heap), w)  f == InFrame(frame, w)
<1>1. t \in Nat /\ f \in Nat /\ Kept(heap, frame, w) = t + f
  BY Tallies DEF Kept
<1>2. Hit(Payload(a), w) \in Nat /\ Hit(v, w) \in Nat
  BY DEF Hit
<1>3. CASE a = Stack
  <2>1. frame' = [frame EXCEPT !.payload = v] /\ heap' = heap /\ frame.open /\ Payload(a) = frame.payload
    BY <1>3 DEF StoredAt, At, Payload
  <2>2. frame'.open /\ frame'.payload = v
    BY <2>1 DEF Typed, FrameOK
  <2>3. f = Hit(Payload(a), w) /\ Kept(heap', frame', w) = t + Hit(v, w)
    BY <2>1, <2>2 DEF InFrame, Kept
  <2> HIDE DEF t, f
  <2> QED BY <1>1, <1>2, <2>3
<1>4. CASE a # Stack
  <2>1. frame' = frame /\ heap' = [heap EXCEPT ![a].payload = v] /\ a \in DOMAIN heap /\ Payload(a) = heap[a].payload
    BY <1>4 DEF StoredAt, At, Payload
  <2>2. OneMoved(Payloads(heap), Payloads(heap'), a) /\ Payloads(heap')[a] = v /\ Payloads(heap)[a] = Payload(a)
    BY <2>1, PayloadSet
  <2>3. IsFiniteSet(DOMAIN Payloads(heap))
    BY FiniteParts
  <2> DEFINE u == Tally(Payloads(heap'), w)
  <2>4. u \in Nat /\ u + Hit(Payload(a), w) = t + Hit(v, w)
    BY <2>2, <2>3, TallyMoved
  <2>5. Kept(heap', frame', w) = u + f
    BY <2>1 DEF Kept
  <2> HIDE DEF t, f, u
  <2> QED BY <1>1, <1>2, <2>4, <2>5
<1> QED BY <1>3, <1>4

LEMMA StoreXKeeps ==
    ASSUME IInv, StoreX
    PROVE  IInv'
<1> DEFINE at == Target(Top)  v == Top.val
<1>1. /\ due = <<>> /\ ctl # <<>> /\ Top.dst = "x" /\ v # Unset
      /\ StoredAt(at, v) /\ due' = Replaced(Top, at)
      /\ weaks' = IF kind = "weak" THEN weaks \cup {at} ELSE weaks
      /\ last' = [last EXCEPT ![EraOf(Slot)] = v] /\ ctl' = Pop
      /\ UNCHANGED <<kind, blocks, objects, held, owner>>
  BY DEF StoreX, Arrived, StoredAt
<1>2. /\ ctl' \in Seq(Entries) /\ Sound(ctl', blocks, frame.open, kind) /\ Hand(ctl') = Unset
      /\ Hand(ctl) = v /\ EntryOK(Top, kind) /\ (Top.op = "init" => Len(ctl) = 1) /\ Slot = Top.slot
      /\ Top \in Entries
  BY <1>1, Popping
<1>3. v \in ValuesOf(kind)
  BY <1>1, <1>2 DEF EntryOK
<1>4. Typed /\ Counted /\ kind \in Kinds
  BY DEF IInv, Typed
<1>5. /\ FrameOK(frame', kind) /\ HeapOK(heap', kind)
      /\ frame'.open = frame.open /\ frame'.fwd = frame.fwd
      /\ \A s \in Structs : Refs(heap', s) = Refs(heap, s)
  BY <1>1, <1>3, <1>4, StoredKeeps
<1> HIDE DEF at
(* What the store replaces, in a variable that owns. *)
<1>6. ASSUME Owns PROVE At(at) /\ due' = DebtOf(Payload(at))
  <2>1. Top.type = "store"
    BY <1>1, <1>2 DEF EntryOK, Entries
  <2>2. Top.op \in {"assign", "init"}
    BY <1>2, <1>6, <2>1 DEF EntryOK, Entries, Owns
  <2>3. at = Fwd(Slot)
    <3>1. CASE Top.op = "assign"
      BY <3>1 DEF at, Target, Refresh
    <3>2. CASE Top.op = "init"
      BY <1>2, <1>6, <3>2 DEF at, Target, InitTarget, EntryOK
    <3> QED BY <2>2, <3>1, <3>2
  <2>4. At(at)
    BY <1>1, <2>3, StoreOpen, Reached
  <2>5. CASE Top.op = "assign"
    BY <1>1, <2>4, <2>5 DEF Replaced
  <2>6. CASE Top.op = "init"
    <3>1. Slot = Stack /\ Len(ctl) = 1 /\ ctl[1].op = "init"
      BY <1>2, <2>6 DEF EntryOK, Top
    <3>2. Payload(at) = Nil
      BY <1>1, <1>6, <2>3, <3>1 DEF IInv, InitAlone
    <3>3. DebtOf(Payload(at)) = <<>>
      BY <3>2 DEF DebtOf, Debt
    <3> QED BY <1>1, <2>4, <2>6, <3>3 DEF Replaced
  <2> QED BY <2>2, <2>5, <2>6
<1>7. ASSUME ~Owns PROVE due' = <<>>
  BY <1>1, <1>7 DEF Replaced, DebtOf
<1>8. Owns => Payload(at) \in ValuesOf(kind)
  BY <1>6, PayloadType
<1>9. due' \in Seq(Items)
  <2>1. CASE Owns
    BY <1>6, <1>8, <2>1, OwedPayload
  <2>2. CASE ~Owns
    BY <1>7, <2>2
  <2> QED BY <2>1, <2>2
<1>10. last' \in [Eras -> Values]
  BY <1>1, <1>3, <1>4 DEF Typed, ValuesOf, Values
<1>11. Typed'
  BY <1>1, <1>2, <1>4, <1>5, <1>9, <1>10 DEF Typed
<1>12. Sound(ctl, blocks, frame.open, kind)'
  BY <1>1, <1>2, <1>5
<1>13. InitAlone'
  <2> SUFFICES ASSUME Owns', ctl' # <<>>, ctl'[1].op = "init" PROVE FALSE
    BY DEF InitAlone
  <2>1. Len(ctl) \in Nat \ {0} /\ Len(ctl') = Len(ctl) - 1 /\ \A i \in 1..(Len(ctl) - 1) : ctl'[i] = ctl[i]
    BY <1>1, Popped DEF IInv, Typed, Pop
  <2>2. Len(ctl) > 1 /\ ctl[1].op = "init" /\ Owns /\ Len(ctl) \in 2..Len(ctl)
    BY <1>1, <1>2, <2>1 DEF Owns
  <2> QED BY <1>1, <2>2 DEF IInv, InitAlone, Top
(* The debt is for what was replaced, if x owns it. *)
<1>14. ASSUME NEW k, k # Nil
       PROVE  /\ Tally(due, Item("struct", k)) = 0 /\ Tally(due, Item("block", k)) = 0
              /\ Tally(due, Item("object", k)) = 0
              /\ Tally(due', Item("struct", k)) = 0
              /\ Tally(due', Item("block", k)) = IF kind = "block" THEN Hit(Payload(at), k) ELSE 0
              /\ Tally(due', Item("object", k)) = IF kind = "strong" THEN Hit(Payload(at), k) ELSE 0
  <2>1. CASE Owns
    BY <1>1, <1>6, <1>8, <1>14, <2>1, OwedPayload, TallyEmpty
  <2>2. CASE ~Owns
    BY <1>1, <1>7, <2>2, TallyEmpty DEF Owns
  <2> QED BY <2>1, <2>2
<1>15. ASSUME NEW s \in Structs PROVE (StructSum(s) = Refs(heap, s))'
  <2>1. s # Nil
    OBVIOUS
  <2>2. ToHeap(frame', s) = ToHeap(frame, s)
    BY <1>5 DEF ToHeap
  <2> QED BY <1>1, <1>4, <1>5, <1>14, <2>1, <2>2 DEF Counted, StructsEven, StructSum
<1>16. ASSUME NEW b \in Blocks PROVE (BlockSum(b) = Refs(blocks, b))'
  <2>1. b # Nil
    OBVIOUS
  <2>2. BlockSum(b) = Refs(blocks, b)
    BY <1>4 DEF Counted, BlocksEven
  <2>3. Hit(held, b) \in Nat /\ Hit(v, b) \in Nat /\ Hit(Hand(ctl), b) = Hit(v, b) /\ Hit(Hand(ctl'), b) = 0
    BY <1>2 DEF Hit
  <2>4. CASE kind = "block"
    <3> DEFINE old == Hit(Payload(at), b)  k == Kept(heap, frame, b)  m == Kept(heap', frame', b)
    <3>1. At(at)
      BY <1>6, <2>4 DEF Owns
    <3>2. k \in Nat /\ m \in Nat /\ m + old = k + Hit(v, b) /\ old \in Nat
      BY <1>1, <1>3, <1>4, <3>1, StoredMoves DEF Hit
    <3>3. BlockSum(b) = Hit(held, b) + Hit(v, b) + k + 0
      BY <1>14, <2>1, <2>3, <2>4 DEF BlockSum
    <3>4. BlockSum(b)' = Hit(held, b) + 0 + m + old
      BY <1>1, <1>14, <2>1, <2>3, <2>4 DEF BlockSum
    <3> HIDE DEF old, k, m
    <3> QED BY <1>1, <2>2, <2>3, <3>2, <3>3, <3>4
  <2>5. CASE kind # "block"
    <3>1. Hit(v, b) = 0
      BY <1>3, <2>5 DEF ValuesOf, Hit
    <3>2. BlockSum(b)' = BlockSum(b)
      BY <1>1, <1>14, <2>1, <2>3, <2>5, <3>1 DEF BlockSum
    <3> QED BY <1>1, <2>2, <3>2
  <2> QED BY <2>4, <2>5
<1>17. ASSUME NEW o \in Objects PROVE (ObjectSum(o) = Uses(objects, o))'
  <2>1. o # Nil
    OBVIOUS
  <2>2. ObjectSum(o) = Uses(objects, o)
    BY <1>4 DEF Counted, ObjectsEven
  <2>3. Hit(owner, o) \in Nat /\ Hit(v, o) \in Nat /\ Hit(Hand(ctl), o) = Hit(v, o) /\ Hit(Hand(ctl'), o) = 0
    BY <1>2 DEF Hit
  <2>4. CASE kind = "strong"
    <3> DEFINE old == Hit(Payload(at), o)  k == Kept(heap, frame, o)  m == Kept(heap', frame', o)
    <3>1. At(at)
      BY <1>6, <2>4 DEF Owns
    <3>2. k \in Nat /\ m \in Nat /\ m + old = k + Hit(v, o) /\ old \in Nat
      BY <1>1, <1>3, <1>4, <3>1, StoredMoves DEF Hit
    <3>3. ObjectSum(o) = Hit(owner, o) + (Hit(v, o) + k) + 0
      BY <1>14, <2>1, <2>3, <2>4 DEF ObjectSum
    <3>4. ObjectSum(o)' = Hit(owner, o) + (0 + m) + old
      BY <1>1, <1>14, <2>1, <2>3, <2>4 DEF ObjectSum
    <3> HIDE DEF old, k, m
    <3> QED BY <1>1, <2>2, <2>3, <3>2, <3>3, <3>4
  <2>5. CASE kind # "strong"
    BY <1>1, <1>14, <2>1, <2>2, <2>5 DEF ObjectSum
  <2> QED BY <2>4, <2>5
<1> QED BY <1>11, <1>12, <1>13, <1>15, <1>16, <1>17 DEF IInv, Counted, StructsEven, BlocksEven, ObjectsEven
----------------------------------------------------------------------------
(* The scope of x.                                                         *)

(* There are more eras than structures, so one is free. *)
LEMMA FreshEra ==
    ASSUME Typed
    PROVE  Fresh \in Eras /\ \A h \in DOMAIN heap : heap[h].era # Fresh
<1> DEFINE D == DOMAIN heap
           T == {heap[h].era : h \in D}
           f == [h \in D |-> heap[h].era]
<1>1. IsFiniteSet(D) /\ D \subseteq Structs
  BY FiniteParts DEF Typed, HeapOK
<1>2. f \in Surjection(D, T)
  BY DEF Surjection
<1>3. IsFiniteSet(T) /\ Cardinality(T) <= Cardinality(D)
  <2> HIDE DEF T, f, D
  <2> QED BY <1>1, <1>2, FS_Surjection
<1>4. Cardinality(D) <= Cardinality(Structs) /\ Cardinality(Structs) \in Nat /\ Cardinality(D) \in Nat
  BY <1>1, FS_Subset, FS_CardinalityType
<1>5. Cardinality(Eras) = Cardinality(Structs) + 1 /\ IsFiniteSet(Eras)
  <2> DEFINE n == Cardinality(Structs)
  <2>1. n \in Nat /\ 0 \in Int
    BY <1>4
  <2> HIDE DEF n
  <2>2. IsFiniteSet(0..n) /\ Cardinality(0..n) = n + 1
    BY <2>1, FS_Interval
  <2> QED BY <2>2 DEF Eras, n
<1>6. ~(Eras \subseteq T)
  <2> SUFFICES ASSUME Eras \subseteq T PROVE FALSE
    OBVIOUS
  <2> HIDE DEF T, D
  <2>1. Cardinality(Eras) <= Cardinality(T) /\ Cardinality(T) \in Nat
    BY <1>3, FS_Subset, FS_CardinalityType
  <2> QED BY <1>3, <1>4, <1>5, <2>1
<1>7. \E e \in Eras : \A h \in D : heap[h].era # e
  BY <1>6
<1> QED BY <1>7 DEF Fresh

LEMMA Declared ==
    ASSUME IInv, Declare
    PROVE  /\ frame'.open /\ frame'.fwd = Stack /\ (Owns => frame'.payload = Nil)
           /\ FrameOK(frame', kind) /\ last' \in [Eras -> Values]
           /\ ctl = <<>> /\ Counted /\ Typed /\ Hand(ctl) = Unset
           /\ UNCHANGED <<kind, heap, blocks, objects, weaks, held, owner, due>>
           /\ \A k : k # Stack => ToHeap(frame', k) = ToHeap(frame, k)
           /\ Owns => \A k : k # Nil => InFrame(frame', k) = InFrame(frame, k)
<1>1. /\ ctl = <<>> /\ ~frame.open /\ Typed /\ Counted /\ Hand(ctl) = Unset
      /\ UNCHANGED <<kind, heap, blocks, objects, weaks, held, owner, due>>
  BY DEF Declare, IInv, Hand
<1>2. PICK v \in Zero : /\ frame' = [open |-> TRUE, era |-> Fresh, fwd |-> Stack, payload |-> v]
                       /\ last' = [last EXCEPT ![Fresh] = v]
  BY DEF Declare
<1>3. v \in ValuesOf(kind) /\ v \in Values /\ (Owns => v = Nil)
  BY <1>1, <1>2 DEF Zero, Helpers, Owns, ValuesOf, Values, Typed
<1>4. Fresh \in Eras
  BY <1>1, FreshEra
<1>5. FrameOK(frame', kind) /\ last' \in [Eras -> Values]
  BY <1>1, <1>2, <1>3, <1>4 DEF FrameOK, Slots, Typed
<1>6. \A k : k # Stack => ToHeap(frame', k) = ToHeap(frame, k)
  BY <1>1, <1>2 DEF ToHeap, Hit
<1>7. Owns => \A k : k # Nil => InFrame(frame', k) = InFrame(frame, k)
  BY <1>1, <1>2, <1>3 DEF InFrame, Hit
<1> QED BY <1>1, <1>2, <1>3, <1>5, <1>6, <1>7

LEMMA DeclaredCounted ==
    ASSUME IInv, Declare, Hand(ctl') = Unset
    PROVE  Counted'
<1>1. /\ Counted /\ Typed /\ Hand(ctl) = Unset
      /\ UNCHANGED <<kind, heap, blocks, objects, weaks, held, owner, due>>
      /\ \A k : k # Stack => ToHeap(frame', k) = ToHeap(frame, k)
      /\ Owns => \A k : k # Nil => InFrame(frame', k) = InFrame(frame, k)
  BY Declared
<1>2. ASSUME NEW s \in Structs PROVE (StructSum(s) = Refs(heap, s))'
  <2>1. ToHeap(frame', s) = ToHeap(frame, s)
    BY <1>1
  <2> QED BY <1>1, <2>1 DEF Counted, StructsEven, StructSum
<1>3. ASSUME Owns, NEW k, k # Nil PROVE Kept(heap', frame', k) = Kept(heap, frame, k)
  BY <1>1, <1>3 DEF Kept
<1>4. ASSUME NEW b \in Blocks PROVE (BlockSum(b) = Refs(blocks, b))'
  <2>1. kind = "block" => Kept(heap', frame', b) = Kept(heap, frame, b)
    BY <1>3 DEF Owns
  <2> QED BY <1>1, <2>1 DEF Counted, BlocksEven, BlockSum
<1>5. ASSUME NEW o \in Objects PROVE (ObjectSum(o) = Uses(objects, o))'
  <2>1. kind = "strong" => Kept(heap', frame', o) = Kept(heap, frame, o)
    BY <1>3 DEF Owns
  <2> QED BY <1>1, <2>1 DEF Counted, ObjectsEven, ObjectSum
<1> QED BY <1>2, <1>4, <1>5 DEF Counted, StructsEven, BlocksEven, ObjectsEven

LEMMA DeclareOnlyKeeps ==
    ASSUME IInv, DeclareOnly
    PROVE  IInv'
<1>1. Declare /\ ctl' = ctl
  BY DEF DeclareOnly
<1>2. /\ FrameOK(frame', kind) /\ last' \in [Eras -> Values] /\ ctl = <<>> /\ Typed /\ Hand(ctl) = Unset
      /\ UNCHANGED <<kind, heap, blocks, objects, weaks, held, owner, due>>
  BY <1>1, Declared
<1>3. Typed'
  BY <1>1, <1>2 DEF Typed
<1>4. Sound(ctl, blocks, frame.open, kind)'
  BY <1>1, <1>2 DEF Sound
<1>5. InitAlone'
  BY <1>1, <1>2 DEF InitAlone
<1>6. Counted'
  BY <1>1, <1>2, DeclaredCounted
<1> QED BY <1>3, <1>4, <1>5, <1>6 DEF IInv

LEMMA DeclareInitKeeps ==
    ASSUME IInv, DeclareInit
    PROVE  IInv'
<1> DEFINE f == Store("x", "init", Stack)
<1>1. Declare /\ ctl' = Append(ctl, f)
  BY DEF DeclareInit, Push
<1>2. /\ FrameOK(frame', kind) /\ last' \in [Eras -> Values] /\ ctl = <<>> /\ Typed
      /\ UNCHANGED <<kind, heap, blocks, objects, weaks, held, owner, due>>
      /\ frame'.open /\ frame'.fwd = Stack /\ (Owns => frame'.payload = Nil)
  BY <1>1, Declared
<1>3. /\ f \in Entries /\ f.type = "store" /\ f.dst = "x" /\ f.op = "init" /\ f.addr = Stack
      /\ f.slot = Slot /\ f.block = Nil /\ f.val = Unset
  BY StoreEntry DEF Slots
<1>4. Slot = Stack /\ Place(ctl) = Stack /\ Hand(ctl) = Unset
  BY <1>2 DEF Slot, Place, Hand
<1> HIDE DEF f
<1>5. EntryOK(f, kind)
  BY <1>3, <1>4 DEF EntryOK
<1>6. Sound(ctl, blocks, TRUE, kind) /\ ctl \in Seq(Entries)
  BY <1>2 DEF Sound, Typed
<1>7. ctl' \in Seq(Entries) /\ Sound(ctl', blocks, TRUE, kind)
  BY <1>1, <1>2, <1>3, <1>4, <1>5, <1>6, SoundPush
<1>8. ctl' = <<f>>
  BY <1>1, <1>2
<1>9. Typed'
  BY <1>2, <1>7 DEF Typed
<1>10. Sound(ctl, blocks, frame.open, kind)'
  <2>1. frame'.open = TRUE
    BY <1>2 DEF FrameOK
  <2> QED BY <1>2, <1>7, <2>1
<1>11. InitAlone'
  BY <1>2, <1>8 DEF InitAlone, Owns, Payload, Fwd
<1>12. Hand(ctl') = Unset
  BY <1>3, <1>8 DEF Hand
<1> QED BY <1>1, <1>9, <1>10, <1>11, <1>12, DeclaredCounted DEF IInv

LEMMA EndScopeKeeps ==
    ASSUME IInv, EndScope
    PROVE  IInv'
<1> DEFINE p == DebtOf(frame.payload)  q == DisposeByref(Stack)
<1>1. /\ due = <<>> /\ ctl = <<>> /\ frame.open /\ due' = p \o q
      /\ frame' = [frame EXCEPT !.open = FALSE, !.fwd = Stack, !.payload = Nil]
      /\ UNCHANGED <<kind, heap, blocks, objects, weaks, held, owner, ctl, last>>
  BY DEF EndScope, Ready, EndByref
<1>2. Typed /\ Counted /\ frame.payload \in ValuesOf(kind) /\ Stack \in Slots
  BY <1>1 DEF IInv, Typed, FrameOK, Slots
<1>3. FrameOK(frame', kind) /\ ~frame'.open
  BY <1>1, <1>2 DEF Typed, FrameOK, Slots, Values
<1>4. Unset # Nil /\ Unset # Stack
  OBVIOUS
<1>5. p \in Seq(Items) /\ Len(p) <= 1 /\ q \in Seq(Items)
  BY <1>2, <1>4, OwedPayload, OwedStruct
<1>6. ASSUME NEW k, k # Nil
      PROVE  /\ k # Stack => Tally(due', Item("struct", k)) = Hit(frame.fwd, k)
             /\ Tally(due', Item("block", k)) = IF kind = "block" THEN Hit(frame.payload, k) ELSE 0
             /\ Tally(due', Item("object", k)) = IF kind = "strong" THEN Hit(frame.payload, k) ELSE 0
  <2>1. \A d : Tally(p \o q, d) = Tally(p, d) + Tally(q, d)
    <3> HIDE DEF p, q
    <3> QED BY <1>5, TallyBefore
  <2>2. Fwd(Stack) = frame.fwd
    BY DEF Fwd
  <2>3. /\ Tally(p, Item("struct", k)) = 0
        /\ Tally(p, Item("block", k)) = IF kind = "block" THEN Hit(frame.payload, k) ELSE 0
        /\ Tally(p, Item("object", k)) = IF kind = "strong" THEN Hit(frame.payload, k) ELSE 0
    BY <1>2, <1>6, OwedPayload
  <2>4. /\ k # Stack => Tally(q, Item("struct", k)) = Hit(frame.fwd, k)
        /\ Tally(q, Item("block", k)) = 0 /\ Tally(q, Item("object", k)) = 0
    BY <1>2, <1>6, <2>2, OwedStruct
  <2>5. Hit(frame.fwd, k) \in Nat /\ Hit(frame.payload, k) \in Nat
    BY DEF Hit
  <2> HIDE DEF p, q
  <2> QED BY <1>1, <2>1, <2>3, <2>4, <2>5
<1>7. Typed'
  <2>1. due' \in Seq(Items)
    <3> HIDE DEF p, q
    <3> QED BY <1>1, <1>5
  <2> QED BY <1>1, <1>2, <1>3, <2>1 DEF Typed
<1>8. Sound(ctl, blocks, frame.open, kind)'
  BY <1>1 DEF Sound
<1>9. InitAlone'
  BY <1>1 DEF InitAlone
<1>10. ASSUME NEW s \in Structs PROVE (StructSum(s) = Refs(heap, s))'
  <2>1. s # Nil /\ s # Stack
    OBVIOUS
  <2>2. Tally(due, Item("struct", s)) = 0
    BY <1>1, TallyEmpty
  <2>3. ToHeap(frame, s) = Hit(frame.fwd, s) /\ ToHeap(frame', s) = 0
    BY <1>1, <1>3 DEF ToHeap
  <2>4. Hit(frame.fwd, s) \in Nat /\ Tally(Fields(blocks), s) \in Nat
    BY <1>2, Tallies DEF Hit
  <2>5. StructSum(s)' = StructSum(s)
    BY <1>1, <1>6, <2>1, <2>2, <2>3, <2>4 DEF StructSum
  <2> QED BY <1>1, <1>2, <2>5 DEF Counted, StructsEven
<1>11. ASSUME NEW k PROVE /\ Kept(heap, frame, k) = Tally(Payloads(heap), k) + Hit(frame.payload, k)
                          /\ Kept(heap', frame', k) = Tally(Payloads(heap), k)
                          /\ Tally(Payloads(heap), k) \in Nat /\ Hit(frame.payload, k) \in Nat
  <2>1. Tally(Payloads(heap), k) \in Nat
    BY <1>2, Tallies
  <2> QED BY <1>1, <1>3, <2>1 DEF Kept, InFrame, Hit
<1>12. ASSUME NEW b \in Blocks PROVE (BlockSum(b) = Refs(blocks, b))'
  <2>1. b # Nil
    OBVIOUS
  <2>2. Tally(due, Item("block", b)) = 0
    BY <1>1, TallyEmpty
  <2> DEFINE h == Hit(held, b) + Hit(Hand(ctl), b)
             t == IF kind = "block" THEN Tally(Payloads(heap), b) ELSE 0
             w == IF kind = "block" THEN Hit(frame.payload, b) ELSE 0
  <2>3. h \in Nat /\ t \in Nat /\ w \in Nat
    BY <1>11 DEF Hit
  <2>4. BlockSum(b) = h + (t + w) + 0
    BY <1>11, <2>2 DEF BlockSum
  <2>5. BlockSum(b)' = h + t + w
    BY <1>1, <1>6, <1>11, <2>1 DEF BlockSum
  <2> HIDE DEF h, t, w
  <2>6. BlockSum(b)' = BlockSum(b)
    BY <2>3, <2>4, <2>5
  <2> QED BY <1>1, <1>2, <2>6 DEF Counted, BlocksEven
<1>13. ASSUME NEW o \in Objects PROVE (ObjectSum(o) = Uses(objects, o))'
  <2>1. o # Nil
    OBVIOUS
  <2>2. Tally(due, Item("object", o)) = 0
    BY <1>1, TallyEmpty
  <2> DEFINE h == Hit(owner, o)
             n == IF kind = "strong" THEN Hit(Hand(ctl), o) ELSE 0
             t == IF kind = "strong" THEN Tally(Payloads(heap), o) ELSE 0
             w == IF kind = "strong" THEN Hit(frame.payload, o) ELSE 0
  <2>3. h \in Nat /\ n \in Nat /\ t \in Nat /\ w \in Nat
    BY <1>2, <1>11, Tallies
  <2>4. ObjectSum(o) = h + (n + (t + w)) + 0
    BY <1>11, <2>2 DEF ObjectSum
  <2>5. ObjectSum(o)' = h + (n + t) + w
    BY <1>1, <1>6, <1>11, <2>1 DEF ObjectSum
  <2> HIDE DEF h, n, t, w
  <2>6. ObjectSum(o)' = ObjectSum(o)
    BY <2>3, <2>4, <2>5
  <2> QED BY <1>1, <1>2, <2>6 DEF Counted, ObjectsEven
<1> QED BY <1>7, <1>8, <1>9, <1>10, <1>12, <1>13 DEF IInv, Counted, StructsEven, BlocksEven, ObjectsEven
----------------------------------------------------------------------------
(* Copying a block.                                                        *)

(* The structure has one holder more: the new block, and on its first move the
   frame too.  What it holds moves with it. *)
LEMMA Assigned ==
    ASSUME IInv, At(Fwd(Slot)), NEW s \in Structs, Assign(Slot, s), UNCHANGED kind
    PROVE  /\ HeapOK(heap', kind) /\ FrameOK(frame', kind) /\ frame'.open = frame.open
           /\ \A t \in Structs : Refs(heap', t) + ToHeap(frame, t)
                                  = Refs(heap, t) + ToHeap(frame', t) + Hit(s, t)
           /\ Owns => \A v : v # Nil => Kept(heap', frame', v) = Kept(heap, frame, v)
           /\ frame.open /\ Payload(Fwd(Stack)) = Nil => Payload(Fwd(Stack))' = Nil
<1>1. Typed /\ \A t \in Structs : Refs(heap, t) \in Nat
  BY DEF IInv, Typed, HeapOK, HeapRecords, Refs
<1>2. CASE Fwd(Slot) = Stack
  <2> DEFINE r == [refs |-> 2, era |-> frame.era, payload |-> frame.payload]
  <2>1. /\ s \notin DOMAIN heap /\ heap' = With(heap, s, r) /\ frame.open /\ frame.fwd = Stack
        /\ frame' = [frame EXCEPT !.fwd = s, !.payload = LeftBehind]
    BY <1>2 DEF Assign, At
  <2>2. r \in HeapRecords(kind) /\ r.refs = 2 /\ r.payload = frame.payload /\ r.era = frame.era
    BY <1>1, <2>1 DEF Typed, FrameOK, HeapRecords
  <2> HIDE DEF r
  <2>3. /\ DOMAIN heap' = DOMAIN heap \cup {s} /\ heap'[s] = r
        /\ \A h \in DOMAIN heap : heap'[h] = heap[h]
    BY <2>1 DEF With
  <2>4. HeapOK(heap', kind)
    BY <1>1, <2>2, <2>3 DEF Typed, HeapOK
  <2>5. LeftBehind \in Values /\ (Owns => LeftBehind = Nil) /\ (~Owns => LeftBehind = frame.payload)
    BY <1>1 DEF LeftBehind, Typed, FrameOK, Values
  <2>6. /\ frame'.open /\ frame'.fwd = s /\ frame'.payload = LeftBehind
        /\ frame' \in [open : BOOLEAN, era : Eras, fwd : Slots, payload : Values]
    BY <1>1, <2>1, <2>5 DEF Typed, FrameOK, Slots
  <2>7. LeftBehind \in ValuesOf(kind)
    BY <1>1, <2>1, <2>5 DEF Typed, FrameOK, ValuesOf, Owns
  <2>8. FrameOK(frame', kind)
    BY <2>6, <2>7 DEF FrameOK
  <2>9. ASSUME NEW t \in Structs
        PROVE  Refs(heap', t) + ToHeap(frame, t) = Refs(heap, t) + ToHeap(frame', t) + Hit(s, t)
    <3>1. ToHeap(frame, t) = 0 /\ ToHeap(frame', t) = Hit(s, t)
      BY <2>1, <2>6 DEF ToHeap, Hit
    <3>2. CASE t = s
      BY <2>1, <2>2, <2>3, <3>1, <3>2 DEF Refs, Hit
    <3>3. CASE t # s
      BY <1>1, <2>3, <3>1, <3>3 DEF Refs, Hit
    <3> QED BY <3>2, <3>3
  <2>10. ASSUME Owns, NEW v, v # Nil PROVE Kept(heap', frame', v) = Kept(heap, frame, v)
    <3>1. OneMore(Payloads(heap), Payloads(heap'), s) /\ Payloads(heap')[s] = frame.payload
      BY <2>1, <2>2, <2>3 DEF OneMore, Payloads
    <3>2. IsFiniteSet(DOMAIN Payloads(heap))
      BY <1>1, FiniteParts
    <3>3. /\ Tally(Payloads(heap), v) \in Nat
          /\ Tally(Payloads(heap'), v) = Tally(Payloads(heap), v) + Hit(frame.payload, v)
      BY <3>1, <3>2, TallyMore
    <3>4. InFrame(frame, v) = Hit(frame.payload, v) /\ InFrame(frame', v) = 0
      BY <2>1, <2>5, <2>6, <2>10 DEF InFrame, Hit
    <3>5. Hit(frame.payload, v) \in Nat
      BY DEF Hit
    <3> QED BY <3>3, <3>4, <3>5 DEF Kept
  <2>11. Payload(Fwd(Stack)) = frame.payload /\ Payload(Fwd(Stack))' = frame.payload
    BY <2>1, <2>2, <2>3, <2>6 DEF Payload, Fwd
  <2> QED BY <2>1, <2>4, <2>6, <2>8, <2>9, <2>10, <2>11
<1>3. CASE Fwd(Slot) # Stack
  <2>1. s \in DOMAIN heap /\ heap' = [heap EXCEPT ![s].refs = @ + 1] /\ frame' = frame
    BY <1>3 DEF Assign, At
  <2> DEFINE n == heap[s].refs + 1
  <2>0. n \in Nat \ {0} /\ heap' = [heap EXCEPT ![s].refs = n] /\ heap[s] \in HeapRecords(kind)
        /\ heap[s].refs \in Nat /\ n = heap[s].refs + 1
    BY <1>1, <2>1 DEF Typed, HeapOK, HeapRecords
  <2> HIDE DEF n
  <2>2. /\ DOMAIN heap' = DOMAIN heap /\ heap'[s] = [heap[s] EXCEPT !.refs = n]
        /\ \A h \in DOMAIN heap : h # s => heap'[h] = heap[h]
    BY <2>0, <2>1
  <2>3. heap'[s] \in HeapRecords(kind) /\ heap'[s].refs = heap[s].refs + 1 /\ heap'[s].payload = heap[s].payload
        /\ heap[s].refs \in Nat
    BY <2>0, <2>2 DEF HeapRecords
  <2>4. HeapOK(heap', kind)
    BY <1>1, <2>2, <2>3 DEF Typed, HeapOK
  <2>5. ASSUME NEW t \in Structs
        PROVE  Refs(heap', t) + ToHeap(frame, t) = Refs(heap, t) + ToHeap(frame', t) + Hit(s, t)
    <3>1. ToHeap(frame, t) \in Nat
      BY DEF ToHeap, Hit
    <3>2. CASE t = s
      BY <2>1, <2>2, <2>3, <3>1, <3>2 DEF Refs, Hit
    <3>3. CASE t # s
      <4>1. Refs(heap', t) = Refs(heap, t) /\ Hit(s, t) = 0
        BY <2>2, <3>3 DEF Refs, Hit
      <4> QED BY <1>1, <2>1, <3>1, <4>1
    <3> QED BY <3>2, <3>3
  <2>6. Alike(Payloads(heap'), Payloads(heap))
    BY <2>2, <2>3 DEF Alike, Payloads
  <2>7. \A v : Kept(heap', frame', v) = Kept(heap, frame, v)
    BY <2>1, <2>6, TallySame DEF Kept
  <2>8. ASSUME frame.open, Payload(Fwd(Stack)) = Nil PROVE Payload(Fwd(Stack))' = Nil
    <3>1. CASE frame.fwd = Stack
      BY <2>1, <2>8, <3>1 DEF Payload, Fwd
    <3>2. CASE frame.fwd # Stack
      <4>1. frame.fwd \in DOMAIN heap
        BY <1>1, <2>8, <3>2, StructThere DEF Typed, FrameOK, Slots
      <4>2. heap'[frame.fwd].payload = heap[frame.fwd].payload
        BY <2>2, <2>3, <4>1
      <4> QED BY <2>1, <2>8, <3>2, <4>2 DEF Payload, Fwd
    <3> QED BY <3>1, <3>2
  <2> QED BY <1>1, <2>1, <2>4, <2>5, <2>7, <2>8 DEF Typed
<1> QED BY <1>2, <1>3

LEMMA BlockMade ==
    ASSUME Typed, NEW b \in Blocks, b \notin DOMAIN blocks, NEW s \in Structs,
           blocks' = With(blocks, b, [refs |-> 1, field |-> s])
    PROVE  /\ BlocksOK(blocks')
           /\ \A c \in DOMAIN blocks : c \in DOMAIN blocks' /\ blocks'[c].field = blocks[c].field
           /\ \A c \in Blocks : c # b => Refs(blocks', c) = Refs(blocks, c)
           /\ Refs(blocks, b) = 0 /\ Refs(blocks', b) = 1
           /\ \A t : Tally(Fields(blocks'), t) = Tally(Fields(blocks), t) + Hit(s, t)
<1> DEFINE r == [refs |-> 1, field |-> s]
<1>1. r \in BlockRecords /\ r.refs = 1 /\ r.field = s /\ blocks' = With(blocks, b, r)
  BY DEF BlockRecords
<1> HIDE DEF r
<1>2. /\ DOMAIN blocks' = DOMAIN blocks \cup {b} /\ blocks'[b] = r
      /\ \A c \in DOMAIN blocks : blocks'[c] = blocks[c]
  BY <1>1 DEF With
<1>3. BlocksOK(blocks')
  BY <1>1, <1>2 DEF Typed, BlocksOK
<1>4. OneMore(Fields(blocks), Fields(blocks'), b) /\ Fields(blocks')[b] = s
  BY <1>1, <1>2 DEF OneMore, Fields
<1>5. IsFiniteSet(DOMAIN Fields(blocks))
  BY FiniteParts
<1>6. \A t : Tally(Fields(blocks'), t) = Tally(Fields(blocks), t) + Hit(s, t)
  BY <1>4, <1>5, TallyMore
<1>7. Refs(blocks, b) = 0 /\ Refs(blocks', b) = 1
  BY <1>1, <1>2 DEF Refs
<1>8. \A c \in Blocks : c # b => Refs(blocks', c) = Refs(blocks, c)
  BY <1>2 DEF Refs
<1> QED BY <1>2, <1>3, <1>6, <1>7, <1>8

LEMMA ValueCopiedKeeps ==
    ASSUME IInv, ValueCopied
    PROVE  IInv'
<1>1. PICK b \in Blocks : CopyLiteral(b) /\ Evaluated(b)
  BY DEF ValueCopied
<1>2. PICK s \in Structs : Assign(Slot, s) /\ blocks' = With(blocks, b, [refs |-> 1, field |-> s])
  BY <1>1 DEF CopyLiteral
<1>3. /\ b \notin DOMAIN blocks
      /\ Ready /\ ctl # <<>> /\ Top.type = "store"
      /\ (Top.dst = "held" /\ Sees) \/ (Top.dst = "x" /\ kind = "block")
      /\ UNCHANGED <<kind, objects, weaks, held, owner, due, last>>
  BY <1>1 DEF CopyLiteral, ValueCopied, Waiting
<1>4. Typed /\ Counted
  BY DEF IInv
<1>5. At(Fwd(Slot))
  BY <1>3, SeesOpen, StoreOpen, Reached
<1>6. /\ HeapOK(heap', kind) /\ FrameOK(frame', kind) /\ frame'.open = frame.open
      /\ \A t \in Structs : Refs(heap', t) + ToHeap(frame, t)
                             = Refs(heap, t) + ToHeap(frame', t) + Hit(s, t)
      /\ Owns => \A v : v # Nil => Kept(heap', frame', v) = Kept(heap, frame, v)
      /\ frame.open /\ Payload(Fwd(Stack)) = Nil => Payload(Fwd(Stack))' = Nil
  BY <1>2, <1>3, <1>5, Assigned
<1>7. /\ BlocksOK(blocks')
      /\ \A c \in DOMAIN blocks : c \in DOMAIN blocks' /\ blocks'[c].field = blocks[c].field
      /\ \A c \in Blocks : c # b => Refs(blocks', c) = Refs(blocks, c)
      /\ Refs(blocks, b) = 0 /\ Refs(blocks', b) = 1
      /\ \A t : Tally(Fields(blocks'), t) = Tally(Fields(blocks), t) + Hit(s, t)
  BY <1>2, <1>3, <1>4, BlockMade
<1>8. b \in Values /\ b \in (IF Top.dst = "x" THEN ValuesOf(kind) ELSE Blocks \cup {Nil})
  BY <1>3 DEF Values, ValuesOf
<1>9. /\ ctl' \in Seq(Entries) /\ Sound(ctl', blocks, frame.open, kind)
      /\ Hand(ctl) = Unset /\ Hand(ctl') = b /\ Len(ctl') = Len(ctl)
      /\ \A i \in 1..Len(ctl) : ctl'[i].dst = ctl[i].dst /\ ctl'[i].op = ctl[i].op
  BY <1>1, <1>3, <1>8, Evaluates
<1>10. Typed'
  BY <1>3, <1>4, <1>6, <1>7, <1>9 DEF Typed
<1>11. Sound(ctl, blocks, frame.open, kind)'
  BY <1>3, <1>6, <1>7, <1>9, SoundBlocks
<1>12. InitAlone'
  BY <1>3, <1>6, <1>9, InitGiven
<1>13. ASSUME NEW t \in Structs PROVE (StructSum(t) = Refs(heap, t))'
  <2> DEFINE n == Tally(Fields(blocks), t)  q == Tally(due, Item("struct", t))
             x == ToHeap(frame, t)  y == ToHeap(frame', t)
             r == Refs(heap, t)  w == Refs(heap', t)
  <2>1. n \in Nat /\ q \in Nat /\ x \in Nat /\ y \in Nat /\ Hit(s, t) \in Nat
    BY <1>4, Tallies DEF ToHeap, Hit
  <2>2. n + x + q = r
    BY <1>4 DEF Counted, StructsEven, StructSum
  <2>3. w + x = r + y + Hit(s, t)
    BY <1>6
  <2>4. StructSum(t)' = (n + Hit(s, t)) + y + q
    BY <1>3, <1>7 DEF StructSum
  <2>5. w \in Nat /\ r \in Nat
    BY <1>4, <1>6 DEF Refs, Typed, HeapOK, HeapRecords
  <2> DEFINE d == Hit(s, t)  sum == StructSum(t)'
  <2>6. d \in Nat /\ w + x = r + y + d /\ sum = (n + d) + y + q
    BY <2>1, <2>3, <2>4
  <2> HIDE DEF n, q, x, y, r, w, d, sum
  <2>7. sum = w
    BY <2>1, <2>2, <2>5, <2>6
  <2> QED BY <2>7 DEF w, sum
<1>14. ASSUME NEW c \in Blocks PROVE (BlockSum(c) = Refs(blocks, c))'
  <2> DEFINE h == Hit(held, c)  k == IF kind = "block" THEN Kept(heap, frame, c) ELSE 0
             q == Tally(due, Item("block", c))
  <2>1. h \in Nat /\ k \in Nat /\ q \in Nat
    BY <1>4, Tallies
  <2>2. Hit(Hand(ctl), c) = 0 /\ Hit(Hand(ctl'), c) = Hit(b, c) /\ Hit(b, c) \in Nat
    BY <1>9 DEF Hit
  <2>3. kind = "block" => Kept(heap', frame', c) = Kept(heap, frame, c)
    BY <1>6 DEF Owns
  <2>4. BlockSum(c) = h + 0 + k + q /\ BlockSum(c) = Refs(blocks, c)
    BY <1>4, <2>2 DEF BlockSum, Counted, BlocksEven
  <2>5. BlockSum(c)' = h + Hit(b, c) + k + q
    BY <1>3, <2>2, <2>3 DEF BlockSum
  <2>6. Refs(blocks', c) = Refs(blocks, c) + Hit(b, c)
    <3>1. CASE c = b
      BY <1>7, <3>1 DEF Hit
    <3>2. CASE c # b
      <4>1. Refs(blocks, c) \in Nat
        BY <1>4 DEF Typed, BlocksOK, BlockRecords, Refs
      <4> QED BY <1>7, <3>2, <4>1 DEF Hit
    <3> QED BY <3>1, <3>2
  <2> HIDE DEF h, k, q
  <2>7. BlockSum(c)' = Refs(blocks', c)
    BY <2>1, <2>2, <2>4, <2>5, <2>6
  <2> QED BY <2>7
<1>15. ASSUME NEW o \in Objects PROVE (ObjectSum(o) = Uses(objects, o))'
  <2>1. Hit(Hand(ctl), o) = 0 /\ Hit(Hand(ctl'), o) = 0
    BY <1>9 DEF Hit
  <2>2. kind = "strong" => Kept(heap', frame', o) = Kept(heap, frame, o)
    BY <1>6 DEF Owns
  <2> QED BY <1>3, <1>4, <2>1, <2>2 DEF Counted, ObjectsEven, ObjectSum
<1> QED BY <1>10, <1>11, <1>12, <1>13, <1>14, <1>15 DEF IInv, Counted, StructsEven, BlocksEven, ObjectsEven
----------------------------------------------------------------------------
(* Releases.                                                               *)

LEMMA DueHead ==
    ASSUME IInv, due # <<>>
    PROVE  /\ Head(due) \in Items /\ Tail(due) \in Seq(Items)
           /\ \A i : /\ Tally(Tail(due), i) \in Nat
                     /\ Tally(due, i) = Tally(Tail(due), i) + Hit(Head(due), i)
           /\ \E j \in DOMAIN due : due[j] = Head(due)
<1>1. due \in Seq(Items)
  BY DEF IInv, Typed
<1>2. Head(due) \in Items /\ Tail(due) \in Seq(Items) /\ 1 \in DOMAIN due /\ due[1] = Head(due)
  BY <1>1
<1>3. ASSUME NEW i
      PROVE  /\ Tally(Tail(due), i) \in Nat
             /\ Tally(due, i) = Tally(Tail(due), i) + Hit(Head(due), i)
  BY <1>1, TallyTail
<1> QED BY <1>2, <1>3

LEMMA ItemIs ==
    ASSUME NEW d \in Items
    PROVE  /\ d.what = "struct" => d.id \in Structs
           /\ d.what = "block" => d.id \in Blocks
           /\ d.what = "object" => d.id \in Objects
           /\ d = Item(d.what, d.id)
           /\ \A w, k : Hit(d, Item(w, k)) = IF w = d.what THEN Hit(d.id, k) ELSE 0
<1>1. \/ \E s \in Structs : d = Item("struct", s)
      \/ \E b \in Blocks : d = Item("block", b)
      \/ \E o \in Objects : d = Item("object", o)
  BY DEF Items
<1>2. /\ d.what = "struct" => d.id \in Structs
      /\ d.what = "block" => d.id \in Blocks
      /\ d.what = "object" => d.id \in Objects
      /\ d = [what |-> d.what, id |-> d.id]
  BY <1>1 DEF Item
<1>3. ASSUME NEW w, NEW k PROVE Hit(d, Item(w, k)) = IF w = d.what THEN Hit(d.id, k) ELSE 0
  <2>1. d = Item(w, k) <=> (w = d.what /\ k = d.id)
    BY <1>2 DEF Item
  <2> QED BY <2>1 DEF Hit
<1> QED BY <1>2, <1>3 DEF Item

(* The debts counted after a release. *)
LEMMA DueTallies ==
    ASSUME IInv, due # <<>>, NEW p \in Seq(Items), Len(p) <= 1, NEW i
    PROVE  /\ Tally(p, i) \in Nat /\ Tally(Tail(due), i) \in Nat /\ Hit(Head(due), i) \in Nat
           /\ Tally(due, i) = Tally(Tail(due), i) + Hit(Head(due), i)
           /\ Tally(p \o Tail(due), i) = Tally(p, i) + Tally(Tail(due), i)
<1>1. Tail(due) \in Seq(Items)
  BY DueHead
<1>2. Tally(p, i) \in Nat /\ Tally(p \o Tail(due), i) = Tally(p, i) + Tally(Tail(due), i)
  <2> DEFINE q == Tail(due)
  <2>1. q \in Seq(Items)
    BY <1>1
  <2> HIDE DEF q
  <2>2. Tally(p, i) \in Nat /\ Tally(p \o q, i) = Tally(p, i) + Tally(q, i)
    BY <2>1, TallyBefore
  <2> QED BY <2>2 DEF q
<1>3. Tally(Tail(due), i) \in Nat /\ Tally(due, i) = Tally(Tail(due), i) + Hit(Head(due), i)
  BY DueHead
<1>4. Hit(Head(due), i) \in Nat
  BY DEF Hit
<1> QED BY <1>2, <1>3, <1>4

(* A release takes the first debt off the list, and may put one in its place
   for what it sets free. *)
LEMMA Released ==
    ASSUME IInv, due # <<>>, NEW p \in Seq(Items), Len(p) <= 1, due' = p \o Tail(due),
           UNCHANGED <<kind, weaks, held, owner, ctl>>, last' \in [Eras -> Values],
           FrameOK(frame', kind), HeapOK(heap', kind), BlocksOK(blocks'), ObjectsOK(objects'),
           frame'.open = frame.open, frame'.fwd = frame.fwd,
           frame.open /\ Payload(Fwd(Stack)) = Nil => Payload(Fwd(Stack))' = Nil,
           Sound(ctl, blocks', frame.open, kind),
           \A s \in Structs :
               /\ Tally(Fields(blocks'), s) + Tally(p, Item("struct", s)) = Tally(Fields(blocks), s)
               /\ Refs(heap', s) + Hit(Head(due), Item("struct", s)) = Refs(heap, s),
           \A b \in Blocks :
               /\ Refs(blocks', b) + Hit(Head(due), Item("block", b)) = Refs(blocks, b)
               /\ IF kind = "block"
                  THEN Kept(heap', frame', b) + Tally(p, Item("block", b)) = Kept(heap, frame, b)
                  ELSE Tally(p, Item("block", b)) = 0,
           \A o \in Objects :
               /\ Uses(objects', o) + Hit(Head(due), Item("object", o)) = Uses(objects, o)
               /\ IF kind = "strong"
                  THEN Kept(heap', frame', o) + Tally(p, Item("object", o)) = Kept(heap, frame, o)
                  ELSE Tally(p, Item("object", o)) = 0
    PROVE  IInv'
<1>1. Typed /\ Counted
  BY DEF IInv
<1>2. due' \in Seq(Items)
  BY DueHead, TallyBefore
<1>3. ASSUME NEW i
      PROVE  /\ Tally(p, i) \in Nat /\ Tally(Tail(due), i) \in Nat /\ Hit(Head(due), i) \in Nat
             /\ Tally(due, i) = Tally(Tail(due), i) + Hit(Head(due), i)
             /\ Tally(due', i) = Tally(p, i) + Tally(Tail(due), i)
  <2>1. /\ Tally(p, i) \in Nat /\ Tally(Tail(due), i) \in Nat /\ Hit(Head(due), i) \in Nat
        /\ Tally(due, i) = Tally(Tail(due), i) + Hit(Head(due), i)
        /\ Tally(p \o Tail(due), i) = Tally(p, i) + Tally(Tail(due), i)
    BY DueTallies
  <2> QED BY <2>1
<1>4. Typed'
  BY <1>1, <1>2 DEF Typed
<1>5. Sound(ctl, blocks, frame.open, kind)'
  OBVIOUS
<1>6. InitAlone'
  BY DEF IInv, InitAlone, Owns
<1>7. \A k : /\ Tally(Fields(blocks'), k) \in Nat /\ Tally(Fields(blocks), k) \in Nat
             /\ Kept(heap', frame', k) \in Nat /\ Kept(heap, frame, k) \in Nat
             /\ Hit(held, k) \in Nat /\ Hit(owner, k) \in Nat /\ Hit(Hand(ctl), k) \in Nat
             /\ ToHeap(frame, k) \in Nat
  <2>1. ASSUME NEW k PROVE /\ Tally(Fields(blocks), k) \in Nat /\ Kept(heap, frame, k) \in Nat
                           /\ Hit(held, k) \in Nat /\ Hit(owner, k) \in Nat
                           /\ Hit(Hand(ctl), k) \in Nat /\ ToHeap(frame, k) \in Nat
    BY <1>1, Tallies
  <2>2. ASSUME NEW k PROVE Tally(Fields(blocks'), k) \in Nat /\ Kept(heap', frame', k) \in Nat
    <3>1. IsFiniteSet(DOMAIN Fields(blocks')) /\ IsFiniteSet(DOMAIN Payloads(heap'))
      BY FS_Subset DEF BlocksOK, HeapOK, Fields, Payloads
    <3>2. Tally(Fields(blocks'), k) \in Nat /\ Tally(Payloads(heap'), k) \in Nat
      BY <3>1, TallyType
    <3> QED BY <3>2 DEF Kept, InFrame, Hit
  <2> QED BY <2>1, <2>2
<1>8. ASSUME NEW s \in Structs PROVE (StructSum(s) = Refs(heap, s))'
  <2> DEFINE i == Item("struct", s)
             n == Tally(Fields(blocks), s)  m == Tally(Fields(blocks'), s)  t == Tally(p, i)
             q == Tally(Tail(due), i)  h == Hit(Head(due), i)  x == ToHeap(frame, s)
             r == Refs(heap, s)  w == Refs(heap', s)
  <2>1. m \in Nat /\ n \in Nat /\ t \in Nat /\ q \in Nat /\ h \in Nat /\ x \in Nat
    BY <1>3, <1>7
  <2>2. m + t = n /\ w + h = r
    OBVIOUS
  <2>3. n + x + (q + h) = r
    BY <1>1, <1>3 DEF Counted, StructsEven, StructSum
  <2>4. ToHeap(frame', s) = x
    BY DEF ToHeap
  <2>5. StructSum(s)' = m + x + (t + q)
    BY <1>3, <2>4 DEF StructSum
  <2>6. w \in Nat
    BY DEF HeapOK, HeapRecords, Refs
  <2> HIDE DEF i, n, m, t, q, h, x, r, w
  <2>7. m + x + (t + q) = w
    BY <2>1, <2>2, <2>3, <2>6
  <2> QED BY <2>5, <2>7 DEF w
<1>9. ASSUME NEW b \in Blocks PROVE (BlockSum(b) = Refs(blocks, b))'
  <2> DEFINE i == Item("block", b)
             l == Hit(held, b)  c == Hit(Hand(ctl), b)  t == Tally(p, i)
             n == IF kind = "block" THEN Kept(heap, frame, b) ELSE 0
             m == IF kind = "block" THEN Kept(heap', frame', b) ELSE 0
             q == Tally(Tail(due), i)  h == Hit(Head(due), i)
             r == Refs(blocks, b)  w == Refs(blocks', b)
  <2>1. /\ m \in Nat /\ n \in Nat /\ t \in Nat /\ q \in Nat /\ h \in Nat /\ l \in Nat /\ c \in Nat
    BY <1>3, <1>7
  <2>2. m + t = n /\ w + h = r
    <3>1. CASE kind = "block"
      BY <3>1
    <3>2. CASE kind # "block"
      BY <3>2
    <3> QED BY <3>1, <3>2
  <2>3. l + c + n + (q + h) = r
    BY <1>1, <1>3 DEF Counted, BlocksEven, BlockSum
  <2>4. BlockSum(b)' = l + c + m + (t + q)
    BY <1>3 DEF BlockSum
  <2>5. w \in Nat
    BY DEF BlocksOK, BlockRecords, Refs
  <2> HIDE DEF i, l, c, t, n, m, q, h, r, w
  <2>6. l + c + m + (t + q) = w
    BY <2>1, <2>2, <2>3, <2>5
  <2> QED BY <2>4, <2>6 DEF w
<1>10. ASSUME NEW o \in Objects PROVE (ObjectSum(o) = Uses(objects, o))'
  <2> DEFINE i == Item("object", o)
             l == Hit(owner, o)  c == Hit(Hand(ctl), o)  t == Tally(p, i)
             n == IF kind = "strong" THEN c + Kept(heap, frame, o) ELSE 0
             m == IF kind = "strong" THEN c + Kept(heap', frame', o) ELSE 0
             q == Tally(Tail(due), i)  h == Hit(Head(due), i)
             r == Uses(objects, o)  w == Uses(objects', o)
  <2>0. t \in Nat /\ q \in Nat /\ h \in Nat
    BY <1>3
  <2>1. l \in Nat /\ m \in Nat /\ n \in Nat
    <3> DEFINE x == Kept(heap, frame, o)  y == Kept(heap', frame', o)
    <3>1. c \in Nat /\ x \in Nat /\ y \in Nat /\ l \in Nat
      BY <1>7
    <3>2. n = (IF kind = "strong" THEN c + x ELSE 0) /\ m = (IF kind = "strong" THEN c + y ELSE 0)
      OBVIOUS
    <3> HIDE DEF c, x, y, l, m, n
    <3> QED BY <3>1, <3>2
  <2>2. m + t = n /\ w + h = r
    <3>1. CASE kind = "strong"
      <4> DEFINE x == Kept(heap, frame, o)  y == Kept(heap', frame', o)
      <4>1. y + t = x /\ x \in Nat /\ y \in Nat /\ c \in Nat /\ t \in Nat /\ w + h = r
        BY <1>7, <2>0, <3>1
      <4>2. n = c + x /\ m = c + y
        BY <3>1
      <4> HIDE DEF x, y, c, n, m, t, w, h, r
      <4> QED BY <4>1, <4>2
    <3>2. CASE kind # "strong"
      BY <3>2
    <3> QED BY <3>1, <3>2
  <2>3. l + n + (q + h) = r
    BY <1>1, <1>3 DEF Counted, ObjectsEven, ObjectSum
  <2>4. ObjectSum(o)' = l + m + (t + q)
    BY <1>3 DEF ObjectSum
  <2>5. w \in Nat
    BY DEF ObjectsOK, Uses
  <2> HIDE DEF i, l, c, t, n, m, q, h, r, w
  <2>6. l + m + (t + q) = w
    BY <2>0, <2>1, <2>2, <2>3, <2>5
  <2> QED BY <2>4, <2>6 DEF w
<1> QED BY <1>4, <1>5, <1>6, <1>8, <1>9, <1>10 DEF IInv, Counted, StructsEven, BlocksEven, ObjectsEven

(* What a release that sets nothing free leaves as it was. *)
LEMMA NoNewDebt ==
    ASSUME IInv, due # <<>>
    PROVE  /\ Tail(due) = <<>> \o Tail(due) /\ <<>> \in Seq(Items) /\ Len(<<>>) <= 1
           /\ \A i : Tally(<<>>, i) = 0
           /\ \A k : Tally(Fields(blocks), k) \in Nat /\ Kept(heap, frame, k) \in Nat
           /\ \A s \in Structs : Refs(heap, s) \in Nat
           /\ \A b \in Blocks : Refs(blocks, b) \in Nat
           /\ \A o \in Objects : Uses(objects, o) \in Nat
<1>1. Tail(due) = <<>> \o Tail(due)
  BY DueHead
<1>2. Typed
  BY DEF IInv
<1>3. \A k : Tally(Fields(blocks), k) \in Nat /\ Kept(heap, frame, k) \in Nat
  BY <1>2, Tallies
<1>4. \A s \in Structs : Refs(heap, s) \in Nat
  BY <1>2 DEF Typed, HeapOK, HeapRecords, Refs
<1>5. \A b \in Blocks : Refs(blocks, b) \in Nat
  BY <1>2 DEF Typed, BlocksOK, BlockRecords, Refs
<1>6. \A o \in Objects : Uses(objects, o) \in Nat
  BY <1>2 DEF Typed, ObjectsOK, Uses
<1>7. \A i : Tally(<<>>, i) = 0
  BY TallyEmpty
<1> QED BY <1>1, <1>3, <1>4, <1>5, <1>6, <1>7

(* A release of one sort of thing leaves the counts of the others alone. *)
LEMMA SameStructs ==
    ASSUME IInv, due # <<>>, Head(due).what # "struct",
           \A t : Tally(Fields(blocks'), t) = Tally(Fields(blocks), t),
           \A t \in Structs : Refs(heap', t) = Refs(heap, t)
    PROVE  \A s \in Structs :
               /\ Tally(Fields(blocks'), s) + Tally(<<>>, Item("struct", s)) = Tally(Fields(blocks), s)
               /\ Refs(heap', s) + Hit(Head(due), Item("struct", s)) = Refs(heap, s)
<1> SUFFICES ASSUME NEW s \in Structs
             PROVE  /\ Tally(Fields(blocks'), s) + Tally(<<>>, Item("struct", s)) = Tally(Fields(blocks), s)
                    /\ Refs(heap', s) + Hit(Head(due), Item("struct", s)) = Refs(heap, s)
  OBVIOUS
<1> DEFINE n == Tally(Fields(blocks), s)  r == Refs(heap, s)
<1>1. n \in Nat /\ r \in Nat /\ Tally(<<>>, Item("struct", s)) = 0
  BY NoNewDebt
<1>2. Hit(Head(due), Item("struct", s)) = 0
  BY DueHead, ItemIs
<1>3. Tally(Fields(blocks'), s) = n /\ Refs(heap', s) = r
  OBVIOUS
<1> HIDE DEF n, r
<1> QED BY <1>1, <1>2, <1>3 DEF n, r

LEMMA SameBlocks ==
    ASSUME IInv, due # <<>>, Head(due).what # "block",
           \A c \in Blocks : Refs(blocks', c) = Refs(blocks, c),
           kind = "block" => \A k : Kept(heap', frame', k) = Kept(heap, frame, k)
    PROVE  \A b \in Blocks :
               /\ Refs(blocks', b) + Hit(Head(due), Item("block", b)) = Refs(blocks, b)
               /\ IF kind = "block"
                  THEN Kept(heap', frame', b) + Tally(<<>>, Item("block", b)) = Kept(heap, frame, b)
                  ELSE Tally(<<>>, Item("block", b)) = 0
<1> SUFFICES ASSUME NEW b \in Blocks
             PROVE  /\ Refs(blocks', b) + Hit(Head(due), Item("block", b)) = Refs(blocks, b)
                    /\ IF kind = "block"
                       THEN Kept(heap', frame', b) + Tally(<<>>, Item("block", b)) = Kept(heap, frame, b)
                       ELSE Tally(<<>>, Item("block", b)) = 0
  OBVIOUS
<1> DEFINE n == Kept(heap, frame, b)  r == Refs(blocks, b)
<1>1. n \in Nat /\ r \in Nat /\ Tally(<<>>, Item("block", b)) = 0
  BY NoNewDebt
<1>2. Hit(Head(due), Item("block", b)) = 0
  BY DueHead, ItemIs
<1>3. (kind = "block" => Kept(heap', frame', b) = n) /\ Refs(blocks', b) = r
  OBVIOUS
<1> HIDE DEF n, r
<1> QED BY <1>1, <1>2, <1>3 DEF n, r

LEMMA SameObjects ==
    ASSUME IInv, due # <<>>, Head(due).what # "object",
           \A p \in Objects : Uses(objects', p) = Uses(objects, p),
           kind = "strong" => \A k : Kept(heap', frame', k) = Kept(heap, frame, k)
    PROVE  \A o \in Objects :
               /\ Uses(objects', o) + Hit(Head(due), Item("object", o)) = Uses(objects, o)
               /\ IF kind = "strong"
                  THEN Kept(heap', frame', o) + Tally(<<>>, Item("object", o)) = Kept(heap, frame, o)
                  ELSE Tally(<<>>, Item("object", o)) = 0
<1> SUFFICES ASSUME NEW o \in Objects
             PROVE  /\ Uses(objects', o) + Hit(Head(due), Item("object", o)) = Uses(objects, o)
                    /\ IF kind = "strong"
                       THEN Kept(heap', frame', o) + Tally(<<>>, Item("object", o)) = Kept(heap, frame, o)
                       ELSE Tally(<<>>, Item("object", o)) = 0
  OBVIOUS
<1> DEFINE n == Kept(heap, frame, o)  r == Uses(objects, o)
<1>1. n \in Nat /\ r \in Nat /\ Tally(<<>>, Item("object", o)) = 0
  BY NoNewDebt
<1>2. Hit(Head(due), Item("object", o)) = 0
  BY DueHead, ItemIs
<1>3. (kind = "strong" => Kept(heap', frame', o) = n) /\ Uses(objects', o) = r
  OBVIOUS
<1> HIDE DEF n, r
<1> QED BY <1>1, <1>2, <1>3 DEF n, r

(* An object released, the last time or not: a weak x may become nil. *)
LEMMA ObjectReleased ==
    ASSUME IInv, due # <<>>, NEW o \in Objects, Head(due).what = "object", Head(due).id = o,
           due' = Tail(due), UNCHANGED <<kind, weaks, held, owner, ctl, blocks>>,
           \/ objects[o] > 1 /\ objects' = [objects EXCEPT ![o] = @ - 1] /\ UNCHANGED <<frame, heap, last>>
           \/ objects[o] = 1 /\ FreeObject(o)
    PROVE  IInv'
<1> DEFINE d == Head(due)
<1>1. Typed /\ d \in Items /\ d = Item("object", o)
  BY DueHead, ItemIs DEF IInv
<1>2. o \in DOMAIN objects /\ objects[o] \in Nat \ {0}
  BY <1>1, DueHead, ObjectThere
<1>3. \A w, k : Hit(d, Item(w, k)) = IF w = "object" THEN Hit(o, k) ELSE 0
  BY <1>1, ItemIs
<1>4. /\ ObjectsOK(objects')
      /\ \A p \in Objects : Uses(objects', p) + Hit(o, p) = Uses(objects, p)
  <2>1. CASE objects[o] > 1 /\ objects' = [objects EXCEPT ![o] = @ - 1]
    <3> DEFINE n == objects[o] - 1
    <3>1. n \in Nat \ {0} /\ objects' = [objects EXCEPT ![o] = n] /\ Uses(objects, o) = n + 1
      BY <1>2, <2>1 DEF Uses
    <3> HIDE DEF n
    <3>2. /\ ObjectsOK(objects')
          /\ \A p \in Objects : p # o => Uses(objects', p) = Uses(objects, p)
          /\ Uses(objects', o) = n
      BY <1>1, <1>2, <3>1, ObjectRefs
    <3>3. ASSUME NEW p \in Objects PROVE Uses(objects', p) + Hit(o, p) = Uses(objects, p)
      <4>1. CASE p = o
        BY <3>1, <3>2, <4>1 DEF Hit
      <4>2. CASE p # o
        BY <3>2, <4>2, NoNewDebt DEF Hit
      <4> QED BY <4>1, <4>2
    <3> QED BY <3>2, <3>3
  <2>2. CASE objects[o] = 1 /\ FreeObject(o)
    <3>1. /\ DOMAIN objects' = DOMAIN objects \ {o}
          /\ \A p \in DOMAIN objects \ {o} : objects'[p] = objects[p]
      BY <2>2 DEF FreeObject, Without
    <3>2. ObjectsOK(objects')
      BY <1>1, <3>1 DEF Typed, ObjectsOK
    <3>3. ASSUME NEW p \in Objects PROVE Uses(objects', p) + Hit(o, p) = Uses(objects, p)
      <4>1. CASE p = o
        BY <1>2, <2>2, <3>1, <4>1 DEF Uses, Hit
      <4>2. CASE p # o
        <5>1. Uses(objects', p) = Uses(objects, p) /\ Hit(o, p) = 0
          BY <3>1, <4>2 DEF Uses, Hit
        <5> QED BY <5>1, NoNewDebt
      <4> QED BY <4>1, <4>2
    <3> QED BY <3>2, <3>3
  <2> QED BY <2>1, <2>2
<1>5. /\ FrameOK(frame', kind) /\ HeapOK(heap', kind) /\ last' \in [Eras -> Values]
      /\ frame'.open = frame.open /\ frame'.fwd = frame.fwd
      /\ \A s \in Structs : Refs(heap', s) = Refs(heap, s)
      /\ Owns => \A k : Kept(heap', frame', k) = Kept(heap, frame, k)
      /\ Payload(Fwd(Stack)) = Nil /\ frame.open => Payload(Fwd(Stack))' = Nil
  <2>1. CASE UNCHANGED <<frame, heap, last>>
    BY <1>1, <2>1 DEF Typed, Payload, Fwd
  <2>2. CASE FreeObject(o)
    <3> DEFINE zeroed == {w \in weaks \cap (DOMAIN heap \cup {Stack}) : Payload(w) = o}
               pay(h) == IF h \in zeroed THEN Nil ELSE heap[h].payload
    <3>1. /\ frame' = [frame EXCEPT !.payload = IF Stack \in zeroed THEN Nil ELSE frame.payload]
          /\ heap' = [h \in DOMAIN heap |-> [heap[h] EXCEPT !.payload = pay(h)]]
          /\ last' = [e \in Eras |-> IF kind = "weak" /\ last[e] = o THEN Nil ELSE last[e]]
      BY <2>2 DEF FreeObject
    <3>2. zeroed # {} => kind = "weak"
      BY <1>1 DEF Typed
    <3> HIDE DEF zeroed
    <3>3. /\ frame'.open = frame.open /\ frame'.fwd = frame.fwd /\ frame'.era = frame.era
          /\ frame' \in [open : BOOLEAN, era : Eras, fwd : Slots, payload : Values]
          /\ frame'.payload = IF Stack \in zeroed THEN Nil ELSE frame.payload
      BY <1>1, <3>1 DEF Typed, FrameOK, Values
    <3>4. FrameOK(frame', kind)
      BY <1>1, <3>2, <3>3 DEF Typed, FrameOK, ValuesOf
    <3>5. \A h \in DOMAIN heap : pay(h) \in ValuesOf(kind)
      BY <1>1, <3>2 DEF Typed, HeapOK, HeapRecords, ValuesOf
    <3>6. pay(frame.fwd) = Nil \/ pay(frame.fwd) = heap[frame.fwd].payload
      OBVIOUS
    <3>7. \A h : zeroed = {} => pay(h) = heap[h].payload
      OBVIOUS
    <3> HIDE DEF pay
    <3>8. /\ DOMAIN heap' = DOMAIN heap
          /\ \A h \in DOMAIN heap : /\ heap'[h] \in HeapRecords(kind) /\ heap'[h].refs = heap[h].refs
                                   /\ heap'[h].payload = pay(h)
      BY <1>1, <3>1, <3>5 DEF Typed, HeapOK, HeapRecords
    <3>9. HeapOK(heap', kind) /\ \A s \in Structs : Refs(heap', s) = Refs(heap, s)
      BY <1>1, <3>8 DEF Typed, HeapOK, Refs
    <3>10. last' \in [Eras -> Values]
      BY <1>1, <3>1 DEF Typed, Values
    <3>11. ASSUME Owns, NEW k PROVE Kept(heap', frame', k) = Kept(heap, frame, k)
      <4>1. zeroed = {}
        BY <3>2, <3>11 DEF Owns
      <4>2. Alike(Payloads(heap'), Payloads(heap))
        BY <3>7, <3>8, <4>1 DEF Alike, Payloads
      <4>3. InFrame(frame', k) = InFrame(frame, k)
        BY <3>3, <4>1 DEF InFrame
      <4> QED BY <4>2, <4>3, TallySame DEF Kept
    <3>12. ASSUME frame.open, Payload(Fwd(Stack)) = Nil PROVE Payload(Fwd(Stack))' = Nil
      <4>1. CASE frame.fwd = Stack
        BY <3>3, <3>12, <4>1 DEF Payload, Fwd
      <4>2. CASE frame.fwd # Stack
        <5>1. frame.fwd \in DOMAIN heap
          BY <1>1, <3>12, <4>2, StructThere DEF Typed, FrameOK, Slots
        <5>2. heap[frame.fwd].payload = Nil
          BY <3>12, <4>2 DEF Payload, Fwd
        <5>3. heap'[frame.fwd].payload = Nil
          BY <3>6, <3>8, <5>1, <5>2
        <5> QED BY <3>3, <4>2, <5>3 DEF Payload, Fwd
      <4> QED BY <4>1, <4>2
    <3> QED BY <3>3, <3>4, <3>9, <3>10, <3>11, <3>12
  <2> QED BY <2>1, <2>2
<1>6. BlocksOK(blocks') /\ Sound(ctl, blocks', frame.open, kind)
  BY <1>1 DEF IInv, Typed
<1>7. \A s \in Structs :
          /\ Tally(Fields(blocks'), s) + Tally(<<>>, Item("struct", s)) = Tally(Fields(blocks), s)
          /\ Refs(heap', s) + Hit(Head(due), Item("struct", s)) = Refs(heap, s)
  BY <1>5, SameStructs
<1>8. \A b \in Blocks :
          /\ Refs(blocks', b) + Hit(Head(due), Item("block", b)) = Refs(blocks, b)
          /\ IF kind = "block"
             THEN Kept(heap', frame', b) + Tally(<<>>, Item("block", b)) = Kept(heap, frame, b)
             ELSE Tally(<<>>, Item("block", b)) = 0
  BY <1>5, SameBlocks DEF Owns
<1>9. ASSUME NEW q \in Objects
      PROVE  /\ Uses(objects', q) + Hit(Head(due), Item("object", q)) = Uses(objects, q)
             /\ IF kind = "strong"
                THEN Kept(heap', frame', q) + Tally(<<>>, Item("object", q)) = Kept(heap, frame, q)
                ELSE Tally(<<>>, Item("object", q)) = 0
  <2>1. Tally(<<>>, Item("object", q)) = 0 /\ Kept(heap, frame, q) \in Nat
    BY NoNewDebt
  <2>2. Hit(Head(due), Item("object", q)) = Hit(o, q)
    BY <1>3
  <2>3. kind = "strong" => Kept(heap', frame', q) = Kept(heap, frame, q)
    BY <1>5 DEF Owns
  <2>4. Uses(objects', q) + Hit(o, q) = Uses(objects, q)
    BY <1>4
  <2> QED BY <2>1, <2>2, <2>3, <2>4
<1>10. due' = <<>> \o Tail(due) /\ <<>> \in Seq(Items) /\ Len(<<>>) <= 1
  BY NoNewDebt
<1> HIDE DEF d
<1> QED BY <1>4, <1>5, <1>6, <1>7, <1>8, <1>9, <1>10, Released

(* A block released, not for the last time. *)
LEMMA BlockReleased ==
    ASSUME IInv, due # <<>>, NEW b \in Blocks, Head(due).what = "block", Head(due).id = b,
           due' = Tail(due), UNCHANGED <<kind, weaks, held, owner, ctl, frame, heap, objects, last>>,
           blocks[b].refs > 1, blocks' = [blocks EXCEPT ![b].refs = @ - 1]
    PROVE  IInv'
<1> DEFINE d == Head(due)  n == blocks[b].refs - 1
<1>1. Typed /\ d \in Items /\ d = Item("block", b)
  BY DueHead, ItemIs DEF IInv
<1>2. b \in DOMAIN blocks /\ blocks[b].refs \in Nat \ {0}
  BY <1>1, DueHead, BlockThere
<1>3. \A w, k : Hit(d, Item(w, k)) = IF w = "block" THEN Hit(b, k) ELSE 0
  BY <1>1, ItemIs
<1>4. n \in Nat \ {0} /\ blocks' = [blocks EXCEPT ![b].refs = n] /\ Refs(blocks, b) = n + 1
  BY <1>2 DEF Refs
<1> HIDE DEF n
<1>5. /\ BlocksOK(blocks') /\ DOMAIN blocks' = DOMAIN blocks
      /\ \A c \in DOMAIN blocks : blocks'[c].field = blocks[c].field
      /\ \A c \in Blocks : c # b => Refs(blocks', c) = Refs(blocks, c)
      /\ Refs(blocks', b) = n
      /\ \A t : Tally(Fields(blocks'), t) = Tally(Fields(blocks), t)
  BY <1>1, <1>2, <1>4, BlockRefs
<1>6. Sound(ctl, blocks', frame.open, kind)
  BY <1>1, <1>5, SoundBlocks DEF IInv, Typed
<1>7. \A s \in Structs :
          /\ Tally(Fields(blocks'), s) + Tally(<<>>, Item("struct", s)) = Tally(Fields(blocks), s)
          /\ Refs(heap', s) + Hit(Head(due), Item("struct", s)) = Refs(heap, s)
  BY <1>5, SameStructs
<1>8. ASSUME NEW c \in Blocks PROVE Refs(blocks', c) + Hit(b, c) = Refs(blocks, c)
  <2>1. CASE c = b
    BY <1>4, <1>5, <2>1 DEF Hit
  <2>2. CASE c # b
    <3>1. Refs(blocks', c) = Refs(blocks, c) /\ Hit(b, c) = 0
      BY <1>5, <2>2 DEF Hit
    <3>2. Refs(blocks, c) \in Nat
      BY NoNewDebt
    <3> QED BY <3>1, <3>2
  <2> QED BY <2>1, <2>2
<1>9. ASSUME NEW c \in Blocks
      PROVE  /\ Refs(blocks', c) + Hit(Head(due), Item("block", c)) = Refs(blocks, c)
             /\ IF kind = "block"
                THEN Kept(heap', frame', c) + Tally(<<>>, Item("block", c)) = Kept(heap, frame, c)
                ELSE Tally(<<>>, Item("block", c)) = 0
  <2>1. Tally(<<>>, Item("block", c)) = 0 /\ Kept(heap, frame, c) \in Nat /\ Kept(heap', frame', c) = Kept(heap, frame, c)
    BY NoNewDebt
  <2>2. Hit(Head(due), Item("block", c)) = Hit(b, c)
    BY <1>3
  <2>3. Refs(blocks', c) + Hit(b, c) = Refs(blocks, c)
    BY <1>8
  <2>4. Kept(heap', frame', c) + Tally(<<>>, Item("block", c)) = Kept(heap, frame, c)
    <3> DEFINE k == Kept(heap, frame, c)  t == Tally(<<>>, Item("block", c))
    <3>1. k \in Nat /\ t = 0 /\ Kept(heap', frame', c) = k
      BY <2>1
    <3> HIDE DEF k, t
    <3> QED BY <3>1 DEF k, t
  <2> QED BY <2>1, <2>2, <2>3, <2>4
<1>10. \A o \in Objects :
          /\ Uses(objects', o) + Hit(Head(due), Item("object", o)) = Uses(objects, o)
          /\ IF kind = "strong"
             THEN Kept(heap', frame', o) + Tally(<<>>, Item("object", o)) = Kept(heap, frame, o)
             ELSE Tally(<<>>, Item("object", o)) = 0
  BY SameObjects
<1>11. due' = <<>> \o Tail(due) /\ <<>> \in Seq(Items) /\ Len(<<>>) <= 1
  BY NoNewDebt
<1>12. /\ FrameOK(frame', kind) /\ HeapOK(heap', kind) /\ ObjectsOK(objects') /\ last' \in [Eras -> Values]
       /\ frame.open /\ Payload(Fwd(Stack)) = Nil => Payload(Fwd(Stack))' = Nil
  BY <1>1 DEF Typed, Payload, Fwd
<1> HIDE DEF d
<1> QED BY <1>5, <1>6, <1>7, <1>9, <1>10, <1>11, <1>12, Released

(* What goes has been one more. *)
LEMMA OneLess ==
    ASSUME NEW b, b \in DOMAIN blocks, blocks' = Without(blocks, b)
    PROVE  OneMore(Fields(blocks'), Fields(blocks), b) /\ Fields(blocks)[b] = blocks[b].field
BY DEF OneMore, Fields, Without

LEMMA OneStructLess ==
    ASSUME NEW a, a \in DOMAIN heap, heap' = Without(heap, a)
    PROVE  OneMore(Payloads(heap'), Payloads(heap), a) /\ Payloads(heap)[a] = heap[a].payload
BY DEF OneMore, Payloads, Without

(* The last reference to a block: its structure has one holder less, soon. *)
LEMMA BlockFreed ==
    ASSUME IInv, Counting, due # <<>>, NEW b \in Blocks, Head(due).what = "block", Head(due).id = b,
           due' = DisposeBlock(b) \o Tail(due),
           UNCHANGED <<kind, weaks, held, owner, ctl, frame, heap, objects, last>>,
           blocks[b].refs = 1, MayDie(b), blocks' = Without(blocks, b)
    PROVE  IInv'
<1> DEFINE d == Head(due)  p == DisposeBlock(b)  a == blocks[b].field
<1>1. Typed /\ d \in Items /\ d = Item("block", b)
  BY DueHead, ItemIs DEF IInv
<1>2. b \in DOMAIN blocks /\ blocks[b].refs \in Nat \ {0} /\ a \in Structs
  BY <1>1, DueHead, BlockThere
<1>3. \A w, k : Hit(d, Item(w, k)) = IF w = "block" THEN Hit(b, k) ELSE 0
  BY <1>1, ItemIs
<1>4. a \in Slots /\ a # Stack /\ Fwd(a) = a /\ p = DisposeByref(a)
  BY <1>2 DEF Slots, Fwd, DisposeBlock
<1> HIDE DEF p, a
<1>5. p \in Seq(Items) /\ Len(p) <= 1
  <2>1. Unset # Nil
    OBVIOUS
  <2> QED BY <1>1, <1>4, <2>1, OwedStruct
<1>6. ASSUME NEW k, k # Nil
      PROVE  /\ k # Stack => Tally(p, Item("struct", k)) = Hit(a, k)
             /\ Tally(p, Item("block", k)) = 0 /\ Tally(p, Item("object", k)) = 0
  BY <1>1, <1>4, <1>6, OwedStruct
<1>7. /\ DOMAIN blocks' = DOMAIN blocks \ {b}
      /\ \A c \in DOMAIN blocks \ {b} : blocks'[c] = blocks[c]
  BY DEF Without
<1>8. BlocksOK(blocks')
  BY <1>1, <1>7 DEF Typed, BlocksOK
<1>9. \A i \in 1..Len(ctl) : ctl[i].block # b
  <2>1. DOMAIN ctl = 1..Len(ctl)
    BY <1>1 DEF Typed
  <2> QED BY <2>1 DEF MayDie, Counting
<1>10. Sound(ctl, blocks', frame.open, kind)
  <2>1. ctl \in Seq(Entries) /\ Sound(ctl, blocks, frame.open, kind)
    BY <1>1 DEF IInv, Typed
  <2>2. \A i \in 1..Len(ctl) : ctl[i].block \in DOMAIN blocks =>
            ctl[i].block \in DOMAIN blocks' /\ blocks'[ctl[i].block].field = blocks[ctl[i].block].field
    BY <1>7, <1>9
  <2> QED BY <2>1, <2>2, SoundBlocks
<1>11. ASSUME NEW s \in Structs
       PROVE  /\ Tally(Fields(blocks'), s) + Tally(p, Item("struct", s)) = Tally(Fields(blocks), s)
              /\ Refs(heap', s) + Hit(Head(due), Item("struct", s)) = Refs(heap, s)
  <2>1. OneMore(Fields(blocks'), Fields(blocks), b) /\ Fields(blocks)[b] = a
    BY <1>2, OneLess DEF a
  <2>2. IsFiniteSet(DOMAIN Fields(blocks'))
    BY <1>1, <1>7, FiniteParts, FS_Subset DEF Fields
  <2>3. Tally(Fields(blocks), s) = Tally(Fields(blocks'), s) + Hit(a, s) /\ Tally(Fields(blocks'), s) \in Nat
    BY <2>1, <2>2, TallyMore
  <2>4. s # Nil /\ s # Stack
    OBVIOUS
  <2>5. Tally(p, Item("struct", s)) = Hit(a, s)
    BY <1>6, <2>4
  <2> QED BY <1>3, <2>3, <2>5, NoNewDebt
<1>12. ASSUME NEW c \in Blocks PROVE Refs(blocks', c) + Hit(b, c) = Refs(blocks, c)
  <2>1. CASE c = b
    BY <1>2, <1>7, <2>1 DEF Hit, Refs
  <2>2. CASE c # b
    <3>1. Refs(blocks', c) = Refs(blocks, c) /\ Hit(b, c) = 0
      BY <1>7, <2>2 DEF Hit, Refs
    <3> QED BY <3>1, NoNewDebt
  <2> QED BY <2>1, <2>2
<1>13. ASSUME NEW c \in Blocks
       PROVE  /\ Refs(blocks', c) + Hit(Head(due), Item("block", c)) = Refs(blocks, c)
              /\ IF kind = "block"
                 THEN Kept(heap', frame', c) + Tally(p, Item("block", c)) = Kept(heap, frame, c)
                 ELSE Tally(p, Item("block", c)) = 0
  <2>1. c # Nil
    OBVIOUS
  <2>2. Tally(p, Item("block", c)) = 0
    BY <1>6, <2>1
  <2> QED BY <1>3, <1>12, <2>2, NoNewDebt
<1>14. ASSUME NEW o \in Objects
       PROVE  /\ Uses(objects', o) + Hit(Head(due), Item("object", o)) = Uses(objects, o)
              /\ IF kind = "strong"
                 THEN Kept(heap', frame', o) + Tally(p, Item("object", o)) = Kept(heap, frame, o)
                 ELSE Tally(p, Item("object", o)) = 0
  <2>1. o # Nil
    OBVIOUS
  <2>2. Tally(p, Item("object", o)) = 0
    BY <1>6, <2>1
  <2> QED BY <1>3, <2>2, NoNewDebt
<1>15. /\ FrameOK(frame', kind) /\ HeapOK(heap', kind) /\ ObjectsOK(objects') /\ last' \in [Eras -> Values]
       /\ frame.open /\ Payload(Fwd(Stack)) = Nil => Payload(Fwd(Stack))' = Nil
  BY <1>1 DEF Typed, Payload, Fwd
<1>16. due' = p \o Tail(due)
  BY DEF p
<1> HIDE DEF d
<1> QED BY <1>5, <1>8, <1>10, <1>11, <1>13, <1>14, <1>15, <1>16, Released

(* A structure released, not for the last time. *)
LEMMA StructReleased ==
    ASSUME IInv, due # <<>>, NEW a \in Structs, Head(due).what = "struct", Head(due).id = a,
           due' = Tail(due), UNCHANGED <<kind, weaks, held, owner, ctl, frame, blocks, objects, last>>,
           heap[a].refs > 1, heap' = [heap EXCEPT ![a].refs = @ - 1]
    PROVE  IInv'
<1> DEFINE d == Head(due)  n == heap[a].refs - 1
<1>1. Typed /\ d \in Items /\ d = Item("struct", a)
  BY DueHead, ItemIs DEF IInv
<1>2. a \in DOMAIN heap /\ heap[a].refs \in Nat \ {0}
  BY <1>1, DueHead, StructThere
<1>3. \A w, k : Hit(d, Item(w, k)) = IF w = "struct" THEN Hit(a, k) ELSE 0
  BY <1>1, ItemIs
<1>4. n \in Nat \ {0} /\ heap' = [heap EXCEPT ![a].refs = n] /\ heap[a].refs = n + 1
  BY <1>2
<1> HIDE DEF n
<1>5. /\ DOMAIN heap' = DOMAIN heap /\ heap'[a] = [heap[a] EXCEPT !.refs = n]
      /\ \A h \in DOMAIN heap : h # a => heap'[h] = heap[h]
  BY <1>2, <1>4
<1>6. heap'[a] \in HeapRecords(kind) /\ heap'[a].refs = n /\ heap'[a].payload = heap[a].payload
  <2>1. heap[a] \in HeapRecords(kind)
    BY <1>1, <1>2 DEF Typed, HeapOK
  <2> QED BY <1>4, <1>5, <2>1 DEF HeapRecords
<1>7. HeapOK(heap', kind)
  BY <1>1, <1>5, <1>6 DEF Typed, HeapOK
<1>8. ASSUME NEW k PROVE Kept(heap', frame', k) = Kept(heap, frame, k)
  <2>1. Alike(Payloads(heap'), Payloads(heap))
    BY <1>5, <1>6 DEF Alike, Payloads
  <2> QED BY <2>1, TallySame DEF Kept
<1>9. ASSUME NEW s \in Structs PROVE Refs(heap', s) + Hit(a, s) = Refs(heap, s)
  <2>1. CASE s = a
    BY <1>2, <1>4, <1>5, <1>6, <2>1 DEF Hit, Refs
  <2>2. CASE s # a
    <3>1. Refs(heap', s) = Refs(heap, s) /\ Hit(a, s) = 0
      BY <1>5, <2>2 DEF Hit, Refs
    <3> QED BY <3>1, NoNewDebt
  <2> QED BY <2>1, <2>2
<1>10. ASSUME NEW s \in Structs
       PROVE  /\ Tally(Fields(blocks'), s) + Tally(<<>>, Item("struct", s)) = Tally(Fields(blocks), s)
              /\ Refs(heap', s) + Hit(Head(due), Item("struct", s)) = Refs(heap, s)
  <2>1. Tally(<<>>, Item("struct", s)) = 0 /\ Tally(Fields(blocks), s) \in Nat /\ blocks' = blocks
    BY NoNewDebt
  <2>2. Hit(Head(due), Item("struct", s)) = Hit(a, s)
    BY <1>3
  <2>3. Refs(heap', s) + Hit(a, s) = Refs(heap, s)
    BY <1>9
  <2>4. Tally(Fields(blocks'), s) + Tally(<<>>, Item("struct", s)) = Tally(Fields(blocks), s)
    <3> DEFINE k == Tally(Fields(blocks), s)  t == Tally(<<>>, Item("struct", s))
    <3>1. k \in Nat /\ t = 0 /\ Tally(Fields(blocks'), s) = k
      BY <2>1
    <3> HIDE DEF k, t
    <3> QED BY <3>1 DEF k, t
  <2> QED BY <2>2, <2>3, <2>4
<1>11. \A c \in Blocks :
          /\ Refs(blocks', c) + Hit(Head(due), Item("block", c)) = Refs(blocks, c)
          /\ IF kind = "block"
             THEN Kept(heap', frame', c) + Tally(<<>>, Item("block", c)) = Kept(heap, frame, c)
             ELSE Tally(<<>>, Item("block", c)) = 0
  BY <1>8, SameBlocks
<1>12. \A o \in Objects :
          /\ Uses(objects', o) + Hit(Head(due), Item("object", o)) = Uses(objects, o)
          /\ IF kind = "strong"
             THEN Kept(heap', frame', o) + Tally(<<>>, Item("object", o)) = Kept(heap, frame, o)
             ELSE Tally(<<>>, Item("object", o)) = 0
  BY <1>8, SameObjects
<1>13. due' = <<>> \o Tail(due) /\ <<>> \in Seq(Items) /\ Len(<<>>) <= 1
  BY NoNewDebt
<1>14. /\ FrameOK(frame', kind) /\ BlocksOK(blocks') /\ ObjectsOK(objects') /\ last' \in [Eras -> Values]
       /\ Sound(ctl, blocks', frame.open, kind)
  BY <1>1 DEF Typed, IInv
<1>15. ASSUME frame.open, Payload(Fwd(Stack)) = Nil PROVE Payload(Fwd(Stack))' = Nil
  <2>1. CASE frame.fwd = Stack
    BY <1>15, <2>1 DEF Payload, Fwd
  <2>2. CASE frame.fwd # Stack
    <3>1. frame.fwd \in DOMAIN heap
      BY <1>1, <1>15, <2>2, StructThere DEF Typed, FrameOK, Slots
    <3>2. heap'[frame.fwd].payload = heap[frame.fwd].payload
      BY <1>5, <1>6, <3>1
    <3> QED BY <1>15, <2>2, <3>2 DEF Payload, Fwd
  <2> QED BY <2>1, <2>2
<1> HIDE DEF d
<1> QED BY <1>7, <1>10, <1>11, <1>12, <1>13, <1>14, <1>15, Released

(* The last reference to a structure: the frame has none, and what the
   structure owned has one holder less, soon. *)
LEMMA StructFreed ==
    ASSUME IInv, due # <<>>, NEW a \in Structs, Head(due).what = "struct", Head(due).id = a,
           due' = Destroy(a) \o Tail(due),
           UNCHANGED <<kind, weaks, held, owner, ctl, frame, blocks, objects, last>>,
           heap[a].refs = 1, heap' = Without(heap, a)
    PROVE  IInv'
<1> DEFINE d == Head(due)  p == Destroy(a)  v == heap[a].payload
<1>1. Typed /\ d \in Items /\ d = Item("struct", a)
  BY DueHead, ItemIs DEF IInv
<1>2. a \in DOMAIN heap /\ heap[a] \in HeapRecords(kind)
  BY <1>1, DueHead, StructThere DEF Typed, HeapOK
<1>3. \A w, k : Hit(d, Item(w, k)) = IF w = "struct" THEN Hit(a, k) ELSE 0
  BY <1>1, ItemIs
<1>4. p = DebtOf(v) /\ v \in ValuesOf(kind)
  BY <1>2 DEF Destroy, HeapRecords
<1> HIDE DEF p, v
<1>5. p \in Seq(Items) /\ Len(p) <= 1
  <2>1. Unset # Nil
    OBVIOUS
  <2> QED BY <1>4, <2>1, OwedPayload
<1>6. ASSUME NEW k, k # Nil
      PROVE  /\ Tally(p, Item("struct", k)) = 0
             /\ Tally(p, Item("block", k)) = IF kind = "block" THEN Hit(v, k) ELSE 0
             /\ Tally(p, Item("object", k)) = IF kind = "strong" THEN Hit(v, k) ELSE 0
  BY <1>4, <1>6, OwedPayload
<1>7. /\ DOMAIN heap' = DOMAIN heap \ {a}
      /\ \A h \in DOMAIN heap \ {a} : heap'[h] = heap[h]
  BY DEF Without
<1>8. HeapOK(heap', kind)
  BY <1>1, <1>7 DEF Typed, HeapOK
<1>9. ASSUME NEW k
      PROVE  Kept(heap', frame', k) + Hit(v, k) = Kept(heap, frame, k) /\ Kept(heap', frame', k) \in Nat
  <2>1. OneMore(Payloads(heap'), Payloads(heap), a) /\ Payloads(heap)[a] = v
    BY <1>2, OneStructLess DEF v
  <2>2. IsFiniteSet(DOMAIN Payloads(heap'))
    BY <1>1, <1>7, FiniteParts, FS_Subset DEF Payloads
  <2>3. /\ Tally(Payloads(heap), k) = Tally(Payloads(heap'), k) + Hit(v, k)
        /\ Tally(Payloads(heap'), k) \in Nat
    BY <2>1, <2>2, TallyMore
  <2>4. InFrame(frame, k) \in Nat /\ Hit(v, k) \in Nat
    BY DEF InFrame, Hit
  <2> QED BY <2>3, <2>4 DEF Kept
<1>10. ASSUME NEW s \in Structs PROVE Refs(heap', s) + Hit(a, s) = Refs(heap, s)
  <2>1. CASE s = a
    BY <1>2, <1>7, <2>1 DEF Hit, Refs
  <2>2. CASE s # a
    <3>1. Refs(heap', s) = Refs(heap, s) /\ Hit(a, s) = 0
      BY <1>7, <2>2 DEF Hit, Refs
    <3> QED BY <3>1, NoNewDebt
  <2> QED BY <2>1, <2>2
<1>11. ASSUME NEW s \in Structs
       PROVE  /\ Tally(Fields(blocks'), s) + Tally(p, Item("struct", s)) = Tally(Fields(blocks), s)
              /\ Refs(heap', s) + Hit(Head(due), Item("struct", s)) = Refs(heap, s)
  <2>1. s # Nil
    OBVIOUS
  <2>2. Tally(p, Item("struct", s)) = 0
    BY <1>6, <2>1
  <2> QED BY <1>3, <1>10, <2>2, NoNewDebt
<1>12. ASSUME NEW c \in Blocks
       PROVE  /\ Refs(blocks', c) + Hit(Head(due), Item("block", c)) = Refs(blocks, c)
              /\ IF kind = "block"
                 THEN Kept(heap', frame', c) + Tally(p, Item("block", c)) = Kept(heap, frame, c)
                 ELSE Tally(p, Item("block", c)) = 0
  <2>1. c # Nil
    OBVIOUS
  <2>2. Tally(p, Item("block", c)) = IF kind = "block" THEN Hit(v, c) ELSE 0
    BY <1>6, <2>1
  <2> QED BY <1>3, <1>9, <2>2, NoNewDebt
<1>13. ASSUME NEW o \in Objects
       PROVE  /\ Uses(objects', o) + Hit(Head(due), Item("object", o)) = Uses(objects, o)
              /\ IF kind = "strong"
                 THEN Kept(heap', frame', o) + Tally(p, Item("object", o)) = Kept(heap, frame, o)
                 ELSE Tally(p, Item("object", o)) = 0
  <2>1. o # Nil
    OBVIOUS
  <2>2. Tally(p, Item("object", o)) = IF kind = "strong" THEN Hit(v, o) ELSE 0
    BY <1>6, <2>1
  <2> QED BY <1>3, <1>9, <2>2, NoNewDebt
<1>14. ~(frame.open /\ frame.fwd = a)
  <2> SUFFICES ASSUME frame.open, frame.fwd = a PROVE FALSE
    OBVIOUS
  <2> DEFINE i == Item("struct", a)  n == Tally(Fields(blocks), a)  t == Tally(Tail(due), i)
             sum == StructSum(a)
  <2>1. n \in Nat /\ t \in Nat /\ Tally(due, i) = t + Hit(d, i)
    BY <1>1, Tallies, DueHead
  <2>2. Hit(d, i) = 1 /\ ToHeap(frame, a) = 1
    BY <1>3 DEF Hit, ToHeap
  <2>3. sum = n + 1 + (t + 1)
    BY <2>1, <2>2 DEF StructSum
  <2>4. sum = 1
    BY <1>2 DEF IInv, Counted, StructsEven, Refs
  <2> HIDE DEF i, n, t, sum
  <2> QED BY <2>1, <2>3, <2>4
<1>15. ASSUME frame.open, Payload(Fwd(Stack)) = Nil PROVE Payload(Fwd(Stack))' = Nil
  <2>1. CASE frame.fwd = Stack
    BY <1>15, <2>1 DEF Payload, Fwd
  <2>2. CASE frame.fwd # Stack
    <3>1. frame.fwd \in DOMAIN heap /\ frame.fwd # a
      BY <1>1, <1>14, <1>15, <2>2, StructThere DEF Typed, FrameOK, Slots
    <3>2. heap'[frame.fwd] = heap[frame.fwd]
      BY <1>7, <3>1
    <3> QED BY <1>15, <2>2, <3>2 DEF Payload, Fwd
  <2> QED BY <2>1, <2>2
<1>16. /\ FrameOK(frame', kind) /\ BlocksOK(blocks') /\ ObjectsOK(objects') /\ last' \in [Eras -> Values]
       /\ Sound(ctl, blocks', frame.open, kind)
  BY <1>1 DEF Typed, IInv
<1>17. due' = p \o Tail(due)
  BY DEF p
<1> HIDE DEF d
<1> QED BY <1>5, <1>8, <1>11, <1>12, <1>13, <1>15, <1>16, <1>17, Released

LEMMA DropKeeps ==
    ASSUME IInv, Counting, Drop
    PROVE  IInv'
<1> DEFINE d == Head(due)
<1>1. due # <<>> /\ UNCHANGED <<kind, weaks, held, owner, ctl>>
  BY DEF Drop
<1>2. d \in Items
  BY <1>1, DueHead
<1>3. CASE /\ d.what = "object" /\ due' = Tail(due) /\ UNCHANGED blocks
           /\ \/ /\ objects[d.id] > 1 /\ objects' = [objects EXCEPT ![d.id] = @ - 1]
                 /\ UNCHANGED <<frame, heap, last>>
              \/ objects[d.id] = 1 /\ FreeObject(d.id)
  <2>1. d.id \in Objects
    BY <1>2, <1>3, ItemIs
  <2> QED BY <1>1, <1>3, <2>1, ObjectReleased
<1>4. CASE /\ d.what = "block" /\ UNCHANGED <<frame, heap, objects, last>>
           /\ blocks[d.id].refs > 1 /\ blocks' = [blocks EXCEPT ![d.id].refs = @ - 1]
           /\ due' = Tail(due)
  <2>1. d.id \in Blocks
    BY <1>2, <1>4, ItemIs
  <2> QED BY <1>1, <1>4, <2>1, BlockReleased
<1>5. CASE /\ d.what = "block" /\ UNCHANGED <<frame, heap, objects, last>>
           /\ blocks[d.id].refs = 1 /\ MayDie(d.id) /\ blocks' = Without(blocks, d.id)
           /\ due' = DisposeBlock(d.id) \o Tail(due)
  <2>1. d.id \in Blocks
    BY <1>2, <1>5, ItemIs
  <2> QED BY <1>1, <1>5, <2>1, BlockFreed
<1>6. CASE /\ d.what = "struct" /\ UNCHANGED <<frame, blocks, objects, last>>
           /\ heap[d.id].refs > 1 /\ heap' = [heap EXCEPT ![d.id].refs = @ - 1]
           /\ due' = Tail(due)
  <2>1. d.id \in Structs
    BY <1>2, <1>6, ItemIs
  <2> QED BY <1>1, <1>6, <2>1, StructReleased
<1>7. CASE /\ d.what = "struct" /\ UNCHANGED <<frame, blocks, objects, last>>
           /\ heap[d.id].refs = 1 /\ heap' = Without(heap, d.id)
           /\ due' = Destroy(d.id) \o Tail(due)
  <2>1. d.id \in Structs
    BY <1>2, <1>7, ItemIs
  <2> QED BY <1>1, <1>7, <2>1, StructFreed
<1> QED BY <1>3, <1>4, <1>5, <1>6, <1>7 DEF Drop
----------------------------------------------------------------------------
(* The invariant holds, and what it says of the counts of the model.       *)

LEMMA Begins ==
    ASSUME Init
    PROVE  IInv
<1>1. /\ kind \in Kinds /\ heap = <<>> /\ blocks = <<>> /\ objects = <<>> /\ weaks = {}
      /\ frame = [open |-> FALSE, era |-> 0, fwd |-> Stack, payload |-> Nil]
      /\ held = Nil /\ owner = Nil /\ ctl = <<>> /\ due = <<>> /\ last = [e \in Eras |-> Nil]
  BY DEF Init
<1>2. 0 \in Eras
  BY FS_CardinalityType DEF Eras
<1>3. FrameOK(frame, kind) /\ ~frame.open
  BY <1>1, <1>2 DEF FrameOK, Slots, Values
<1>4. Typed
  BY <1>1, <1>3 DEF Typed, HeapOK, BlocksOK, ObjectsOK, Values
<1>5. Sound(ctl, blocks, frame.open, kind) /\ InitAlone
  BY <1>1 DEF Sound, InitAlone
<1>6. \A v : Hit(Unset, v) = 0 \/ v = Unset
  BY DEF Hit
<1>7. ASSUME NEW v
      PROVE  /\ Tally(Fields(blocks), v) = 0 /\ Kept(heap, frame, v) = 0 /\ ToHeap(frame, v) = 0
             /\ \A w : Tally(due, Item(w, v)) = 0
  <2>1. DOMAIN Fields(blocks) = {} /\ DOMAIN Payloads(heap) = {}
    BY <1>1 DEF Fields, Payloads
  <2>2. Tally(Fields(blocks), v) = 0 /\ Tally(Payloads(heap), v) = 0
    BY <2>1, FS_EmptySet DEF Tally
  <2>3. \A w : Tally(due, Item(w, v)) = 0
    BY <1>1, TallyEmpty
  <2> QED BY <1>3, <2>2, <2>3 DEF Kept, InFrame, ToHeap
<1>8. ASSUME NEW v, v # Nil, v # Unset
      PROVE  Hit(held, v) = 0 /\ Hit(owner, v) = 0 /\ Hit(Hand(ctl), v) = 0
  BY <1>1, <1>8 DEF Hit, Hand
<1>9. StructsEven
  <2>1. ASSUME NEW t \in Structs PROVE StructSum(t) = Refs(heap, t)
    <3>1. Tally(Fields(blocks), t) = 0 /\ ToHeap(frame, t) = 0 /\ Tally(due, Item("struct", t)) = 0
      BY <1>7
    <3>2. Refs(heap, t) = 0
      BY <1>1 DEF Refs
    <3> QED BY <3>1, <3>2 DEF StructSum
  <2> QED BY <2>1 DEF StructsEven
<1>10. ASSUME NEW b \in Blocks PROVE BlockSum(b) = Refs(blocks, b)
  <2>1. b # Nil /\ b # Unset
    OBVIOUS
  <2>2. Hit(held, b) = 0 /\ Hit(Hand(ctl), b) = 0 /\ Kept(heap, frame, b) = 0 /\ Tally(due, Item("block", b)) = 0
    BY <1>7, <1>8, <2>1
  <2>3. Refs(blocks, b) = 0
    BY <1>1 DEF Refs
  <2> QED BY <2>2, <2>3 DEF BlockSum
<1>11. ASSUME NEW o \in Objects PROVE ObjectSum(o) = Uses(objects, o)
  <2>1. o # Nil /\ o # Unset
    OBVIOUS
  <2>2. Hit(owner, o) = 0 /\ Hit(Hand(ctl), o) = 0 /\ Kept(heap, frame, o) = 0 /\ Tally(due, Item("object", o)) = 0
    BY <1>7, <1>8, <2>1
  <2>3. Uses(objects, o) = 0
    BY <1>1 DEF Uses
  <2> QED BY <2>2, <2>3 DEF ObjectSum
<1> QED BY <1>4, <1>5, <1>9, <1>10, <1>11 DEF IInv, Counted, BlocksEven, ObjectsEven

LEMMA Stutters ==
    ASSUME IInv, UNCHANGED vars
    PROVE  IInv'
<1>1. /\ UNCHANGED <<kind, frame, heap, blocks, objects, weaks, held, owner, ctl, due, last>>
  BY DEF vars
<1>2. Typed' /\ Sound(ctl, blocks, frame.open, kind)'
  BY <1>1 DEF IInv, Typed
<1>3. InitAlone'
  BY <1>1 DEF IInv, InitAlone, Owns, Payload, Fwd
<1>4. Counted'
  BY <1>1, Uncounted
<1> QED BY <1>2, <1>3, <1>4 DEF IInv

LEMMA Keeps ==
    ASSUME IInv, Counting, [Next]_vars
    PROVE  IInv'
<1>1. CASE UNCHANGED vars
  BY <1>1, Stutters
<1>2. CASE Next
  BY <1>2, DropKeeps, DeclareOnlyKeeps, DeclareInitKeeps, EndScopeKeeps, BeginAssignKeeps,
     BeginCompoundKeeps, BeginHeldKeeps, ValueCopiedKeeps, ValueNilKeeps, ValueIntKeeps,
     ValueHeldKeeps, ValueOwnerKeeps, ValueNewKeeps, StoreXKeeps, StoreHeldKeeps,
     StoreOwnerKeeps, CallHeldKeeps, CallXKeeps, CallLiteralKeeps, ReturnKeeps DEF Next
<1> QED BY <1>1, <1>2

LEMMA Invariant ==
    ASSUME Counting
    PROVE  Spec => []IInv
<1>1. Init => IInv
  BY Begins
<1>2. IInv /\ [Next]_vars => IInv'
  BY Keeps
<1> QED BY <1>1, <1>2, PTL DEF Spec

(* Assignments and calls nest no deeper than the bound. *)
LEMMA Nests ==
    ASSUME IInv, Len(ctl) <= MaxFrames, [Next]_vars
    PROVE  Len(ctl') <= MaxFrames
<1>1. ctl \in Seq(Entries) /\ Len(ctl) \in Nat
  BY DEF IInv, Typed
<1>2. ASSUME NEW f, Push(f) PROVE Len(ctl') <= MaxFrames
  BY <1>1, <1>2 DEF Push
<1>3. ASSUME ctl # <<>>, ctl' = Pop PROVE Len(ctl') <= MaxFrames
  <2>1. Len(ctl') = Len(ctl) - 1
    BY <1>1, <1>3, Popped DEF Pop
  <2> QED BY <1>1, <2>1
<1>4. ASSUME NEW v, Evaluated(v) PROVE Len(ctl') <= MaxFrames
  BY <1>1, <1>4 DEF Evaluated
<1>5. CASE UNCHANGED ctl
  BY <1>5
<1>6. CASE StoreX \/ StoreHeld \/ Return
  BY <1>3, <1>6 DEF StoreX, StoreHeld, Return, Arrived
<1>7. CASE DeclareInit \/ BeginAssign \/ BeginCompound \/ BeginHeld
  BY <1>2, <1>7 DEF DeclareInit, BeginAssign, BeginCompound, BeginHeld
<1>8. CASE CallHeld \/ CallX \/ CallLiteral
  BY <1>2, <1>8 DEF CallHeld, CallX, CallLiteral, Invoke
<1>9. CASE ValueCopied \/ ValueNil \/ ValueInt \/ ValueHeld \/ ValueOwner \/ ValueNew
  BY <1>4, <1>9 DEF ValueCopied, ValueNil, ValueInt, ValueHeld, ValueOwner, ValueNew
<1>10. CASE Drop \/ DeclareOnly \/ EndScope \/ StoreOwner
  BY <1>5, <1>10 DEF Drop, DeclareOnly, EndScope, StoreOwner
<1> QED BY <1>5, <1>6, <1>7, <1>8, <1>9, <1>10 DEF Next, vars

(* Counts never reach zero without the thing going, and every address, value and
   count in use is one. *)
THEOREM Typing ==
    ASSUME Counting
    PROVE  Spec => []TypeOK
<1> DEFINE TInv == IInv /\ Len(ctl) <= MaxFrames
<1>1. Init => TInv
  BY Begins DEF Init
<1>2. TInv /\ [Next]_vars => TInv'
  BY Keeps, Nests
<1>3. TInv => TypeOK
  <2>1. ASSUME NEW k PROVE k \in Kinds => ValuesOf(k) \subseteq Values
    BY DEF ValuesOf, Values
  <2> QED BY <2>1 DEF IInv, Typed, TypeOK, FrameOK, HeapOK, HeapRecords, BlocksOK, BlockRecords,
             ObjectsOK, Slots
<1> HIDE DEF TInv
<1> QED BY <1>1, <1>2, <1>3, PTL DEF Spec

(* The value on its way to its store is the one value in the list that is no
   Unset. *)
LEMMA HandCounts ==
    ASSUME IInv, NEW v, v # Unset
    PROVE  InHand(v) = Hit(Hand(ctl), v)
<1> DEFINE n == Len(ctl)  S == {i \in DOMAIN ctl : ctl[i].val = v}
<1>1. n \in Nat /\ DOMAIN ctl = 1..n /\ (ctl = <<>> <=> n = 0)
  BY DEF IInv, Typed
<1>2. \A i \in 1..n : i # n => ctl[i].val = Unset
  BY DEF IInv, Sound
<1> HIDE DEF n
<1>3. CASE n > 0 /\ ctl[n].val = v
  <2>1. n \in S /\ \A i \in S : i = n
    BY <1>1, <1>2, <1>3
  <2>2. S = {n}
    BY <2>1
  <2>3. Cardinality(S) = 1
    <3> HIDE DEF S
    <3> QED BY <2>2, FS_Singleton
  <2>4. Hit(Hand(ctl), v) = 1
    BY <1>1, <1>3 DEF Hit, Hand, n
  <2> QED BY <2>3, <2>4 DEF InHand, Count
<1>4. CASE ~(n > 0 /\ ctl[n].val = v)
  <2>1. S = {}
    BY <1>1, <1>2, <1>4
  <2>2. Cardinality(S) = 0
    <3> HIDE DEF S
    <3> QED BY <2>1, FS_EmptySet
  <2>3. Hit(Hand(ctl), v) = 0
    BY <1>1, <1>4 DEF Hit, Hand, n
  <2> QED BY <2>2, <2>3 DEF InHand, Count
<1> QED BY <1>3, <1>4

LEMMA Holders ==
    ASSUME IInv
    PROVE  /\ \A s : StructHolders(s) = StructSum(s)
           /\ \A b \in Blocks : BlockHolders(b) = BlockSum(b)
           /\ \A o \in Objects : ObjectHolders(o) = ObjectSum(o)
<1>1. \A w, k : Owed(w, k) = Tally(due, Item(w, k))
  BY DEF Owed, Count, Tally, Item
<1>2. ASSUME NEW k PROVE Count({b \in DOMAIN blocks : blocks[b].field = k}) = Tally(Fields(blocks), k)
  <2>1. {b \in DOMAIN Fields(blocks) : Fields(blocks)[b] = k} = {b \in DOMAIN blocks : blocks[b].field = k}
    BY DEF Fields
  <2> QED BY <2>1 DEF Count, Tally
<1>3. ASSUME NEW k PROVE Count({h \in DOMAIN heap : heap[h].payload = k}) = Tally(Payloads(heap), k)
  <2>1. {h \in DOMAIN Payloads(heap) : Payloads(heap)[h] = k} = {h \in DOMAIN heap : heap[h].payload = k}
    BY DEF Payloads
  <2> QED BY <2>1 DEF Count, Tally
<1>4. ASSUME NEW k PROVE PayloadsOf(k) = Kept(heap, frame, k)
  <2>1. (IF frame.open /\ frame.payload = k THEN 1 ELSE 0) = InFrame(frame, k)
    BY DEF InFrame, Hit
  <2> QED BY <1>3, <2>1 DEF PayloadsOf, Kept
<1>5. ASSUME NEW s PROVE StructHolders(s) = StructSum(s)
  <2>1. (IF frame.open /\ frame.fwd = s THEN 1 ELSE 0) = ToHeap(frame, s)
    BY DEF ToHeap, Hit
  <2> QED BY <1>1, <1>2, <2>1 DEF StructHolders, StructSum
<1>6. ASSUME NEW b \in Blocks PROVE BlockHolders(b) = BlockSum(b)
  <2>1. InHand(b) = Hit(Hand(ctl), b)
    BY HandCounts
  <2> QED BY <1>1, <1>4, <2>1 DEF BlockHolders, BlockSum, Hit
<1>7. ASSUME NEW o \in Objects PROVE ObjectHolders(o) = ObjectSum(o)
  <2>1. InHand(o) = Hit(Hand(ctl), o)
    BY HandCounts
  <2> QED BY <1>1, <1>4, <2>1 DEF ObjectHolders, ObjectSum, Hit
<1> QED BY <1>5, <1>6, <1>7

(* Whatever may still reach x finds a structure there. *)
LEMMA AccessOpen ==
    ASSUME IInv, NEW a \in Accessors
    PROVE  /\ a \in Slots /\ At(Fwd(a))
           /\ IF a = Stack THEN frame.open ELSE a \in DOMAIN heap
<1>1. Typed /\ ctl \in Seq(Entries) /\ DOMAIN ctl = 1..Len(ctl) /\ FrameOK(frame, kind)
  BY DEF IInv, Typed
<1>2. a \in Slots /\ IF a = Stack THEN frame.open ELSE a \in DOMAIN heap
  <2>1. CASE frame.open /\ a = Stack
    BY <2>1 DEF Slots
  <2>2. CASE \E i \in DOMAIN ctl : ctl[i].type = "body" /\ a = ctl[i].slot
    <3>1. PICK i \in 1..Len(ctl) : ctl[i].type = "body" /\ a = ctl[i].slot
      BY <1>1, <2>2
    <3>2. Grounded(ctl, i, blocks) /\ InScope(ctl, i, frame.open)
      BY DEF IInv, Sound
    <3>6. ctl[i] \in Entries /\ i \in 1..i
      BY <1>1
    <3>3. a \in Slots
      BY <3>1, <3>6 DEF Entries
    <3>4. CASE a = Stack
      BY <3>1, <3>2, <3>3, <3>4, <3>6 DEF InScope
    <3>5. CASE a # Stack
      <4>1. \E b \in DOMAIN blocks : blocks[b].field = a
        BY <3>1, <3>2, <3>5 DEF Grounded
      <4> QED BY <3>3, <3>5, <4>1, StructThere DEF Slots
    <3> QED BY <3>4, <3>5
  <2>3. CASE \E b \in DOMAIN blocks : a = blocks[b].field
    <3>1. a \in Structs /\ a # Stack
      BY <1>1, <2>3 DEF Typed, BlocksOK, BlockRecords
    <3> QED BY <2>3, <3>1, StructThere DEF Slots
  <2>4. (a = Stack /\ frame.open) \/ a \in {ctl[i].slot : i \in {j \in DOMAIN ctl : ctl[j].type = "body"}}
        \/ a \in {blocks[b].field : b \in DOMAIN blocks}
    BY DEF Accessors
  <2> QED BY <2>1, <2>2, <2>3, <2>4
<1>3. At(Fwd(a))
  <2>1. CASE a = Stack
    <3>1. frame.open /\ Fwd(a) = frame.fwd /\ frame.fwd \in Slots
      BY <1>1, <1>2, <2>1 DEF Fwd, FrameOK
    <3>2. frame.fwd # Stack => frame.fwd \in DOMAIN heap
      BY <3>1, StructThere DEF Slots
    <3> QED BY <3>1, <3>2 DEF At
  <2>2. CASE a # Stack
    BY <1>2, <2>2 DEF Fwd, At
  <2> QED BY <2>1, <2>2
<1> QED BY <1>2, <1>3

(* What a variable that owns holds is alive. *)
LEMMA Living ==
    ASSUME IInv, NEW a, At(a)
    PROVE  /\ kind = "block" => Payload(a) \in DOMAIN blocks \cup {Nil}
           /\ kind = "strong" => Payload(a) \in DOMAIN objects \cup {Nil}
<1> DEFINE v == Payload(a)
<1>1. v \in ValuesOf(kind)
  BY PayloadType
<1>2. \/ \E h \in DOMAIN heap : heap[h].payload = v
      \/ frame.open /\ frame.payload = v
  BY DEF At, Payload
<1> HIDE DEF v
<1>3. ASSUME kind = "block", v # Nil PROVE v \in DOMAIN blocks
  <2>1. v \in Blocks
    BY <1>1, <1>3 DEF ValuesOf
  <2> QED BY <1>2, <1>3, <2>1, BlockThere
<1>4. ASSUME kind = "strong", v # Nil PROVE v \in DOMAIN objects
  <2>1. v \in Objects
    BY <1>1, <1>4 DEF ValuesOf
  <2> QED BY <1>2, <1>4, <2>1, ObjectThere
<1> QED BY <1>3, <1>4 DEF v

(* However often a block is copied, called and let go, and however often x moves:
   a structure on the heap has one reference for each block alive that captured it,
   one for the frame while its scope is open, and those still to be released. *)
THEOREM StructuresCounted ==
    ASSUME Counting
    PROVE  Spec => []StructsCounted
<1>1. IInv => StructsCounted
  <2> SUFFICES ASSUME IInv, NEW h \in DOMAIN heap PROVE heap[h].refs = StructHolders(h)
    BY DEF StructsCounted
  <2>1. h \in Structs
    BY DEF IInv, Typed, HeapOK
  <2> QED BY <2>1, Holders DEF IInv, Counted, StructsEven, Refs
<1> QED BY <1>1, Invariant, PTL

(* What x owns is counted once wherever it has moved, and let go once: the count of
   every block and object is the number of the locals, structures, values on their
   way to a store and debts that hold it. *)
THEOREM ReferencesCounted ==
    ASSUME Counting
    PROVE  Spec => []ValuesCounted
<1>1. IInv => ValuesCounted
  <2> SUFFICES ASSUME IInv
               PROVE  /\ \A b \in DOMAIN blocks : blocks[b].refs = BlockHolders(b)
                      /\ \A o \in DOMAIN objects : objects[o] = ObjectHolders(o)
    BY DEF ValuesCounted
  <2>1. DOMAIN blocks \subseteq Blocks /\ DOMAIN objects \subseteq Objects
    BY DEF IInv, Typed, BlocksOK, ObjectsOK
  <2> QED BY <2>1, Holders DEF IInv, Counted, BlocksEven, ObjectsEven, Refs, Uses
<1> QED BY <1>1, Invariant, PTL

(* Both: every reference the runtime counts has one place that will let go of it. *)
THEOREM EveryHolderCounted ==
    ASSUME Counting
    PROVE  Spec => []HoldersCounted
<1>1. StructsCounted /\ ValuesCounted => HoldersCounted
  BY DEF HoldersCounted
<1> QED BY <1>1, StructuresCounted, ReferencesCounted, PTL

(* No access to x, from the function, from a body that runs or from a block still to
   be called, reaches a structure that has gone or, in a variable that owns its
   value, a value that has. *)
THEOREM NothingDangles ==
    ASSUME Counting
    PROVE  Spec => []NoDangling
<1>1. IInv => NoDangling
  <2> SUFFICES ASSUME IInv PROVE NoDangling
    OBVIOUS
  <2>1. \A a \in Accessors : IF a = Stack THEN frame.open ELSE a \in DOMAIN heap
    BY AccessOpen
  <2>2. frame.fwd # Stack => frame.fwd \in DOMAIN heap
    <3>1. FrameOK(frame, kind)
      BY DEF IInv, Typed
    <3> QED BY <3>1, StructThere DEF FrameOK, Slots
  <2>3. kind = "block" => \A a \in Accessors : Payload(Fwd(a)) \in DOMAIN blocks \cup {Nil}
    BY AccessOpen, Living
  <2>4. kind = "strong" => \A a \in Accessors : Payload(Fwd(a)) \in DOMAIN objects \cup {Nil}
    BY AccessOpen, Living
  <2>5. held \in DOMAIN blocks \cup {Nil}
    <3>1. held \in Blocks \cup {Nil}
      BY DEF IInv, Typed
    <3> QED BY <3>1, BlockThere
  <2> QED BY <2>1, <2>2, <2>3, <2>4, <2>5 DEF NoDangling
<1> QED BY <1>1, Invariant, PTL
----------------------------------------------------------------------------
(* One variable.                                                           *)

(* The programs that the one variable is promised to: besides, no structure moves
   in the middle of a compound assignment or under the initializer of a variable
   that is no object, and x is no weak reference, which a move does not register. *)
Settled == /\ Counting
           /\ Shapes \cap {"compound moves", "initializer moves"} = {}
           /\ "weak" \notin Kinds

(* The structure that is x has the value last given to x ... *)
Current == /\ \A h \in DOMAIN heap : heap[h].payload = last[heap[h].era]
           /\ frame.open /\ frame.fwd = Stack => frame.payload = last[frame.era]

(* ... and there is one such structure for each x. *)
Distinct == /\ \A g, h \in DOMAIN heap : heap[g].era = heap[h].era => g = h
            /\ frame.open => \A h \in DOMAIN heap : heap[h].era = frame.era <=> frame.fwd = h

(* An address taken before its store is still the one. *)
SteadyAt(f, fwd, owns) ==
    /\ f.op = "compound" => f.addr = IF f.slot = Stack THEN fwd ELSE f.slot
    /\ f.op = "init" /\ ~owns => fwd = Stack

Steady == \A i \in 1..Len(ctl) : SteadyAt(ctl[i], frame.fwd, Owns)

JInv == IInv /\ Current /\ Distinct /\ Steady

(* Structures that keep their x and its value, or go. *)
LEMMA ValuesStay ==
    ASSUME Current, Distinct, DOMAIN heap' \subseteq DOMAIN heap,
           \A h \in DOMAIN heap' : heap'[h].era = heap[h].era /\ heap'[h].payload = heap[h].payload,
           frame'.open = frame.open, frame'.fwd = frame.fwd, frame'.era = frame.era,
           frame'.payload = frame.payload, last' = last
    PROVE  Current' /\ Distinct'
BY DEF Current, Distinct

LEMMA SteadyPopped ==
    ASSUME IInv, Steady, ctl # <<>>, ctl' = Pop, frame'.fwd = frame.fwd, kind' = kind
    PROVE  Steady'
<1>1. /\ Len(ctl) \in Nat \ {0} /\ Len(ctl') = Len(ctl) - 1
      /\ \A i \in 1..(Len(ctl) - 1) : ctl'[i] = ctl[i]
  BY Popped DEF IInv, Typed, Pop
<1> QED BY <1>1 DEF Steady, Owns

LEMMA SteadyGiven ==
    ASSUME Steady, Len(ctl') = Len(ctl), frame'.fwd = frame.fwd, kind' = kind,
           \A i \in 1..Len(ctl) : /\ ctl'[i].op = ctl[i].op /\ ctl'[i].slot = ctl[i].slot
                                  /\ ctl'[i].addr = ctl[i].addr
    PROVE  Steady'
BY DEF Steady, SteadyAt, Owns

LEMMA SteadyPushed ==
    ASSUME IInv, Steady, NEW f \in Entries, ctl' = Append(ctl, f), frame'.fwd = frame.fwd, kind' = kind,
           SteadyAt(f, frame.fwd, Owns)
    PROVE  Steady'
<1>1. /\ Len(ctl) \in Nat /\ Len(ctl') = Len(ctl) + 1 /\ ctl'[Len(ctl) + 1] = f
      /\ \A i \in 1..Len(ctl) : ctl'[i] = ctl[i]
  BY DEF IInv, Typed
<1> QED BY <1>1 DEF Steady, Owns

(* Assignments begun, blocks called, values computed: x stays where it is. *)
LEMMA UnmovedSettled ==
    ASSUME JInv, Unmoved
    PROVE  Current' /\ Distinct'
BY DEF JInv, Unmoved, Current, Distinct

LEMMA BegunSettled ==
    ASSUME JInv, BeginAssign \/ BeginCompound \/ BeginHeld
    PROVE  Current' /\ Distinct' /\ Steady'
<1>1. Unmoved
  BY DEF BeginAssign, BeginCompound, BeginHeld
<1>2. CASE BeginAssign
  <2> DEFINE f == Store("x", "assign", Fwd(Slot))
  <2>1. ctl' = Append(ctl, f)
    BY <1>2 DEF BeginAssign, Push
  <2>3. f \in Entries /\ f.op = "assign"
    BY SlotType, StoreEntry DEF JInv
  <2> HIDE DEF f
  <2>2. SteadyAt(f, frame.fwd, Owns)
    BY <2>3 DEF SteadyAt
  <2> QED BY <1>1, <2>1, <2>2, <2>3, UnmovedSettled, SteadyPushed DEF Unmoved, JInv
<1>3. CASE BeginCompound
  <2> DEFINE f == Store("x", "compound", Fwd(Slot))
  <2>1. ctl' = Append(ctl, f) /\ f \in Entries /\ f.op = "compound" /\ f.addr = Fwd(Slot) /\ f.slot = Slot
    BY <1>3, SlotType, StoreEntry DEF BeginCompound, Push, JInv
  <2> HIDE DEF f
  <2>2. SteadyAt(f, frame.fwd, Owns)
    BY <2>1 DEF SteadyAt, Fwd
  <2> QED BY <1>1, <2>1, <2>2, UnmovedSettled, SteadyPushed DEF Unmoved, JInv
<1>4. CASE BeginHeld
  <2> DEFINE f == Store("held", "assign", Nil)
  <2>1. ctl' = Append(ctl, f) /\ f \in Entries /\ f.op = "assign"
    BY <1>4, StoreEntry DEF BeginHeld, Push, JInv
  <2> HIDE DEF f
  <2>2. SteadyAt(f, frame.fwd, Owns)
    BY <2>1 DEF SteadyAt
  <2> QED BY <1>1, <2>1, <2>2, UnmovedSettled, SteadyPushed DEF Unmoved, JInv
<1> QED BY <1>2, <1>3, <1>4

LEMMA CalledSettled ==
    ASSUME JInv, CallHeld \/ CallX \/ CallLiteral
    PROVE  Current' /\ Distinct' /\ Steady'
<1>1. Unmoved
  BY DEF CallHeld, CallX, CallLiteral
<1>2. PICK b, slot : b \in Blocks \cup {Nil} /\ slot \in Slots /\ ctl' = Append(ctl, Body(b, slot))
  <2>1. CASE CallHeld
    <3>1. held \in Blocks /\ ctl' = Append(ctl, Body(held, blocks[held].field))
      BY <2>1 DEF CallHeld, Invoke, Push, JInv, IInv, Typed
    <3>2. blocks[held].field \in Structs
      BY <3>1, BlockThere DEF JInv
    <3> QED BY <3>1, <3>2 DEF Slots
  <2>2. CASE CallX
    <3> DEFINE a == Fwd(Slot)  b == Payload(a)
    <3>1. Ready /\ Sees /\ kind = "block" /\ b # Nil /\ ctl' = Append(ctl, Body(b, blocks[b].field))
      BY <2>2 DEF CallX, Invoke, Push
    <3>2. At(a)
      BY <3>1, SeesOpen, Reached DEF JInv
    <3>3. b \in DOMAIN blocks /\ IInv
      BY <3>1, <3>2, Living DEF JInv
    <3> HIDE DEF b, a
    <3>4. b \in Blocks /\ blocks[b].field \in Structs
      BY <3>3 DEF IInv, Typed, BlocksOK, BlockRecords
    <3> QED BY <3>1, <3>4 DEF Slots
  <2>3. CASE CallLiteral
    BY <2>3, SlotType DEF CallLiteral, Invoke, Push, JInv
  <2> QED BY <2>1, <2>2, <2>3
<1> DEFINE f == Body(b, slot)
<1>3. f \in Entries /\ f.op = "call" /\ ctl' = Append(ctl, f)
  BY <1>2, BodyEntry
<1> HIDE DEF f
<1>4. SteadyAt(f, frame.fwd, Owns)
  BY <1>3 DEF SteadyAt
<1> QED BY <1>1, <1>3, <1>4, UnmovedSettled, SteadyPushed DEF Unmoved, JInv

LEMMA ReturnSettled ==
    ASSUME JInv, Return
    PROVE  Current' /\ Distinct' /\ Steady'
<1>1. ctl # <<>> /\ ctl' = Pop /\ Unmoved
  BY DEF Return
<1> QED BY <1>1, UnmovedSettled, SteadyPopped DEF JInv, Unmoved

LEMMA EvaluatedSettled ==
    ASSUME JInv, NEW v, Evaluated(v), ctl # <<>>, kind' = kind, frame'.fwd = frame.fwd
    PROVE  Steady'
<1> DEFINE n == Len(ctl)
<1>1. n \in 1..n /\ ctl \in Seq(Entries) /\ DOMAIN ctl = 1..n /\ \A i \in 1..n : ctl[i] \in Entries
  BY DEF JInv, IInv, Typed
<1>2. ctl' = [ctl EXCEPT ![n].val = v]
  BY DEF Evaluated
<1>3. DOMAIN ctl' = 1..n /\ \A i \in 1..n : ctl'[i] = IF i = n THEN [ctl[i] EXCEPT !.val = v] ELSE ctl[i]
  BY <1>1, <1>2
<1>4. \A i \in 1..n : ctl'[i].op = ctl[i].op /\ ctl'[i].slot = ctl[i].slot /\ ctl'[i].addr = ctl[i].addr
  BY <1>1, <1>3 DEF Entries
<1>5. Len(ctl') = n
  BY <1>1, <1>2
<1> QED BY <1>4, <1>5, SteadyGiven DEF JInv

LEMMA ValueSettled ==
    ASSUME JInv, ValueNil \/ ValueInt \/ ValueHeld \/ ValueOwner \/ ValueNew
    PROVE  Current' /\ Distinct' /\ Steady'
<1>1. /\ UNCHANGED <<kind, frame, heap, last>> /\ ctl # <<>>
      /\ \E v : Evaluated(v)
  BY DEF ValueNil, ValueInt, ValueHeld, ValueOwner, ValueNew, Waiting, Unmoved
<1>2. Steady'
  BY <1>1, EvaluatedSettled
<1>3. Current' /\ Distinct'
  BY <1>1 DEF JInv, Current, Distinct
<1> QED BY <1>2, <1>3

LEMMA LocalsSettled ==
    ASSUME JInv, StoreHeld \/ StoreOwner
    PROVE  Current' /\ Distinct' /\ Steady'
<1>1. UNCHANGED <<kind, frame, heap, last>>
  BY DEF StoreHeld, StoreOwner
<1>2. Current' /\ Distinct'
  BY <1>1 DEF JInv, Current, Distinct
<1>3. CASE StoreHeld
  BY <1>1, <1>2, <1>3, SteadyPopped DEF StoreHeld, Arrived, JInv
<1>4. CASE StoreOwner
  BY <1>1, <1>2, <1>4 DEF StoreOwner, JInv, Steady, Owns
<1> QED BY <1>3, <1>4

LEMMA ScopeSettled ==
    ASSUME JInv, DeclareOnly \/ DeclareInit \/ EndScope
    PROVE  Current' /\ Distinct' /\ Steady'
<1>1. Typed /\ IInv
  BY DEF JInv, IInv
<1>2. CASE DeclareOnly \/ DeclareInit
  <2>1. Declare /\ ctl = <<>>
    BY <1>2 DEF DeclareOnly, DeclareInit, Declare
  <2>2. PICK v : /\ frame' = [open |-> TRUE, era |-> Fresh, fwd |-> Stack, payload |-> v]
                 /\ last' = [last EXCEPT ![Fresh] = v] /\ UNCHANGED <<kind, heap>>
    BY <2>1 DEF Declare
  <2>3. Fresh \in Eras /\ (\A h \in DOMAIN heap : heap[h].era # Fresh) /\ last \in [Eras -> Values]
        /\ DOMAIN heap \subseteq Structs
    BY <1>1, FreshEra DEF Typed, HeapOK
  <2>4. last'[Fresh] = v /\ \A e : e # Fresh => last'[e] = last[e]
    BY <2>2, <2>3
  <2>5. Current'
    BY <2>2, <2>3, <2>4 DEF JInv, Current
  <2>6. Stack \notin DOMAIN heap
    BY <2>3
  <2>7. Distinct'
    BY <2>2, <2>3, <2>6 DEF JInv, Distinct
  <2>8. Steady'
    <3>1. CASE DeclareOnly
      BY <2>1, <3>1 DEF DeclareOnly, Steady
    <3>2. CASE DeclareInit
      <4> DEFINE f == Store("x", "init", Stack)
      <4>1. ctl' = Append(ctl, f) /\ f \in Entries /\ f.op = "init"
        BY <1>1, <3>2, StoreEntry DEF DeclareInit, Push, Slots
      <4> HIDE DEF f
      <4>2. Len(ctl') = 1 /\ ctl'[1] = f
        BY <2>1, <4>1
      <4> QED BY <2>2, <4>1, <4>2 DEF Steady, SteadyAt
    <3> QED BY <1>2, <3>1, <3>2
  <2> QED BY <2>5, <2>7, <2>8
<1>3. CASE EndScope
  <2>1. /\ ctl = <<>> /\ ctl' = ctl /\ UNCHANGED <<heap, last>>
        /\ frame' = [frame EXCEPT !.open = FALSE, !.fwd = Stack, !.payload = Nil]
    BY <1>3 DEF EndScope
  <2>2. ~frame'.open
    BY <1>1, <2>1 DEF Typed, FrameOK
  <2> QED BY <2>1, <2>2 DEF JInv, Current, Distinct, Steady
<1> QED BY <1>2, <1>3

LEMMA DropSettled ==
    ASSUME JInv, Settled, Drop
    PROVE  Current' /\ Distinct' /\ Steady'
<1> DEFINE d == Head(due)
<1>1. Typed /\ kind # "weak" /\ weaks = {} /\ FrameOK(frame, kind) /\ last \in [Eras -> Values]
      /\ \A h \in DOMAIN heap : heap[h] \in HeapRecords(kind)
  BY DEF JInv, IInv, Typed, Settled, HeapOK
<1>2. UNCHANGED <<kind, ctl>>
  BY DEF Drop
<1>3. /\ frame'.open = frame.open /\ frame'.fwd = frame.fwd /\ frame'.era = frame.era
      /\ frame'.payload = frame.payload /\ last' = last
      /\ DOMAIN heap' \subseteq DOMAIN heap
      /\ \A h \in DOMAIN heap' : heap'[h].era = heap[h].era /\ heap'[h].payload = heap[h].payload
  <2>1. CASE UNCHANGED <<frame, heap, last>>
    BY <2>1
  <2>2. CASE FreeObject(d.id)
    <3>1. /\ frame' = [frame EXCEPT !.payload = frame.payload]
          /\ heap' = [h \in DOMAIN heap |-> [heap[h] EXCEPT !.payload = heap[h].payload]]
          /\ last' = [e \in Eras |-> last[e]]
      BY <1>1, <2>2 DEF FreeObject
    <3>2. last' = last
      BY <1>1, <3>1
    <3>3. frame'.open = frame.open /\ frame'.fwd = frame.fwd /\ frame'.era = frame.era /\ frame'.payload = frame.payload
      BY <1>1, <3>1 DEF FrameOK
    <3> QED BY <1>1, <3>1, <3>2, <3>3 DEF HeapRecords
  <2>3. CASE UNCHANGED <<frame, last>> /\ heap' = [heap EXCEPT ![d.id].refs = @ - 1]
    BY <1>1, <2>3 DEF HeapRecords
  <2>4. CASE UNCHANGED <<frame, last>> /\ heap' = Without(heap, d.id)
    BY <2>4 DEF Without
  <2> QED BY <2>1, <2>2, <2>3, <2>4 DEF Drop
<1>4. Current' /\ Distinct'
  BY <1>3, ValuesStay DEF JInv
<1>5. Steady'
  BY <1>2, <1>3 DEF JInv, Steady, Owns
<1> QED BY <1>4, <1>5

(* A structure that moves takes its value along, and nothing under way has read
   its address. *)
LEMMA CopiedSettled ==
    ASSUME JInv, Settled, ValueCopied
    PROVE  Current' /\ Distinct' /\ Steady'
<1>1. PICK b \in Blocks : CopyLiteral(b) /\ Evaluated(b)
  BY DEF ValueCopied
<1>2. PICK s \in Structs : Assign(Slot, s)
  BY <1>1 DEF CopyLiteral
<1>3. /\ UNCHANGED <<kind, last>> /\ ctl # <<>>
      /\ (Top.dst = "held" /\ Sees) \/ (Top.dst = "x" /\ kind = "block")
  BY DEF ValueCopied, Waiting
<1>4. IInv /\ FrameOK(frame, kind) /\ \A h \in DOMAIN heap : heap[h] \in HeapRecords(kind)
  BY DEF JInv, IInv, Typed, HeapOK
<1>5. At(Fwd(Slot))
  BY <1>3, <1>4, SeesOpen, StoreOpen, Reached
<1>6. CASE Fwd(Slot) = Stack
  <2> DEFINE r == [refs |-> 2, era |-> frame.era, payload |-> frame.payload]
  <2>1. /\ s \notin DOMAIN heap /\ heap' = With(heap, s, r) /\ frame.open /\ frame.fwd = Stack
        /\ frame' = [frame EXCEPT !.fwd = s, !.payload = LeftBehind]
    BY <1>2, <1>5, <1>6 DEF Assign, At
  <2>2. r.era = frame.era /\ r.payload = frame.payload
    OBVIOUS
  <2> HIDE DEF r
  <2>3. DOMAIN heap' = DOMAIN heap \cup {s} /\ heap'[s] = r /\ \A h \in DOMAIN heap : heap'[h] = heap[h]
    BY <2>1 DEF With
  <2>4. frame'.open /\ frame'.fwd = s /\ frame'.era = frame.era /\ s # Stack /\ Stack \notin DOMAIN heap
    BY <1>4, <2>1 DEF FrameOK, IInv, Typed, HeapOK
  <2>5. Current'
    BY <1>3, <2>1, <2>2, <2>3, <2>4 DEF JInv, Current
  <2>6. \A h \in DOMAIN heap : heap[h].era # frame.era
    BY <2>1, <2>4 DEF JInv, Distinct
  <2>7. Distinct'
    BY <2>1, <2>2, <2>3, <2>4, <2>6 DEF JInv, Distinct
  <2>8. MayMove /\ DOMAIN ctl = 1..Len(ctl)
    BY <1>1, <1>4, <1>6 DEF CopyLiteral, IInv, Typed
  <2>9. \A i \in 1..Len(ctl) : ctl[i].op # "compound" /\ (ctl[i].op = "init" => Owns)
    BY <2>8 DEF MayMove, Settled
  <2>10. ctl' = [ctl EXCEPT ![Len(ctl)].val = b] /\ ctl \in Seq(Entries)
    BY <1>1, <1>4 DEF Evaluated, IInv, Typed
  <2>11. Len(ctl') = Len(ctl) /\ \A i \in 1..Len(ctl) : ctl'[i].op = ctl[i].op
    BY <2>10 DEF Entries
  <2>12. Steady'
    BY <1>3, <2>9, <2>11 DEF Steady, SteadyAt, Owns
  <2> QED BY <2>5, <2>7, <2>12
<1>7. CASE Fwd(Slot) # Stack
  <2>1. s \in DOMAIN heap /\ heap' = [heap EXCEPT ![s].refs = @ + 1] /\ frame' = frame
    BY <1>2, <1>5, <1>7 DEF Assign, At
  <2>2. DOMAIN heap' = DOMAIN heap
        /\ \A h \in DOMAIN heap : heap'[h].era = heap[h].era /\ heap'[h].payload = heap[h].payload
    BY <1>4, <2>1 DEF HeapRecords
  <2>3. Current' /\ Distinct'
    BY <1>3, <2>1, <2>2, ValuesStay DEF JInv
  <2>4. Steady'
    BY <1>1, <1>3, <2>1, EvaluatedSettled
  <2> QED BY <2>3, <2>4
<1> QED BY <1>6, <1>7

(* Every store goes where x is when it happens. *)
LEMMA StoredSettled ==
    ASSUME JInv, StoreX
    PROVE  Current' /\ Distinct' /\ Steady'
<1> DEFINE at == Target(Top)  v == Top.val  e == EraOf(Slot)
<1>1. /\ ctl # <<>> /\ Top.dst = "x" /\ v # Unset /\ StoredAt(at, v) /\ ctl' = Pop
      /\ last' = [last EXCEPT ![e] = v] /\ kind' = kind
  BY DEF StoreX, Arrived, StoredAt
<1>2. IInv /\ Typed /\ Top \in Entries /\ EntryOK(Top, kind) /\ Slot = Top.slot
      /\ (Top.op = "init" => Len(ctl) = 1)
  BY <1>1, Popping DEF JInv, IInv
<1>3. v \in ValuesOf(kind)
  BY <1>1, <1>2 DEF EntryOK
<1>4. SteadyAt(Top, frame.fwd, Owns)
  <2>1. Len(ctl) \in 1..Len(ctl)
    BY <1>1, <1>2 DEF Typed
  <2> QED BY <2>1 DEF JInv, Steady, Top
<1>5. at = Fwd(Slot)
  <2>1. Top.op \in {"assign", "compound", "init"}
    BY <1>1, <1>2 DEF EntryOK, Entries
  <2>2. CASE Top.op = "assign"
    BY <2>2 DEF Target, Refresh
  <2>3. CASE Top.op = "compound"
    BY <1>2, <1>4, <2>3 DEF Target, SteadyAt, Fwd
  <2>4. CASE Top.op = "init"
    BY <1>2, <1>4, <2>4 DEF Target, SteadyAt, Fwd, InitTarget, EntryOK
  <2> QED BY <2>1, <2>2, <2>3, <2>4
<1> HIDE DEF at, v
<1>6. At(at) /\ (Slot = Stack => frame.open) /\ (Slot # Stack => Slot \in DOMAIN heap)
  <2>1. At(at) /\ (Slot = Stack => frame.open)
    BY <1>1, <1>2, <1>5, StoreOpen, Reached
  <2> QED BY <1>5, <2>1 DEF At, Fwd
<1>7. /\ e \in Eras /\ last \in [Eras -> Values] /\ FrameOK(frame, kind)
      /\ \A h \in DOMAIN heap : heap[h] \in HeapRecords(kind)
  BY <1>2, <1>6 DEF EraOf, Typed, FrameOK, HeapOK, HeapRecords
<1>8. last'[e] = v /\ \A f : f # e => last'[f] = last[f]
  BY <1>1, <1>7
<1>9. /\ frame'.open = frame.open /\ frame'.fwd = frame.fwd /\ frame'.era = frame.era
      /\ DOMAIN heap' = DOMAIN heap /\ \A h \in DOMAIN heap : heap'[h].era = heap[h].era
  BY <1>1, <1>2, <1>3, StoredKeeps
(* The structure stored into is the only one of this x. *)
<1>10. /\ at # Stack => heap[at].era = e
       /\ \A h \in DOMAIN heap : heap[h].era = e <=> h = at
       /\ at = Stack => frame.era = e
       /\ frame.open /\ frame.fwd = Stack /\ at # Stack => frame.era # e
  <2>1. CASE Slot = Stack
    <3>1. frame.open /\ at = frame.fwd /\ e = frame.era
      BY <1>5, <1>6, <2>1 DEF Fwd, EraOf
    <3>2. Stack \notin DOMAIN heap
      BY <1>2 DEF Typed, HeapOK
    <3> QED BY <1>6, <3>1, <3>2 DEF JInv, Distinct, At
  <2>2. CASE Slot # Stack
    <3>1. at = Slot /\ e = heap[Slot].era /\ Slot \in DOMAIN heap
      BY <1>5, <1>6, <2>2 DEF Fwd, EraOf
    <3> QED BY <2>2, <3>1 DEF JInv, Distinct
  <2> QED BY <2>1, <2>2
<1>11. Distinct'
  BY <1>9 DEF JInv, Distinct
<1> HIDE DEF e
<1>12. Current'
  <2>1. CASE at = Stack
    <3>1. frame' = [frame EXCEPT !.payload = v] /\ heap' = heap
      BY <1>1, <2>1 DEF StoredAt
    <3>2. frame'.payload = v
      BY <1>7, <3>1 DEF FrameOK
    <3>3. Stack \notin DOMAIN heap
      BY <1>2 DEF Typed, HeapOK
    <3> QED BY <1>8, <1>9, <1>10, <2>1, <3>1, <3>2, <3>3 DEF JInv, Current
  <2>2. CASE at # Stack
    <3>1. frame' = frame /\ heap' = [heap EXCEPT ![at].payload = v]
      BY <1>1, <2>2 DEF StoredAt
    <3>2. \A h \in DOMAIN heap : heap'[h].payload = IF h = at THEN v ELSE heap[h].payload
      BY <1>2, <1>3, <3>1, PayloadSet
    <3>3. \A h \in DOMAIN heap' : heap'[h].payload = last'[heap'[h].era]
      BY <1>8, <1>9, <1>10, <3>2 DEF JInv, Current
    <3>4. frame'.open /\ frame'.fwd = Stack => frame'.payload = last'[frame'.era]
      BY <1>8, <1>10, <2>2, <3>1 DEF JInv, Current
    <3> QED BY <3>3, <3>4 DEF Current
  <2> QED BY <2>1, <2>2
<1>13. Steady'
  BY <1>1, <1>2, <1>9, SteadyPopped DEF JInv
<1> QED BY <1>11, <1>12, <1>13

LEMMA SettledKeeps ==
    ASSUME JInv, Settled, [Next]_vars
    PROVE  JInv'
<1>1. IInv'
  BY Keeps DEF JInv, Settled
<1>2. CASE UNCHANGED vars
  <2>1. UNCHANGED <<kind, frame, heap, last, ctl>>
    BY <1>2 DEF vars
  <2> QED BY <1>1, <2>1 DEF JInv, Current, Distinct, Steady, Owns
<1>3. CASE Next
  BY <1>1, <1>3, DropSettled, ScopeSettled, BegunSettled, CopiedSettled, ValueSettled,
     StoredSettled, LocalsSettled, CalledSettled, ReturnSettled DEF Next, JInv
<1> QED BY <1>2, <1>3

LEMMA SettledBegins ==
    ASSUME Init
    PROVE  JInv
<1>1. heap = <<>> /\ ctl = <<>> /\ ~frame.open
  BY DEF Init
<1> QED BY <1>1, Begins DEF JInv, Current, Distinct, Steady

(* Whoever reads x - the function, the body of a block, a block not called yet -
   reads the value last stored in that x, wherever the structure has moved since
   and whoever stored it. *)
THEOREM EveryoneReadsOneVariable ==
    ASSUME Settled
    PROVE  Spec => []OneVariable
<1>1. Init => JInv
  BY SettledBegins
<1>2. JInv /\ [Next]_vars => JInv'
  BY SettledKeeps
<1>3. JInv => OneVariable
  <2> SUFFICES ASSUME JInv, NEW a \in Accessors PROVE Payload(Fwd(a)) = last[EraOf(a)]
    BY DEF OneVariable
  <2>1. /\ a \in Slots /\ At(Fwd(a))
        /\ IF a = Stack THEN frame.open ELSE a \in DOMAIN heap
    BY AccessOpen DEF JInv
  <2>2. CASE a = Stack
    <3>1. frame.open /\ Fwd(a) = frame.fwd /\ EraOf(a) = frame.era
      BY <2>1, <2>2 DEF Fwd, EraOf
    <3>2. CASE frame.fwd = Stack
      BY <3>1, <3>2 DEF JInv, Current, Payload
    <3>3. CASE frame.fwd # Stack
      <4>1. frame.fwd \in DOMAIN heap /\ heap[frame.fwd].era = frame.era
        BY <2>1, <3>1, <3>3 DEF At, JInv, Distinct
      <4> QED BY <3>1, <3>3, <4>1 DEF JInv, Current, Payload
    <3> QED BY <3>2, <3>3
  <2>3. CASE a # Stack
    BY <2>1, <2>3 DEF Fwd, EraOf, Payload, JInv, Current
  <2> QED BY <2>2, <2>3
<1> QED BY <1>1, <1>2, <1>3, PTL DEF Spec
=============================================================================
