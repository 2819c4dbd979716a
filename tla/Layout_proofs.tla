---------------------------- MODULE Layout_proofs ----------------------------
(***************************************************************************)
(* The layout of records, for any types, widths, alignments and ceilings,  *)
(* and any number of members and stores.                                   *)
(*                                                                         *)
(* IInv follows the cursor: what is placed is behind it and in order       *)
(* (InOrder), an open unit holds it (UnitOK), and each member was right    *)
(* when it was placed and remains so as the cursor and the alignment grow  *)
(* (MemberOK, StaysOK).  ReachOK is why an access ends inside the record   *)
(* although the unit may end behind the cursor: the size is rounded to an  *)
(* alignment that the unit divides.  Every action that places a member is  *)
(* a case of Places; a store is followed bit by bit (StoreIs).             *)
(*                                                                         *)
(* The runs of the emitted type are a fold over sorted ranges.  That the   *)
(* sort and the fold are what they are taken for is proved by counting up  *)
(* (CountsUp); Runs is what the fold keeps.                                *)
(***************************************************************************)
EXTENDS Layout, FiniteSetTheorems, FunctionTheorems, WellFoundedInduction, TLAPS

----------------------------------------------------------------------------
(* The invariant's parts.                                                  *)

PlaceSet == [off : Nat, bitOff : Nat, unit : Nat]

MemberSet ==
    [first : Nat, bytes : Nat, width : Nat, align : Nat \ {0}, bitField : BOOLEAN,
     named : BOOLEAN, place : PlaceSet, signed : BOOLEAN, flexible : BOOLEAN]

RecSet == [union : BOOLEAN, packed : BOOLEAN, pack : Packs, align : RecordAligns, ms : BOOLEAN]

Typed ==
    /\ rec \in RecSet
    /\ cur \in Cursor
    /\ align \in Alignments
    /\ placed \in Seq(MemberSet)
    /\ size \in Nat \cup {-1}
    /\ mem \in SUBSET Nat

\* An open unit is the Microsoft rule's: it begins at a byte, and the cursor
\* is in it.
UnitOK(r, c) ==
    c.opened # 0 =>
        /\ r.ms /\ ~r.packed /\ ~r.union
        /\ c.start % 8 = 0 /\ c.width = c.opened * 8
        /\ c.start <= c.bits /\ c.bits <= c.start + c.width

\* The members of a struct are in order, behind the cursor.
Behind(c, p) == \A i \in DOMAIN p : p[i].first + p[i].width <= c.bits

Ascending(p) ==
    \A i, j \in DOMAIN p : i < j => p[i].first + p[i].width <= p[j].first

InOrder == ~rec.union => Behind(cur, placed) /\ Ascending(placed)

\* An ordinary member is whole bytes, where its alignment wants it, and the
\* record's is no smaller.
OrdinaryOK(a, f) ==
    ~f.bitField =>
        /\ f.first % 8 = 0 /\ f.width % 8 = 0
        /\ (f.first \div 8) % f.align = 0
        /\ f.align \in Alignments /\ f.align <= a

Field(f) == f.bitField /\ f.named

\* A bit-field is within its unit, and a unit of eight bytes takes the wide
\* access.
FieldOK(r, f) ==
    Field(f) /\ ~r.union =>
        /\ f.width >= 1
        /\ f.first = f.place.off * 8 + f.place.bitOff
        /\ f.place.bitOff + f.width <= f.place.unit * 8
        /\ f.place.unit = 8 => WordBits(f) = 64
        /\ ~OddUnit => f.place.unit \in {1, 2, 4, 8}

\* How far a unit reaches: not past the byte the cursor ends in, or, under the
\* gcc rule, to a boundary the record is aligned to.
ReachOK(r, c, a, f) ==
    Field(f) /\ ~r.union /\ ~PackCeiling =>
        IF r.packed \/ r.ms
        THEN (f.place.off + f.place.unit) * 8 <= CloseUnit(c).bits + 7
        ELSE /\ f.place.unit \in Alignments /\ f.place.unit <= a
             /\ f.place.off % f.place.unit = 0
             /\ f.place.off * 8 < c.bits

\* A bit-field of a union has no place, and is accessed by four bytes or eight.
UnionOK(r, c, f) ==
    Field(f) /\ r.union =>
        /\ f.place = Place(0, 0, 0) /\ f.bytes \in {1, 2, 4, 8}
        /\ f.width >= 1 /\ f.width <= f.bytes * 8
        /\ ~UnionField => (IF f.bytes = 8 THEN 64 ELSE 32) <= c.bits

MemberOK(r, c, a, f) ==
    OrdinaryOK(a, f) /\ FieldOK(r, f) /\ ReachOK(r, c, a, f) /\ UnionOK(r, c, f)

MembersOK == \A i \in DOMAIN placed : MemberOK(rec, cur, align, placed[i])

\* The complete record is as long as its members and a multiple of its alignment.
SizeOK ==
    size # -1 => cur.opened = 0 /\ cur.bits <= size * 8 /\ size % align = 0

\* What a bit-field was last given is what the memory at its place holds.
Holding(m, f, v) ==
    /\ v \in SUBSET (0 .. (f.width - 1))
    /\ \A b \in 0 .. (f.width - 1) : f.first + b \in m <=> b \in v

Held ==
    /\ DOMAIN vals = IF size = -1 THEN {} ELSE {i \in DOMAIN placed : Field(placed[i])}
    /\ ~rec.union /\ ~OddUnit => \A i \in DOMAIN vals : Holding(mem, placed[i], vals[i])

IInv == Typed /\ UnitOK(rec, cur) /\ InOrder /\ MembersOK /\ SizeOK /\ Held

----------------------------------------------------------------------------
(* Arithmetic: what rounding up and dividing do.                           *)

\* roundUp: the next multiple.
LEMMA RoundUpIs ==
    ASSUME NEW n \in Nat, NEW d \in Nat \ {0}
    PROVE  /\ RoundUp(n, d) \in Nat
           /\ n <= RoundUp(n, d) /\ RoundUp(n, d) < n + d
           /\ \E k \in Nat : RoundUp(n, d) = k * d
           /\ RoundUp(n, d) % d = 0
BY DEF RoundUp

\* A quotient and its remainder.
LEMMA Division ==
    ASSUME NEW n \in Nat, NEW d \in Nat \ {0}
    PROVE  /\ n \div d \in Nat /\ n % d \in Nat /\ n % d < d
           /\ n = (n \div d) * d + (n % d)
OBVIOUS

\* What is a number of times d is divided by d.
LEMMA Multiple ==
    ASSUME NEW k \in Nat, NEW d \in Nat \ {0}
    PROVE  (k * d) % d = 0 /\ (k * d) \div d = k
OBVIOUS

\* A multiple of a multiple.
LEMMA Divides ==
    ASSUME NEW a \in Nat \ {0}, NEW b \in Nat \ {0}, NEW n \in Nat, b % a = 0, n % b = 0
    PROVE  n % a = 0
<1> DEFINE p == n \div b
           q == b \div a
<1>1. p \in Nat /\ n = p * b
  BY Division
<1>2. q \in Nat /\ b = q * a
  BY Division
<1> HIDE DEF p, q
<1>3. n = (p * q) * a
  BY <1>1, <1>2
<1>4. p * q \in Nat
  BY <1>1, <1>2
<1> QED BY <1>3, <1>4, Multiple

\* The alignments of a record, its members and its units divide each other.
LEMMA SmallerDivides ==
    ASSUME PowersOfTwo, NEW a \in Alignments, NEW b \in Alignments, a <= b,
           Alignments \subseteq Nat \ {0}, NEW n \in Nat, n % b = 0
    PROVE  n % a = 0
<1>1. a \in Nat \ {0} /\ b \in Nat \ {0}
  OBVIOUS
<1>2. b % a = 0
  BY DEF PowersOfTwo
<1> QED BY <1>1, <1>2, Divides

\* No alignment is zero.
LEMMA AlignmentsAre == Alignments \subseteq Nat \ {0}
<1>1. {t.align : t \in Types} \subseteq Nat \ {0}
  BY LayoutAssumption DEF LayoutAssumption
<1>2. BitTypes \subseteq Nat \ {0}
  BY LayoutAssumption DEF LayoutAssumption
<1>3. (Aligns \cup Packs \cup RecordAligns) \ {0} \subseteq Nat \ {0}
  BY LayoutAssumption DEF LayoutAssumption
<1>4. 1 \in Nat \ {0}
  OBVIOUS
<1> QED BY ZenonT(20), <1>1, <1>2, <1>3, <1>4 DEF Alignments

\* The alignment a member is placed at.
LEMMA AlignOfIs ==
    ASSUME rec \in RecSet, NEW n \in Alignments, NEW asked \in Aligns \cup {0}
    PROVE  /\ AlignOf(n, asked) \in Alignments
           /\ rec.pack = 0 /\ ~rec.packed /\ asked = 0 => AlignOf(n, asked) = n
<1>1. MemberAlign(n) \in Alignments
  BY LayoutAssumption, AlignmentsAre DEF LayoutAssumption, MemberAlign, Alignments, RecSet
<1>2. Larger(MemberAlign(n), asked) \in Alignments
  <2>1. CASE MemberAlign(n) > asked
    BY <1>1, <2>1 DEF Larger
  <2>2. CASE ~(MemberAlign(n) > asked)
    <3>0. Aligns \subseteq Nat
      BY LayoutAssumption DEF LayoutAssumption
    <3>1. asked \in Nat
      BY <3>0
    <3>3. MemberAlign(n) \in Nat \ {0}
      BY <1>1, AlignmentsAre
    <3>2. asked \in Aligns \ {0}
      BY <2>2, <3>1, <3>3
    <3> QED BY <2>2, <3>2 DEF Larger, Alignments
  <2> QED BY <2>1, <2>2
<1>3. rec.pack = 0 /\ ~rec.packed /\ asked = 0 => Larger(MemberAlign(n), asked) = n
  BY AlignmentsAre DEF MemberAlign, Larger
<1> QED BY <1>2, <1>3 DEF AlignOf

----------------------------------------------------------------------------
(* The cursor.                                                             *)

\* CloseUnit: the cursor past all of the open unit.
LEMMA Closed ==
    ASSUME NEW c \in Cursor
    PROVE  /\ CloseUnit(c) \in Cursor
           /\ CloseUnit(c).opened = 0
           /\ c.bits <= CloseUnit(c).bits
           /\ c.opened = 0 => CloseUnit(c) = c
           /\ c.opened # 0 => c.start + c.width <= CloseUnit(c).bits
<1>1. CASE c.opened = 0
  BY <1>1 DEF CloseUnit, Cursor
<1>2. CASE c.opened # 0
  <2>1. CloseUnit(c) = [c EXCEPT !.bits = Larger(c.bits, c.start + c.width), !.opened = 0]
    BY <1>2 DEF CloseUnit
  <2>2. /\ Larger(c.bits, c.start + c.width) \in Nat
        /\ c.bits <= Larger(c.bits, c.start + c.width)
        /\ c.start + c.width <= Larger(c.bits, c.start + c.width)
    BY DEF Cursor, Larger
  <2> QED BY <1>2, <2>1, <2>2 DEF Cursor
<1> QED BY <1>1, <1>2

\* Where the gcc rule starts a field, it is inside one unit.
LEMMA GccFits ==
    ASSUME NEW c \in Cursor, NEW s \in {1, 2, 4, 8}, NEW w \in Nat, w >= 1, w <= s * 8
    PROVE  /\ GccStart(c, s * 8, w) \in Nat
           /\ c.bits <= GccStart(c, s * 8, w)
           /\ (GccStart(c, s * 8, w) % (s * 8)) + w <= s * 8
<1> DEFINE u == s * 8
           b == c.bits
<1>1. u \in Nat \ {0} /\ b \in Nat /\ w <= u
  BY DEF Cursor
<1>2. CASE b \div u # (b + w - 1) \div u
  <2>1. GccStart(c, s * 8, w) = RoundUp(b, u)
    BY <1>2 DEF GccStart
  <2>2. RoundUp(b, u) \in Nat /\ b <= RoundUp(b, u) /\ RoundUp(b, u) % u = 0
    BY <1>1, RoundUpIs
  <2> QED BY <1>1, <2>1, <2>2
<1>3. CASE b \div u = (b + w - 1) \div u
  <2>1. GccStart(c, s * 8, w) = b
    BY <1>3 DEF GccStart
  <2>2. (b % u) + w <= u
    <3> HIDE DEF u, b
    <3> DEFINE k == b \div u
               e == b + w - 1
    <3>1. e \in Nat
      BY <1>1
    <3>2. k \in Nat /\ b % u \in Nat /\ b = k * u + (b % u)
      BY <1>1, Division
    <3>3. e = k * u + (e % u) /\ e % u < u /\ e % u \in Nat
      BY <1>1, <1>3, <3>1, Division
    <3>4. k * u \in Nat
      BY <3>2, <1>1
    <3> HIDE DEF k
    <3>5. (b % u) + w - 1 = e % u
      BY <3>1, <3>2, <3>3, <3>4, <1>1
    <3> QED BY <3>1, <3>2, <3>3, <3>5, <1>1
  <2> QED BY <1>1, <2>1, <2>2
<1> QED BY <1>2, <1>3

----------------------------------------------------------------------------
(* One more member.                                                        *)

\* The members with one more.
LEMMA OneMore ==
    ASSUME NEW p \in Seq(MemberSet), NEW f \in MemberSet
    PROVE  /\ Append(p, f) \in Seq(MemberSet)
           /\ DOMAIN p = 1 .. Len(p) /\ Len(p) \in Nat
           /\ DOMAIN Append(p, f) = 1 .. (Len(p) + 1)
           /\ \A i \in DOMAIN p : Append(p, f)[i] = p[i]
           /\ Append(p, f)[Len(p) + 1] = f
OBVIOUS

\* What a further member may do to the cursor and the alignment.
Advances(c, a, d, b) ==
    /\ c.bits <= d.bits
    /\ CloseUnit(c).bits <= CloseUnit(d).bits
    /\ a <= b

\* What is right of a member remains so.
LEMMA StaysOK ==
    ASSUME NEW r \in RecSet, NEW c \in Cursor, NEW d \in Cursor,
           NEW a \in Alignments, NEW b \in Alignments, NEW f \in MemberSet,
           Advances(c, a, d, b), MemberOK(r, c, a, f)
    PROVE  MemberOK(r, d, b, f)
<1>1. /\ c.bits \in Nat /\ d.bits \in Nat /\ a \in Nat /\ b \in Nat
      /\ c.bits <= d.bits /\ a <= b
  BY AlignmentsAre DEF Cursor, Advances
<1>2. /\ CloseUnit(c).bits \in Nat /\ CloseUnit(d).bits \in Nat
      /\ CloseUnit(c).bits <= CloseUnit(d).bits
  BY Closed DEF Cursor, Advances
<1>3. /\ f.place.off \in Nat /\ f.place.unit \in Nat /\ f.align \in Nat
  BY DEF MemberSet, PlaceSet
<1>4. OrdinaryOK(b, f)
  BY <1>1, <1>3 DEF MemberOK, OrdinaryOK
<1>5. FieldOK(r, f)
  BY DEF MemberOK
<1>6. ReachOK(r, d, b, f)
  <2>1. ReachOK(r, c, a, f)
    BY DEF MemberOK
  <2>2. CASE r.packed \/ r.ms
    BY <1>2, <1>3, <2>1, <2>2 DEF ReachOK
  <2>3. CASE ~(r.packed \/ r.ms)
    BY <1>1, <1>3, <2>1, <2>3 DEF ReachOK
  <2> QED BY <2>2, <2>3
<1>7. UnionOK(r, d, f)
  BY <1>1 DEF MemberOK, UnionOK
<1> QED BY <1>4, <1>5, <1>6, <1>7 DEF MemberOK

\* A step that places a member, behind what is placed, and tells nothing false
\* of it.
Places(f) ==
    /\ placed' = Append(placed, f)
    /\ f \in MemberSet
    /\ size = -1
    /\ UNCHANGED <<rec, size, mem, vals, stores>>
    /\ cur' \in Cursor /\ UnitOK(rec, cur')
    /\ align' \in Alignments
    /\ Advances(cur, align, cur', align')
    /\ ~rec.union => cur.bits <= f.first /\ f.first + f.width <= cur'.bits
    /\ MemberOK(rec, cur', align', f)

\* A member that is placed leaves what was placed before it right.
LEMMA PlacesKeeps ==
    ASSUME IInv, NEW f, Places(f)
    PROVE  IInv'
<1> DEFINE p == placed
           q == placed'
           n == Len(placed)
<1>0. Typed /\ UnitOK(rec, cur) /\ InOrder /\ MembersOK /\ SizeOK /\ Held
  BY DEF IInv
<1>1. /\ q = Append(p, f) /\ f \in MemberSet /\ p \in Seq(MemberSet)
      /\ rec' = rec /\ size' = size /\ mem' = mem /\ vals' = vals /\ size = -1
      /\ rec \in RecSet /\ cur \in Cursor /\ align \in Alignments
      /\ cur' \in Cursor /\ align' \in Alignments
  BY <1>0 DEF Places, Typed
<1>2. /\ q \in Seq(MemberSet) /\ n \in Nat
      /\ DOMAIN p = 1 .. n /\ DOMAIN q = 1 .. (n + 1)
      /\ \A i \in DOMAIN p : q[i] = p[i]
      /\ q[n + 1] = f
  BY <1>1, OneMore
<1> HIDE DEF p, q, n
<1>3. Typed'
  BY <1>0, <1>1, <1>2 DEF Typed, p, q
<1>4. UnitOK(rec', cur')
  BY <1>1 DEF Places
<1>5. \A i \in DOMAIN p : p[i] \in MemberSet
  BY <1>1
<1>6. InOrder'
  <2> SUFFICES ASSUME ~rec.union
               PROVE  Behind(cur', q) /\ Ascending(q)
    BY <1>1 DEF InOrder, q
  <2>1. Behind(cur, p) /\ Ascending(p)
    BY <1>0 DEF InOrder, p
  <2>2. /\ cur.bits \in Nat /\ cur'.bits \in Nat /\ cur.bits <= cur'.bits
        /\ cur.bits <= f.first /\ f.first + f.width <= cur'.bits
    BY <1>1 DEF Places, Cursor, Advances
  <2>3. \A i \in DOMAIN p : p[i].first \in Nat /\ p[i].width \in Nat
    BY <1>5 DEF MemberSet
  <2>4. f.first \in Nat /\ f.width \in Nat
    BY <1>1 DEF MemberSet
  <2>5. Behind(cur', q)
    BY <1>2, <2>1, <2>2, <2>3 DEF Behind
  <2>6. Ascending(q)
    <3> SUFFICES ASSUME NEW i \in DOMAIN q, NEW j \in DOMAIN q, i < j
                 PROVE  q[i].first + q[i].width <= q[j].first
      BY DEF Ascending
    <3>1. i \in DOMAIN p
      BY <1>2
    <3>2. CASE j \in DOMAIN p
      BY <1>2, <2>1, <3>1, <3>2 DEF Ascending
    <3>3. CASE j = n + 1
      <4>1. p[i].first + p[i].width <= cur.bits
        BY <2>1, <3>1 DEF Behind
      <4> QED BY <1>2, <2>2, <2>3, <2>4, <3>1, <3>3, <4>1
    <3> QED BY <1>2, <3>2, <3>3
  <2> QED BY <2>5, <2>6
<1>7. MembersOK'
  <2> SUFFICES ASSUME NEW i \in DOMAIN q
               PROVE  MemberOK(rec', cur', align', q[i])
    BY DEF MembersOK, q
  <2>1. CASE i \in DOMAIN p
    <3>1. MemberOK(rec, cur, align, p[i])
      BY <1>0, <2>1 DEF MembersOK, p
    <3>2. Advances(cur, align, cur', align')
      BY DEF Places
    <3>3. MemberOK(rec, cur', align', p[i])
      BY <1>1, <1>5, <2>1, <3>1, <3>2, StaysOK
    <3> QED BY <1>1, <1>2, <2>1, <3>3
  <2>2. CASE i = n + 1
    BY <1>1, <1>2, <2>2 DEF Places
  <2> QED BY <1>2, <2>1, <2>2
<1>8. SizeOK'
  BY <1>1 DEF SizeOK
<1>9. Held'
  BY <1>0, <1>1 DEF Held
<1> QED BY <1>3, <1>4, <1>6, <1>7, <1>8, <1>9 DEF IInv

----------------------------------------------------------------------------
(* The actions that place a member.                                        *)

\* The larger is no smaller than either.
LEMMA LargerIs ==
    ASSUME NEW a \in Nat, NEW b \in Nat
    PROVE  Larger(a, b) \in Nat /\ a <= Larger(a, b) /\ b <= Larger(a, b)
BY DEF Larger

\* The record's alignment is as large as any that counts.
LEMMA RaiseIs ==
    ASSUME align \in Alignments, NEW a \in Alignments, NEW counts \in BOOLEAN, Raise(a, counts)
    PROVE  align' \in Alignments /\ align <= align' /\ (counts => a <= align')
<1>1. align \in Nat /\ a \in Nat
  BY AlignmentsAre
<1>2. CASE counts
  <2>1. align' = Larger(align, a)
    BY <1>2 DEF Raise
  <2> QED BY <1>1, <2>1 DEF Larger
<1>3. CASE ~counts
  BY <1>1, <1>3 DEF Raise
<1> QED BY <1>2, <1>3

\* The cursor of a record that is being laid out.
LEMMA BuildingIs ==
    ASSUME IInv
    PROVE  /\ rec \in RecSet /\ cur \in Cursor /\ align \in Alignments
           /\ placed \in Seq(MemberSet) /\ UnitOK(rec, cur)
           /\ cur.bits \in Nat /\ cur.start \in Nat /\ cur.width \in Nat
           /\ CloseUnit(cur) \in Cursor /\ CloseUnit(cur).bits \in Nat
           /\ cur.bits <= CloseUnit(cur).bits
           /\ ~rec.ms \/ rec.packed \/ rec.union => cur.opened = 0 /\ CloseUnit(cur) = cur
BY Closed DEF IInv, Typed, UnitOK, Cursor

\* The byte an ordinary member starts in is behind the bits placed so far.
LEMMA MemberOffsetIs ==
    ASSUME NEW c \in Cursor, NEW a \in Nat \ {0}
    PROVE  /\ MemberOffset(c, a) \in Nat
           /\ MemberOffset(c, a) % a = 0
           /\ CloseUnit(c).bits <= MemberOffset(c, a) * 8
<1> DEFINE b == CloseUnit(c).bits
           n == (b + 7) \div 8
<1>1. b \in Nat
  BY Closed DEF Cursor
<1>2. n \in Nat /\ b <= n * 8
  <2> HIDE DEF b
  <2> QED BY <1>1
<1> HIDE DEF n
<1>3. RoundUp(n, a) \in Nat /\ n <= RoundUp(n, a) /\ RoundUp(n, a) % a = 0
  BY <1>2, RoundUpIs
<1>4. MemberOffset(c, a) = RoundUp(n, a)
  BY DEF MemberOffset, n
<1> QED BY <1>1, <1>2, <1>3, <1>4

\* layoutWith, an ordinary member.
LEMMA MemberStep ==
    ASSUME IInv, NEW t \in [size : Nat, align : Nat \ {0}], t.align \in Alignments,
           NEW asked \in Aligns \cup {0}, NEW flexible \in BOOLEAN,
           Member(t, asked, flexible)
    PROVE  IInv'
<1> DEFINE a == AlignOf(t.align, asked)
           off == MemberOffset(cur, a)
           f == Ordinary(off * 8, t, a, flexible)
           d == [CloseUnit(cur) EXCEPT !.bits = (off + t.size) * 8]
<1>1. /\ Building /\ ~rec.union /\ cur' = d /\ Raise(a, TRUE)
      /\ placed' = Append(placed, f)
      /\ UNCHANGED <<rec, size, mem, vals, stores>>
  BY DEF Member
<1>2. a \in Alignments /\ a \in Nat \ {0}
  BY AlignOfIs, BuildingIs, AlignmentsAre
<1> HIDE DEF a
<1>3. /\ off \in Nat /\ off % a = 0 /\ CloseUnit(cur).bits <= off * 8
  BY <1>2, BuildingIs, MemberOffsetIs
<1> HIDE DEF off
<1>4. t.size \in Nat
  OBVIOUS
<1>5. /\ d \in Cursor /\ d.opened = 0 /\ d.bits = (off + t.size) * 8
  <2> DEFINE e == CloseUnit(cur)
             n == (off + t.size) * 8
  <2>1. e \in Cursor /\ e.opened = 0
    BY BuildingIs, Closed
  <2>2. n \in Nat
    BY <1>3, <1>4
  <2> HIDE DEF e, n
  <2>3. [e EXCEPT !.bits = n] \in Cursor /\ [e EXCEPT !.bits = n].opened = 0
        /\ [e EXCEPT !.bits = n].bits = n
    BY <2>1, <2>2 DEF Cursor
  <2> QED BY <2>3 DEF e, n
<1>6. align' \in Alignments /\ align <= align' /\ a <= align'
  BY <1>1, <1>2, RaiseIs, BuildingIs
<1>7. /\ f \in MemberSet /\ f.first = off * 8 /\ f.width = t.size * 8
      /\ f.align = a /\ f.bitField = FALSE
  BY <1>2, <1>3, <1>4 DEF Ordinary, MemberSet, PlaceSet, Place
<1> HIDE DEF f, d
<1>8. Advances(cur, align, cur', align')
  <2>1. d \in Cursor /\ CloseUnit(d) = d
    BY <1>5, Closed
  <2>2. d.bits \in Nat /\ CloseUnit(cur).bits <= d.bits
    BY <1>3, <1>4, <1>5, BuildingIs
  <2>3. cur.bits <= d.bits
    BY <2>2, BuildingIs
  <2> QED BY <1>1, <1>6, <2>1, <2>2, <2>3 DEF Advances
<1>9. f.first + f.width = d.bits /\ cur.bits <= f.first
  BY <1>3, <1>4, <1>5, <1>7, BuildingIs
<1>10. MemberOK(rec, cur', align', f)
  <2>1. (off * 8) \div 8 = off
    BY <1>3
  <2>0. (off * 8) % 8 = 0 /\ (t.size * 8) % 8 = 0
    BY <1>3, <1>4
  <2>2. OrdinaryOK(align', f)
    BY <1>2, <1>3, <1>6, <1>7, <2>0, <2>1 DEF OrdinaryOK
  <2> QED BY <1>7, <2>2 DEF MemberOK, FieldOK, ReachOK, UnionOK, Field
<1>11. Places(f)
  <2>1. UnitOK(rec, cur')
    BY <1>1, <1>5 DEF UnitOK
  <2>2. size = -1
    BY <1>1 DEF Building
  <2>3. f.first + f.width <= cur'.bits
    BY <1>1, <1>5, <1>9, <1>3, <1>4
  <2> QED BY <1>1, <1>5, <1>6, <1>7, <1>8, <1>9, <1>10, <2>1, <2>2, <2>3 DEF Places
<1> QED BY <1>11, PlacesKeeps

\* What is asked of a bit-field's place, and of the cursor behind it.
Fits(s, w, place, next) ==
    /\ place \in PlaceSet /\ next \in Cursor /\ UnitOK(rec, next)
    /\ cur.bits <= place.off * 8 + place.bitOff
    /\ place.off * 8 + place.bitOff + w <= next.bits
    /\ CloseUnit(cur).bits <= CloseUnit(next).bits
    /\ place.bitOff + w <= place.unit * 8
    /\ place.unit = 8 => s = 8 \/ place.bitOff + w > 32
    /\ ~OddUnit => place.unit \in {1, 2, 4, 8}
    /\ ~PackCeiling =>
          IF rec.packed \/ rec.ms
          THEN (place.off + place.unit) * 8 <= CloseUnit(next).bits + 7
          ELSE /\ rec.pack = 0 /\ place.unit = s
               /\ place.off % s = 0 /\ place.off * 8 < next.bits

\* layoutWith, a bit-field, whichever way it is placed.
LEMMA FieldStep ==
    ASSUME IInv, NEW s \in BitTypes, NEW w \in Nat, NEW named \in BOOLEAN, NEW signed \in BOOLEAN,
           NEW place, NEW next, Fits(s, w, place, next),
           PlaceField(s, w, named, signed, place, next)
    PROVE  IInv'
<1> DEFINE a == AlignOf(s, 0)
           f == Bits(place.off * 8 + place.bitOff, s, w, place, named, signed)
<1>1. /\ Building /\ ~rec.union /\ w > 0 /\ w <= s * 8
      /\ cur' = next /\ Raise(a, named)
      /\ placed' = Append(placed, f)
      /\ UNCHANGED <<rec, size, mem, vals, stores>>
  BY DEF PlaceField
<1>2. s \in Alignments /\ s \in {1, 2, 4, 8}
  BY LayoutAssumption DEF LayoutAssumption, Alignments
<1>3. /\ a \in Alignments /\ (rec.pack = 0 /\ ~rec.packed => a = s)
  BY <1>2, AlignOfIs, BuildingIs
<1> HIDE DEF a
<1>4. align' \in Alignments /\ align <= align' /\ (named => a <= align')
  BY <1>1, <1>3, RaiseIs, BuildingIs
<1>5. place \in PlaceSet /\ place.off \in Nat /\ place.bitOff \in Nat /\ place.unit \in Nat
  BY DEF Fits, PlaceSet
<1>6. /\ f \in MemberSet /\ f.first = place.off * 8 + place.bitOff
      /\ f.bytes = s /\ f.width = w /\ f.place = place /\ f.bitField = TRUE /\ f.named = named
  BY <1>2, <1>5 DEF Bits, MemberSet
<1> HIDE DEF f
<1>7. next \in Cursor /\ UnitOK(rec, next) /\ next.bits \in Nat
  BY DEF Fits, Cursor
<1>8. /\ cur.bits <= f.first /\ f.first + f.width <= next.bits /\ cur.bits <= next.bits
  <2>1. cur.bits <= f.first /\ f.first + f.width <= next.bits
    BY <1>6 DEF Fits
  <2>2. f.first \in Nat /\ f.width \in Nat /\ cur.bits \in Nat
    BY <1>5, <1>6, BuildingIs
  <2> QED BY <1>7, <2>1, <2>2
<1>9. Advances(cur, align, next, align')
  BY <1>4, <1>8 DEF Advances, Fits
<1>10. MemberOK(rec, next, align', f)
  <2>1. OrdinaryOK(align', f)
    BY <1>6 DEF OrdinaryOK
  <2>2. WordBits(f) = IF s = 8 \/ place.bitOff + w > 32 THEN 64 ELSE 32
    BY <1>6 DEF WordBits
  <2>3. FieldOK(rec, f)
    BY <1>1, <1>6, <2>2 DEF FieldOK, Fits
  <2>4. ReachOK(rec, next, align', f)
    <3> SUFFICES ASSUME named, ~PackCeiling
                 PROVE  ReachOK(rec, next, align', f)
      BY <1>6 DEF ReachOK, Field
    <3>1. CASE rec.packed \/ rec.ms
      BY <1>6, <3>1 DEF ReachOK, Fits
    <3>2. CASE ~(rec.packed \/ rec.ms)
      BY <1>2, <1>3, <1>4, <1>6, <3>2 DEF ReachOK, Fits
    <3> QED BY <3>1, <3>2
  <2>5. UnionOK(rec, next, f)
    BY <1>1 DEF UnionOK
  <2> QED BY <2>1, <2>3, <2>4, <2>5 DEF MemberOK
<1>11. Places(f)
  <2>1. size = -1
    BY <1>1 DEF Building
  <2> QED BY <1>1, <1>4, <1>6, <1>7, <1>8, <1>9, <1>10, <2>1 DEF Places
<1> QED BY <1>11, PlacesKeeps

\* The cursor moved, whatever is open.
LEMMA Moved ==
    ASSUME NEW c \in Cursor, NEW n \in Nat
    PROVE  /\ [c EXCEPT !.bits = n] \in Cursor
           /\ [c EXCEPT !.bits = n].bits = n
           /\ [c EXCEPT !.bits = n].start = c.start
           /\ [c EXCEPT !.bits = n].width = c.width
           /\ [c EXCEPT !.bits = n].opened = c.opened
BY DEF Cursor

\* A packed field: the unit is the bytes it touches.
LEMMA PackedBitsStep ==
    ASSUME IInv, NEW s \in BitTypes, NEW w \in Nat, NEW named \in BOOLEAN, NEW signed \in BOOLEAN,
           PackedBits(s, w, named, signed)
    PROVE  IInv'
<1> DEFINE c == CloseUnit(cur)
           b == cur.bits
           r == b % 8
           place == PackedPlace(c, w)
           next == [c EXCEPT !.bits = @ + w]
<1>1. /\ rec.packed /\ Allowed(place)
      /\ PlaceField(s, w, named, signed, place, next)
      /\ w > 0
  BY DEF PackedBits, PlaceField
<1>2. c = cur /\ cur \in Cursor /\ cur.opened = 0 /\ b \in Nat
  BY <1>1, BuildingIs
<1> HIDE DEF c
<1>3. /\ next = [cur EXCEPT !.bits = b + w] /\ next \in Cursor
      /\ next.bits = b + w /\ next.opened = 0
  BY <1>2, Moved
<1>4. CloseUnit(cur) = cur /\ CloseUnit(next) = next
  BY <1>2, <1>3, Closed
<1>5. /\ b \div 8 \in Nat /\ r \in Nat /\ r < 8 /\ b = (b \div 8) * 8 + r
  BY <1>2
<1> HIDE DEF r, b
<1>5a. r + w \in Nat /\ 8 \in Nat \ {0}
  BY <1>5
<1>6. PICK k \in Nat : RoundUp(r + w, 8) = k * 8
  BY <1>5a, RoundUpIs
<1>7. r + w <= k * 8 /\ k * 8 < r + w + 8
  <2>1. r + w <= RoundUp(r + w, 8) /\ RoundUp(r + w, 8) < r + w + 8
    BY <1>5a, RoundUpIs
  <2> QED BY <1>6, <2>1
<1>8. (k * 8) \div 8 = k
  BY <1>6
<1>9. place = [off |-> b \div 8, bitOff |-> r, unit |-> k]
  BY <1>2, <1>6, <1>8 DEF PackedPlace, Place, b, r
<1>10. ~OddUnit => k \in {1, 2, 4, 8}
  BY <1>1, <1>9 DEF Allowed
<1>11. Fits(s, w, place, next)
  <2> HIDE DEF place, next
  <2>1. place \in PlaceSet /\ place.off = b \div 8 /\ place.bitOff = r /\ place.unit = k
    BY <1>5, <1>6, <1>9 DEF PlaceSet
  <2>2. UnitOK(rec, next)
    BY <1>3 DEF UnitOK
  <2>3. cur.bits = b
    BY DEF b
  <2>4. /\ b <= (b \div 8) * 8 + r /\ (b \div 8) * 8 + r + w <= b + w
        /\ b <= b + w
    BY <1>1, <1>2, <1>5
  <2>5. k = 8 => r + w > 32
    BY <1>5, <1>7
  <2>6. (b \div 8 + k) * 8 <= b + w + 7
    BY <1>5, <1>6, <1>7, <1>2
  <2> QED BY <1>1, <1>3, <1>4, <1>7, <1>10, <2>1, <2>2, <2>3, <2>4, <2>5, <2>6 DEF Fits
<1> HIDE DEF place, next
<1> QED BY <1>1, <1>11, FieldStep

\* A field under the gcc rule: inside one unit of its declared type.
LEMMA GccBitsStep ==
    ASSUME IInv, NEW s \in BitTypes, NEW w \in Nat, NEW named \in BOOLEAN, NEW signed \in BOOLEAN,
           GccBits(s, w, named, signed)
    PROVE  IInv'
<1> DEFINE u == s * 8
           start == GccStart(cur, u, w)
           place == GccPlace(cur, s, w)
           next == [cur EXCEPT !.bits = GccStart(cur, s * 8, w) + w]
           k == start \div u
<1>1. /\ ~rec.packed /\ ~rec.ms /\ Allowed(place)
      /\ PlaceField(s, w, named, signed, place, next)
      /\ w > 0 /\ w <= s * 8
  BY DEF GccBits, PlaceField
<1>2. cur \in Cursor /\ cur.opened = 0 /\ cur.bits \in Nat /\ CloseUnit(cur) = cur
  BY <1>1, BuildingIs
<1>3. s \in {1, 2, 4, 8}
  BY LayoutAssumption DEF LayoutAssumption
<1>4. start \in Nat /\ cur.bits <= start /\ (start % u) + w <= u
  BY <1>1, <1>2, <1>3, GccFits
<1>5. /\ next = [cur EXCEPT !.bits = start + w] /\ next \in Cursor
      /\ next.bits = start + w /\ next.opened = 0
  BY <1>2, <1>4, Moved
<1>6. CloseUnit(next) = next
  BY <1>5, Closed
<1> HIDE DEF start
<1>7. k \in Nat /\ start % u \in Nat /\ start = k * u + (start % u)
  <2>1. u \in Nat \ {0}
    BY <1>3
  <2> HIDE DEF u
  <2> QED BY <1>4, <2>1, Division
<1> HIDE DEF k
<1>8. k * s \in Nat /\ (k * s) % s = 0 /\ k * s * 8 = k * u
  BY <1>3, <1>7, Multiple
<1>9. start - k * s * 8 = start % u
  BY <1>4, <1>7, <1>8
<1>10. place = [off |-> k * s, bitOff |-> start % u, unit |-> s]
  BY <1>9 DEF GccPlace, Place, start, k
<1>11. ~PackCeiling => rec.pack = 0
  <2>1. rec.pack \in Nat
    BY BuildingIs, LayoutAssumption DEF LayoutAssumption, RecSet
  <2> QED BY <1>1, <2>1 DEF Allowed
<1>12. Fits(s, w, place, next)
  <2> DEFINE o == k * s
             r == start % u
  <2>1. o \in Nat /\ r \in Nat /\ o * 8 + r = start /\ r + w <= s * 8 /\ o % s = 0
    BY <1>4, <1>7, <1>8
  <2>2. place = [off |-> o, bitOff |-> r, unit |-> s]
    BY <1>10
  <2> HIDE DEF place, next, o, r
  <2>3. place \in PlaceSet /\ place.off = o /\ place.bitOff = r /\ place.unit = s
    BY <1>3, <2>1, <2>2 DEF PlaceSet
  <2>4. UnitOK(rec, next)
    BY <1>5 DEF UnitOK
  <2>5. /\ cur.bits <= o * 8 + r /\ o * 8 + r + w <= next.bits
        /\ cur.bits <= next.bits /\ o * 8 < next.bits
    BY <1>1, <1>2, <1>4, <1>5, <2>1
  <2> QED BY <1>1, <1>2, <1>3, <1>5, <1>6, <1>11, <2>1, <2>3, <2>4, <2>5 DEF Fits
<1> HIDE DEF place, next
<1> QED BY <1>1, <1>12, FieldStep

\* The unit the Microsoft rule puts a field in: the open one, or a new one
\* behind it.
LEMMA MsUnitIs ==
    ASSUME NEW c \in Cursor, UnitOK(rec, c), rec.ms, ~rec.packed, ~rec.union,
           NEW s \in BitTypes, NEW a \in Nat \ {0}, NEW w \in Nat, w <= s * 8
    PROVE  /\ MsUnit(c, s, a, w) \in Cursor
           /\ MsUnit(c, s, a, w).opened = s
           /\ UnitOK(rec, MsUnit(c, s, a, w))
           /\ c.bits <= MsUnit(c, s, a, w).bits
           /\ MsUnit(c, s, a, w).bits + w <= MsUnit(c, s, a, w).start + MsUnit(c, s, a, w).width
           /\ CloseUnit(c).bits <= MsUnit(c, s, a, w).start + MsUnit(c, s, a, w).width
<1>1. s \in {1, 2, 4, 8} /\ s # 0
  BY LayoutAssumption DEF LayoutAssumption
<1>2. CASE c.opened # s \/ c.bits + w > c.start + c.width
  <2> DEFINE b == CloseUnit(c).bits
             at == RoundUp(b, a * 8)
             u == [bits |-> at, start |-> at, width |-> s * 8, opened |-> s]
  <2>1. MsUnit(c, s, a, w) = u
    BY <1>2 DEF MsUnit
  <2>2. b \in Nat /\ c.bits \in Nat /\ c.bits <= b
    BY Closed DEF Cursor
  <2> HIDE DEF b
  <2>2a. a * 8 \in Nat \ {0}
    OBVIOUS
  <2>3. at \in Nat /\ b <= at
    BY <2>2, <2>2a, RoundUpIs
  <2>4. at % 8 = 0
    <3>1. PICK k \in Nat : at = k * (a * 8)
      BY <2>2, <2>2a, RoundUpIs
    <3>2. k * a \in Nat /\ at = (k * a) * 8
      BY <3>1
    <3> QED BY <3>2, Multiple
  <2> HIDE DEF at
  <2>5. u \in Cursor /\ UnitOK(rec, u)
    BY <1>1, <2>3, <2>4 DEF Cursor, UnitOK
  <2> QED BY <1>1, <2>1, <2>2, <2>3, <2>5 DEF b
<1>3. CASE ~(c.opened # s \/ c.bits + w > c.start + c.width)
  <2>1. MsUnit(c, s, a, w) = c /\ c.opened = s
    BY <1>3 DEF MsUnit
  <2>2. c.bits \in Nat /\ c.start \in Nat /\ c.width \in Nat
    BY DEF Cursor
  <2>3. c.bits + w <= c.start + c.width
    BY <1>3, <2>2
  <2>4. CloseUnit(c).bits <= c.start + c.width
    BY <1>1, <2>1, <2>2 DEF CloseUnit, UnitOK, Larger, Cursor
  <2> QED BY <2>1, <2>2, <2>3, <2>4
<1> QED BY <1>2, <1>3

\* A field under the Microsoft rule: in the unit MsUnit gives it.
LEMMA MsBitsStep ==
    ASSUME IInv, NEW s \in BitTypes, NEW w \in Nat, NEW named \in BOOLEAN, NEW signed \in BOOLEAN,
           MsBits(s, w, named, signed)
    PROVE  IInv'
<1> DEFINE a == AlignOf(s, 0)
           u == MsUnit(cur, s, a, w)
           place == MsPlace(cur, s, a, w)
           next == [u EXCEPT !.bits = @ + w]
<1>1. /\ ~rec.packed /\ rec.ms
      /\ PlaceField(s, w, named, signed, place, next)
      /\ w > 0 /\ w <= s * 8 /\ ~rec.union
  BY DEF MsBits, PlaceField
<1>2. s \in {1, 2, 4, 8} /\ s \in Alignments
  BY LayoutAssumption DEF LayoutAssumption, Alignments
<1>3. a \in Nat \ {0}
  BY <1>2, AlignOfIs, AlignmentsAre, BuildingIs
<1> HIDE DEF a
<1>4. /\ u \in Cursor /\ u.opened = s /\ UnitOK(rec, u)
      /\ cur.bits <= u.bits /\ u.bits + w <= u.start + u.width
      /\ CloseUnit(cur).bits <= u.start + u.width
  BY <1>1, <1>3, BuildingIs, MsUnitIs
<1>5. place = [off |-> u.start \div 8, bitOff |-> u.bits - u.start, unit |-> s]
  BY DEF MsPlace, Place
<1> HIDE DEF u
<1>6. /\ u.bits \in Nat /\ u.start \in Nat /\ u.width = s * 8
      /\ u.start % 8 = 0 /\ u.start <= u.bits
  BY <1>2, <1>4 DEF Cursor, UnitOK
<1>7. u.start \div 8 \in Nat /\ u.start = (u.start \div 8) * 8
  BY <1>6
<1>8. /\ next = [u EXCEPT !.bits = u.bits + w] /\ next \in Cursor
      /\ next.bits = u.bits + w /\ next.start = u.start /\ next.width = u.width
      /\ next.opened = s
  BY <1>4, <1>6, Moved
<1>9. UnitOK(rec, next)
  BY <1>1, <1>4, <1>6, <1>8, <1>2 DEF UnitOK
<1>10. u.start + u.width <= CloseUnit(next).bits /\ CloseUnit(next).bits \in Nat
  BY <1>2, <1>8, Closed DEF Cursor
<1>11. Fits(s, w, place, next)
  <2> DEFINE o == u.start \div 8
             r == u.bits - u.start
  <2>1. /\ o \in Nat /\ r \in Nat /\ o * 8 + r = u.bits /\ r + w <= s * 8
        /\ (o + s) * 8 = u.start + u.width
    BY <1>2, <1>4, <1>6, <1>7
  <2> HIDE DEF place, next, o, r
  <2>2. place = [off |-> o, bitOff |-> r, unit |-> s]
    BY <1>5 DEF o, r
  <2>3. place \in PlaceSet /\ place.off = o /\ place.bitOff = r /\ place.unit = s
    BY <1>2, <2>1, <2>2 DEF PlaceSet
  <2>4. CloseUnit(cur).bits \in Nat /\ cur.bits \in Nat
    BY BuildingIs
  <2>5. CloseUnit(cur).bits <= CloseUnit(next).bits
    BY <1>2, <1>4, <1>6, <1>10, <2>4
  <2>6. (o + s) * 8 <= CloseUnit(next).bits + 7
    BY <1>2, <1>6, <1>10, <2>1
  <2>7. cur.bits <= o * 8 + r /\ o * 8 + r + w <= next.bits
    BY <1>4, <1>6, <1>8, <2>1, <2>4
  <2> QED BY <1>1, <1>2, <1>8, <1>9, <2>1, <2>3, <2>5, <2>6, <2>7 DEF Fits
<1> HIDE DEF place, next
<1> QED BY <1>1, <1>11, FieldStep

\* ZeroWidth: a field of no bits, behind the unit it ends.
LEMMA ZeroWidthStep ==
    ASSUME IInv, ZeroWidth
    PROVE  IInv'
<1>1. PICK s \in BitTypes :
        /\ Building /\ ~rec.union
        /\ cur' = IF rec.ms THEN CloseUnit(cur) ELSE [cur EXCEPT !.bits = RoundUp(@, s * 8)]
        /\ placed' = Append(placed, Bits(cur'.bits, s, 0, Place(0, 0, 0), FALSE, FALSE))
        /\ UNCHANGED <<rec, align, size, mem, vals, stores>>
  BY DEF ZeroWidth
<1> DEFINE f == Bits(cur'.bits, s, 0, Place(0, 0, 0), FALSE, FALSE)
<1>2. s \in {1, 2, 4, 8}
  BY LayoutAssumption DEF LayoutAssumption
<1>3. /\ cur' \in Cursor /\ cur'.bits \in Nat /\ cur'.opened = 0
      /\ cur.bits <= cur'.bits /\ CloseUnit(cur).bits <= cur'.bits
  <2>1. CASE rec.ms
    BY <1>1, <2>1, BuildingIs, Closed DEF Cursor
  <2>2. CASE ~rec.ms
    <3> DEFINE n == RoundUp(cur.bits, s * 8)
    <3>1. cur' = [cur EXCEPT !.bits = n] /\ cur.opened = 0 /\ CloseUnit(cur) = cur
      BY <1>1, <2>2, BuildingIs
    <3>2. s * 8 \in Nat \ {0}
      BY <1>2
    <3>3. n \in Nat /\ cur.bits <= n
      BY <3>2, BuildingIs, RoundUpIs
    <3> HIDE DEF n
    <3> QED BY <3>1, <3>3, Moved, BuildingIs
  <2> QED BY <2>1, <2>2
<1>4. CloseUnit(cur') = cur'
  BY <1>3, Closed
<1>5. /\ f \in MemberSet /\ f.first = cur'.bits /\ f.width = 0
      /\ f.bitField = TRUE /\ f.named = FALSE
  BY <1>2, <1>3 DEF Bits, MemberSet, PlaceSet, Place
<1> HIDE DEF f
<1>6. Advances(cur, align, cur', align)
  <2>1. align \in Nat
    BY BuildingIs, AlignmentsAre
  <2> QED BY <1>3, <1>4, <2>1 DEF Advances
<1>7. MemberOK(rec, cur', align, f)
  BY <1>5 DEF MemberOK, OrdinaryOK, FieldOK, ReachOK, UnionOK, Field
<1>8. Places(f)
  <2>1. size = -1 /\ UnitOK(rec, cur')
    BY <1>1, <1>3 DEF Building, UnitOK
  <2>2. cur.bits <= f.first /\ f.first + f.width <= cur'.bits
    BY <1>3, <1>5
  <2>3. placed' = Append(placed, f)
    BY <1>1 DEF f
  <2> QED BY <1>1, <1>3, <1>5, <1>6, <1>7, <2>1, <2>2, <2>3, BuildingIs DEF Places
<1> QED BY <1>8, PlacesKeeps

\* A member of a union: the cursor is its widest member's end.
LEMMA UnionStep ==
    ASSUME IInv, NEW f \in MemberSet, NEW w \in Nat,
           size = -1, rec.union,
           cur' = [cur EXCEPT !.bits = Larger(@, w)],
           align' \in Alignments, align <= align',
           placed' = Append(placed, f),
           UNCHANGED <<rec, size, mem, vals, stores>>,
           OrdinaryOK(align', f), UnionOK(rec, cur, f)
    PROVE  IInv'
<1> DEFINE n == Larger(cur.bits, w)
<1>1. n \in Nat /\ cur.bits <= n
  BY BuildingIs, LargerIs
<1>2. /\ cur' = [cur EXCEPT !.bits = n] /\ cur \in Cursor
      /\ cur.opened = 0 /\ CloseUnit(cur) = cur
  BY BuildingIs
<1> HIDE DEF n
<1> DEFINE d == [cur EXCEPT !.bits = n]
<1>2a. d \in Cursor /\ d.bits = n /\ d.opened = 0
  BY <1>1, <1>2, Moved
<1> HIDE DEF d
<1>3. cur' \in Cursor /\ cur'.bits = n /\ cur'.opened = 0
  BY <1>2, <1>2a DEF d
<1>4. CloseUnit(cur') = cur'
  BY <1>3, Closed
<1>5. Advances(cur, align, cur', align')
  BY <1>1, <1>2, <1>3, <1>4 DEF Advances
<1>6. UnionOK(rec, cur', f)
  <2>1. cur.bits \in Nat
    BY BuildingIs
  <2> QED BY <1>1, <1>3, <2>1 DEF UnionOK
<1>7. MemberOK(rec, cur', align', f)
  BY <1>6 DEF MemberOK, FieldOK, ReachOK
<1>8. Places(f)
  BY <1>3, <1>5, <1>7 DEF Places, UnitOK
<1> QED BY <1>8, PlacesKeeps

\* layoutWith, an ordinary member of a union.
LEMMA AddUnionMemberStep ==
    ASSUME IInv, AddUnionMember
    PROVE  IInv'
<1>1. PICK t \in Types, asked \in Aligns :
        LET a == AlignOf(t.align, asked)
        IN  /\ Building /\ rec.union
            /\ cur' = [cur EXCEPT !.bits = Larger(@, t.size * 8)]
            /\ Raise(a, TRUE)
            /\ placed' = Append(placed, Ordinary(0, t, a, FALSE))
            /\ UNCHANGED <<rec, size, mem, vals, stores>>
  BY DEF AddUnionMember
<1> DEFINE a == AlignOf(t.align, asked)
           f == Ordinary(0, t, a, FALSE)
<1>2. t \in [size : Nat, align : Nat \ {0}]
  BY LayoutAssumption DEF LayoutAssumption
<1>3. t.align \in Alignments /\ t.size \in Nat
  BY <1>2 DEF Alignments
<1>4. a \in Alignments /\ a \in Nat \ {0}
  BY <1>3, AlignOfIs, BuildingIs, AlignmentsAre
<1> HIDE DEF a
<1>5. align' \in Alignments /\ align <= align' /\ a <= align'
  BY <1>1, <1>4, RaiseIs, BuildingIs DEF a
<1>6. /\ f \in MemberSet /\ f.first = 0 /\ f.width = t.size * 8 /\ f.align = a
      /\ f.bitField = FALSE
  BY <1>3, <1>4 DEF Ordinary, MemberSet, PlaceSet, Place
<1>7. OrdinaryOK(align', f)
  <2>1. (0 \div 8) % a = 0 /\ 0 % 8 = 0 /\ (t.size * 8) % 8 = 0
    BY <1>3, <1>4
  <2> HIDE DEF f
  <2> QED BY <1>4, <1>5, <1>6, <2>1 DEF OrdinaryOK
<1>8. UnionOK(rec, cur, f)
  BY <1>6 DEF UnionOK, Field
<1>9. size = -1 /\ placed' = Append(placed, f)
  BY <1>1 DEF Building, a
<1> HIDE DEF f
<1>10. t.size * 8 \in Nat
  BY <1>3
<1> QED BY <1>1, <1>5, <1>6, <1>7, <1>8, <1>9, <1>10, UnionStep

\* layoutWith, a bit-field of a union.
LEMMA AddUnionBitsStep ==
    ASSUME IInv, AddUnionBits
    PROVE  IInv'
<1>1. PICK s \in BitTypes, w \in Widths, signed \in BOOLEAN :
        /\ Building /\ rec.union /\ w > 0 /\ w <= s * 8
        /\ cur.bits < (IF s = 8 THEN 64 ELSE 32) => UnionField
        /\ cur' = [cur EXCEPT !.bits = Larger(@, RoundUp(w, 8))]
        /\ Raise(AlignOf(s, 0), TRUE)
        /\ placed' = Append(placed, Bits(0, s, w, Place(0, 0, 0), TRUE, signed))
        /\ UNCHANGED <<rec, size, mem, vals, stores>>
  BY DEF AddUnionBits
<1> DEFINE f == Bits(0, s, w, Place(0, 0, 0), TRUE, signed)
<1>2. s \in Alignments /\ s \in {1, 2, 4, 8} /\ w \in Nat
  BY LayoutAssumption DEF LayoutAssumption, Alignments
<1>3. align' \in Alignments /\ align <= align'
  BY <1>1, <1>2, AlignOfIs, RaiseIs, BuildingIs
<1>4. /\ f \in MemberSet /\ f.bytes = s /\ f.width = w /\ f.place = Place(0, 0, 0)
      /\ f.bitField = TRUE
  BY <1>2 DEF Bits, MemberSet, PlaceSet, Place
<1>5. OrdinaryOK(align', f)
  BY <1>4 DEF OrdinaryOK
<1>6. UnionOK(rec, cur, f)
  <2>1. ~UnionField => (IF s = 8 THEN 64 ELSE 32) <= cur.bits
    BY <1>1, BuildingIs
  <2> HIDE DEF f
  <2> QED BY <1>1, <1>2, <1>4, <2>1 DEF UnionOK
<1>7. RoundUp(w, 8) \in Nat
  <2>1. 8 \in Nat \ {0}
    OBVIOUS
  <2> QED BY <1>2, <2>1, RoundUpIs
<1>8. size = -1 /\ placed' = Append(placed, f)
  BY <1>1 DEF Building
<1> HIDE DEF f
<1> QED BY <1>1, <1>3, <1>4, <1>5, <1>6, <1>7, <1>8, UnionStep

----------------------------------------------------------------------------
(* The complete record.                                                    *)

\* The size holds the members and is a multiple of the alignment.
LEMMA SizeIs ==
    ASSUME NEW b \in Nat, NEW a \in Nat \ {0}
    PROVE  /\ RoundUp(b, a * 8) \div 8 \in Nat
           /\ b <= (RoundUp(b, a * 8) \div 8) * 8
           /\ (RoundUp(b, a * 8) \div 8) % a = 0
<1>1. a * 8 \in Nat \ {0}
  OBVIOUS
<1>2. PICK k \in Nat : RoundUp(b, a * 8) = k * (a * 8)
  BY <1>1, RoundUpIs
<1>3. b <= k * (a * 8)
  BY <1>1, <1>2, RoundUpIs
<1>4. k * a \in Nat /\ k * (a * 8) = (k * a) * 8
  OBVIOUS
<1>5. (k * (a * 8)) \div 8 = k * a
  BY <1>4, Multiple
<1>6. (k * a) % a = 0
  BY Multiple
<1>7. RoundUp(b, a * 8) \div 8 = k * a
  BY <1>2, <1>5
<1>8. b <= (k * a) * 8
  BY <1>3, <1>4
<1> QED BY <1>4, <1>6, <1>7, <1>8

\* End: what was placed is right of the complete record, and of an object of it.
LEMMA CompleteStep ==
    ASSUME IInv, Complete
    PROVE  IInv'
<1> DEFINE F == {j \in DOMAIN placed : placed[j].bitField /\ placed[j].named}
           ones(full) == [i \in F |-> IF full THEN 0 .. (placed[i].width - 1) ELSE {}]
<1>1. /\ size = -1
      /\ cur' = CloseUnit(cur)
      /\ align' = Larger(align, rec.align)
      /\ size' = RoundUp(cur'.bits, align' * 8) \div 8
      /\ UNCHANGED <<rec, placed, stores>>
  BY DEF Complete
<1>2. PICK full \in BOOLEAN :
        /\ mem' = IF full THEN 0 .. (size' * 8 - 1) ELSE {}
        /\ vals' = ones(full)
  BY DEF Complete
<1>3. /\ rec \in RecSet /\ cur \in Cursor /\ align \in Alignments /\ placed \in Seq(MemberSet)
      /\ cur' \in Cursor /\ cur'.opened = 0 /\ cur'.bits \in Nat /\ cur.bits \in Nat
      /\ cur.bits <= cur'.bits
  BY <1>1, BuildingIs, Closed
<1>4. align' \in Alignments /\ align <= align' /\ align' \in Nat \ {0}
  <2>1. RecordAligns \subseteq Nat
    BY LayoutAssumption DEF LayoutAssumption
  <2>2. rec.align \in RecordAligns /\ rec.align \in Nat /\ align \in Nat \ {0}
    BY <1>3, <2>1, AlignmentsAre DEF RecSet
  <2>3. rec.align \in Alignments \/ rec.align = 0
    BY <2>2 DEF Alignments
  <2>4. Larger(align, rec.align) \in Alignments /\ align <= Larger(align, rec.align)
    BY <1>3, <2>2, <2>3 DEF Larger
  <2> QED BY <1>1, <2>4, AlignmentsAre
<1>5. size' \in Nat /\ cur'.bits <= size' * 8 /\ size' % align' = 0
  BY <1>1, <1>3, <1>4, SizeIs
<1>5a. size' * 8 \in Nat
  <2>1. \A k \in Nat : k * 8 \in Nat
    OBVIOUS
  <2> QED BY <1>5, <2>1
<1>6. Typed'
  <2>1. mem' \in SUBSET Nat
    <3>1. 0 .. (size' * 8 - 1) \in SUBSET Nat
      <4> DEFINE n == size' * 8 - 1
      <4>1. n \in Int
        BY <1>5
      <4> HIDE DEF n
      <4>2. 0 .. n \in SUBSET Nat
        BY <4>1
      <4> QED BY <4>2 DEF n
    <3> QED BY <1>2, <3>1
  <2> QED BY <1>1, <1>3, <1>4, <1>5, <2>1 DEF Typed
<1>7. UnitOK(rec, cur)'
  BY <1>3 DEF UnitOK
<1>8. InOrder'
  <2> SUFFICES ASSUME ~rec.union
               PROVE  Behind(cur', placed) /\ Ascending(placed)
    BY <1>1 DEF InOrder
  <2>1. Behind(cur, placed) /\ Ascending(placed)
    BY DEF IInv, InOrder
  <2>2. \A i \in DOMAIN placed : placed[i] \in MemberSet
    BY <1>3
  <2>3. \A i \in DOMAIN placed : placed[i].first \in Nat /\ placed[i].width \in Nat
    BY <2>2 DEF MemberSet
  <2> QED BY <1>3, <2>1, <2>3 DEF Behind
<1>9. MembersOK'
  <2> SUFFICES ASSUME NEW i \in DOMAIN placed
               PROVE  MemberOK(rec, cur', align', placed[i])
    BY <1>1 DEF MembersOK
  <2>1. placed[i] \in MemberSet
    BY <1>3
  <2>2. MemberOK(rec, cur, align, placed[i])
    BY DEF IInv, MembersOK
  <2>3. CloseUnit(cur') = cur'
    BY <1>3, Closed
  <2>4. Advances(cur, align, cur', align')
    BY <1>1, <1>3, <1>4, <2>3 DEF Advances
  <2> QED BY <1>3, <1>4, <2>1, <2>2, <2>4, StaysOK
<1>10. SizeOK'
  BY <1>3, <1>5 DEF SizeOK
<1>11. Held'
  <2>1. DOMAIN vals' = {i \in DOMAIN placed : Field(placed[i])}
    BY <1>2 DEF Field
  <2>2. size' # -1
    BY <1>5
  <2>3. ASSUME ~rec.union, NEW i \in F
        PROVE  Holding(mem', placed[i], vals'[i])
    <3>7. i \in DOMAIN placed
      OBVIOUS
    <3>8. placed[i] \in MemberSet
      BY <1>3, <3>7
    <3>1. placed[i].first \in Nat /\ placed[i].width \in Nat
      BY <3>8 DEF MemberSet
    <3>2. placed[i].first + placed[i].width <= cur.bits
      BY <2>3 DEF IInv, InOrder, Behind
    <3>3. vals'[i] = IF full THEN 0 .. (placed[i].width - 1) ELSE {}
      BY <1>2
    <3> DEFINE x == placed[i].first
               w == placed[i].width
               v == vals'[i]
    <3>4. x \in Nat /\ w \in Nat /\ x + w <= size' * 8
      BY <1>3, <1>5, <3>1, <3>2
    <3> HIDE DEF x, w, v
    <3>5. CASE full
      <4>1. v = 0 .. (w - 1) /\ mem' = 0 .. (size' * 8 - 1)
        BY <1>2, <3>3, <3>5 DEF v, w
      <4> DEFINE n == size' * 8
      <4>5. n \in Nat
        BY <1>5a
      <4>6. x + w <= n
        BY <3>4
      <4>7. mem' = 0 .. (n - 1)
        BY <4>1
      <4>2. n \in Nat /\ x + w <= n /\ mem' = 0 .. (n - 1)
        BY <4>5, <4>6, <4>7
      <4> HIDE DEF n
      <4>3. \A b \in 0 .. (w - 1) : x + b \in mem'
        BY <3>4, <4>2
      <4>4. v \in SUBSET (0 .. (w - 1)) /\ \A b \in 0 .. (w - 1) : x + b \in mem' <=> b \in v
        BY <4>1, <4>3
      <4> QED BY <4>4 DEF Holding, x, w, v
    <3>6. CASE ~full
      <4>1. v = {} /\ mem' = {}
        BY <1>2, <3>3, <3>6 DEF v
      <4>2. v \in SUBSET (0 .. (w - 1)) /\ \A b \in 0 .. (w - 1) : x + b \in mem' <=> b \in v
        BY <4>1
      <4> QED BY <4>2 DEF Holding, x, w, v
    <3> QED BY <3>5, <3>6
  <2>4. DOMAIN vals' = F
    BY <2>1 DEF Field
  <2> HIDE DEF F
  <2> QED BY <1>1, <2>1, <2>2, <2>3, <2>4 DEF Held
<1> QED BY <1>6, <1>7, <1>8, <1>9, <1>10, <1>11 DEF IInv

----------------------------------------------------------------------------
(* Loads and stores.                                                       *)

\* A field whose unit is a power of two of bytes is accessed by that unit, and
\* is inside the word.
LEMMA AccessIs ==
    ASSUME NEW r, ~r.union, NEW f \in MemberSet, Field(f), FieldOK(r, f), ~OddUnit
    PROVE  /\ Access(f) = f.place.unit /\ Access(f) \in Nat
           /\ f.place.bitOff + f.width <= Access(f) * 8
           /\ f.place.bitOff + f.width <= WordBits(f)
<1>1. /\ f.place.off \in Nat /\ f.place.bitOff \in Nat /\ f.place.unit \in {1, 2, 4, 8}
      /\ f.width \in Nat
  BY DEF MemberSet, PlaceSet, FieldOK
<1>2. f.place.bitOff + f.width <= f.place.unit * 8 /\ (f.place.unit = 8 => WordBits(f) = 64)
  BY DEF FieldOK
<1>3. WordBits(f) \in {32, 64} /\ (WordBits(f) = 32 => f.place.bitOff + f.width <= 32)
  BY <1>1 DEF WordBits
<1>4. Access(f) = f.place.unit
  <2>1. CASE f.place.unit \in {1, 2}
    BY <2>1 DEF Access, AccessBytes
  <2>2. CASE f.place.unit = 4
    <3>1. CASE WordBits(f) = 64
      BY <2>2, <3>1 DEF Access, AccessBytes
    <3>2. CASE WordBits(f) = 32
      BY <2>2, <3>2 DEF Access, AccessBytes
    <3> QED BY <1>3, <3>1, <3>2
  <2>3. CASE f.place.unit = 8
    BY <1>2, <2>3 DEF Access, AccessBytes
  <2> QED BY <1>1, <2>1, <2>2, <2>3
<1> QED BY <1>1, <1>2, <1>3, <1>4

\* The word loaded holds bit b exactly if the memory holds it at the unit.
LEMMA LoadUnitIs ==
    ASSUME mem \in SUBSET Nat, NEW f \in MemberSet, Access(f) \in Nat
    PROVE  /\ LoadUnit(f) \in SUBSET Nat
           /\ \A b \in Nat : b \in LoadUnit(f) <=>
                 b < Access(f) * 8 /\ f.place.off * 8 + b \in mem
<1> DEFINE o == f.place.off * 8
           e == (f.place.off + Access(f)) * 8
           A == Access(f) * 8
<1>1. o \in Nat /\ A \in Nat /\ e = o + A
  BY DEF MemberSet, PlaceSet
<1>2. LoadUnit(f) = {b - o : b \in {x \in mem : x >= o /\ x < e}}
  BY DEF LoadUnit
<1> HIDE DEF o, e, A
<1>3. LoadUnit(f) \in SUBSET Nat
  BY <1>1, <1>2
<1>4. ASSUME NEW b \in Nat
      PROVE  b \in LoadUnit(f) <=> b < A /\ o + b \in mem
  <2>1. ASSUME b \in LoadUnit(f) PROVE b < A /\ o + b \in mem
    <3>1. PICK x \in mem : x >= o /\ x < e /\ b = x - o
      BY <1>2, <2>1
    <3>2. x \in Nat /\ x = o + b
      BY <1>1, <3>1
    <3> QED BY <1>1, <3>1, <3>2
  <2>2. ASSUME b < A, o + b \in mem PROVE b \in LoadUnit(f)
    <3> DEFINE x == o + b
    <3>1. x \in mem /\ x >= o /\ x < e /\ b = x - o
      BY <1>1, <2>2
    <3> HIDE DEF x
    <3> QED BY <1>2, <3>1
  <2> QED BY <2>1, <2>2
<1> QED BY <1>3, <1>4 DEF o, A

\* The word with the field's bits replaced.
LEMMA InsertIs ==
    ASSUME NEW f \in MemberSet, NEW word \in SUBSET Nat, NEW v \in SUBSET Nat
    PROVE  /\ Insert(f, word, v) \in SUBSET Nat
           /\ f.width >= 1 /\ f.place.bitOff + f.width <= WordBits(f) =>
                 \A b \in Nat : b \in Insert(f, word, v) <=>
                    IF f.place.bitOff <= b /\ b < f.place.bitOff + f.width
                    THEN b - f.place.bitOff \in v ELSE b \in word
<1> DEFINE t == f.place.bitOff
           w == f.width
           W == WordBits(f)
           field == t .. (t + w - 1)
           value == {b + t : b \in v \cap (0 .. (w - 1))}
<1>1. t \in Nat /\ w \in Nat /\ W \in Nat
  BY DEF MemberSet, PlaceSet, WordBits
<1>2. Insert(f, word, v) = (word \ field) \cup {b \in value : b < W}
  BY DEF Insert
<1> HIDE DEF t, w, W
<1>3. value \in SUBSET Nat
  BY <1>1
<1>4. Insert(f, word, v) \in SUBSET Nat
  BY <1>2, <1>3
<1>5. ASSUME w >= 1, t + w <= W, NEW b \in Nat
      PROVE  b \in Insert(f, word, v) <=> IF t <= b /\ b < t + w THEN b - t \in v ELSE b \in word
  <2>1. b \in field <=> t <= b /\ b < t + w
    BY <1>1
  <2>2. b \in value <=> t <= b /\ b < t + w /\ b - t \in v
    <3>1. ASSUME b \in value PROVE t <= b /\ b < t + w /\ b - t \in v
      <4>1. PICK x \in v \cap (0 .. (w - 1)) : b = x + t
        BY <3>1
      <4>2. x \in Nat /\ x < w /\ x = b - t /\ x \in v
        BY <1>1, <4>1
      <4> QED BY <1>1, <4>2
    <3>2. ASSUME t <= b, b < t + w, b - t \in v PROVE b \in value
      <4> DEFINE x == b - t
      <4>1. x \in v /\ x \in 0 .. (w - 1) /\ b = x + t
        BY <1>1, <3>2
      <4> HIDE DEF x
      <4> QED BY <4>1
    <3> QED BY <3>1, <3>2
  <2>3. t <= b /\ b < t + w => b < W
    BY <1>1, <1>5
  <2> HIDE DEF field, value
  <2> QED BY <1>2, <2>1, <2>2, <2>3
<1> QED BY <1>4, <1>5 DEF t, w, W

\* The memory with the unit written back.
LEMMA StoreUnitIs ==
    ASSUME mem \in SUBSET Nat, NEW f \in MemberSet, NEW word \in SUBSET Nat
    PROVE  /\ StoreUnit(f, word) \in SUBSET Nat
           /\ Access(f) \in Nat =>
                \A x \in Nat : x \in StoreUnit(f, word) <=>
                   IF f.place.off * 8 <= x /\ x < f.place.off * 8 + Access(f) * 8
                   THEN x - f.place.off * 8 \in word ELSE x \in mem
<1> DEFINE o == f.place.off * 8
           e == (f.place.off + Access(f)) * 8
           A == Access(f) * 8
           rest == {x \in mem : x < o \/ x >= e}
           put == {o + b : b \in {x \in word : x < A}}
<1>1. o \in Nat
  BY DEF MemberSet, PlaceSet
<1>2. StoreUnit(f, word) = rest \cup put
  BY DEF StoreUnit
<1>0. Access(f) \in Nat => A \in Nat /\ e = o + A
  BY DEF MemberSet, PlaceSet
<1> HIDE DEF o, e, A
<1>3. StoreUnit(f, word) \in SUBSET Nat
  <2>1. put \in SUBSET Nat
    BY <1>1
  <2> QED BY <1>2, <2>1
<1>4. ASSUME Access(f) \in Nat, NEW x \in Nat
      PROVE  x \in StoreUnit(f, word) <=> IF o <= x /\ x < o + A THEN x - o \in word ELSE x \in mem
  <2>1. A \in Nat /\ e = o + A
    BY <1>0, <1>4
  <2>2. x \in rest <=> x \in mem /\ ~(o <= x /\ x < o + A)
    BY <1>1, <2>1
  <2>3. x \in put <=> o <= x /\ x < o + A /\ x - o \in word
    <3>1. ASSUME x \in put PROVE o <= x /\ x < o + A /\ x - o \in word
      <4>1. PICK b \in word : b < A /\ x = o + b
        BY <3>1
      <4>2. b \in Nat /\ b = x - o
        BY <1>1, <4>1
      <4> QED BY <1>1, <2>1, <4>1, <4>2
    <3>2. ASSUME o <= x, x < o + A, x - o \in word PROVE x \in put
      <4> DEFINE b == x - o
      <4>1. b \in word /\ b < A /\ x = o + b
        BY <1>1, <2>1, <3>2
      <4> HIDE DEF b
      <4> QED BY <4>1
    <3> QED BY <3>1, <3>2
  <2> HIDE DEF rest, put
  <2> QED BY <1>2, <2>2, <2>3
<1> QED BY <1>3, <1>4 DEF o, A

\* storeBitField: the memory is as it was but for the field's own bits.
LEMMA StoreIs ==
    ASSUME mem \in SUBSET Nat, NEW r, ~r.union, NEW f \in MemberSet, Field(f), FieldOK(r, f),
           ~OddUnit, NEW v \in SUBSET Nat, NEW x \in Nat
    PROVE  x \in StoreBitField(f, v) <=>
              IF f.first <= x /\ x < f.first + f.width THEN x - f.first \in v ELSE x \in mem
<1> DEFINE o == f.place.off * 8
           t == f.place.bitOff
           w == f.width
           A == Access(f) * 8
           word == LoadUnit(f)
           new == Insert(f, word, v)
<1>1. Access(f) \in Nat /\ t + w <= A /\ t + w <= WordBits(f)
  BY AccessIs
<1>2. o \in Nat /\ t \in Nat /\ w \in Nat /\ A \in Nat /\ f.first = o + t /\ w >= 1
  BY <1>1 DEF MemberSet, PlaceSet, FieldOK
<1>3. /\ word \in SUBSET Nat
      /\ \A b \in Nat : b \in word <=> b < A /\ o + b \in mem
  BY <1>1, LoadUnitIs
<1> HIDE DEF word
<1>4. /\ new \in SUBSET Nat
      /\ \A b \in Nat : b \in new <=> IF t <= b /\ b < t + w THEN b - t \in v ELSE b \in word
  BY <1>1, <1>2, <1>3, InsertIs
<1>5. StoreBitField(f, v) = StoreUnit(f, new)
  BY DEF StoreBitField, word
<1> HIDE DEF new
<1>6. x \in StoreUnit(f, new) <=> IF o <= x /\ x < o + A THEN x - o \in new ELSE x \in mem
  BY <1>1, <1>4, StoreUnitIs
<1> HIDE DEF o, t, w, A
<1>7. CASE o <= x /\ x < o + A
  <2> DEFINE b == x - o
  <2>1. b \in Nat /\ b < A /\ o + b = x
    BY <1>2, <1>7
  <2>2. b - t = x - f.first /\ (t <= b /\ b < t + w <=> f.first <= x /\ x < f.first + w)
    BY <1>2, <2>1
  <2>3. x \in StoreUnit(f, new) <=> b \in new
    BY <1>6, <1>7
  <2>4. b \in word <=> x \in mem
    BY <1>3, <2>1
  <2>5. b \in new <=> IF t <= b /\ b < t + w THEN b - t \in v ELSE b \in word
    BY <1>4, <2>1
  <2> HIDE DEF b
  <2>6. x \in StoreUnit(f, new) <=>
           IF f.first <= x /\ x < f.first + w THEN x - f.first \in v ELSE x \in mem
    BY <2>2, <2>3, <2>4, <2>5
  <2> QED BY <1>5, <2>6 DEF w
<1>8. CASE ~(o <= x /\ x < o + A)
  <2>1. ~(f.first <= x /\ x < f.first + w)
    BY <1>1, <1>2, <1>8 DEF t, w, A
  <2>2. x \in StoreUnit(f, new) <=> x \in mem
    BY <1>6, <1>8
  <2> QED BY <1>5, <2>1, <2>2 DEF w
<1> QED BY <1>7, <1>8

\* What is assigned to a field is a set of bits.
LEMMA StoredIs ==
    ASSUME NEW f \in MemberSet, NEW v \in Stored(f), f.width >= 1
    PROVE  v \in SUBSET Nat
<1>1. f.width \in Nat /\ f.width - 1 \in Nat
  BY DEF MemberSet
<1>2. v = {} \/ v = 0 .. 63 \/ v = {f.width - 1, f.width}
  BY DEF Stored
<1>3. 0 .. 63 \in SUBSET Nat
  OBVIOUS
<1> QED BY <1>1, <1>2, <1>3

\* An access is of a number of bytes, whatever the unit.
LEMMA AccessIsNat ==
    ASSUME NEW f \in MemberSet
    PROVE  Access(f) \in Nat
<1>1. f.place.unit \in Nat
  BY DEF MemberSet, PlaceSet
<1>2. WordBits(f) = 32 \/ WordBits(f) = 64
  BY DEF WordBits
<1>3. 32 \div 8 = 4 /\ 64 \div 8 = 8
  OBVIOUS
<1> QED BY <1>1, <1>2, <1>3 DEF Access, AccessBytes

\* assignBitField: the field holds the value, and no other has changed.
LEMMA AssignStep ==
    ASSUME IInv, Assign
    PROVE  IInv'
<1>1. PICK i \in DOMAIN vals : \E v \in Stored(placed[i]) :
        /\ mem' = StoreBitField(placed[i], v)
        /\ vals' = [vals EXCEPT ![i] = v \cap (0 .. (placed[i].width - 1))]
        /\ UNCHANGED <<rec, cur, align, placed, size>>
  BY DEF Assign
<1>2. PICK v \in Stored(placed[i]) :
        /\ mem' = StoreBitField(placed[i], v)
        /\ vals' = [vals EXCEPT ![i] = v \cap (0 .. (placed[i].width - 1))]
        /\ UNCHANGED <<rec, cur, align, placed, size>>
  BY <1>1
<1>3. Typed /\ UnitOK(rec, cur) /\ InOrder /\ MembersOK /\ SizeOK /\ Held
  BY DEF IInv
<1>4. /\ DOMAIN vals = IF size = -1 THEN {} ELSE {j \in DOMAIN placed : Field(placed[j])}
      /\ DOMAIN vals' = DOMAIN vals
  BY <1>2, <1>3 DEF Held
<1>5. \A j \in DOMAIN vals : j \in DOMAIN placed /\ Field(placed[j]) /\ placed[j] \in MemberSet
  <2>1. placed \in Seq(MemberSet)
    BY <1>3 DEF Typed
  <2> QED BY <1>4, <2>1
<1>6. mem \in SUBSET Nat
  BY <1>3 DEF Typed
<1>7. placed[i].width >= 1
  <2>1. MemberOK(rec, cur, align, placed[i])
    BY <1>3, <1>5 DEF MembersOK
  <2> QED BY <1>5, <2>1 DEF MemberOK, FieldOK, UnionOK
<1>8. v \in SUBSET Nat
  BY <1>5, <1>7, StoredIs
<1>9. mem' \in SUBSET Nat
  <2> DEFINE f == placed[i]
  <2>1. f \in MemberSet
    BY <1>5
  <2> HIDE DEF f
  <2>2. LoadUnit(f) \in SUBSET Nat
    BY <1>6, <2>1, AccessIsNat, LoadUnitIs
  <2>3. Insert(f, LoadUnit(f), v) \in SUBSET Nat
    BY <1>8, <2>1, <2>2, InsertIs
  <2>4. StoreBitField(f, v) \in SUBSET Nat
    BY <1>6, <2>1, <2>3, StoreUnitIs DEF StoreBitField
  <2> QED BY <1>2, <2>4 DEF f
<1>10. Typed'
  BY <1>2, <1>3, <1>9 DEF Typed
<1>11. UnitOK(rec, cur)' /\ InOrder' /\ MembersOK' /\ SizeOK'
  BY <1>2, <1>3 DEF UnitOK, InOrder, MembersOK, SizeOK
<1>12. ASSUME ~rec.union, ~OddUnit, NEW j \in DOMAIN vals
       PROVE  Holding(mem', placed[j], vals'[j])
  <2> DEFINE f == placed[i]
             g == placed[j]
             cut == v \cap (0 .. (f.width - 1))
  <2>1. /\ f \in MemberSet /\ g \in MemberSet /\ Field(f) /\ Field(g)
        /\ i \in DOMAIN placed /\ j \in DOMAIN placed
    BY <1>5, <1>12
  <2>2. FieldOK(rec, f)
    BY <1>3, <2>1 DEF MembersOK, MemberOK
  <2>3. Holding(mem, g, vals[j])
    BY <1>3, <1>12 DEF Held
  <2>4. f.first \in Nat /\ f.width \in Nat /\ g.first \in Nat /\ g.width \in Nat
    BY <2>1 DEF MemberSet
  <2>5. vals'[j] = IF j = i THEN cut ELSE vals[j]
    BY <1>2
  <2>6. j # i => f.first + f.width <= g.first \/ g.first + g.width <= f.first
    <3>1. Ascending(placed) /\ placed \in Seq(MemberSet)
      BY <1>3, <1>12 DEF InOrder, Typed
    <3>2. i \in Nat /\ j \in Nat
      BY <2>1, <3>1
    <3>3. i < j \/ j < i \/ i = j
      BY <3>2
    <3> QED BY <2>1, <3>1, <3>3 DEF Ascending
  <2>7. mem' = StoreBitField(f, v)
    BY <1>2
  <2> HIDE DEF f, g
  <2>8. ASSUME NEW x \in Nat
        PROVE  x \in mem' <=>
                  IF f.first <= x /\ x < f.first + f.width THEN x - f.first \in v ELSE x \in mem
    BY <1>6, <1>8, <1>12, <2>1, <2>2, <2>7, StoreIs
  <2>9. CASE j = i
    <3>1. vals'[j] = v \cap (0 .. (f.width - 1)) /\ g = f
      BY <2>5, <2>9 DEF f, g
    <3>2. ASSUME NEW b \in 0 .. (f.width - 1)
          PROVE  f.first + b \in mem' <=> b \in v
      <4> DEFINE x == f.first + b
      <4>1. /\ x \in Nat /\ f.first <= x /\ x < f.first + f.width /\ x - f.first = b
        BY <2>4
      <4> HIDE DEF x
      <4>2. x \in mem' <=> b \in v
        BY <2>8, <4>1
      <4> QED BY <4>2 DEF x
    <3>3. v \cap (0 .. (f.width - 1)) \in SUBSET (0 .. (f.width - 1))
      OBVIOUS
    <3>4. \A b \in 0 .. (f.width - 1) :
             f.first + b \in mem' <=> b \in v \cap (0 .. (f.width - 1))
      BY <3>2
    <3>5. Holding(mem', f, v \cap (0 .. (f.width - 1)))
      BY <3>3, <3>4 DEF Holding
    <3> QED BY <3>1, <3>5 DEF g
  <2>10. CASE j # i
    <3>1. vals'[j] = vals[j]
      BY <2>5, <2>10
    <3>2. ASSUME NEW b \in 0 .. (g.width - 1)
          PROVE  g.first + b \in mem' <=> g.first + b \in mem
      <4> DEFINE x == g.first + b
      <4>1. x \in Nat /\ ~(f.first <= x /\ x < f.first + f.width)
        BY <2>4, <2>6, <2>10
      <4> HIDE DEF x
      <4>2. x \in mem' <=> x \in mem
        BY <2>8, <4>1
      <4> QED BY <4>2 DEF x
    <3> QED BY <2>3, <3>1, <3>2 DEF Holding, g
  <2> QED BY <2>9, <2>10
<1>13. Held'
  BY <1>2, <1>4, <1>12 DEF Held
<1> QED BY <1>10, <1>11, <1>13 DEF IInv

----------------------------------------------------------------------------
(* The invariant.                                                          *)

\* A record without members.
LEMMA InitIInv ==
    ASSUME Init
    PROVE  IInv
<1>1. /\ rec \in RecSet /\ cur = [bits |-> 0, start |-> 0, width |-> 0, opened |-> 0]
      /\ align = 1 /\ placed = <<>> /\ size = -1 /\ mem = {} /\ vals = <<>>
  BY DEF Init, RecSet
<1>2. cur \in Cursor /\ cur.opened = 0 /\ align \in Alignments
  BY <1>1 DEF Cursor, Alignments
<1>3. placed \in Seq(MemberSet) /\ DOMAIN placed = {} /\ DOMAIN vals = {}
  BY <1>1
<1>4. Typed
  BY <1>1, <1>2, <1>3 DEF Typed
<1> QED BY <1>1, <1>2, <1>3, <1>4
        DEF IInv, UnitOK, InOrder, Behind, Ascending, MembersOK, SizeOK, Held

\* Every step keeps the invariant.
LEMMA NextIInv ==
    ASSUME IInv, [Next]_vars
    PROVE  IInv'
<1>0. Types \subseteq [size : Nat, align : Nat \ {0}] /\ Widths \subseteq Nat
  BY LayoutAssumption DEF LayoutAssumption
<1>1. CASE AddMember
  <2>1. PICK t \in Types, asked \in Aligns : Member(t, asked, FALSE)
    BY <1>1 DEF AddMember
  <2>2. t \in [size : Nat, align : Nat \ {0}] /\ t.align \in Alignments
    BY <1>0 DEF Alignments
  <2> QED BY <2>1, <2>2, MemberStep
<1>2. CASE AddFlexible
  <2>1. PICK t \in Types : Member([t EXCEPT !.size = 0], 0, TRUE)
    BY <1>2 DEF AddFlexible
  <2> DEFINE e == [t EXCEPT !.size = 0]
  <2>2. e \in [size : Nat, align : Nat \ {0}] /\ e.align \in Alignments
    BY <1>0 DEF Alignments
  <2> HIDE DEF e
  <2>3. Member(e, 0, TRUE)
    BY <2>1 DEF e
  <2> QED BY <2>2, <2>3, MemberStep
<1>3. CASE AddBits
  <2>1. PICK s \in BitTypes, w \in Widths, named \in BOOLEAN, signed \in BOOLEAN :
           \/ PackedBits(s, w, named, signed)
           \/ GccBits(s, w, named, signed)
           \/ MsBits(s, w, named, signed)
    BY <1>3 DEF AddBits
  <2>2. w \in Nat
    BY <1>0
  <2> QED BY <2>1, <2>2, PackedBitsStep, GccBitsStep, MsBitsStep
<1>4. CASE ZeroWidth
  BY <1>4, ZeroWidthStep
<1>5. CASE AddUnionMember
  BY <1>5, AddUnionMemberStep
<1>6. CASE AddUnionBits
  BY <1>6, AddUnionBitsStep
<1>7. CASE Complete
  BY <1>7, CompleteStep
<1>8. CASE Assign
  BY <1>8, AssignStep
<1>9. CASE UNCHANGED vars
  BY <1>9 DEF vars, IInv, Typed, UnitOK, InOrder, MembersOK, SizeOK, Held
<1> QED BY <1>1, <1>2, <1>3, <1>4, <1>5, <1>6, <1>7, <1>8, <1>9 DEF Next

\* The invariant holds of every layout and every sequence of stores.
THEOREM Invariance == Spec => []IInv
<1>1. Init => IInv
  BY InitIInv
<1>2. IInv /\ [Next]_vars => IInv'
  BY NextIInv
<1> QED BY <1>1, <1>2, PTL DEF Spec

----------------------------------------------------------------------------
(* What the runs check.                                                    *)

\* The cursor, the alignment, the size and the places keep their types: no
\* offset is ever negative, and an open unit is of a type that bit-fields have.
THEOREM Typing == Spec => []TypeOK
<1>1. ASSUME IInv PROVE TypeOK
  <2>1. \A i \in DOMAIN placed : placed[i] \in MemberSet
    BY <1>1 DEF IInv, Typed
  <2>2. \A i \in DOMAIN placed : placed[i].first \in Nat /\ placed[i].width \in Nat
    BY <2>1 DEF MemberSet
  <2> QED BY <1>1, <2>2, AlignmentsAre DEF IInv, Typed, TypeOK
<1> QED BY <1>1, Invariance, PTL

\* Members of a struct share no bit, and each is aligned in every element of
\* an array of the record.
THEOREM MembersStayApart ==
    ASSUME PowersOfTwo
    PROVE  Spec => []MembersApart
<1>1. ASSUME IInv PROVE MembersApart
  <2>1. ~rec.union => \A i, j \in DOMAIN placed : i # j => Apart(placed[i], placed[j])
    <3> SUFFICES ASSUME ~rec.union, NEW i \in DOMAIN placed, NEW j \in DOMAIN placed, i # j
                 PROVE  Apart(placed[i], placed[j])
      OBVIOUS
    <3>1. Ascending(placed) /\ placed \in Seq(MemberSet)
      BY <1>1 DEF IInv, InOrder, Typed
    <3>2. i \in Nat /\ j \in Nat
      BY <3>1
    <3>3. i < j \/ j < i
      BY <3>2
    <3> QED BY <3>1, <3>3 DEF Ascending, Apart
  <2>2. StridesAligned
    <3> SUFFICES ASSUME size # -1, NEW i \in DOMAIN placed, ~placed[i].bitField, NEW n \in 0 .. 2
                 PROVE  (n * size + placed[i].first \div 8) % placed[i].align = 0
      BY DEF StridesAligned
    <3> DEFINE a == placed[i].align
               b == placed[i].first \div 8
    <3>1. placed[i] \in MemberSet /\ size \in Nat /\ align \in Alignments
      BY <1>1 DEF IInv, Typed
    <3>2. placed[i].first \in Nat /\ a \in Nat \ {0}
      BY <3>1 DEF MemberSet
    <3>3. b \in Nat
      BY <3>2
    <3>4. b % a = 0 /\ a \in Alignments /\ a <= align
      BY <1>1 DEF IInv, MembersOK, MemberOK, OrdinaryOK
    <3>5. size % align = 0
      BY <1>1 DEF IInv, SizeOK
    <3> HIDE DEF a, b
    <3>6. size % a = 0
      BY <3>1, <3>4, <3>5, AlignmentsAre, SmallerDivides
    <3> DEFINE k == size \div a
               m == b \div a
    <3>7. k \in Nat /\ size = k * a
      BY <3>1, <3>2, <3>6, Division
    <3>8. m \in Nat /\ b = m * a
      BY <3>2, <3>3, <3>4, Division
    <3> HIDE DEF k, m
    <3>9. n * k + m \in Nat /\ n * size + b = (n * k + m) * a
      BY <3>2, <3>7, <3>8
    <3>10. (n * size + b) % a = 0
      BY <3>2, <3>9, Multiple
    <3> QED BY <3>10 DEF a, b
  <2> QED BY <2>1, <2>2 DEF MembersApart
<1> QED BY <1>1, Invariance, PTL

\* The unit a bit-field is loaded and stored by is inside the record.
THEOREM AccessStaysInside ==
    ASSUME PowersOfTwo, ~PackCeiling, ~OddUnit, ~UnionField
    PROVE  Spec => []AccessInside
<1>1. ASSUME IInv PROVE AccessInside
  <2> SUFFICES ASSUME size # -1, NEW i \in DOMAIN vals
               PROVE  placed[i].place.off + Access(placed[i]) <= size
    BY DEF AccessInside
  <2> DEFINE f == placed[i]
             o == f.place.off
             u == f.place.unit
  <2>1. /\ i \in DOMAIN placed /\ Field(f)
    BY <1>1 DEF IInv, Held
  <2>2. /\ f \in MemberSet /\ size \in Nat /\ align \in Alignments
        /\ cur \in Cursor /\ rec \in RecSet
    BY <1>1, <2>1 DEF IInv, Typed
  <2>3. o \in Nat /\ u \in Nat /\ f.width \in Nat /\ cur.bits \in Nat
    BY <2>2 DEF MemberSet, PlaceSet, Cursor
  <2>4. cur.opened = 0 /\ cur.bits <= size * 8 /\ size % align = 0
    BY <1>1 DEF IInv, SizeOK
  <2>5. CloseUnit(cur) = cur
    BY <2>2, <2>4, Closed
  <2>6. FieldOK(rec, f) /\ ReachOK(rec, cur, align, f) /\ UnionOK(rec, cur, f)
    BY <1>1, <2>1 DEF IInv, MembersOK, MemberOK
  <2> HIDE DEF f, o, u
  <2>7. CASE rec.union
    <3>1. f.place = Place(0, 0, 0) /\ f.bytes \in {1, 2, 4, 8} /\ f.width <= f.bytes * 8
          /\ (IF f.bytes = 8 THEN 64 ELSE 32) <= cur.bits
      BY <2>1, <2>6, <2>7 DEF UnionOK, f
    <3>2. f.place.off = 0 /\ f.place.bitOff = 0 /\ f.place.unit = 0
      BY <3>1 DEF Place
    <3>3. WordBits(f) = IF f.bytes = 8 THEN 64 ELSE 32
      BY <2>3, <3>1, <3>2 DEF WordBits
    <3>4. Access(f) = IF f.bytes = 8 THEN 8 ELSE 4
      BY <3>2, <3>3 DEF Access, AccessBytes
    <3>5. Access(f) * 8 <= cur.bits
      BY <3>1, <3>4
    <3> QED BY <2>2, <2>3, <2>4, <3>2, <3>4, <3>5 DEF f
  <2>8. CASE ~rec.union
    <3>1. Access(f) = u
      BY <2>1, <2>2, <2>6, <2>8, AccessIs DEF f, u
    <3>2. CASE rec.packed \/ rec.ms
      <4>1. (o + u) * 8 <= cur.bits + 7
        BY <2>1, <2>5, <2>6, <2>8, <3>2 DEF ReachOK, f, o, u
      <4>2. o + u <= size
        BY <2>2, <2>3, <2>4, <4>1
      <4> QED BY <3>1, <4>2 DEF f, o
    <3>3. CASE ~(rec.packed \/ rec.ms)
      <4>1. u \in Alignments /\ u <= align /\ o % u = 0 /\ o * 8 < cur.bits
        BY <2>1, <2>6, <2>8, <3>3 DEF ReachOK, f, o, u
      <4>2. size % u = 0
        BY <2>2, <2>4, <4>1, AlignmentsAre, SmallerDivides
      <4>3. u \in Nat \ {0}
        BY <4>1, AlignmentsAre
      <4>4. o < size
        BY <2>2, <2>3, <2>4, <4>1
      <4> DEFINE k == size \div u
                 m == o \div u
      <4>5. k \in Nat /\ size = k * u
        BY <2>2, <4>2, <4>3, Division
      <4>6. m \in Nat /\ o = m * u
        BY <2>3, <4>1, <4>3, Division
      <4> HIDE DEF k, m
      <4>7. m < k
        BY <4>3, <4>4, <4>5, <4>6
      <4>8. (m + 1) * u <= k * u
        BY <4>3, <4>5, <4>6, <4>7
      <4>9. o + u <= size
        BY <4>3, <4>5, <4>6, <4>8
      <4> QED BY <3>1, <4>9 DEF f, o
    <3> QED BY <3>2, <3>3
  <2> QED BY <2>7, <2>8
<1> QED BY <1>1, Invariance, PTL

\* A bit-field of a struct reads as what it was last given, whatever has been
\* stored in its neighbours.
THEOREM ReadsWhatWasStored ==
    ASSUME ~OddUnit
    PROVE  Spec => []ReadsBack
<1>1. ASSUME IInv PROVE ReadsBack
  <2> SUFFICES ASSUME ~rec.union, NEW i \in DOMAIN vals
               PROVE  LoadBitField(placed[i]) = Extended(placed[i], vals[i])
    BY DEF ReadsBack
  <2> DEFINE f == placed[i]
             v == vals[i]
             t == f.place.bitOff
             w == f.width
             o == f.place.off * 8
             word == LoadUnit(f)
             low == {b - t : b \in {x \in word : x >= t /\ x < t + w /\ x < WordBits(f)}}
  <2>1. i \in DOMAIN placed /\ Field(f) /\ mem \in SUBSET Nat
    BY <1>1 DEF IInv, Held, Typed
  <2>2. f \in MemberSet /\ FieldOK(rec, f)
    BY <1>1, <2>1 DEF IInv, Typed, MembersOK, MemberOK
  <2>3. Holding(mem, f, v)
    BY <1>1 DEF IInv, Held
  <2>4. LoadBitField(f) = IF f.signed /\ w - 1 \in low THEN low \cup (w .. 63) ELSE low
    BY DEF LoadBitField
  <2>5. Extended(f, v) = IF f.signed /\ w - 1 \in v THEN v \cup (w .. 63) ELSE v
    BY DEF Extended
  <2> HIDE DEF f, v
  <2>6. Access(f) \in Nat /\ t + w <= Access(f) * 8 /\ t + w <= WordBits(f)
    BY <2>1, <2>2, AccessIs
  <2>7. t \in Nat /\ w \in Nat /\ o \in Nat /\ f.first = o + t /\ WordBits(f) \in Nat
    <3>1. t \in Nat /\ w \in Nat /\ o \in Nat
      BY <2>2 DEF MemberSet, PlaceSet
    <3>2. f.first = o + t
      BY <2>1, <2>2 DEF FieldOK
    <3>3. WordBits(f) \in Nat
      BY DEF WordBits
    <3> QED BY <3>1, <3>2, <3>3
  <2>8. /\ word \in SUBSET Nat
        /\ \A b \in Nat : b \in word <=> b < Access(f) * 8 /\ o + b \in mem
    BY <2>1, <2>2, <2>6, LoadUnitIs
  <2>9. v \in SUBSET (0 .. (w - 1)) /\ \A b \in 0 .. (w - 1) : f.first + b \in mem <=> b \in v
    BY <2>3 DEF Holding
  <2> HIDE DEF t, w, o, word
  <2>10. low = v
    <3>1. ASSUME NEW b \in low PROVE b \in v
      <4>1. PICK x \in word : x >= t /\ x < t + w /\ x < WordBits(f) /\ b = x - t
        OBVIOUS
      <4>2. x \in Nat /\ b \in 0 .. (w - 1) /\ f.first + b = o + x /\ o + x \in mem
        BY <2>7, <2>8, <4>1
      <4> QED BY <2>9, <4>2
    <3>2. ASSUME NEW b \in v PROVE b \in low
      <4> DEFINE x == b + t
      <4>1. b \in 0 .. (w - 1) /\ f.first + b \in mem
        BY <2>9
      <4>2. /\ x \in Nat /\ x >= t /\ x < t + w /\ x < WordBits(f) /\ b = x - t
            /\ x < Access(f) * 8 /\ o + x = f.first + b
        BY <2>6, <2>7, <4>1
      <4> HIDE DEF x
      <4>3. x \in word
        BY <2>8, <4>1, <4>2
      <4> QED BY <4>2, <4>3
    <3> HIDE DEF low
    <3> QED BY <3>1, <3>2
  <2> HIDE DEF low
  <2>11. LoadBitField(f) = Extended(f, v)
    BY <2>4, <2>5, <2>10
  <2> QED BY <2>11 DEF f, v
<1> QED BY <1>1, Invariance, PTL

----------------------------------------------------------------------------
(* The ranges of the emitted type: a fold over the bytes of the bit-fields. *)

\* Counting up from 0: the library's induction, over a set of numbers.
LEMMA CountsUp ==
    ASSUME NEW N \in Nat, NEW S, 0 \in S, \A n \in 0 .. (N - 1) : n \in S => n + 1 \in S
    PROVE  \A n \in 0 .. N : n \in S
<1> SUFFICES ASSUME NEW m \in 0 .. N, m \notin S
             PROVE  FALSE
  OBVIOUS
<1> DEFINE T == {n \in Nat : n <= N /\ n \notin S}
           R == OpToRel(<, Nat)
<1>1. m \in T
  OBVIOUS
<1>2. PICK x \in T : \A y \in T : ~ (<<y, x>> \in R)
  BY <1>1, NatLessThanWellFounded, WFMin
<1>3. \A y \in T : ~ (y < x)
  BY <1>2 DEF OpToRel
<1>4. x \in Nat /\ x <= N /\ x \notin S
  BY <1>2
<1>5. x - 1 \in 0 .. (N - 1)
  BY <1>4
<1>6. x - 1 \in S
  BY <1>3, <1>4, <1>5
<1> QED BY <1>4, <1>5, <1>6

\* The fold is done range by range: what the library's recursive definition
\* amounts to.
LEMMA MergesOneByOne ==
    ASSUME NEW s, NEW N \in Nat, DOMAIN s = 1 .. N
    PROVE  \E out : /\ out[0] = <<>>
                    /\ \A n \in 0 .. (N - 1) : out[n + 1] = Merge(out[n], s[n + 1])
                    /\ FoldLeft(Merge, <<>>, s) = out[N]
<1> DEFINE Top(T) == CHOOSE x \in T : \A y \in T : x >= y
           Step(g, T) == IF T = {} THEN <<>> ELSE Merge(g[T \ {Top(T)}], s[Top(T)])
           Good(g, n) == g = [T \in SUBSET (1 .. n) |-> Step(g, T)]
           S == {n \in 0 .. N : \E g : Good(g, n)}
<1>1. \A n \in Nat : \A T \in SUBSET (1 .. n) :
         /\ Top(T \cup {n + 1}) = n + 1
         /\ (T \cup {n + 1}) \ {n + 1} = T
  <2> SUFFICES ASSUME NEW n \in Nat, NEW T \in SUBSET (1 .. n)
               PROVE  /\ Top(T \cup {n + 1}) = n + 1
                      /\ (T \cup {n + 1}) \ {n + 1} = T
    OBVIOUS
  <2>1. \A x \in T : x \in Nat /\ x <= n
    OBVIOUS
  <2>2. \A y \in T \cup {n + 1} : n + 1 >= y
    BY <2>1
  <2>3. \A x \in T \cup {n + 1} : (\A y \in T \cup {n + 1} : x >= y) => x = n + 1
    BY <2>1
  <2>4. Top(T \cup {n + 1}) = n + 1
    BY <2>2, <2>3
  <2> QED BY <2>1, <2>4
<1>2. 0 \in S
  <2> DEFINE g == [T \in SUBSET (1 .. 0) |-> <<>>]
  <2>1. SUBSET (1 .. 0) = {{}}
    OBVIOUS
  <2>2. Good(g, 0)
    BY <2>1
  <2> HIDE DEF g, Good
  <2> QED BY <2>2
<1>3. ASSUME NEW n \in 0 .. (N - 1), n \in S PROVE n + 1 \in S
  <2>1. PICK g : Good(g, n)
    BY <1>3
  <2> DEFINE h == [T \in SUBSET (1 .. (n + 1)) |->
                      IF n + 1 \in T THEN Merge(g[T \ {n + 1}], s[n + 1]) ELSE g[T]]
  <2>2. ASSUME NEW T \in SUBSET (1 .. (n + 1)) PROVE h[T] = Step(h, T)
    <3>0. 1 .. (n + 1) = (1 .. n) \cup {n + 1} /\ n + 1 \notin 1 .. n
      OBVIOUS
    <3>1. \A U \in SUBSET (1 .. n) : U \in SUBSET (1 .. (n + 1)) /\ n + 1 \notin U
      BY <3>0
    <3>2. \A U \in SUBSET (1 .. n) : h[U] = g[U]
      BY <3>1
    <3>3. CASE n + 1 \in T
      <4> DEFINE U == T \ {n + 1}
      <4>1. U \in SUBSET (1 .. n) /\ T = U \cup {n + 1}
        BY <3>0, <3>3
      <4>2. Top(T) = n + 1
        <5>1. n \in Nat
          OBVIOUS
        <5> HIDE DEF Top, U
        <5>2. Top(U \cup {n + 1}) = n + 1
          BY <1>1, <4>1, <5>1
        <5> QED BY <4>1, <5>2
      <4>3. h[T] = Merge(g[U], s[n + 1])
        BY <3>3
      <4>4. h[U] = g[U]
        BY <3>2, <4>1
      <4> HIDE DEF h, Top
      <4> QED BY <3>3, <4>2, <4>3, <4>4
    <3>4. CASE n + 1 \notin T
      <4>1. T \in SUBSET (1 .. n)
        BY <3>0, <3>4
      <4>2. h[T] = g[T]
        BY <3>2, <4>1
      <4>3. g[T] = Step(g, T)
        BY <2>1, <4>1
      <4>4. CASE T = {}
        BY <4>2, <4>3, <4>4
      <4>5. CASE T # {}
        <5>1. T \ {Top(T)} \in SUBSET (1 .. n)
          BY <4>1
        <5>2. h[T \ {Top(T)}] = g[T \ {Top(T)}]
          BY <3>2, <5>1
        <5> HIDE DEF h, Top
        <5> QED BY <4>2, <4>3, <4>5, <5>2
      <4> QED BY <4>4, <4>5
    <3> QED BY <3>3, <3>4
  <2>3. Good(h, n + 1)
    <3>1. h = [T \in SUBSET (1 .. (n + 1)) |-> h[T]]
      OBVIOUS
    <3> HIDE DEF h, Step
    <3> QED BY <2>2, <3>1
  <2> HIDE DEF h, Good
  <2> QED BY <2>3
<1>4. N \in S
  <2> HIDE DEF S
  <2>1. \A n \in 0 .. (N - 1) : n \in S => n + 1 \in S
    BY <1>3
  <2>2. \A n \in 0 .. N : n \in S
    BY <1>2, <2>1, CountsUp
  <2> QED BY <2>2
<1> DEFINE iter == CHOOSE g : Good(g, N)
<1>5. Good(iter, N)
  <2>1. \E g : Good(g, N)
    BY <1>4
  <2> HIDE DEF Good
  <2> QED BY <2>1
<1>6. FoldLeft(Merge, <<>>, s) = iter[1 .. N]
  BY DEF FoldLeft, MapThenFoldSet, Max
<1> DEFINE out == [n \in 0 .. N |-> iter[1 .. n]]
<1> HIDE DEF iter
<1>7. \A T \in SUBSET (1 .. N) : iter[T] = Step(iter, T)
  BY <1>5
<1>8. out[0] = <<>>
  <2>1. 1 .. 0 = {} /\ {} \in SUBSET (1 .. N)
    OBVIOUS
  <2>2. iter[{}] = Step(iter, {})
    BY <1>7, <2>1
  <2>3. Step(iter, {}) = <<>>
    OBVIOUS
  <2>4. out[0] = iter[1 .. 0]
    OBVIOUS
  <2> QED BY <2>1, <2>2, <2>3, <2>4
<1>9. ASSUME NEW n \in 0 .. (N - 1) PROVE out[n + 1] = Merge(out[n], s[n + 1])
  <2>1. 1 .. (n + 1) = (1 .. n) \cup {n + 1} /\ 1 .. (n + 1) \in SUBSET (1 .. N)
    OBVIOUS
  <2>2. Top(1 .. (n + 1)) = n + 1 /\ (1 .. (n + 1)) \ {n + 1} = 1 .. n
    <3>1. n \in Nat /\ 1 .. n \in SUBSET (1 .. n)
      OBVIOUS
    <3> HIDE DEF Top
    <3>2. Top((1 .. n) \cup {n + 1}) = n + 1 /\ ((1 .. n) \cup {n + 1}) \ {n + 1} = 1 .. n
      BY <1>1, <3>1
    <3> QED BY <2>1, <3>2
  <2>3. iter[1 .. (n + 1)] = Step(iter, 1 .. (n + 1))
    BY <1>7, <2>1
  <2>4. 1 .. (n + 1) # {}
    BY <2>1
  <2> HIDE DEF Top
  <2>5. iter[1 .. (n + 1)] = Merge(iter[1 .. n], s[n + 1])
    BY <2>2, <2>3, <2>4
  <2> QED BY <2>5
<1>10. FoldLeft(Merge, <<>>, s) = out[N]
  BY <1>6
<1> HIDE DEF out
<1> QED BY <1>8, <1>9, <1>10

\* Ranges can be put in order by their starts: each at the place that counts
\* those not after it.
LEMMA OrderExists ==
    ASSUME NEW B \in SUBSET (Nat \X Nat), IsFiniteSet(B)
    PROVE  \E s \in [1 .. Cardinality(B) -> B] :
              IsInjective(s) /\ \A i, j \in DOMAIN s : i < j => s[i][1] <= s[j][1]
<1> DEFINE Leq(b, c) == b[1] < c[1] \/ (b[1] = c[1] /\ b[2] <= c[2])
           Upto(b) == {c \in B : Leq(c, b)}
           N == Cardinality(B)
           rank == [b \in B |-> Cardinality(Upto(b))]
<1>1. \A b, c \in B : /\ Leq(b, b)
                      /\ Leq(b, c) \/ Leq(c, b)
                      /\ Leq(b, c) /\ Leq(c, b) => b = c
  <2> SUFFICES ASSUME NEW b \in B, NEW c \in B
               PROVE  /\ Leq(b, b)
                      /\ Leq(b, c) \/ Leq(c, b)
                      /\ Leq(b, c) /\ Leq(c, b) => b = c
    OBVIOUS
  <2>1. /\ b[1] \in Nat /\ b[2] \in Nat /\ c[1] \in Nat /\ c[2] \in Nat
        /\ b = <<b[1], b[2]>> /\ c = <<c[1], c[2]>>
    OBVIOUS
  <2> QED BY <2>1
<1>2. \A a, b, c \in B : Leq(a, b) /\ Leq(b, c) => Leq(a, c)
  <2> SUFFICES ASSUME NEW a \in B, NEW b \in B, NEW c \in B, Leq(a, b), Leq(b, c)
               PROVE  Leq(a, c)
    OBVIOUS
  <2>1. /\ a[1] \in Nat /\ a[2] \in Nat /\ b[1] \in Nat /\ b[2] \in Nat
        /\ c[1] \in Nat /\ c[2] \in Nat
    OBVIOUS
  <2> QED BY <2>1
<1>3. \A b, c \in B : c[1] < b[1] => Leq(c, b)
  OBVIOUS
<1> HIDE DEF Leq
<1>4. N \in Nat
  BY FS_CardinalityType
<1>5. ASSUME NEW b \in B PROVE rank[b] \in 1 .. N
  <2>1. Upto(b) \in SUBSET B /\ b \in Upto(b)
    BY <1>1
  <2>2. IsFiniteSet(Upto(b)) /\ Cardinality(Upto(b)) <= N
    BY <2>1, FS_Subset
  <2>3. Cardinality(Upto(b)) \in Nat /\ Cardinality(Upto(b)) # 0
    BY <2>1, <2>2, FS_CardinalityType, FS_EmptySet
  <2> HIDE DEF Upto, N
  <2> QED BY <1>4, <2>2, <2>3
<1>6. ASSUME NEW b \in B, NEW c \in B, Leq(b, c), b # c PROVE rank[b] < rank[c]
  <2>1. Upto(b) \in SUBSET Upto(c)
    BY <1>2, <1>6
  <2>2. c \in Upto(c) /\ c \notin Upto(b)
    BY <1>1, <1>6
  <2>3. IsFiniteSet(Upto(c))
    <3>1. Upto(c) \in SUBSET B
      OBVIOUS
    <3> QED BY <3>1, FS_Subset
  <2>4. /\ Cardinality(Upto(b)) <= Cardinality(Upto(c))
        /\ Cardinality(Upto(b)) # Cardinality(Upto(c))
    BY <2>1, <2>2, <2>3, FS_Subset
  <2>5. rank[b] = Cardinality(Upto(b)) /\ rank[c] = Cardinality(Upto(c))
    OBVIOUS
  <2>6. rank[b] \in Nat /\ rank[c] \in Nat
    BY <1>4, <1>5
  <2> HIDE DEF rank, Upto
  <2> QED BY <2>4, <2>5, <2>6
<1>7. rank \in [B -> 1 .. N]
  <2>1. \A b \in B : rank[b] \in 1 .. N
    BY <1>5
  <2>2. rank = [b \in B |-> rank[b]]
    OBVIOUS
  <2> HIDE DEF rank
  <2> QED BY <2>1, <2>2
<1> HIDE DEF rank, Upto
<1>8. \A b, c \in B : rank[b] = rank[c] => b = c
  <2> SUFFICES ASSUME NEW b \in B, NEW c \in B, rank[b] = rank[c], b # c
               PROVE  FALSE
    OBVIOUS
  <2>1. rank[b] \in Nat
    BY <1>4, <1>5
  <2>2. Leq(b, c) \/ Leq(c, b)
    BY <1>1
  <2>3. rank[b] < rank[c] \/ rank[c] < rank[b]
    BY <1>6, <2>2
  <2> QED BY <2>1, <2>3
<1>9. \A k \in 1 .. N : \E b \in B : rank[b] = k
  <2>1. rank \in Injection(B, 1 .. N)
    BY <1>7, <1>8, Fun_IsInj
  <2>2. IsFiniteSet(1 .. N) /\ Cardinality(1 .. N) = N
    BY <1>4, FS_Interval
  <2>3. rank \in Surjection(B, 1 .. N)
    BY <2>1, <2>2, FS_Injection
  <2> QED BY <2>3, Fun_SurjectionProperties
<1> DEFINE s == [k \in 1 .. N |-> CHOOSE b \in B : rank[b] = k]
<1>10. \A k \in 1 .. N : s[k] \in B /\ rank[s[k]] = k
  BY <1>9
<1>11. s \in [1 .. N -> B] /\ DOMAIN s = 1 .. N
  BY <1>10
<1> HIDE DEF s
<1>12. IsInjective(s)
  BY <1>10, <1>11 DEF IsInjective
<1>13. ASSUME NEW i \in 1 .. N, NEW j \in 1 .. N, i < j PROVE s[i][1] <= s[j][1]
  <2>1. s[i] \in B /\ s[j] \in B /\ s[i][1] \in Nat /\ s[j][1] \in Nat
    BY <1>10
  <2> SUFFICES ASSUME s[j][1] < s[i][1]
               PROVE  FALSE
    BY <2>1
  <2>2. Leq(s[j], s[i]) /\ s[j] # s[i]
    BY <1>3, <2>1
  <2>3. j < i
    BY <1>6, <1>10, <2>1, <2>2
  <2> QED BY <1>4, <1>13, <2>3
<1> QED BY <1>11, <1>12, <1>13

\* The bytes of the bit-fields are finitely many ranges.
LEMMA BitBytesAre ==
    ASSUME Typed
    PROVE  BitBytes \in SUBSET (Nat \X Nat) /\ IsFiniteSet(BitBytes)
<1> DEFINE P == {j \in DOMAIN placed : placed[j].bitField /\ placed[j].width > 0}
           f == [i \in P |-> <<placed[i].first \div 8,
                               (placed[i].first + placed[i].width + 7) \div 8>>]
<1>1. Len(placed) \in Nat /\ P \in SUBSET (1 .. Len(placed))
  BY DEF Typed
<1>2. IsFiniteSet(P)
  <2> HIDE DEF P
  <2>1. IsFiniteSet(1 .. Len(placed))
    BY <1>1, FS_Interval
  <2> QED BY <1>1, <2>1, FS_Subset
<1>3. ASSUME NEW i \in P PROVE f[i] \in Nat \X Nat
  <2>1. placed[i] \in MemberSet
    BY DEF Typed
  <2>2. placed[i].first \in Nat /\ placed[i].width \in Nat
    BY <2>1 DEF MemberSet
  <2>3. placed[i].first \div 8 \in Nat /\ (placed[i].first + placed[i].width + 7) \div 8 \in Nat
    BY <2>2
  <2> HIDE DEF P
  <2> QED BY <2>3
<1>4. BitBytes = {f[i] : i \in P}
  BY DEF BitBytes
<1> HIDE DEF P
<1>5. f \in [P -> BitBytes] /\ \A b \in BitBytes : \E i \in P : f[i] = b
  <2>1. DOMAIN f = P /\ f = [i \in P |-> f[i]]
    OBVIOUS
  <2> HIDE DEF f
  <2> QED BY <1>4, <2>1
<1> HIDE DEF f
<1>6. f \in Surjection(P, BitBytes)
  BY <1>5, Fun_IsSurj
<1>7. IsFiniteSet(BitBytes)
  BY <1>2, <1>6, FS_Surjection
<1>8. BitBytes \in SUBSET (Nat \X Nat)
  BY <1>3, <1>4
<1> QED BY <1>7, <1>8

\* The order has every range of bytes, and no start falls.
LEMMA OrderedIs ==
    ASSUME Typed
    PROVE  /\ Cardinality(BitBytes) \in Nat
           /\ Ordered \in [1 .. Cardinality(BitBytes) -> BitBytes]
           /\ DOMAIN Ordered = 1 .. Cardinality(BitBytes)
           /\ \A b \in BitBytes : \E i \in 1 .. Cardinality(BitBytes) : Ordered[i] = b
           /\ \A i, j \in 1 .. Cardinality(BitBytes) :
                 i < j => Ordered[i][1] <= Ordered[j][1]
<1> DEFINE N == Cardinality(BitBytes)
           Good(s) == IsInjective(s) /\ \A i, j \in DOMAIN s : i < j => s[i][1] <= s[j][1]
<1>1. IsFiniteSet(BitBytes) /\ N \in Nat
  BY BitBytesAre, FS_CardinalityType
<1>2. \E s \in [1 .. N -> BitBytes] : Good(s)
  BY BitBytesAre, OrderExists
<1>3. Ordered = CHOOSE s \in [1 .. N -> BitBytes] : Good(s)
  BY DEF Ordered
<1>4. Ordered \in [1 .. N -> BitBytes] /\ Good(Ordered)
  <2> HIDE DEF Good, N
  <2> QED BY <1>2, <1>3
<1>5. DOMAIN Ordered = 1 .. N
  BY <1>4
<1>6. Ordered \in Surjection(1 .. N, BitBytes)
  <2>1. \A a, b \in 1 .. N : Ordered[a] = Ordered[b] => a = b
    BY <1>4, <1>5 DEF IsInjective
  <2>2. Ordered \in Injection(1 .. N, BitBytes)
    <3> HIDE DEF N, Good
    <3> QED BY <1>4, <2>1, Fun_IsInj
  <2>3. Cardinality(1 .. N) = N
    BY <1>1, FS_Interval
  <2> HIDE DEF Good
  <2> QED BY <1>1, <2>2, <2>3, FS_Injection
<1>7. \A b \in BitBytes : \E i \in 1 .. N : Ordered[i] = b
  <2> HIDE DEF N, Good
  <2> QED BY <1>6 DEF Surjection
<1>8. \A i, j \in 1 .. N : i < j => Ordered[i][1] <= Ordered[j][1]
  BY <1>4, <1>5
<1> QED BY <1>1, <1>4, <1>5, <1>7, <1>8

\* What mergeRanges keeps: the runs are in order and apart, cover the ranges
\* merged so far, share no byte with a member, and begin where one of the
\* ranges does.
Runs(out, done) ==
    /\ out \in Seq(Nat \X Nat)
    /\ \A k \in DOMAIN out : out[k][1] <= out[k][2]
    /\ \A k, n \in DOMAIN out : k < n => out[k][2] < out[n][1]
    /\ \A b \in done : \E k \in DOMAIN out : out[k][1] <= b[1] /\ b[2] <= out[k][2]
    /\ \A k \in DOMAIN out, m \in MemberBytes : out[k][2] <= m[1] \/ m[2] <= out[k][1]
    /\ \A k \in DOMAIN out : \E b \in done : out[k][1] = b[1]

\* A range that begins where the others do or later, and is apart from the
\* members.
LEMMA MergeKeeps ==
    ASSUME NEW out, NEW done \in SUBSET (Nat \X Nat), Runs(out, done),
           NEW next \in Nat \X Nat, next[1] <= next[2],
           \A b \in done : b[1] <= next[1],
           \A m \in MemberBytes : m[1] \in Nat /\ m[2] \in Nat /\ m[1] < m[2],
           \A m \in MemberBytes : next[2] <= m[1] \/ m[2] <= next[1]
    PROVE  Runs(Merge(out, next), done \cup {next})
<1> DEFINE z == Len(out)
           new == Merge(out, next)
<1>1. out \in Seq(Nat \X Nat) /\ z \in Nat /\ DOMAIN out = 1 .. z
  BY DEF Runs
<1>2. /\ next[1] \in Nat /\ next[2] \in Nat /\ next = <<next[1], next[2]>>
      /\ \A b \in done : b[1] \in Nat /\ b[2] \in Nat
      /\ \A k \in 1 .. z : out[k] \in Nat \X Nat /\ out[k][1] \in Nat /\ out[k][2] \in Nat
  BY <1>1
<1>3. /\ \A k \in 1 .. z : out[k][1] <= out[k][2]
      /\ \A k, n \in 1 .. z : k < n => out[k][2] < out[n][1]
      /\ \A b \in done : \E k \in 1 .. z : out[k][1] <= b[1] /\ b[2] <= out[k][2]
      /\ \A k \in 1 .. z, m \in MemberBytes : out[k][2] <= m[1] \/ m[2] <= out[k][1]
      /\ \A k \in 1 .. z : \E b \in done : out[k][1] = b[1]
  BY <1>1 DEF Runs
<1>3a. z = Len(out) /\ (z = 0 => out = <<>>) /\ (out = <<>> => z = 0)
  BY <1>1
<1> HIDE DEF z
<1>4. \A k \in 1 .. z : out[k][1] <= next[1]
  BY <1>3
<1>5. CASE out # <<>> /\ next[1] <= out[z][2]
  <2> DEFINE hi == Larger(out[z][2], next[2])
             run == <<out[z][1], hi>>
  <2>1. z \in 1 .. z
    BY <1>1, <1>3a, <1>5
  <2>2. hi \in Nat /\ out[z][2] <= hi /\ next[2] <= hi /\ hi \in {out[z][2], next[2]}
    BY <1>2, <2>1 DEF Larger
  <2>3. new = [out EXCEPT ![z] = run]
    BY <1>5, <2>1, <1>2 DEF Merge, z
  <2>4. run \in Nat \X Nat /\ run[1] = out[z][1] /\ run[2] = hi
    BY <1>2, <2>1, <2>2
  <2> HIDE DEF run, hi, new
  <2>5. new \in Seq(Nat \X Nat) /\ DOMAIN new = 1 .. z
    BY <1>1, <2>1, <2>3, <2>4
  <2>6. new[z] = run /\ \A k \in 1 .. (z - 1) : new[k] = out[k]
    BY <1>1, <2>1, <2>3
  <2>7. \A k \in 1 .. z : new[k][1] = out[k][1]
    <3> SUFFICES ASSUME NEW k \in 1 .. z PROVE new[k][1] = out[k][1]
      OBVIOUS
    <3>1. k = z \/ k \in 1 .. (z - 1)
      BY <1>1
    <3> QED BY <2>4, <2>6, <3>1
  <2>8. \A k \in 1 .. z : k # z => k \in 1 .. (z - 1)
    BY <1>1
  <2>9. \A k \in 1 .. z : new[k][2] = IF k = z THEN hi ELSE out[k][2]
    BY <2>4, <2>6, <2>8
  <2>10. \A k \in 1 .. z : new[k][1] <= new[k][2]
    <3> SUFFICES ASSUME NEW k \in 1 .. z PROVE new[k][1] <= new[k][2]
      OBVIOUS
    <3> QED BY <1>2, <1>3, <2>1, <2>2, <2>7, <2>9
  <2>11. \A k, n \in 1 .. z : k < n => new[k][2] < new[n][1]
    <3> SUFFICES ASSUME NEW k \in 1 .. z, NEW n \in 1 .. z, k < n
                 PROVE  new[k][2] < new[n][1]
      OBVIOUS
    <3>1. k # z
      BY <1>1
    <3> QED BY <1>3, <2>7, <2>9, <3>1
  <2>12. ASSUME NEW b \in done \cup {next}
         PROVE  \E k \in 1 .. z : new[k][1] <= b[1] /\ b[2] <= new[k][2]
    <3>1. CASE b = next
      <4>1. new[z][1] <= b[1] /\ b[2] <= new[z][2]
        BY <1>4, <2>1, <2>2, <2>7, <2>9, <3>1
      <4> QED BY <2>1, <4>1
    <3>2. CASE b \in done
      <4>1. PICK k \in 1 .. z : out[k][1] <= b[1] /\ b[2] <= out[k][2]
        BY <1>3, <3>2
      <4>2. b[2] \in Nat /\ out[k][2] \in Nat
        BY <1>2, <3>2
      <4>3. out[k][2] <= new[k][2] /\ new[k][2] \in Nat
        BY <1>2, <2>2, <2>9, <4>2
      <4>4. b[2] <= new[k][2]
        BY <4>1, <4>2, <4>3
      <4> QED BY <2>7, <4>1, <4>4
    <3> QED BY <3>1, <3>2
  <2>13. ASSUME NEW k \in 1 .. z, NEW m \in MemberBytes
         PROVE  new[k][2] <= m[1] \/ m[2] <= new[k][1]
    <3>1. CASE k # z
      BY <1>3, <2>7, <2>9, <3>1
    <3>2. CASE k = z
      <4>1. new[k][2] = hi /\ new[k][1] = out[z][1]
        BY <2>7, <2>9, <3>2
      <4>2. out[z][2] <= m[1] \/ m[2] <= out[z][1]
        BY <1>3, <2>1
      <4>3. next[2] <= m[1] \/ m[2] <= next[1]
        OBVIOUS
      <4>4. m[1] \in Nat /\ m[2] \in Nat /\ m[1] < m[2]
        OBVIOUS
      <4>5. hi <= m[1] \/ m[2] <= out[z][1]
        BY <1>2, <1>5, <2>1, <2>2, <4>2, <4>3, <4>4
      <4> QED BY <4>1, <4>5
    <3> QED BY <3>1, <3>2
  <2>14. \A k \in 1 .. z : \E b \in done \cup {next} : new[k][1] = b[1]
    BY <1>3, <2>7
  <2>15. Runs(new, done \cup {next})
    BY <2>5, <2>10, <2>11, <2>12, <2>13, <2>14 DEF Runs
  <2> QED BY <2>15 DEF new
<1>6. CASE ~(out # <<>> /\ next[1] <= out[z][2])
  <2>1. new = Append(out, next)
    BY <1>6 DEF Merge, z
  <2> HIDE DEF new
  <2>2. /\ new \in Seq(Nat \X Nat) /\ DOMAIN new = 1 .. (z + 1)
        /\ new[z + 1] = next /\ \A k \in 1 .. z : new[k] = out[k]
    BY <1>1, <1>3a, <2>1
  <2>3. \A k \in 1 .. z : out[k][2] < next[1]
    <3> SUFFICES ASSUME NEW k \in 1 .. z PROVE out[k][2] < next[1]
      OBVIOUS
    <3>1. z \in 1 .. z /\ out # <<>>
      BY <1>1, <1>3a
    <3>2. out[z][2] < next[1]
      BY <1>2, <1>6, <3>1
    <3>3. CASE k = z
      BY <3>2, <3>3
    <3>4. CASE k # z
      <4>1. k < z
        BY <1>1, <3>4
      <4>2. out[k][2] < out[z][1] /\ out[z][1] <= out[z][2]
        BY <1>3, <3>1, <4>1
      <4> QED BY <1>2, <3>1, <3>2, <4>2
    <3> QED BY <3>3, <3>4
  <2>4. \A k \in 1 .. (z + 1) : k = z + 1 \/ k \in 1 .. z
    BY <1>1
  <2>5. \A k \in 1 .. (z + 1) : new[k][1] <= new[k][2]
    BY <1>3, <2>2, <2>4
  <2>6. \A k, n \in 1 .. (z + 1) : k < n => new[k][2] < new[n][1]
    <3> SUFFICES ASSUME NEW k \in 1 .. (z + 1), NEW n \in 1 .. (z + 1), k < n
                 PROVE  new[k][2] < new[n][1]
      OBVIOUS
    <3>1. k \in 1 .. z
      BY <1>1
    <3>2. CASE n = z + 1
      BY <2>2, <2>3, <3>1, <3>2
    <3>3. CASE n \in 1 .. z
      BY <1>3, <2>2, <3>1, <3>3
    <3> QED BY <2>4, <3>2, <3>3
  <2>7. \A b \in done \cup {next} :
           \E k \in 1 .. (z + 1) : new[k][1] <= b[1] /\ b[2] <= new[k][2]
    <3> SUFFICES ASSUME NEW b \in done \cup {next}
                 PROVE  \E k \in 1 .. (z + 1) : new[k][1] <= b[1] /\ b[2] <= new[k][2]
      OBVIOUS
    <3>1. CASE b = next
      <4>1. z + 1 \in 1 .. (z + 1)
        BY <1>1
      <4>2. new[z + 1][1] <= b[1] /\ b[2] <= new[z + 1][2]
        BY <1>2, <2>2, <3>1
      <4> QED BY <4>1, <4>2
    <3>2. CASE b \in done
      <4>1. PICK k \in 1 .. z : out[k][1] <= b[1] /\ b[2] <= out[k][2]
        BY <1>3, <3>2
      <4>2. k \in 1 .. (z + 1) /\ new[k] = out[k]
        BY <1>1, <2>2
      <4> QED BY <4>1, <4>2
    <3> QED BY <3>1, <3>2
  <2>8. \A k \in 1 .. (z + 1), m \in MemberBytes : new[k][2] <= m[1] \/ m[2] <= new[k][1]
    BY <1>3, <2>2, <2>4
  <2>9. \A k \in 1 .. (z + 1) : \E b \in done \cup {next} : new[k][1] = b[1]
    BY <1>3, <2>2, <2>4
  <2>10. Runs(new, done \cup {next})
    BY <2>2, <2>5, <2>6, <2>7, <2>8, <2>9 DEF Runs
  <2> QED BY <2>10 DEF new
<1> QED BY <1>5, <1>6

\* A member of a struct is whole bytes, and shares none with a bit-field,
\* although its unit may have them.
LEMMA BytesApart ==
    ASSUME IInv, ~rec.union
    PROVE  /\ \A b \in BitBytes : b[1] <= b[2]
           /\ \A m \in MemberBytes : m[1] \in Nat /\ m[2] \in Nat /\ m[1] < m[2]
           /\ \A b \in BitBytes, m \in MemberBytes : b[2] <= m[1] \/ m[2] <= b[1]
<1>1. \A i \in DOMAIN placed : placed[i].first \in Nat /\ placed[i].width \in Nat
  <2>1. \A i \in DOMAIN placed : placed[i] \in MemberSet
    BY DEF IInv, Typed
  <2> QED BY <2>1 DEF MemberSet
<1>2. \A i \in DOMAIN placed : ~placed[i].bitField =>
         placed[i].first % 8 = 0 /\ placed[i].width % 8 = 0
  BY DEF IInv, MembersOK, MemberOK, OrdinaryOK
<1>3. \A i, j \in DOMAIN placed : i # j =>
         \/ placed[i].first + placed[i].width <= placed[j].first
         \/ placed[j].first + placed[j].width <= placed[i].first
  <2> SUFFICES ASSUME NEW i \in DOMAIN placed, NEW j \in DOMAIN placed, i # j
               PROVE  \/ placed[i].first + placed[i].width <= placed[j].first
                      \/ placed[j].first + placed[j].width <= placed[i].first
    OBVIOUS
  <2>1. i \in Nat /\ j \in Nat
    BY DEF IInv, Typed
  <2>2. i < j \/ j < i
    BY <2>1
  <2> QED BY <2>2 DEF IInv, InOrder, Ascending
<1>4. \A b \in BitBytes : b[1] <= b[2]
  <2> SUFFICES ASSUME NEW b \in BitBytes
               PROVE  b[1] <= b[2]
    OBVIOUS
  <2>1. PICK i \in DOMAIN placed :
           b = <<placed[i].first \div 8, (placed[i].first + placed[i].width + 7) \div 8>>
    BY DEF BitBytes
  <2> QED BY <1>1, <2>1
<1>5. ASSUME NEW m \in MemberBytes
      PROVE  \E j \in DOMAIN placed :
                /\ ~placed[j].bitField
                /\ m[1] \in Nat /\ m[2] \in Nat /\ m[1] < m[2]
                /\ placed[j].first = m[1] * 8
                /\ placed[j].first + placed[j].width = m[2] * 8
  <2>1. PICK j \in DOMAIN placed :
           /\ ~placed[j].bitField /\ placed[j].width > 0
           /\ m = <<placed[j].first \div 8, (placed[j].first + placed[j].width) \div 8>>
    BY DEF MemberBytes
  <2> DEFINE p == placed[j].first
             w == placed[j].width
  <2>2. p \in Nat /\ w \in Nat /\ w > 0 /\ p % 8 = 0 /\ w % 8 = 0
    BY <1>1, <1>2, <2>1
  <2>3. m[1] = p \div 8 /\ m[2] = (p + w) \div 8
    BY <2>1
  <2> HIDE DEF p, w
  <2>4. m[1] \in Nat /\ m[2] \in Nat /\ p = m[1] * 8 /\ p + w = m[2] * 8 /\ m[1] < m[2]
    BY <2>2, <2>3
  <2> QED BY <2>1, <2>4 DEF p, w
<1>6. ASSUME NEW b \in BitBytes, NEW m \in MemberBytes PROVE b[2] <= m[1] \/ m[2] <= b[1]
  <2>1. PICK i \in DOMAIN placed :
           /\ placed[i].bitField
           /\ b = <<placed[i].first \div 8, (placed[i].first + placed[i].width + 7) \div 8>>
    BY DEF BitBytes
  <2>2. PICK j \in DOMAIN placed :
           /\ ~placed[j].bitField
           /\ m[1] \in Nat /\ m[2] \in Nat /\ m[1] < m[2]
           /\ placed[j].first = m[1] * 8
           /\ placed[j].first + placed[j].width = m[2] * 8
    BY <1>5
  <2> DEFINE p == placed[i].first
             w == placed[i].width
  <2>3. i # j
    BY <2>1, <2>2
  <2>4. p + w <= m[1] * 8 \/ m[2] * 8 <= p
    BY <1>3, <2>2, <2>3
  <2>5. p \in Nat /\ w \in Nat /\ b[1] = p \div 8 /\ b[2] = (p + w + 7) \div 8
    BY <1>1, <2>1
  <2> HIDE DEF p, w
  <2> QED BY <2>2, <2>4, <2>5
<1> QED BY <1>4, <1>5, <1>6

\* The emitted struct describes its bytes once: its runs are in order, cover
\* every bit-field and share no byte with each other or with a member.
THEOREM RunsStayApart == Spec => []RunsApart
<1>1. ASSUME IInv PROVE RunsApart
  <2> SUFFICES ASSUME ~rec.union
               PROVE  LET runs == BitRanges
                      IN  /\ \A k, n \in DOMAIN runs : k < n => runs[k][2] < runs[n][1]
                          /\ \A b \in BitBytes :
                                \E k \in DOMAIN runs : runs[k][1] <= b[1] /\ b[2] <= runs[k][2]
                          /\ \A k \in DOMAIN runs, m \in MemberBytes :
                                runs[k][2] <= m[1] \/ m[2] <= runs[k][1]
    BY DEF RunsApart
  <2> DEFINE N == Cardinality(BitBytes)
             s == Ordered
             Done(n) == {s[i] : i \in 1 .. n}
  <2>1. /\ N \in Nat /\ s \in [1 .. N -> BitBytes] /\ DOMAIN s = 1 .. N
        /\ \A b \in BitBytes : \E i \in 1 .. N : s[i] = b
        /\ \A i, j \in 1 .. N : i < j => s[i][1] <= s[j][1]
    BY <1>1, OrderedIs DEF IInv
  <2>2. BitBytes \in SUBSET (Nat \X Nat)
    BY <1>1, BitBytesAre DEF IInv
  <2>3. /\ \A b \in BitBytes : b[1] <= b[2]
        /\ \A m \in MemberBytes : m[1] \in Nat /\ m[2] \in Nat /\ m[1] < m[2]
        /\ \A b \in BitBytes, m \in MemberBytes : b[2] <= m[1] \/ m[2] <= b[1]
    BY <1>1, BytesApart
  <2> HIDE DEF N, s
  <2>4. PICK out : /\ out[0] = <<>>
                   /\ \A n \in 0 .. (N - 1) : out[n + 1] = Merge(out[n], s[n + 1])
                   /\ FoldLeft(Merge, <<>>, s) = out[N]
    BY <2>1, MergesOneByOne
  <2> DEFINE S == {n \in 0 .. N : Runs(out[n], Done(n))}
  <2>5. 0 \in S
    <3>1. Done(0) = {} /\ DOMAIN out[0] = {} /\ out[0] \in Seq(Nat \X Nat)
      BY <2>4
    <3> HIDE DEF Done
    <3>2. Runs(out[0], Done(0))
      BY <3>1 DEF Runs
    <3> QED BY <2>1, <3>2
  <2>6. ASSUME NEW n \in 0 .. (N - 1), n \in S PROVE n + 1 \in S
    <3>1. n + 1 \in 1 .. N /\ n + 1 \in 0 .. N /\ Runs(out[n], Done(n))
      BY <2>1, <2>6
    <3>2. s[n + 1] \in BitBytes /\ s[n + 1] \in Nat \X Nat
      BY <2>1, <2>2, <3>1
    <3>3. Done(n) \in SUBSET (Nat \X Nat)
      <4>1. \A i \in 1 .. n : i \in 1 .. N
        BY <2>1
      <4> QED BY <2>1, <2>2, <4>1
    <3>4. \A b \in Done(n) : b[1] <= s[n + 1][1]
      <4> SUFFICES ASSUME NEW i \in 1 .. n PROVE s[i][1] <= s[n + 1][1]
        OBVIOUS
      <4>1. i \in 1 .. N /\ i < n + 1
        BY <2>1
      <4> QED BY <2>1, <3>1, <4>1
    <3>5. Done(n + 1) = Done(n) \cup {s[n + 1]}
      <4>1. 1 .. (n + 1) = (1 .. n) \cup {n + 1}
        OBVIOUS
      <4> QED BY <4>1
    <3> HIDE DEF Done
    <3>6. Runs(Merge(out[n], s[n + 1]), Done(n) \cup {s[n + 1]})
      <4>1. s[n + 1][1] <= s[n + 1][2]
        BY <2>3, <3>2
      <4>2. \A m \in MemberBytes : s[n + 1][2] <= m[1] \/ m[2] <= s[n + 1][1]
        BY <2>3, <3>2
      <4> QED BY <2>3, <3>1, <3>2, <3>3, <3>4, <4>1, <4>2, MergeKeeps
    <3> QED BY <2>4, <3>1, <3>5, <3>6
  <2>7. N \in S
    <3> HIDE DEF S
    <3>1. \A n \in 0 .. (N - 1) : n \in S => n + 1 \in S
      BY <2>6
    <3>2. \A n \in 0 .. N : n \in S
      BY <2>1, <2>5, <3>1, CountsUp
    <3> QED BY <2>1, <3>2
  <2>8. BitRanges = out[N]
    BY <2>4 DEF BitRanges, s
  <2>9. \A b \in BitBytes : b \in Done(N)
    BY <2>1
  <2> HIDE DEF Done
  <2>10. Runs(BitRanges, Done(N))
    BY <2>7, <2>8
  <2> QED BY <2>9, <2>10 DEF Runs
<1> QED BY <1>1, Invariance, PTL
=============================================================================
