------------------------------- MODULE Layout -------------------------------
(***************************************************************************)
(* The layout of a record and the access to its bit-fields                 *)
(* (types/model.go, types/bitfield.go, lower/bitfield.go, lower/gtype.go). *)
(*                                                                         *)
(* A record is laid out member by member: cur is the BitCursor, placed what *)
(* has been decided about the members so far.  When the record is complete *)
(* an object of it is a set of bits, mem, and a program stores to its      *)
(* bit-fields in any order.  A field has no address: a store reads the     *)
(* unit around it, replaces the bits and writes the unit back.             *)
(*                                                                         *)
(* A word of w bits is the set of its one-bits, a subset of 0 .. w-1.      *)
(***************************************************************************)
EXTENDS Integers, Sequences, FiniteSets, SequencesExt

CONSTANTS
    Types,       \* the members' types: [size, align] in bytes
    BitTypes,    \* the integer types of bit-fields: size and alignment in bytes
    Widths,      \* the widths of bit-fields
    Aligns,      \* the alignments _Alignas asks for; 0 for none
    Packs,       \* the ceilings of #pragma pack; 0 for none
    RecordAligns,\* the alignments of aligned(n) on the record; 0 for none
    MaxMembers,  \* bound: members of a record
    MaxStores,   \* bound: stores to its bit-fields
    Shapes       \* the records set apart: see Allowed

ASSUME LayoutAssumption ==
    /\ Types \subseteq [size : Nat, align : Nat \ {0}]
    /\ BitTypes \subseteq {1, 2, 4, 8}
    /\ Widths \subseteq Nat
    /\ Aligns \subseteq Nat /\ Packs \subseteq Nat /\ RecordAligns \subseteq Nat
    /\ MaxMembers \in Nat /\ MaxStores \in Nat

(* Every alignment is a power of two: what is said is that the smaller of   *)
(* two divides the larger.                                                  *)
Alignments ==
    {t.align : t \in Types} \cup BitTypes
        \cup ((Aligns \cup Packs \cup RecordAligns) \ {0}) \cup {1}

PowersOfTwo == \A a, b \in Alignments : a <= b => b % a = 0

(* Types of a 64-bit target, an array of three bytes among them. *)
TargetTypes == {[size |-> 4, align |-> 4], [size |-> 3, align |-> 1]}

VARIABLES
    rec,     \* the record's attributes and the target's rule
    cur,     \* the cursor: bits, and the open unit
    align,   \* the alignment of the members so far
    placed,  \* the members so far
    size,    \* the size in bytes of the complete record, -1 before
    mem,     \* an object of the record
    vals,    \* bit-field -> the bits it was last given
    stores   \* the stores so far

vars == <<rec, cur, align, placed, size, mem, vals, stores>>

RoundUp(n, to) == ((n + to - 1) \div to) * to

Larger(a, b) == IF a > b THEN a ELSE b

----------------------------------------------------------------------------
(* The cursor.                                                             *)

\* MemberAlign, then _Alignas, which raises what packing allowed.
MemberAlign(n) ==
    IF rec.packed THEN 1 ELSE IF rec.pack > 0 /\ n > rec.pack THEN rec.pack ELSE n

AlignOf(natural, asked) == Larger(MemberAlign(natural), asked)

Cursor == [bits : Nat, start : Nat, width : Nat, opened : {0} \cup BitTypes]

CloseUnit(c) ==
    IF c.opened = 0 THEN c
    ELSE [c EXCEPT !.bits = Larger(@, c.start + c.width), !.opened = 0]

\* The gcc rule: at the cursor, or at the next boundary of the declared type
\* if the field would straddle one.
GccStart(c, unit, w) ==
    IF c.bits \div unit # (c.bits + w - 1) \div unit THEN RoundUp(c.bits, unit) ELSE c.bits

\* The Microsoft rule: in the open unit if that has the same declared size and
\* room, else in a unit of its own.
MsUnit(c, s, a, w) ==
    IF c.opened # s \/ c.bits + w > c.start + c.width
    THEN LET closed == CloseUnit(c)
             at == RoundUp(closed.bits, a * 8)
         IN  [bits |-> at, start |-> at, width |-> s * 8, opened |-> s]
    ELSE c

\* A bit-field's place: the unit's byte offset, the bit within it, the unit's
\* width in bytes.
Place(off, bitOff, unit) == [off |-> off, bitOff |-> bitOff, unit |-> unit]

GccPlace(c, s, w) ==
    LET start == GccStart(c, s * 8, w)
        off == (start \div (s * 8)) * s
    IN  Place(off, start - off * 8, s)

MsPlace(c, s, a, w) ==
    LET u == MsUnit(c, s, a, w) IN Place(u.start \div 8, u.bits - u.start, s)

PackedPlace(c, w) ==
    Place(c.bits \div 8, c.bits % 8, RoundUp((c.bits % 8) + w, 8) \div 8)

----------------------------------------------------------------------------
(* The members, in order (layoutWith).                                     *)

\* A record open to another member: a flexible array is the last one.
Building == /\ size = -1 /\ Len(placed) < MaxMembers
            /\ \A i \in DOMAIN placed : placed[i].flexible => rec.union

Raise(a, counts) == align' = IF counts THEN Larger(align, a) ELSE align

Ordinary(first, t, a, flexible) ==
    [first |-> first, bytes |-> t.size, width |-> t.size * 8, align |-> a, bitField |-> FALSE,
     named |-> TRUE, place |-> Place(0, 0, 0), signed |-> FALSE, flexible |-> flexible]

Bits(first, s, w, place, named, signed) ==
    [first |-> first, bytes |-> s, width |-> w, align |-> 1, bitField |-> TRUE,
     named |-> named, place |-> place, signed |-> signed, flexible |-> FALSE]

\* A mutant: an ordinary member starts in the byte the cursor stands in.
MemberOffsetEarly(c, a) == RoundUp(CloseUnit(c).bits \div 8, a)

\* CloseForMember: the byte after the bits placed so far.
MemberOffset(c, a) == RoundUp((CloseUnit(c).bits + 7) \div 8, a)

Member(t, asked, flexible) ==
    LET a == AlignOf(t.align, asked)
        off == MemberOffset(cur, a)
    IN  /\ Building /\ ~rec.union
        /\ cur' = [CloseUnit(cur) EXCEPT !.bits = (off + t.size) * 8]
        /\ Raise(a, TRUE)
        /\ placed' = Append(placed, Ordinary(off * 8, t, a, flexible))
        /\ UNCHANGED <<rec, size, mem, vals, stores>>

AddMember == \E t \in Types, asked \in Aligns : Member(t, asked, FALSE)

\* An array without a length contributes no size, last in a struct.
AddFlexible == /\ placed # <<>>
               /\ \E t \in Types : Member([t EXCEPT !.size = 0], 0, TRUE)

\* A bit-field that is given a place: named or not, in one of the three ways.
PlaceField(s, w, named, signed, place, next) ==
    LET a == AlignOf(s, 0)
    IN  /\ Building /\ ~rec.union /\ w > 0 /\ w <= s * 8
        /\ signed => named
        /\ cur' = next
        /\ Raise(a, named)
        /\ placed' = Append(placed,
                            Bits(place.off * 8 + place.bitOff, s, w, place, named, signed))
        /\ UNCHANGED <<rec, size, mem, vals, stores>>

\* The records set apart: #pragma pack under the gcc rule, which keeps a
\* field's unit the declared type's while the record may be smaller; a packed
\* field whose bytes are not a power of two in number; a bit-field of a union
\* smaller than the unit it is accessed by.
PackCeiling == "pack ceiling" \in Shapes
OddUnit == "odd unit" \in Shapes
UnionField == "union bit-field" \in Shapes

Allowed(place) ==
    /\ rec.pack > 0 /\ ~rec.ms /\ ~rec.packed => PackCeiling
    /\ place.unit \notin {1, 2, 4, 8} => OddUnit

PackedBits(s, w, named, signed) ==
    LET c == CloseUnit(cur)
    IN  /\ rec.packed
        /\ Allowed(PackedPlace(c, w))
        /\ PlaceField(s, w, named, signed, PackedPlace(c, w), [c EXCEPT !.bits = @ + w])

GccBits(s, w, named, signed) ==
    /\ ~rec.packed /\ ~rec.ms
    /\ Allowed(GccPlace(cur, s, w))
    /\ PlaceField(s, w, named, signed, GccPlace(cur, s, w),
                  [cur EXCEPT !.bits = GccStart(cur, s * 8, w) + w])

MsBits(s, w, named, signed) ==
    LET u == MsUnit(cur, s, AlignOf(s, 0), w)
    IN  /\ ~rec.packed /\ rec.ms
        /\ PlaceField(s, w, named, signed, MsPlace(cur, s, AlignOf(s, 0), w),
                      [u EXCEPT !.bits = @ + w])

AddBits == \E s \in BitTypes, w \in Widths, named, signed \in BOOLEAN :
              \/ PackedBits(s, w, named, signed)
              \/ GccBits(s, w, named, signed)
              \/ MsBits(s, w, named, signed)

\* int : 0, which places nothing and starts the next unit.
ZeroWidth == \E s \in BitTypes :
    /\ Building /\ ~rec.union
    /\ cur' = IF rec.ms THEN CloseUnit(cur) ELSE [cur EXCEPT !.bits = RoundUp(@, s * 8)]
    /\ placed' = Append(placed, Bits(cur'.bits, s, 0, Place(0, 0, 0), FALSE, FALSE))
    /\ UNCHANGED <<rec, align, size, mem, vals, stores>>

\* A member of a union: at its base, as wide as it is.
AddUnionMember == \E t \in Types, asked \in Aligns :
    LET a == AlignOf(t.align, asked)
    IN  /\ Building /\ rec.union
        /\ cur' = [cur EXCEPT !.bits = Larger(@, t.size * 8)]
        /\ Raise(a, TRUE)
        /\ placed' = Append(placed, Ordinary(0, t, a, FALSE))
        /\ UNCHANGED <<rec, size, mem, vals, stores>>

\* A bit-field of a union counts by its bits and is left without a place; the
\* access of a unit of none is set apart in a union smaller than it.
AddUnionBits == \E s \in BitTypes, w \in Widths, signed \in BOOLEAN :
    /\ Building /\ rec.union /\ w > 0 /\ w <= s * 8
    /\ cur.bits < (IF s = 8 THEN 64 ELSE 32) => UnionField
    /\ cur' = [cur EXCEPT !.bits = Larger(@, RoundUp(w, 8))]
    /\ Raise(AlignOf(s, 0), TRUE)
    /\ placed' = Append(placed, Bits(0, s, w, Place(0, 0, 0), TRUE, signed))
    /\ UNCHANGED <<rec, size, mem, vals, stores>>

\* End, and the size: a multiple of the alignment.  An object of the record
\* holds whatever its memory held, zeros or ones.
Complete ==
    /\ size = -1 /\ placed # <<>>
    /\ cur' = CloseUnit(cur)
    /\ align' = Larger(align, rec.align)
    /\ size' = RoundUp(cur'.bits, align' * 8) \div 8
    /\ \E full \in BOOLEAN :
          /\ mem' = IF full THEN 0 .. size' * 8 - 1 ELSE {}
          /\ vals' = [i \in {j \in DOMAIN placed : placed[j].bitField /\ placed[j].named} |->
                         IF full THEN 0 .. placed[i].width - 1 ELSE {}]
    /\ UNCHANGED <<rec, placed, stores>>

----------------------------------------------------------------------------
(* Loads and stores of bit-fields (lower/bitfield.go).                     *)

\* A mutant: the whole register is loaded and stored.
AccessRegister(unit, w) == w \div 8

\* The unit is loaded and stored by the access of its width; a width that is
\* none of the machine's takes the widest of the register.
AccessBytes(unit, w) ==
    IF unit \in {1, 2} \/ (unit = 4 /\ w = 64) THEN unit ELSE w \div 8

\* wideBitField: the declared type, or the field's position, needs sixty-four
\* bits.
WordBits(f) == IF f.bytes = 8 \/ f.place.bitOff + f.width > 32 THEN 64 ELSE 32

Access(f) == AccessBytes(f.place.unit, WordBits(f))

\* unitAt, loadUnit: the bits of the unit, from bit zero.
LoadUnit(f) ==
    {b - f.place.off * 8 :
        b \in {x \in mem : x >= f.place.off * 8 /\ x < (f.place.off + Access(f)) * 8}}

StoreUnit(f, word) ==
    {x \in mem : x < f.place.off * 8 \/ x >= (f.place.off + Access(f)) * 8}
    \cup {f.place.off * 8 + b : b \in {x \in word : x < Access(f) * 8}}

\* The shift up to the sign and down again: the field's bits, and copies of
\* the top one above them if the declared type is signed.
LoadBitField(f) ==
    LET word == LoadUnit(f)
        low == {b - f.place.bitOff :
                   b \in {x \in word : x >= f.place.bitOff /\ x < f.place.bitOff + f.width
                                       /\ x < WordBits(f)}}
    IN  IF f.signed /\ f.width - 1 \in low THEN low \cup (f.width .. 63) ELSE low

\* A mutant: the value is not cut to the field's width.
InsertWhole(f, word, v) ==
    LET field == f.place.bitOff .. (f.place.bitOff + f.width - 1)
        value == {b + f.place.bitOff : b \in v}
    IN  (word \ field) \cup {b \in value : b < WordBits(f)}

\* The bits of the mask, moved to the field; a shift past the word loses them.
Insert(f, word, v) ==
    LET field == f.place.bitOff .. (f.place.bitOff + f.width - 1)
        value == {b + f.place.bitOff : b \in v \cap (0 .. f.width - 1)}
    IN  (word \ field) \cup {b \in value : b < WordBits(f)}

StoreBitField(f, v) == StoreUnit(f, Insert(f, LoadUnit(f), v))

\* The values a program assigns, as a register holds them: none, all ones,
\* the field's highest bit with one above the field.
Stored(f) == {{}, 0 .. 63, {f.width - 1, f.width}}

Assign == \E i \in DOMAIN vals : \E v \in Stored(placed[i]) :
    /\ stores < MaxStores
    /\ stores' = stores + 1
    /\ mem' = StoreBitField(placed[i], v)
    /\ vals' = [vals EXCEPT ![i] = v \cap (0 .. placed[i].width - 1)]
    /\ UNCHANGED <<rec, cur, align, placed, size>>

----------------------------------------------------------------------------
(* The record as the module being emitted declares it (virLayout): a field  *)
(* for each ordinary member, and one for each run of bytes that holds bits. *)

\* The bytes the bits occupy, first and past the last.
BitBytes == {<<placed[i].first \div 8, (placed[i].first + placed[i].width + 7) \div 8>> :
                i \in {j \in DOMAIN placed : placed[j].bitField /\ placed[j].width > 0}}

\* A mutant: ranges are joined only if they share a byte.
MergeShared(out, next) ==
    IF out # <<>> /\ next[1] < out[Len(out)][2]
    THEN [out EXCEPT ![Len(out)] = <<@[1], Larger(@[2], next[2])>>]
    ELSE Append(out, next)

\* mergeRanges, one range: it is joined to the last one if they touch.
Merge(out, next) ==
    IF out # <<>> /\ next[1] <= out[Len(out)][2]
    THEN [out EXCEPT ![Len(out)] = <<@[1], Larger(@[2], next[2])>>]
    ELSE Append(out, next)

\* The sort by start: those that start together are left in either order.
Ordered ==
    CHOOSE s \in [1 .. Cardinality(BitBytes) -> BitBytes] :
        IsInjective(s) /\ \A i, j \in DOMAIN s : i < j => s[i][1] <= s[j][1]

BitRanges == FoldLeft(Merge, <<>>, Ordered)

MemberBytes == {<<placed[i].first \div 8, (placed[i].first + placed[i].width) \div 8>> :
                   i \in {j \in DOMAIN placed : ~placed[j].bitField /\ placed[j].width > 0}}

----------------------------------------------------------------------------

Init ==
    /\ rec \in [union : BOOLEAN, packed : BOOLEAN, pack : Packs,
                align : RecordAligns, ms : BOOLEAN]
    /\ cur = [bits |-> 0, start |-> 0, width |-> 0, opened |-> 0]
    /\ align = 1
    /\ placed = <<>>
    /\ size = -1
    /\ mem = {} /\ vals = <<>> /\ stores = 0

Next == \/ AddMember \/ AddFlexible \/ AddBits \/ ZeroWidth \/ AddUnionMember \/ AddUnionBits
        \/ Complete \/ Assign

Spec == Init /\ [][Next]_vars

----------------------------------------------------------------------------
(* Properties.                                                             *)

TypeOK ==
    /\ cur \in Cursor
    /\ align \in Nat \ {0}
    /\ size \in Nat \cup {-1}
    /\ \A i \in DOMAIN placed : placed[i].first \in Nat /\ placed[i].width \in Nat

Apart(f, g) == f.first + f.width <= g.first \/ g.first + g.width <= f.first

\* Every element of an array of the record aligns its members.
StridesAligned ==
    size # -1 =>
        \A i \in DOMAIN placed : ~placed[i].bitField /\ (~rec.packed \/ placed[i].align > 1) =>
            \A n \in 0 .. 2 : (n * size + placed[i].first \div 8) % placed[i].align = 0

\* No two members of a struct share a bit, under either rule and whatever the
\* packing, and a member starts where its own alignment allows - in every
\* element of an array of the record, so the size keeps the alignment too.
MembersApart ==
    /\ ~rec.union => \A i, j \in DOMAIN placed : i # j => Apart(placed[i], placed[j])
    /\ StridesAligned

\* The fields of the type that is emitted for a struct (virLayout): the runs
\* of bytes that hold bits are in order and apart, cover the bytes of every
\* bit-field whole, and share none with a member, although units overlap each
\* other and the members around.
RunsApart ==
    ~rec.union /\ size # -1 =>
        LET runs == BitRanges
        IN  /\ \A k, n \in DOMAIN runs : k < n => runs[k][2] < runs[n][1]
            /\ \A b \in BitBytes :
                  \E k \in DOMAIN runs : runs[k][1] <= b[1] /\ b[2] <= runs[k][2]
            /\ \A k \in DOMAIN runs, m \in MemberBytes :
                  runs[k][2] <= m[1] \/ m[2] <= runs[k][1]

\* An access to a bit-field stays inside the record: what lies after it is
\* another object, which a store would write back as it was a moment ago.
AccessInside ==
    size # -1 => \A i \in DOMAIN vals : placed[i].place.off + Access(placed[i]) <= size

\* Each bit-field reads as what was last stored in it, cut to its width and
\* extended by its sign, whatever was stored in its neighbours since.
Extended(f, v) == IF f.signed /\ f.width - 1 \in v THEN v \cup (f.width .. 63) ELSE v

ReadsBack ==
    ~rec.union => \A i \in DOMAIN vals : LoadBitField(placed[i]) = Extended(placed[i], vals[i])
=============================================================================
