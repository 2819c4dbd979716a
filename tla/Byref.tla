------------------------------- MODULE Byref -------------------------------
(***************************************************************************)
(* A __block variable x, the blocks that capture it and the structure they *)
(* share (lower/byref.go, lower/block.go, the assignments of               *)
(* lower/expr.go).                                                         *)
(*                                                                         *)
(* x lives in a structure in the frame of the function that declares it.   *)
(* Every access goes through the structure's forwarding field; the first   *)
(* copy of a block that captured x moves the structure to the heap and     *)
(* sets the field.  The function runs a body of any length: it opens the   *)
(* scope of x, assigns x and the strong locals held (a block) and owner    *)
(* (an object), calls blocks, closes the scope and starts again, as a loop *)
(* does.  An assignment is two steps, the address of its left side and the *)
(* store, with any steps in between for its right side; the body of a      *)
(* block runs on a frame of its own.                                       *)
(*                                                                         *)
(* _Block_copy, _Block_object_assign, _Block_object_dispose, objc_retain   *)
(* and objc_release are the runtime's: external, modelled as the lowering  *)
(* relies on them.  What a release sets free is released in its turn, one  *)
(* step each, from the list due.                                           *)
(***************************************************************************)
EXTENDS Integers, Sequences, FiniteSets, TLC

CONSTANTS
    Kinds,      \* what x may be: "int", "strong", "block" or "weak"
    Ints,       \* the values of an x of kind "int"
    Objects,    \* the objects alive at one time
    Blocks,     \* the blocks on the heap at one time
    Structs,    \* the structures on the heap at one time
    Nil,        \* the null pointer
    Unset,      \* the value of an assignment whose right side is still running
    Stack,      \* the address of the structure in the declaring frame
    MaxFrames,  \* bound: assignments and block bodies under way at one time
    Shapes      \* the forms set apart: see Allowed

ASSUME ByrefAssumption ==
    /\ Kinds \subseteq {"int", "strong", "block", "weak"}
    /\ Nil \notin Objects \cup Blocks \cup Structs \cup Ints \cup {Stack, Unset}
    /\ Unset \notin Objects \cup Blocks \cup Structs \cup Ints \cup {Stack}
    /\ Stack \notin Structs
    /\ Objects \cap Blocks = {} /\ Ints \cap (Objects \cup Blocks) = {}
    /\ IsFiniteSet(Objects) /\ IsFiniteSet(Blocks) /\ IsFiniteSet(Structs)
    /\ Ints # {} /\ MaxFrames \in Nat

VARIABLES
    kind,    \* the kind of x, chosen once
    frame,   \* the structure in the frame: open, era, fwd, payload
    heap,    \* the structures on the heap: refs, era, payload
    blocks,  \* the blocks on the heap: refs, field (the structure captured)
    objects, \* the reference counts of the objects alive
    weaks,   \* the structures whose payload is registered as a weak reference
    held,    \* the strong local that holds a block
    owner,   \* the strong local that holds an object
    ctl,     \* what is under way: assignments and block bodies, innermost last
    due,     \* the releases the runtime has yet to carry out
    last     \* era -> the value the program last gave that x (for the properties)

vars == <<kind, frame, heap, blocks, objects, weaks, held, owner, ctl, due, last>>

Eras == 0 .. Cardinality(Structs)

\* The program's own idea of "which x" an address belongs to.
EraOf(a) == IF a = Stack THEN frame.era ELSE heap[a].era

----------------------------------------------------------------------------
(* Addresses.                                                              *)

\* byrefAddr: through the forwarding field, every time.  A structure on the
\* heap forwards to itself.
Fwd(slot) == IF slot = Stack THEN frame.fwd ELSE slot

Payload(a) == IF a = Stack THEN frame.payload ELSE heap[a].payload

\* The structure the code being run reaches x by: the frame's own, or the one
\* the running block's field held when its body was entered.  An assignment
\* runs in the code that began it.
Slot == IF ctl = <<>> THEN Stack ELSE ctl[Len(ctl)].slot

InFunction == \A i \in DOMAIN ctl : ctl[i].type # "body"

Sees == InFunction => frame.open

\* Nothing to release, and no value on its way to its store.
Ready == /\ due = <<>>
         /\ ctl # <<>> => ctl[Len(ctl)].val = Unset

\* The structures that an access may still go through.
Accessors == (IF frame.open THEN {Stack} ELSE {})
             \cup {ctl[i].slot : i \in {j \in DOMAIN ctl : ctl[j].type = "body"}}
             \cup {blocks[b].field : b \in DOMAIN blocks}

\* byrefLayout: the variable is one the runtime hands over, not just copies.
Helpers == kind # "int"

\* isStrong: the structure owns what it holds.
Owns == kind \in {"strong", "block"}

Zero == IF Helpers THEN {Nil} ELSE Ints

----------------------------------------------------------------------------
(* Releases.                                                               *)

Debt(what, id) == IF id = Nil THEN <<>> ELSE <<[what |-> what, id |-> id]>>

\* What a location of x's type lets go of when it is replaced or ends.
DebtOf(v) == IF ~Owns THEN <<>>
             ELSE Debt(IF kind = "block" THEN "block" ELSE "object", v)

\* byrefStrongDisposeHelper: the heap structure dies with what it owns.  The
\* other dispose helper names the value to the runtime, which does nothing.
Destroy(s) == DebtOf(heap[s].payload)

\* _Block_object_dispose of a structure: through forwarding, and nothing for
\* one that never left the stack.
DisposeByref(slot) == IF Fwd(slot) = Stack THEN <<>> ELSE Debt("struct", Fwd(slot))

\* blockDisposeHelper: one _Block_object_dispose per capture, x alone here.
DisposeBlock(b) == DisposeByref(blocks[b].field)

Without(f, x) == [y \in DOMAIN f \ {x} |-> f[y]]
With(f, x, v) == [y \in DOMAIN f \cup {x} |-> IF y = x THEN v ELSE f[y]]

\* The object's last reference goes: weak references registered become nil.
\* Nothing takes a structure off the list when it ends.
FreeObject(o) ==
    LET zeroed == {w \in weaks \cap (DOMAIN heap \cup {Stack}) : Payload(w) = o}
    IN  /\ objects' = Without(objects, o)
        /\ frame' = [frame EXCEPT !.payload = IF Stack \in zeroed THEN Nil ELSE @]
        /\ heap' = [h \in DOMAIN heap |->
                       [heap[h] EXCEPT !.payload = IF h \in zeroed THEN Nil ELSE @]]
        /\ last' = [e \in Eras |-> IF kind = "weak" /\ last[e] = o THEN Nil ELSE last[e]]

\* callBlock does not retain the block it calls (nor does the language ask it
\* to): a program whose block lets go of itself while it runs is set apart,
\* and its run is cut there.
MayDie(b) == \/ "block dies running" \in Shapes
             \/ \A i \in DOMAIN ctl : ctl[i].block # b

\* One release of the runtime's list.
Drop ==
    /\ due # <<>>
    /\ LET d == Head(due)  rest == Tail(due)
       IN  \/ /\ d.what = "object"
              /\ due' = rest
              /\ \/ /\ objects[d.id] > 1
                    /\ objects' = [objects EXCEPT ![d.id] = @ - 1]
                    /\ UNCHANGED <<frame, heap, last>>
                 \/ objects[d.id] = 1 /\ FreeObject(d.id)
              /\ UNCHANGED blocks
           \/ /\ d.what = "block"
              /\ \/ /\ blocks[d.id].refs > 1
                    /\ blocks' = [blocks EXCEPT ![d.id].refs = @ - 1]
                    /\ due' = rest
                 \/ /\ blocks[d.id].refs = 1 /\ MayDie(d.id)
                    /\ blocks' = Without(blocks, d.id)
                    /\ due' = DisposeBlock(d.id) \o rest
              /\ UNCHANGED <<frame, heap, objects, last>>
           \/ /\ d.what = "struct"
              /\ \/ /\ heap[d.id].refs > 1
                    /\ heap' = [heap EXCEPT ![d.id].refs = @ - 1]
                    /\ due' = rest
                 \/ /\ heap[d.id].refs = 1
                    /\ heap' = Without(heap, d.id)
                    /\ due' = Destroy(d.id) \o rest
              /\ UNCHANGED <<frame, blocks, objects, last>>
    /\ UNCHANGED <<kind, weaks, held, owner, ctl>>

----------------------------------------------------------------------------
(* Copying a block.                                                        *)

\* The keep helper, which moves x to the heap structure: under ARC an owned
\* payload leaves nil behind, for the scope's end to release; anything else is
\* copied as it stands.
LeftBehind == IF Owns THEN Nil ELSE frame.payload

\* A mutant: a later block takes no reference of its own.
AssignUncounted(slot, s) ==
    \/ /\ Fwd(slot) = Stack
       /\ s \notin DOMAIN heap
       /\ heap' = With(heap, s, [refs |-> 2, era |-> frame.era, payload |-> frame.payload])
       /\ frame' = [frame EXCEPT !.fwd = s, !.payload = LeftBehind]
    \/ Fwd(slot) = s /\ s # Stack /\ UNCHANGED <<heap, frame>>

\* _Block_object_assign of a structure: the first time it moves to the heap,
\* with one reference for the block and one for the frame; later it is one
\* more reference.
Assign(slot, s) ==
    \/ /\ Fwd(slot) = Stack
       /\ s \notin DOMAIN heap
       /\ heap' = With(heap, s, [refs |-> 2, era |-> frame.era, payload |-> frame.payload])
       /\ frame' = [frame EXCEPT !.fwd = s, !.payload = LeftBehind]
    \/ /\ Fwd(slot) = s /\ s # Stack
       /\ heap' = [heap EXCEPT ![s].refs = @ + 1]
       /\ UNCHANGED frame

\* The shapes set apart: a structure that moves during the right side of a
\* compound assignment, or the initializer of a variable that is no object.
MayMove == \A i \in DOMAIN ctl :
              /\ ctl[i].op = "compound" => "compound moves" \in Shapes
              /\ ctl[i].op = "init" /\ ~Owns => "initializer moves" \in Shapes

\* stackBlock, then objc_retainBlock: the literal holds the address of the
\* structure it was made with, and blockCopyHelper hands that to the runtime.
CopyLiteral(b) ==
    /\ b \notin DOMAIN blocks
    /\ Fwd(Slot) = Stack => MayMove
    /\ \E s \in Structs :
          /\ Assign(Slot, s)
          /\ blocks' = With(blocks, b, [refs |-> 1, field |-> s])

----------------------------------------------------------------------------
(* The scope of x.                                                         *)

Top == ctl[Len(ctl)]
Pop == SubSeq(ctl, 1, Len(ctl) - 1)
Push(f) == /\ Len(ctl) < MaxFrames
           /\ ctl' = Append(ctl, f)

Store(dst, op, addr) ==
    [type |-> "store", dst |-> dst, op |-> op, addr |-> addr, slot |-> Slot,
     block |-> Nil, val |-> Unset]
Body(b, slot) ==
    [type |-> "body", dst |-> "none", op |-> "call", addr |-> Nil, slot |-> slot,
     block |-> b, val |-> Unset]

Fresh == CHOOSE e \in Eras : \A h \in DOMAIN heap : heap[h].era # e

\* declareByref: the structure forwards to itself; a payload with helpers is
\* nil, any other holds whatever the stack held.
Declare ==
    /\ Ready /\ ctl = <<>> /\ ~frame.open
    /\ \E v \in Zero :
          /\ frame' = [open |-> TRUE, era |-> Fresh, fwd |-> Stack, payload |-> v]
          /\ last' = [last EXCEPT ![Fresh] = v]
    /\ UNCHANGED <<kind, heap, blocks, objects, weaks, held, owner, due>>

DeclareOnly == Declare /\ UNCHANGED ctl

\* ... with an initializer, which is evaluated next.
DeclareInit == Declare /\ Push(Store("x", "init", Stack))

\* A mutant: the scope's end forgets the heap structure.
EndPayload == DebtOf(frame.payload)

\* endByref: the payload of the structure in the frame, which is nil once it
\* has moved, and the frame's reference to the one on the heap.
EndByref == DebtOf(frame.payload) \o DisposeByref(Stack)

EndScope ==
    /\ Ready /\ ctl = <<>> /\ frame.open
    /\ due' = EndByref
    /\ frame' = [frame EXCEPT !.open = FALSE, !.fwd = Stack, !.payload = Nil]
    /\ UNCHANGED <<kind, heap, blocks, objects, weaks, held, owner, ctl, last>>

----------------------------------------------------------------------------
(* Assignments: the left side, the right side, the store.                  *)

Unmoved == UNCHANGED <<kind, frame, heap, blocks, objects, weaks, held, owner, due, last>>

\* An assignment to x inside the initializer of an x that owns is set apart.
BeginAssign ==
    /\ Ready /\ Sees
    /\ \/ "assigned by its initializer" \in Shapes
       \/ ~Owns
       \/ \A i \in DOMAIN ctl : ctl[i].op # "init"
    /\ Push(Store("x", "assign", Fwd(Slot)))
    /\ Unmoved

BeginCompound ==
    /\ Ready /\ Sees /\ kind = "int"
    /\ Push(Store("x", "compound", Fwd(Slot)))
    /\ Unmoved

BeginHeld ==
    /\ Ready /\ InFunction
    /\ Push(Store("held", "assign", Nil))
    /\ Unmoved

Waiting(dst) == Ready /\ ctl # <<>> /\ Top.type = "store" /\ Top.dst = dst

Evaluated(v) == ctl' = [ctl EXCEPT ![Len(ctl)].val = v]

\* The right side has run: its value, with a reference of its own where the
\* location owns what it holds (rvalueOwned, retain).
ValueCopied ==
    /\ \/ Waiting("held") /\ Sees
       \/ Waiting("x") /\ kind = "block"
    /\ \E b \in Blocks : CopyLiteral(b) /\ Evaluated(b)
    /\ UNCHANGED <<kind, objects, weaks, held, owner, due, last>>

ValueNil ==
    /\ \/ Waiting("held")
       \/ Waiting("x") /\ Helpers
    /\ Evaluated(Nil)
    /\ Unmoved

ValueInt ==
    /\ Waiting("x") /\ kind = "int"
    /\ \E v \in Ints : Evaluated(v)
    /\ Unmoved

\* x = held, a block on the heap already.
ValueHeld ==
    /\ Waiting("x") /\ kind = "block" /\ held # Nil
    /\ blocks' = [blocks EXCEPT ![held].refs = @ + 1]
    /\ Evaluated(held)
    /\ UNCHANGED <<kind, frame, heap, objects, weaks, held, owner, due, last>>

\* x = owner: retained by an x that owns, registered by a weak one.
ValueOwner ==
    /\ Waiting("x") /\ kind \in {"strong", "weak"} /\ owner # Nil
    /\ objects' = IF Owns THEN [objects EXCEPT ![owner] = @ + 1] ELSE objects
    /\ Evaluated(owner)
    /\ UNCHANGED <<kind, frame, heap, blocks, weaks, held, owner, due, last>>

\* x = [Object new], owned.
ValueNew ==
    /\ Waiting("x") /\ kind = "strong"
    /\ \E o \in Objects \ DOMAIN objects :
          /\ objects' = With(objects, o, 1)
          /\ Evaluated(o)
    /\ UNCHANGED <<kind, frame, heap, blocks, weaks, held, owner, due, last>>

\* A mutant: the address read before the right side.
RefreshNot(addr, slot) == addr

\* refreshByref: the address of the identifier x, once more, after the right
\* side may have moved it.
Refresh(addr, slot) == Fwd(slot)

\* initByref: the address of an owned x is read after the value, that of any
\* other before it.
InitTarget(addr) == IF Owns THEN Fwd(Stack) ELSE addr

\* Where the store goes.  A compound assignment keeps the address it read.
Target(f) ==
    CASE f.op = "assign"   -> Refresh(f.addr, Slot)
      [] f.op = "compound" -> f.addr
      [] f.op = "init"     -> InitTarget(f.addr)

\* replaceStrong releases the value it replaced, after the store; the store
\* of an initializer replaces nothing.
Replaced(f, at) == IF f.op = "init" THEN <<>> ELSE DebtOf(Payload(at))

Arrived(dst) == due = <<>> /\ ctl # <<>> /\ Top.dst = dst /\ Top.val # Unset

StoreX ==
    /\ Arrived("x")
    /\ LET at == Target(Top)
       IN  /\ \/ /\ at = Stack
                 /\ frame' = [frame EXCEPT !.payload = Top.val]
                 /\ UNCHANGED heap
              \/ /\ at # Stack
                 /\ heap' = [heap EXCEPT ![at].payload = Top.val]
                 /\ UNCHANGED frame
           /\ due' = Replaced(Top, at)
           /\ weaks' = IF kind = "weak" THEN weaks \cup {at} ELSE weaks
    /\ last' = [last EXCEPT ![EraOf(Slot)] = Top.val]
    /\ ctl' = Pop
    /\ UNCHANGED <<kind, blocks, objects, held, owner>>

StoreHeld ==
    /\ Arrived("held")
    /\ held' = Top.val
    /\ due' = Debt("block", held)
    /\ ctl' = Pop
    /\ UNCHANGED <<kind, frame, heap, blocks, objects, weaks, owner, last>>

\* owner = [Object new], or nil.
StoreOwner ==
    /\ Ready /\ InFunction /\ kind \in {"strong", "weak"}
    /\ \E o \in (Objects \ DOMAIN objects) \cup {Nil} :
          /\ o # owner
          /\ owner' = o
          /\ objects' = IF o = Nil THEN objects ELSE With(objects, o, 1)
    /\ due' = Debt("object", owner)
    /\ UNCHANGED <<kind, frame, heap, blocks, weaks, held, ctl, last>>

----------------------------------------------------------------------------
(* Calls.                                                                  *)

\* callBlock runs the body of a block; blockInvoke reads the structure's
\* address out of the block once, on entry.
Invoke(b, slot) == Push(Body(b, slot))

CallHeld == /\ Ready /\ InFunction /\ held # Nil
            /\ Invoke(held, blocks[held].field)
            /\ Unmoved

\* x(), from the function or from a block that captured x.
CallX == /\ Ready /\ Sees /\ kind = "block" /\ Payload(Fwd(Slot)) # Nil
         /\ LET b == Payload(Fwd(Slot)) IN Invoke(b, blocks[b].field)
         /\ Unmoved

\* ^{ ... }(), or a literal lent to a function that calls it: the literal is
\* in the frame and holds the address the code around it reaches x by.
CallLiteral == Ready /\ Sees /\ Invoke(Nil, Slot) /\ Unmoved

Return == /\ Ready /\ ctl # <<>> /\ Top.type = "body"
          /\ ctl' = Pop
          /\ Unmoved

----------------------------------------------------------------------------

Init ==
    /\ kind \in Kinds
    /\ frame = [open |-> FALSE, era |-> 0, fwd |-> Stack, payload |-> Nil]
    /\ heap = <<>> /\ blocks = <<>> /\ objects = <<>>
    /\ weaks = {}
    /\ held = Nil /\ owner = Nil
    /\ ctl = <<>> /\ due = <<>>
    /\ last = [e \in Eras |-> Nil]

Next ==
    \/ Drop
    \/ DeclareOnly \/ DeclareInit \/ EndScope
    \/ BeginAssign \/ BeginCompound \/ BeginHeld
    \/ ValueCopied \/ ValueNil \/ ValueInt \/ ValueHeld \/ ValueOwner \/ ValueNew
    \/ StoreX \/ StoreHeld \/ StoreOwner
    \/ CallHeld \/ CallX \/ CallLiteral \/ Return

Spec == Init /\ [][Next]_vars

----------------------------------------------------------------------------
(* Properties.                                                             *)

Values == Ints \cup Objects \cup Blocks \cup {Nil}

TypeOK ==
    /\ kind \in Kinds
    /\ frame \in [open : BOOLEAN, era : Eras, fwd : Structs \cup {Stack}, payload : Values]
    /\ DOMAIN heap \subseteq Structs
    /\ \A h \in DOMAIN heap : heap[h] \in [refs : Nat \ {0}, era : Eras, payload : Values]
    /\ DOMAIN blocks \subseteq Blocks
    /\ \A b \in DOMAIN blocks : blocks[b] \in [refs : Nat \ {0}, field : Structs]
    /\ DOMAIN objects \subseteq Objects
    /\ \A o \in DOMAIN objects : objects[o] \in Nat \ {0}
    /\ held \in Blocks \cup {Nil} /\ owner \in Objects \cup {Nil}
    /\ Len(ctl) <= MaxFrames
    /\ last \in [Eras -> Values]

\* Everything that reaches x reaches a structure that is still there: the
\* frame while its scope is open, every body being run and every block alive,
\* and what they find in a variable that owns its value is alive.
NoDangling ==
    /\ \A a \in Accessors : IF a = Stack THEN frame.open ELSE a \in DOMAIN heap
    /\ frame.fwd # Stack => frame.fwd \in DOMAIN heap
    /\ kind = "block" => \A a \in Accessors : Payload(Fwd(a)) \in DOMAIN blocks \cup {Nil}
    /\ kind = "strong" => \A a \in Accessors : Payload(Fwd(a)) \in DOMAIN objects \cup {Nil}
    /\ held \in DOMAIN blocks \cup {Nil}

\* One variable: whatever reads x - the function, a block body whichever way
\* it was entered, a block not yet called - reads the value last stored in
\* that x, wherever the structure has moved since and whoever stored it.
OneVariable ==
    \A a \in Accessors : Payload(Fwd(a)) = last[EraOf(a)]

\* The holders of a reference, those on their way to a store or a release
\* among them.
Count(S) == Cardinality(S)
Owed(what, id) == Count({i \in DOMAIN due : due[i] = [what |-> what, id |-> id]})
InHand(v) == Count({i \in DOMAIN ctl : ctl[i].val = v})
PayloadsOf(v) ==
    Count({h \in DOMAIN heap : heap[h].payload = v})
    + (IF frame.open /\ frame.payload = v THEN 1 ELSE 0)

\* A structure on the heap has one reference for each block that captured it
\* and one for the frame, until the scope's end gives that one back.
StructHolders(s) == Count({b \in DOMAIN blocks : blocks[b].field = s})
                    + (IF frame.open /\ frame.fwd = s THEN 1 ELSE 0)
                    + Owed("struct", s)

StructsCounted == \A h \in DOMAIN heap : heap[h].refs = StructHolders(h)

\* What an owning x holds is counted once however often the structure moved,
\* and let go exactly once.
BlockHolders(b) == (IF held = b THEN 1 ELSE 0) + InHand(b)
                   + (IF kind = "block" THEN PayloadsOf(b) ELSE 0) + Owed("block", b)

ObjectHolders(o) == (IF owner = o THEN 1 ELSE 0)
                    + (IF kind = "strong" THEN InHand(o) + PayloadsOf(o) ELSE 0)
                    + Owed("object", o)

ValuesCounted ==
    /\ \A b \in DOMAIN blocks : blocks[b].refs = BlockHolders(b)
    /\ \A o \in DOMAIN objects : objects[o] = ObjectHolders(o)

\* Every reference counted - of the structures x has moved to, of the blocks
\* and of what x owns - has one place that will let go of it.
HoldersCounted == StructsCounted /\ ValuesCounted

----------------------------------------------------------------------------
(* Objects, blocks and structures are interchangeable.                     *)

Symmetry == Permutations(Objects) \cup Permutations(Blocks) \cup Permutations(Structs)
=============================================================================
