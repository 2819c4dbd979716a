------------------------------ MODULE IfChains ------------------------------
(* What the conditional directives promise (the specification Conditionals
   implements).  An open #if ... #endif chain is in one of four modes:

     seek   no group of the chain has been chosen yet
     in     the group being read is the chosen one
     past   the chosen group has ended: the rest of the chain is skipped
     dead   the chain stands in a group that is itself skipped

   Text is kept exactly when every open chain is "in"; a chain is chosen at
   most once, never inside a skipped group, and #else closes it to more arms. *)
EXTENDS Naturals, Sequences

CONSTANT MaxNesting    \* how deep conditionals nest

VARIABLES chains,      \* the open chains, outermost first: [mode, closed]
          kept,        \* was the last text line kept?
          bad          \* has a directive been out of place?

vars == <<chains, kept, bad>>

Modes == {"seek", "in", "past", "dead"}
Chain == [mode : Modes, closed : BOOLEAN]

Keeping == \A k \in 1..Len(chains) : chains[k].mode = "in"

Init == chains = <<>> /\ kept = FALSE /\ bad = FALSE

Open(v) ==
    /\ Len(chains) < MaxNesting
    /\ chains' = Append(chains,
                    [mode   |-> IF ~Keeping THEN "dead" ELSE IF v THEN "in" ELSE "seek",
                     closed |-> FALSE])
    /\ UNCHANGED <<kept, bad>>

(* The mode of a chain when its next arm starts, chosen or not. *)
NextMode(m, v) == CASE m = "seek" -> IF v THEN "in" ELSE "seek"
                    [] m = "dead" -> "dead"
                    [] OTHER      -> "past"

CanStartArm == chains # <<>> /\ ~chains[Len(chains)].closed

Arm(v, last) ==
    /\ CanStartArm
    /\ chains' = [chains EXCEPT ![Len(chains)] =
                    [mode |-> NextMode(@.mode, v), closed |-> last]]
    /\ UNCHANGED <<kept, bad>>

Close ==
    /\ chains # <<>>
    /\ chains' = SubSeq(chains, 1, Len(chains) - 1)
    /\ UNCHANGED <<kept, bad>>

OutOfPlace == ~CanStartArm /\ bad' = TRUE /\ UNCHANGED <<chains, kept>>

Text == kept' = Keeping /\ UNCHANGED <<chains, bad>>

EndOfFile == bad' = (bad \/ chains # <<>>) /\ chains' = <<>> /\ UNCHANGED kept

Next == \/ \E v \in BOOLEAN : Open(v) \/ Arm(v, FALSE)
        \/ Arm(TRUE, TRUE)
        \/ Close \/ OutOfPlace \/ Text \/ EndOfFile

Spec == Init /\ [][Next]_vars
=============================================================================
