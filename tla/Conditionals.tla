---------------------------- MODULE Conditionals ----------------------------
(* One reader under an arbitrary stream of directives and text lines: the
   conditional machine of preprocessor/condition.go, one action per handler of
   directive.go's dispatch.  A condition's value is the environment's choice,
   because Eval depends on macros this module does not hold. *)
EXTENDS Reader

CONSTANT MaxNesting     \* bound: open conditionals

ASSUME MaxNestingAssumption == MaxNesting \in Nat

VARIABLES r,            \* the reader
          kept,         \* did the last text line reach the expander?
          errors        \* has a handler reported an error?

vars == <<r, kept, errors>>

Init == r = NewReader /\ kept = FALSE /\ errors = FALSE

(* #if, #ifdef and #ifndef *)
If(v, g) ==
    /\ Len(r.conds) < MaxNesting
    /\ r' = BeginIf(r, v, g)
    /\ UNCHANGED <<kept, errors>>

Elif(v) ==
    /\ r' = DoElif(r, v)
    /\ errors' = (errors \/ Misplaced(r))
    /\ UNCHANGED kept

Else ==
    /\ r' = DoElse(r)
    /\ errors' = (errors \/ Misplaced(r))
    /\ UNCHANGED kept

Endif ==
    /\ r' = DoEndif(r)
    /\ errors' = (errors \/ Stray(r))
    /\ UNCHANGED kept

(* run(): a text line is expanded when live and skipped otherwise. *)
TextLine ==
    /\ r' = IF Live(r) THEN TakeText(r) ELSE r
    /\ kept' = Live(r)
    /\ UNCHANGED errors

(* A directive that opens or closes no conditional: ignored in a skipped group. *)
OtherDirective ==
    /\ r' = IF Live(r) THEN CloseWindow(r) ELSE r
    /\ UNCHANGED <<kept, errors>>

(* finishConds, and the next file's reader *)
EndOfFile ==
    /\ errors' = (errors \/ r.conds # <<>>)
    /\ r' = NewReader
    /\ UNCHANGED kept

Next == \/ \E v \in BOOLEAN : Elif(v) \/ \E g \in GuardNames : If(v, g)
        \/ Else \/ Endif \/ TextLine \/ OtherDirective \/ EndOfFile

Spec == Init /\ [][Next]_vars

-----------------------------------------------------------------------------
(* The reader stays a reader. *)
TypeOK == r \in ReaderStates /\ kept \in BOOLEAN /\ errors \in BOOLEAN

(* A group that is being processed has been counted as taken, and lies in
   groups that are all being processed: a conditional opened in a skipped group
   never comes alive, whatever #elif and #else follow it.  live() may therefore
   be read off the innermost frame. *)
LiveNests ==
    \A k \in 1..Len(r.conds) :
        r.conds[k].active => /\ r.conds[k].taken
                             /\ \A j \in 1..k : r.conds[j].active

(* At most one group of a chain is ever processed: a frame whose chain has
   taken a group is not switched on again, by #elif or by #else. *)
NoSecondGroup ==
    \A k \in 1..Len(r.conds) :
        (k <= Len(r'.conds) /\ r.conds[k].taken /\ r'.conds[k].active)
            => r.conds[k].active

OneGroupPerChain == [][NoSecondGroup]_vars

-----------------------------------------------------------------------------
(* The refinement: a frame's mode is read from its flags and its parents'. *)
ModeOf(k) ==
    IF \E j \in 1..(k - 1) : ~r.conds[j].active THEN "dead"
    ELSE IF r.conds[k].active THEN "in"
    ELSE IF r.conds[k].taken THEN "past" ELSE "seek"

ChainsOf == [k \in 1..Len(r.conds) |->
                [mode |-> ModeOf(k), closed |-> r.conds[k].sawElse]]

Abstract == INSTANCE IfChains WITH chains <- ChainsOf, bad <- errors

(* The two flags of a frame and the questions asked of the frames around it
   implement the four-mode chains of IfChains: text is kept, groups are chosen
   and misplaced directives are reported exactly as that specification says. *)
ImplementsIfChains == Abstract!Spec
=============================================================================
