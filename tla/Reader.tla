------------------------------- MODULE Reader -------------------------------
(* The reader of one file in the preprocessor (preprocessor/preprocessor.go,
   condition.go and the conditional handlers of directive.go): the stack of
   open conditionals, and the window in which an include guard is recognised.
   The module has no variables.  Each operator is what one handler makes of a
   reader; Conditionals drives one reader with arbitrary directives, Includes
   drives a stack of them with the lines of real files. *)
EXTENDS Naturals, Sequences

CONSTANTS Macros,      \* the macro names a guard may be built on
          NoGuard      \* the empty guard name

ASSUME NoGuardAssumption == NoGuard \notin Macros

GuardNames == Macros \cup {NoGuard}

(* One frame of the #if stack. *)
Cond == [taken : BOOLEAN, active : BOOLEAN, sawElse : BOOLEAN, guard : GuardNames]

ReaderStates == [conds : Seq(Cond), miValid : BOOLEAN, sawToken : BOOLEAN,
                 pendingGuard : GuardNames]

NewReader == [conds |-> <<>>, miValid |-> TRUE, sawToken |-> FALSE,
              pendingGuard |-> NoGuard]

-----------------------------------------------------------------------------
(* Tokens are kept while every enclosing conditional is active. *)
Live(r) == \A k \in 1..Len(r.conds) : r.conds[k].active

(* Some conditional around the innermost one is inactive. *)
ParentSkipping(r) == \E k \in 1..(Len(r.conds) - 1) : ~r.conds[k].active

TopCond(r) == r.conds[Len(r.conds)]

SetTop(r, c) == [r EXCEPT !.conds = [r.conds EXCEPT ![Len(r.conds)] = c]]

(* Every directive but an opening conditional and the null directive ends the
   window in which a guard may begin or stay valid. *)
CloseWindow(r) == [r EXCEPT !.miValid = FALSE]

-----------------------------------------------------------------------------
(* Where a guard may begin: nothing before it, and no conditional open. *)
GuardWindow(r) == r.miValid /\ ~r.sawToken /\ r.conds = <<>>

(* #if, #ifdef, #ifndef: in a skipped group the condition is not evaluated and
   the frame is dead; otherwise v is its value, and g the macro the line names
   as a guard (NoGuard for a line that is no guard). *)
BeginIf(r, v, g) ==
    LET on == Live(r) /\ v
    IN  [r EXCEPT !.conds = Append(@, [taken   |-> on,
                                       active  |-> on,
                                       sawElse |-> FALSE,
                                       guard   |-> IF GuardWindow(r) THEN g ELSE NoGuard])]

Stray(r) == r.conds = <<>>              \* no conditional is open

MisplacedStray(r) == Stray(r)           \* mutant: an arm after #else goes unreported

Misplaced(r) == Stray(r) \/ TopCond(r).sawElse    \* no arm may start here

(* Mutants of DoElif: it asks its own frame's flag too, after clearing it; it
   forgets that an earlier arm was taken. *)
DoElifOwnFlag(r, v) ==
    IF Misplaced(r) THEN CloseWindow(r)
    ELSE CloseWindow(SetTop(r, [TopCond(r) EXCEPT !.active = FALSE]))

DoElifUntaken(r, v) ==
    LET on == ~ParentSkipping(r) /\ v
    IN  IF Misplaced(r)
        THEN CloseWindow(r)
        ELSE CloseWindow(SetTop(r, [TopCond(r) EXCEPT !.active = on, !.taken = @ \/ on]))

(* #elif: the arm is taken when no earlier one was, the enclosing groups are
   live and its condition v holds.  v is used only then: nothing else evaluates
   the condition. *)
DoElif(r, v) ==
    LET c  == TopCond(r)
        on == ~c.taken /\ ~ParentSkipping(r) /\ v
    IN  IF Misplaced(r)
        THEN CloseWindow(r)
        ELSE CloseWindow(SetTop(r, [c EXCEPT !.active = on, !.taken = @ \/ on]))

(* Mutants of DoElse: it does not ask the enclosing conditionals; it leaves the
   frame its guard. *)
DoElseAlone(r) ==
    IF Misplaced(r) THEN CloseWindow(r)
    ELSE LET on == ~TopCond(r).taken
         IN  CloseWindow(SetTop(r, [TopCond(r) EXCEPT !.active = on, !.taken = @ \/ on,
                                          !.sawElse = TRUE, !.guard = NoGuard]))

DoElseGuarded(r) ==
    IF Misplaced(r) THEN CloseWindow(r)
    ELSE LET on == ~TopCond(r).taken /\ ~ParentSkipping(r)
         IN  CloseWindow(SetTop(r, [TopCond(r) EXCEPT !.active = on, !.taken = @ \/ on,
                                          !.sawElse = TRUE]))

(* #else: takes what no arm took; in every case with a frame the guard of that
   frame is forgotten. *)
DoElse(r) ==
    LET c  == TopCond(r)
        on == ~c.taken /\ ~ParentSkipping(r)
    IN  CloseWindow(
            IF Stray(r) THEN r
            ELSE IF c.sawElse THEN SetTop(r, [c EXCEPT !.guard = NoGuard])
            ELSE SetTop(r, [c EXCEPT !.active = on, !.taken = @ \/ on,
                                     !.sawElse = TRUE, !.guard = NoGuard]))

(* #endif: pops; closing the outermost frame of a guard candidate re-arms the
   window, so that only trailing whitespace keeps the guard. *)
DoEndif(r) ==
    LET c      == TopCond(r)
        popped == [CloseWindow(r) EXCEPT !.conds = SubSeq(@, 1, Len(@) - 1)]
    IN  IF Stray(r) THEN CloseWindow(r)
        ELSE IF popped.conds # <<>> THEN popped
        ELSE [popped EXCEPT !.pendingGuard = c.guard, !.miValid = c.guard # NoGuard]

(* A text line of a live group. *)
TakeText(r) == [r EXCEPT !.sawToken = TRUE, !.miValid = FALSE]

(* What the end of the file records as the file's guard. *)
GuardFound(r) == IF r.miValid THEN r.pendingGuard ELSE NoGuard
=============================================================================
