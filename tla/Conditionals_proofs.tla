------------------------ MODULE Conditionals_proofs ------------------------
(* Proofs about Conditionals, for every set of macros and every nesting bound:
   its typing, that live groups nest, that a chain has one live group, and that
   it implements IfChains. *)
EXTENDS Conditionals, Reader_proofs

(* The inductive invariant. *)
IInv == Good(r) /\ kept \in BOOLEAN /\ errors \in BOOLEAN

(* Every handler keeps the invariant. *)
LEMMA IInvStep == IInv /\ [Next]_vars => IInv'
<1> SUFFICES ASSUME IInv, [Next]_vars
             PROVE  IInv'
  OBVIOUS
<1> USE DEF IInv
<1>1. ASSUME NEW v \in BOOLEAN, NEW g \in GuardNames, If(v, g)
      PROVE  IInv'
  BY <1>1, BeginIfGood DEF If
<1>2. ASSUME NEW v \in BOOLEAN, Elif(v)
      PROVE  IInv'
  BY <1>2, DoElifGood DEF Elif, Misplaced, Stray
<1>3. CASE Else
  BY <1>3, DoElseGood DEF Else, Misplaced, Stray
<1>4. CASE Endif
  BY <1>4, DoEndifGood DEF Endif, Stray
<1>5. CASE TextLine
  BY <1>5, TakeTextGood DEF TextLine, Live
<1>6. CASE OtherDirective
  BY <1>6, CloseWindowGood DEF OtherDirective
<1>7. CASE EndOfFile
  BY <1>7, NewReaderGood DEF EndOfFile
<1>8. CASE UNCHANGED vars
  BY <1>8 DEF vars
<1> QED BY <1>1, <1>2, <1>3, <1>4, <1>5, <1>6, <1>7, <1>8 DEF Next

(* The inductive invariant holds of every execution. *)
LEMMA Invariant == Spec => []IInv
<1>1. Init => IInv
  BY NewReaderGood DEF Init, IInv
<1> QED BY <1>1, IInvStep, PTL DEF Spec

(* The reader keeps its type. *)
THEOREM Typing == Spec => []TypeOK
<1>1. IInv => TypeOK
  BY DEF IInv, TypeOK, Good
<1> QED BY <1>1, Invariant, PTL

(* A processed group was counted as taken and lies in processed groups, in every
   reachable state and for every nesting: live() is the innermost frame's flag. *)
THEOREM LiveGroupsNest == Spec => []LiveNests
<1>1. IInv => LiveNests
  BY DEF IInv, LiveNests, Good, Nests
<1> QED BY <1>1, Invariant, PTL

(* No step of any handler switches a chain on a second time. *)
THEOREM OneGroup == Spec => OneGroupPerChain
<1>1. IInv /\ [Next]_vars => [NoSecondGroup]_vars
  <2> SUFFICES ASSUME IInv, Next
               PROVE  NoSecondGroup
    OBVIOUS
  <2> USE DEF IInv, Good, ReaderStates
  <2>1. ASSUME NEW v \in BOOLEAN, NEW g \in GuardNames, If(v, g)
        PROVE  NoSecondGroup
    BY <2>1 DEF If, BeginIf, NoSecondGroup
  <2>2. ASSUME NEW v \in BOOLEAN, Elif(v)
        PROVE  NoSecondGroup
    <3> DEFINE c == TopCond(r)
               on == ~c.taken /\ ~ParentSkipping(r) /\ v
               d == [c EXCEPT !.active = on, !.taken = @ \/ on]
    <3>1. CASE Misplaced(r)
      BY <2>2, <3>1 DEF Elif, DoElif, CloseWindow, NoSecondGroup
    <3>2. CASE ~Misplaced(r)
      <4>1. r.conds # <<>> /\ c \in Cond
        BY <3>2, TopCondType DEF Misplaced, Stray
      <4>2. d \in Cond /\ (d.active => ~c.taken)
        BY <4>1 DEF Cond, ParentSkipping
      <4>3. r' = CloseWindow(SetTop(r, d))
        BY <2>2, <3>2 DEF Elif, DoElif
      <4> HIDE DEF d
      <4> QED BY <4>1, <4>2, <4>3, SetTopOneGroup DEF NoSecondGroup
    <3> QED BY <3>1, <3>2
  <2>3. CASE Else
    <3> DEFINE c == TopCond(r)
               on == ~c.taken /\ ~ParentSkipping(r)
               d == [c EXCEPT !.active = on, !.taken = @ \/ on,
                              !.sawElse = TRUE, !.guard = NoGuard]
               e == [c EXCEPT !.guard = NoGuard]
    <3>1. CASE Stray(r)
      BY <2>3, <3>1 DEF Else, DoElse, CloseWindow, NoSecondGroup
    <3>2. CASE ~Stray(r)
      <4>1. r.conds # <<>> /\ c \in Cond
        BY <3>2, TopCondType DEF Stray
      <4>2. d \in Cond /\ (d.active => ~c.taken)
        BY <4>1 DEF Cond, ParentSkipping, GuardNames
      <4>3. e \in Cond /\ (e.active => c.active)
        BY <4>1 DEF Cond, GuardNames
      <4>4. r' = CloseWindow(SetTop(r, IF c.sawElse THEN e ELSE d))
        BY <2>3, <3>2 DEF Else, DoElse
      <4> HIDE DEF d, e
      <4>5. CASE c.sawElse
        BY <4>1, <4>3, <4>4, <4>5, SetTopOneGroup DEF NoSecondGroup
      <4>6. CASE ~c.sawElse
        BY <4>1, <4>2, <4>4, <4>6, SetTopOneGroup DEF NoSecondGroup
      <4> QED BY <4>5, <4>6
    <3> QED BY <3>1, <3>2
  <2>4. CASE Endif
    BY <2>4 DEF Endif, DoEndif, CloseWindow, Stray, NoSecondGroup
  <2>5. CASE TextLine
    BY <2>5 DEF TextLine, TakeText, NoSecondGroup
  <2>6. CASE OtherDirective
    BY <2>6 DEF OtherDirective, CloseWindow, NoSecondGroup
  <2>7. CASE EndOfFile
    BY <2>7 DEF EndOfFile, NewReader, NoSecondGroup
  <2> QED BY <2>1, <2>2, <2>3, <2>4, <2>5, <2>6, <2>7 DEF Next
<1> QED BY <1>1, Invariant, PTL DEF Spec, OneGroupPerChain

-----------------------------------------------------------------------------
(* The refinement: each handler of condition.go is a step of the chains, or none. *)

(* ModeOf and ChainsOf of any reader: what the chains of a successor are is a
   question about the reader a handler returns. *)
ModeIn(rd, k) ==
    IF \E j \in 1..(k - 1) : ~rd.conds[j].active THEN "dead"
    ELSE IF rd.conds[k].active THEN "in"
    ELSE IF rd.conds[k].taken THEN "past" ELSE "seek"

ChainsIn(rd) == [k \in 1..Len(rd.conds) |->
                    [mode |-> ModeIn(rd, k), closed |-> rd.conds[k].sawElse]]

(* The mode of an innermost frame with these flags. *)
TopMode(rd, c) == IF ParentSkipping(rd) THEN "dead"
                  ELSE IF c.active THEN "in"
                  ELSE IF c.taken THEN "past" ELSE "seek"

(* The refinement mapping before and after a step, in terms of the reader. *)
LEMMA ChainsOfReader == ChainsOf = ChainsIn(r) /\ ChainsOf' = ChainsIn(r')
BY DEF ChainsOf, ChainsIn, ModeOf, ModeIn

(* Append, as the function the chains of a longer stack are. *)
LEMMA AppendAsFunction ==
    ASSUME NEW S, NEW s \in Seq(S), NEW x \in S
    PROVE  Append(s, x) = [k \in 1..(Len(s) + 1) |-> IF k = Len(s) + 1 THEN x ELSE s[k]]
<1> DEFINE f == [k \in 1..(Len(s) + 1) |-> IF k = Len(s) + 1 THEN x ELSE s[k]]
<1>1. Len(s) \in Nat /\ \A k \in 1..Len(s) : s[k] \in S
  OBVIOUS
<1>2. \A k \in 1..(Len(s) + 1) : (IF k = Len(s) + 1 THEN x ELSE s[k]) \in S
  BY <1>1
<1>3. f \in [1..(Len(s) + 1) -> S]
  BY <1>2
<1>4. f \in Seq(S) /\ Len(f) = Len(s) + 1
  <2> HIDE DEF f
  <2> QED BY <1>1, <1>3
<1>5. \A k \in 1..(Len(s) + 1) : f[k] = Append(s, x)[k]
  BY <1>1, AppendProperties
<1>6. Append(s, x) \in Seq(S) /\ Len(Append(s, x)) = Len(s) + 1
  BY AppendProperties
<1> HIDE DEF f
<1>7. Append(s, x) = f
  BY <1>4, <1>5, <1>6, SeqEqual
<1> QED BY <1>7 DEF f

(* The chains are a sequence as long as the stack. *)
LEMMA ChainsSequence ==
    ASSUME NEW rd, Good(rd)
    PROVE  /\ ChainsIn(rd) \in Seq(Abstract!Chain)
           /\ Len(ChainsIn(rd)) = Len(rd.conds)
           /\ Len(rd.conds) \in Nat
<1>1. Len(rd.conds) \in Nat /\ rd.conds \in Seq(Cond)
  BY DEF Good, ReaderStates
<1>2. \A k \in 1..Len(rd.conds) : rd.conds[k].sawElse \in BOOLEAN
  <2>1. \A k \in 1..Len(rd.conds) : rd.conds[k] \in Cond
    BY <1>1
  <2> QED BY <2>1 DEF Cond
<1>3. \A k \in 1..Len(rd.conds) : ModeIn(rd, k) \in Abstract!Modes
  BY DEF ModeIn, Abstract!Modes
<1>4. \A k \in 1..Len(rd.conds) :
          [mode |-> ModeIn(rd, k), closed |-> rd.conds[k].sawElse] \in Abstract!Chain
  BY <1>2, <1>3 DEF Abstract!Chain
<1>5. ChainsIn(rd) \in [1..Len(rd.conds) -> Abstract!Chain]
  BY <1>4 DEF ChainsIn
<1> QED BY <1>1, <1>5

(* What the handlers change of a reader besides its frames is not seen. *)
LEMMA ChainsOfFrames ==
    ASSUME NEW rd, NEW re, re.conds = rd.conds
    PROVE  ChainsIn(re) = ChainsIn(rd)
BY DEF ChainsIn, ModeIn

(* A frame's mode is a matter of that frame and of those around it. *)
LEMMA ModeOfFrames ==
    ASSUME NEW rd, NEW re, NEW k \in Nat \ {0},
           \A j \in 1..k : re.conds[j] = rd.conds[j]
    PROVE  ModeIn(re, k) = ModeIn(rd, k)
<1>1. re.conds[k] = rd.conds[k]
  OBVIOUS
<1>2. \A j \in 1..(k - 1) : re.conds[j] = rd.conds[j]
  OBVIOUS
<1>3. (\E j \in 1..(k - 1) : ~re.conds[j].active) <=> (\E j \in 1..(k - 1) : ~rd.conds[j].active)
  BY <1>2
<1> QED BY <1>1, <1>3 DEF ModeIn

(* live(): text is kept exactly when every chain is "in". *)
LEMMA LiveIsKeeping ==
    ASSUME NEW rd, Good(rd)
    PROVE  Live(rd) <=> \A k \in 1..Len(ChainsIn(rd)) : ChainsIn(rd)[k].mode = "in"
<1>1. Len(ChainsIn(rd)) = Len(rd.conds) /\ Len(rd.conds) \in Nat
  BY ChainsSequence
<1>2. \A k \in 1..Len(rd.conds) : ChainsIn(rd)[k].mode = ModeIn(rd, k)
  BY DEF ChainsIn
<1>3. ASSUME Live(rd), NEW k \in 1..Len(rd.conds)
      PROVE  ModeIn(rd, k) = "in"
  BY <1>1, <1>3 DEF Live, ModeIn
<1>4. ASSUME NEW k \in 1..Len(rd.conds), ModeIn(rd, k) = "in"
      PROVE  rd.conds[k].active
  BY <1>4 DEF ModeIn
<1> QED BY <1>1, <1>2, <1>3, <1>4 DEF Live

(* The innermost chain's mode, and that no handler which replaces the innermost
   frame changes another chain. *)
LEMMA ChainsOfSetTop ==
    ASSUME NEW rd, Good(rd), rd.conds # <<>>, NEW c \in Cond
    PROVE  /\ ChainsIn(rd)[Len(rd.conds)].mode = TopMode(rd, TopCond(rd))
           /\ ChainsIn(rd)[Len(rd.conds)].closed = TopCond(rd).sawElse
           /\ ChainsIn(SetTop(rd, c)) =
                [ChainsIn(rd) EXCEPT ![Len(rd.conds)] =
                    [mode |-> TopMode(rd, c), closed |-> c.sawElse]]
<1> DEFINE n == Len(rd.conds)
           s == SetTop(rd, c)
<1>1. /\ n \in Nat \ {0} /\ Len(s.conds) = n
      /\ \A k \in 1..n : s.conds[k] = IF k = n THEN c ELSE rd.conds[k]
  BY DEF Good, ReaderStates, SetTop
<1>2. ChainsIn(rd)[n].mode = TopMode(rd, TopCond(rd))
  BY <1>1 DEF ChainsIn, ModeIn, TopMode, TopCond, ParentSkipping
<1>3. ChainsIn(rd)[n].closed = TopCond(rd).sawElse
  BY <1>1 DEF ChainsIn, TopCond
<1> HIDE DEF s
<1>4. ModeIn(s, n) = TopMode(rd, c)
  BY <1>1 DEF ModeIn, TopMode, ParentSkipping
<1>5. ASSUME NEW k \in 1..n, k # n
      PROVE  ModeIn(s, k) = ModeIn(rd, k)
  <2>1. k \in Nat \ {0} /\ \A j \in 1..k : s.conds[j] = rd.conds[j]
    BY <1>1, <1>5
  <2> QED BY <2>1, ModeOfFrames
<1>6. \A k \in 1..n : [mode |-> ModeIn(s, k), closed |-> s.conds[k].sawElse] =
          IF k = n THEN [mode |-> TopMode(rd, c), closed |-> c.sawElse]
          ELSE [mode |-> ModeIn(rd, k), closed |-> rd.conds[k].sawElse]
  BY <1>1, <1>4, <1>5
<1>7. ChainsIn(s) = [ChainsIn(rd) EXCEPT ![n] =
                        [mode |-> TopMode(rd, c), closed |-> c.sawElse]]
  BY <1>1, <1>6 DEF ChainsIn
<1> QED BY <1>2, <1>3, <1>7 DEF s

-----------------------------------------------------------------------------
(* Each handler as a step of the chains. *)
LEMMA Opens ==
    ASSUME Good(r), NEW v \in BOOLEAN, NEW g \in GuardNames, If(v, g)
    PROVE  Abstract!Open(v)
<1> DEFINE n == Len(r.conds)
           on == Live(r) /\ v
           c == [taken |-> on, active |-> on, sawElse |-> FALSE,
                 guard |-> IF GuardWindow(r) THEN g ELSE NoGuard]
           x == [mode |-> IF ~Live(r) THEN "dead" ELSE IF v THEN "in" ELSE "seek",
                 closed |-> FALSE]
<1>1. /\ n \in Nat /\ r.conds \in Seq(Cond)
      /\ c \in Cond
      /\ r'.conds = Append(r.conds, c)
  BY DEF If, BeginIf, Good, ReaderStates, Cond, GuardNames, Live
<1>2. /\ c.active = on /\ c.taken = on /\ c.sawElse = FALSE
      /\ Len(r'.conds) = n + 1
      /\ \A k \in 1..(n + 1) : r'.conds[k] = IF k = n + 1 THEN c ELSE r.conds[k]
  BY <1>1
<1> HIDE DEF c
<1>3. ASSUME NEW k \in 1..n
      PROVE  ModeIn(r', k) = ModeIn(r, k) /\ r'.conds[k] = r.conds[k]
  <2>1. k \in Nat \ {0} /\ \A j \in 1..k : r'.conds[j] = r.conds[j]
    BY <1>1, <1>2
  <2> QED BY <2>1, ModeOfFrames
<1>4. ModeIn(r', n + 1) = IF ~Live(r) THEN "dead" ELSE IF v THEN "in" ELSE "seek"
  BY <1>1, <1>2 DEF ModeIn, Live
<1>5. /\ ChainsIn(r) \in Seq(Abstract!Chain) /\ Len(ChainsIn(r)) = n
      /\ Live(r) <=> Abstract!Keeping
  BY ChainsSequence, LiveIsKeeping, ChainsOfReader DEF Abstract!Keeping
<1>6. ChainsIn(r') = Append(ChainsIn(r), x)
  <2>1. x \in Abstract!Chain
    BY DEF Abstract!Chain, Abstract!Modes
  <2>2. ASSUME NEW k \in 1..(n + 1)
        PROVE  [mode |-> ModeIn(r', k), closed |-> r'.conds[k].sawElse] =
                   IF k = n + 1 THEN x ELSE ChainsIn(r)[k]
    <3>1. CASE k = n + 1
      BY <1>1, <1>2, <1>4, <3>1
    <3>2. CASE k # n + 1
      BY <1>1, <1>3, <3>2 DEF ChainsIn
    <3> QED BY <3>1, <3>2
  <2>3. ChainsIn(r') = [k \in 1..(n + 1) |-> IF k = n + 1 THEN x ELSE ChainsIn(r)[k]]
    BY <1>2, <2>2 DEF ChainsIn
  <2> HIDE DEF x
  <2>4. Append(ChainsIn(r), x) =
            [k \in 1..(n + 1) |-> IF k = n + 1 THEN x ELSE ChainsIn(r)[k]]
    BY <1>5, <2>1, AppendAsFunction
  <2> QED BY <2>3, <2>4
<1> QED BY <1>5, <1>6, ChainsOfReader DEF If, Abstract!Open

(* #elif and #else: a frame whose parents are live goes on as its chain does. *)
LEMMA StartsArm ==
    ASSUME Good(r), ~Misplaced(r), NEW v \in BOOLEAN, NEW last \in BOOLEAN, NEW c \in Cond,
           c.active = (~TopCond(r).taken /\ ~ParentSkipping(r) /\ v),
           c.taken = (TopCond(r).taken \/ c.active),
           c.sawElse = last,
           r'.conds = SetTop(r, c).conds,
           UNCHANGED <<kept, errors>>
    PROVE  Abstract!Arm(v, last)
<1> DEFINE n == Len(r.conds)
           m == ChainsIn(r)[n].mode
<1>1. r.conds # <<>> /\ TopCond(r) \in Cond /\ n \in Nat \ {0}
  BY TopCondType DEF Misplaced, Stray, Good, ReaderStates
<1>2. TopCond(r).active => TopCond(r).taken
  BY <1>1 DEF Good, Nests, TopCond
<1>3. /\ m = TopMode(r, TopCond(r))
      /\ ChainsIn(r)[n].closed = FALSE
      /\ ChainsIn(r') = [ChainsIn(r) EXCEPT ![n] = [mode |-> TopMode(r, c), closed |-> last]]
  <2>1. ChainsIn(r') = ChainsIn(SetTop(r, c))
    BY ChainsOfFrames
  <2>2. TopCond(r).sawElse = FALSE
    BY <1>1 DEF Misplaced, Cond
  <2> QED BY <1>1, <2>1, <2>2, ChainsOfSetTop
<1>4. TopMode(r, c) = Abstract!NextMode(m, v)
  <2>1. TopCond(r).taken \in BOOLEAN /\ ParentSkipping(r) \in BOOLEAN
    BY <1>1 DEF Cond, ParentSkipping
  <2> QED BY <1>2, <1>3, <2>1 DEF TopMode, Abstract!NextMode
<1>5. Len(ChainsIn(r)) = n /\ ChainsIn(r) \in Seq(Abstract!Chain)
  BY ChainsSequence
<1>6. Abstract!CanStartArm
  BY <1>1, <1>3, <1>5, ChainsOfReader DEF Abstract!CanStartArm
<1> QED BY <1>3, <1>4, <1>5, <1>6, ChainsOfReader DEF Abstract!Arm

(* A misplaced arm is reported and changes no chain. *)
LEMMA ReportsArm ==
    ASSUME Good(r), Misplaced(r), ChainsIn(r') = ChainsIn(r),
           errors' = (errors \/ Misplaced(r)), UNCHANGED kept
    PROVE  Abstract!OutOfPlace
<1>1. Len(ChainsIn(r)) = Len(r.conds) /\ ChainsIn(r) \in Seq(Abstract!Chain)
      /\ Len(r.conds) \in Nat
  BY ChainsSequence
<1>2. ~Abstract!CanStartArm
  <2>1. CASE Stray(r)
    BY <1>1, <2>1, ChainsOfReader DEF Stray, Abstract!CanStartArm
  <2>2. CASE ~Stray(r)
    <3>1. r.conds # <<>> /\ TopCond(r).sawElse /\ TopCond(r) \in Cond
      BY <2>2, TopCondType DEF Misplaced, Stray, Good
    <3>2. ChainsIn(r)[Len(r.conds)].closed = TopCond(r).sawElse
      BY <3>1, ChainsOfSetTop
    <3> QED BY <1>1, <3>1, <3>2, ChainsOfReader DEF Abstract!CanStartArm
  <2> QED BY <2>1, <2>2
<1> QED BY <1>2, ChainsOfReader DEF Abstract!OutOfPlace

(* #elif starts an arm of its chain or is reported. *)
LEMMA ElifImplements ==
    ASSUME Good(r), NEW v \in BOOLEAN, errors \in BOOLEAN, Elif(v)
    PROVE  Abstract!Arm(v, FALSE) \/ Abstract!OutOfPlace
<1> DEFINE c == TopCond(r)
           on == ~c.taken /\ ~ParentSkipping(r) /\ v
           d == [c EXCEPT !.active = on, !.taken = @ \/ on]
<1>1. CASE Misplaced(r)
  <2>1. r'.conds = r.conds
    BY <1>1 DEF Elif, DoElif, CloseWindow, Good, ReaderStates
  <2> QED BY <1>1, <2>1, ChainsOfFrames, ReportsArm DEF Elif
<1>2. CASE ~Misplaced(r)
  <2>1. c \in Cond /\ on \in BOOLEAN /\ ~c.sawElse
    BY <1>2, TopCondType DEF Misplaced, Stray, Good, ParentSkipping
  <2>2. /\ d \in Cond /\ d.active = on /\ d.taken = (c.taken \/ d.active)
        /\ d.sawElse = FALSE
    BY <2>1 DEF Cond
  <2>3. r' = CloseWindow(SetTop(r, d)) /\ UNCHANGED <<kept, errors>>
    BY <1>2 DEF Elif, DoElif
  <2> HIDE DEF d
  <2>4. r'.conds = SetTop(r, d).conds
    BY <2>3 DEF CloseWindow, SetTop, Good, ReaderStates
  <2> QED BY <1>2, <2>2, <2>3, <2>4, StartsArm
<1> QED BY <1>1, <1>2

(* #else starts the last arm, chosen when none was, or is reported; a second
   #else forgets the frame's guard, which no chain shows. *)
LEMMA ElseImplements ==
    ASSUME Good(r), errors \in BOOLEAN, Else
    PROVE  Abstract!Arm(TRUE, TRUE) \/ Abstract!OutOfPlace
<1> DEFINE c == TopCond(r)
           on == ~c.taken /\ ~ParentSkipping(r)
           d == [c EXCEPT !.active = on, !.taken = @ \/ on,
                          !.sawElse = TRUE, !.guard = NoGuard]
           e == [c EXCEPT !.guard = NoGuard]
<1>1. CASE Stray(r)
  <2>1. r'.conds = r.conds /\ Misplaced(r)
    BY <1>1 DEF Else, DoElse, CloseWindow, Good, ReaderStates, Misplaced
  <2> QED BY <2>1, ChainsOfFrames, ReportsArm DEF Else
<1>2. CASE ~Stray(r) /\ c.sawElse
  <2>1. r.conds # <<>> /\ c \in Cond /\ Misplaced(r)
    BY <1>2, TopCondType DEF Misplaced, Stray, Good
  <2>2. /\ e \in Cond /\ e.active = c.active /\ e.taken = c.taken
        /\ e.sawElse = c.sawElse
    BY <2>1 DEF Cond, GuardNames
  <2>3. r' = CloseWindow(SetTop(r, e))
    BY <1>2 DEF Else, DoElse
  <2> HIDE DEF e
  <2>4. r'.conds = SetTop(r, e).conds
    BY <2>3 DEF CloseWindow, SetTop, Good, ReaderStates
  <2>5. /\ ChainsIn(r)[Len(r.conds)].mode = TopMode(r, e)
        /\ ChainsIn(r)[Len(r.conds)].closed = e.sawElse
    BY <2>1, <2>2, ChainsOfSetTop DEF TopMode
  <2>6. ChainsIn(r') = [ChainsIn(r) EXCEPT ![Len(r.conds)] =
                            [mode |-> TopMode(r, e), closed |-> e.sawElse]]
    BY <2>1, <2>2, <2>4, ChainsOfFrames, ChainsOfSetTop
  <2>7. ChainsIn(r') = ChainsIn(r)
    <3>1. ChainsIn(r) = [k \in 1..Len(r.conds) |-> ChainsIn(r)[k]]
      BY DEF ChainsIn
    <3>2. Len(r.conds) \in 1..Len(r.conds)
      BY <2>1 DEF Good, ReaderStates
    <3>3. ChainsIn(r)[Len(r.conds)] = [mode |-> TopMode(r, e), closed |-> e.sawElse]
      BY <2>5, <3>2 DEF ChainsIn
    <3> QED BY <2>6, <3>1, <3>2, <3>3
  <2> QED BY <2>1, <2>7, ReportsArm DEF Else
<1>3. CASE ~Stray(r) /\ ~c.sawElse
  <2>1. c \in Cond /\ on \in BOOLEAN /\ ~Misplaced(r)
    BY <1>3, TopCondType DEF Misplaced, Stray, Good, ParentSkipping
  <2>2. /\ d \in Cond /\ d.active = (on /\ TRUE) /\ d.taken = (c.taken \/ d.active)
        /\ d.sawElse = TRUE
    BY <2>1 DEF Cond, GuardNames
  <2>3. r' = CloseWindow(SetTop(r, d)) /\ UNCHANGED <<kept, errors>>
    BY <1>3, <2>1 DEF Else, DoElse
  <2> HIDE DEF d
  <2>4. r'.conds = SetTop(r, d).conds
    BY <2>3 DEF CloseWindow, SetTop, Good, ReaderStates
  <2> QED BY <2>1, <2>2, <2>3, <2>4, StartsArm
<1> QED BY <1>1, <1>2, <1>3

(* #endif closes the innermost chain or is reported. *)
LEMMA EndifImplements ==
    ASSUME Good(r), errors \in BOOLEAN, Endif
    PROVE  Abstract!Close \/ Abstract!OutOfPlace
<1> DEFINE n == Len(r.conds)
<1>0. /\ n \in Nat /\ r.conds \in Seq(Cond)
      /\ ChainsIn(r) \in Seq(Abstract!Chain) /\ Len(ChainsIn(r)) = n
  BY ChainsSequence DEF Good, ReaderStates
<1>1. CASE Stray(r)
  <2>1. r'.conds = r.conds /\ Misplaced(r)
    BY <1>1 DEF Endif, DoEndif, CloseWindow, Good, ReaderStates, Misplaced
  <2> QED BY <1>1, <2>1, ChainsOfFrames, ReportsArm DEF Endif
<1>2. CASE ~Stray(r)
  <2>1. r.conds # <<>> /\ n # 0 /\ ChainsIn(r) # <<>>
    BY <1>0, <1>2 DEF Stray
  <2>2. r'.conds = SubSeq(r.conds, 1, n - 1)
    BY <1>0, <1>2 DEF Endif, DoEndif, CloseWindow, Good, ReaderStates
  <2>3. /\ Len(r'.conds) = n - 1
        /\ \A k \in 1..(n - 1) : r'.conds[k] = r.conds[k]
    <3>1. 1 \in 1..(n + 1) /\ n - 1 \in 0..n
      BY <1>0, <2>1
    <3> QED BY <1>0, <2>1, <2>2, <3>1, SubSeqProperties
  <2>4. ASSUME NEW k \in 1..(n - 1)
        PROVE  ModeIn(r', k) = ModeIn(r, k)
    <3>1. k \in Nat \ {0} /\ \A j \in 1..k : r'.conds[j] = r.conds[j]
      BY <1>0, <2>3
    <3> QED BY <3>1, ModeOfFrames
  <2>5. ChainsIn(r') = [k \in 1..(n - 1) |-> ChainsIn(r)[k]]
    BY <1>0, <2>3, <2>4 DEF ChainsIn
  <2>6. ChainsIn(r') = SubSeq(ChainsIn(r), 1, n - 1)
    BY <1>0, <2>1, <2>5
  <2>7. UNCHANGED <<kept, errors>>
    BY <1>2 DEF Endif
  <2> QED BY <1>0, <2>1, <2>6, <2>7, ChainsOfReader DEF Abstract!Close
<1> QED BY <1>1, <1>2

(* The flags of the frames and the questions asked of the frames around them
   implement the four-mode chains, for every nesting: what is kept, which group of a
   chain is chosen and what is reported is what IfChains says. *)
THEOREM Refinement == Spec => ImplementsIfChains
<1>1. Init => Abstract!Init
  <2>1. Init => r.conds = <<>>
    BY DEF Init, NewReader
  <2> QED BY <2>1, ChainsOfReader DEF Init, ChainsIn, Abstract!Init
<1>2. IInv /\ [Next]_vars => [Abstract!Next]_(Abstract!vars)
  <2> SUFFICES ASSUME IInv, [Next]_vars
               PROVE  [Abstract!Next]_(Abstract!vars)
    OBVIOUS
  <2> USE DEF IInv
  <2>1. ASSUME NEW v \in BOOLEAN, NEW g \in GuardNames, If(v, g)
        PROVE  Abstract!Next
    BY <2>1, Opens DEF Abstract!Next
  <2>2. ASSUME NEW v \in BOOLEAN, Elif(v)
        PROVE  Abstract!Next
    BY <2>2, ElifImplements DEF Abstract!Next
  <2>3. CASE Else
    BY <2>3, ElseImplements DEF Abstract!Next
  <2>4. CASE Endif
    BY <2>4, EndifImplements DEF Abstract!Next
  <2>5. CASE TextLine
    <3>1. r'.conds = r.conds
      BY <2>5 DEF TextLine, TakeText, Good, ReaderStates
    <3>2. Live(r) <=> Abstract!Keeping
      BY LiveIsKeeping, ChainsOfReader DEF Abstract!Keeping
    <3>3. Live(r) \in BOOLEAN /\ Abstract!Keeping \in BOOLEAN
      BY DEF Live, Abstract!Keeping
    <3>4. kept' = Abstract!Keeping /\ UNCHANGED errors
      BY <2>5, <3>2, <3>3 DEF TextLine
    <3>5. UNCHANGED ChainsOf
      BY <3>1, ChainsOfFrames, ChainsOfReader
    <3> QED BY <3>4, <3>5 DEF Abstract!Text, Abstract!Next
  <2>6. CASE OtherDirective
    <3>1. r'.conds = r.conds
      BY <2>6 DEF OtherDirective, CloseWindow, Good, ReaderStates
    <3> QED BY <2>6, <3>1, ChainsOfFrames, ChainsOfReader
            DEF OtherDirective, Abstract!vars
  <2>7. CASE EndOfFile
    <3>1. ChainsIn(r') = <<>>
      BY <2>7 DEF EndOfFile, NewReader, ChainsIn
    <3>2. r.conds # <<>> <=> ChainsIn(r) # <<>>
      BY ChainsSequence DEF Good, ReaderStates
    <3> QED BY <2>7, <3>1, <3>2, ChainsOfReader
            DEF EndOfFile, Abstract!EndOfFile, Abstract!Next
  <2>8. CASE UNCHANGED vars
    <3>1. ChainsIn(r') = ChainsIn(r)
      BY <2>8 DEF vars
    <3> QED BY <2>8, <3>1, ChainsOfReader DEF vars, Abstract!vars
  <2> QED BY <2>1, <2>2, <2>3, <2>4, <2>5, <2>6, <2>7, <2>8 DEF Next
<1> QED BY <1>1, <1>2, Invariant, PTL DEF Spec, ImplementsIfChains, Abstract!Spec
=============================================================================
