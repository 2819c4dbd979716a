---------------------------- MODULE Reader_proofs ----------------------------
(* Lemmas about the handlers of Reader, for every set of macros: what each keeps
   of a reader.  Conditionals_proofs and Includes_proofs rest on them. *)
EXTENDS Reader, Bookkeeping

(* What a handler keeps of a reader's frames: the invariant on one reader. *)
Nests(rd) ==
    \A k \in 1..Len(rd.conds) :
        rd.conds[k].active => /\ rd.conds[k].taken
                              /\ \A j \in 1..k : rd.conds[j].active

Good(rd) == rd \in ReaderStates /\ Nests(rd)

(* Replacing the innermost frame of a good reader keeps it good when the new
   frame is active only under live parents and then counted as taken. *)
LEMMA SetTopGood ==
    ASSUME NEW rd, Good(rd), rd.conds # <<>>,
           NEW c \in Cond,
           c.active => c.taken,
           c.active => ~ParentSkipping(rd)
    PROVE  Good(SetTop(rd, c))
<1> DEFINE n == Len(rd.conds)
           s == SetTop(rd, c)
<1>1. /\ rd.conds \in Seq(Cond)
      /\ n \in Nat \ {0}
      /\ s \in ReaderStates
      /\ Len(s.conds) = n
      /\ \A k \in 1..n : s.conds[k] = IF k = n THEN c ELSE rd.conds[k]
  BY DEF Good, ReaderStates, SetTop
<1>2. ASSUME NEW k \in 1..n, s.conds[k].active
      PROVE  s.conds[k].taken /\ \A j \in 1..k : s.conds[j].active
  <2>1. CASE k = n
    <3>1. c.active /\ c.taken
      BY <1>1, <1>2, <2>1
    <3>2. \A j \in 1..(n - 1) : rd.conds[j].active
      BY <3>1 DEF ParentSkipping
    <3> QED BY <1>1, <2>1, <3>1, <3>2
  <2>2. CASE k # n
    BY <1>1, <1>2, <2>2 DEF Good, Nests
  <2> QED BY <2>1, <2>2
<1> QED BY <1>1, <1>2 DEF Good, Nests

(* Closing the guard window leaves the frames alone. *)
LEMMA CloseWindowGood ==
    ASSUME NEW rd, Good(rd)
    PROVE  Good(CloseWindow(rd)) /\ CloseWindow(rd).conds = rd.conds
BY DEF Good, Nests, CloseWindow, ReaderStates

(* The innermost frame is a frame. *)
LEMMA TopCondType ==
    ASSUME NEW rd \in ReaderStates, rd.conds # <<>>
    PROVE  TopCond(rd) \in Cond
BY DEF ReaderStates, TopCond

(* A new file's reader has no frames. *)
LEMMA NewReaderGood == Good(NewReader)
BY DEF Good, Nests, NewReader, ReaderStates, GuardNames

(* An opening frame is active only when everything around it is. *)
LEMMA BeginIfGood ==
    ASSUME NEW rd, Good(rd), NEW v \in BOOLEAN, NEW g \in GuardNames
    PROVE  Good(BeginIf(rd, v, g))
<1> DEFINE n == Len(rd.conds)
           s == BeginIf(rd, v, g)
           on == Live(rd) /\ v
           c == [taken |-> on, active |-> on, sawElse |-> FALSE,
                 guard |-> IF GuardWindow(rd) THEN g ELSE NoGuard]
<1>1. on \in BOOLEAN /\ c \in Cond
  BY DEF Cond, GuardNames, Live
<1>2. s.conds = Append(rd.conds, c) /\ s \in ReaderStates
  <2>1. s = [rd EXCEPT !.conds = Append(rd.conds, c)]
    BY DEF BeginIf
  <2>2. rd \in ReaderStates /\ rd.conds \in Seq(Cond)
    BY DEF Good, ReaderStates
  <2>3. Append(rd.conds, c) \in Seq(Cond)
    BY <1>1, <2>2
  <2> HIDE DEF s, c
  <2> QED BY <2>1, <2>2, <2>3 DEF ReaderStates
<1>3. rd.conds \in Seq(Cond) /\ n \in Nat
  BY DEF Good, ReaderStates
<1>4. on => \A j \in 1..n : rd.conds[j].active
  BY DEF Live
<1>5. c.active = on /\ c.taken = on
  OBVIOUS
<1> HIDE DEF c, on, s
<1>6. /\ Len(s.conds) = n + 1
      /\ s.conds[n + 1] = c
      /\ \A k \in 1..n : s.conds[k] = rd.conds[k]
  BY <1>1, <1>2, <1>3, AppendProperties
<1>7. ASSUME NEW k \in 1..(n + 1), s.conds[k].active
      PROVE  s.conds[k].taken /\ \A j \in 1..k : s.conds[j].active
  <2>1. CASE k = n + 1
    <3>1. on
      BY <1>5, <1>6, <1>7, <2>1
    <3>2. \A j \in 1..n : s.conds[j].active
      BY <1>4, <1>6, <3>1
    <3>3. s.conds[n + 1].taken /\ s.conds[n + 1].active
      BY <1>5, <1>6, <3>1
    <3> QED BY <1>3, <2>1, <3>2, <3>3
  <2>2. CASE k # n + 1
    <3>1. k \in 1..n /\ \A j \in 1..k : j \in 1..n
      BY <1>3, <2>2
    <3>2. rd.conds[k].active
      BY <1>6, <1>7, <3>1
    <3>3. rd.conds[k].taken /\ \A j \in 1..k : rd.conds[j].active
      BY <3>1, <3>2 DEF Good, Nests
    <3> QED BY <1>6, <3>1, <3>3
  <2> QED BY <2>1, <2>2
<1>8. Nests(s)
  BY <1>6, <1>7 DEF Nests
<1> QED BY <1>2, <1>8 DEF Good, s

(* #elif asks whether the chain was taken and whether its parents skip. *)
LEMMA DoElifGood ==
    ASSUME NEW rd, Good(rd), NEW v \in BOOLEAN
    PROVE  Good(DoElif(rd, v))
<1> DEFINE c == TopCond(rd)
           on == ~c.taken /\ ~ParentSkipping(rd) /\ v
           d == [c EXCEPT !.active = on, !.taken = @ \/ on]
<1>1. CASE Misplaced(rd)
  BY <1>1, CloseWindowGood DEF DoElif
<1>2. CASE ~Misplaced(rd)
  <2>1. rd.conds # <<>> /\ c \in Cond
    BY <1>2, TopCondType DEF Misplaced, Stray, Good
  <2>2. on \in BOOLEAN /\ d \in Cond /\ d.active = on /\ d.taken = (c.taken \/ on)
    BY <2>1 DEF Cond, ParentSkipping
  <2>3. Good(SetTop(rd, d))
    <3> HIDE DEF d
    <3> QED BY <2>1, <2>2, SetTopGood
  <2> QED BY <1>2, <2>3, CloseWindowGood DEF DoElif
<1> QED BY <1>1, <1>2

(* #else asks the same; a second #else changes only the guard. *)
LEMMA DoElseGood ==
    ASSUME NEW rd, Good(rd)
    PROVE  Good(DoElse(rd))
<1> DEFINE c == TopCond(rd)
           on == ~c.taken /\ ~ParentSkipping(rd)
           d == [c EXCEPT !.active = on, !.taken = @ \/ on,
                          !.sawElse = TRUE, !.guard = NoGuard]
           e == [c EXCEPT !.guard = NoGuard]
<1>1. CASE Stray(rd)
  BY <1>1, CloseWindowGood DEF DoElse
<1>2. CASE ~Stray(rd)
  <2>1. rd.conds # <<>> /\ c \in Cond
    BY <1>2, TopCondType DEF Stray, Good
  <2>2. on \in BOOLEAN /\ d \in Cond /\ d.active = on /\ d.taken = (c.taken \/ on)
    BY <2>1 DEF Cond, ParentSkipping, GuardNames
  <2>3. e \in Cond /\ e.active = c.active /\ e.taken = c.taken
    BY <2>1 DEF Cond, GuardNames
  <2>4. Good(SetTop(rd, d))
    <3> HIDE DEF d
    <3> QED BY <2>1, <2>2, SetTopGood
  <2>5. c.active => c.taken /\ ~ParentSkipping(rd)
    BY <2>1 DEF Good, Nests, TopCond, ParentSkipping, ReaderStates
  <2>6. Good(SetTop(rd, e))
    <3> HIDE DEF e
    <3> QED BY <2>1, <2>3, <2>5, SetTopGood
  <2>7. CASE c.sawElse
    BY <1>2, <2>6, <2>7, CloseWindowGood DEF DoElse
  <2>8. CASE ~c.sawElse
    BY <1>2, <2>4, <2>8, CloseWindowGood DEF DoElse
  <2> QED BY <2>7, <2>8
<1> QED BY <1>1, <1>2

(* #endif drops a frame and leaves those around it. *)
LEMMA DoEndifGood ==
    ASSUME NEW rd, Good(rd)
    PROVE  Good(DoEndif(rd))
<1> DEFINE n == Len(rd.conds)
           c == TopCond(rd)
           s == DoEndif(rd)
<1>1. CASE Stray(rd)
  BY <1>1, CloseWindowGood DEF DoEndif
<1>2. CASE ~Stray(rd)
  <2>1. rd.conds # <<>> /\ c \in Cond /\ rd \in ReaderStates
    BY <1>2, TopCondType DEF Stray, Good
  <2>2. n \in Nat \ {0} /\ SubSeq(rd.conds, 1, n - 1) \in Seq(Cond)
    BY <2>1 DEF ReaderStates
  <2>3. s.conds = SubSeq(rd.conds, 1, n - 1)
    BY <1>2, <2>1, <2>2 DEF DoEndif, CloseWindow, ReaderStates
  <2>4. s \in ReaderStates
    <3> DEFINE w == [CloseWindow(rd) EXCEPT !.conds = SubSeq(@, 1, Len(@) - 1)]
    <3>1. w \in ReaderStates
      BY <2>1, <2>2 DEF CloseWindow, ReaderStates
    <3>2. c.guard \in GuardNames
      BY <2>1 DEF Cond
    <3>3. s = IF w.conds # <<>> THEN w
              ELSE [w EXCEPT !.pendingGuard = c.guard, !.miValid = c.guard # NoGuard]
      BY <1>2 DEF DoEndif
    <3> HIDE DEF s, w, c
    <3> QED BY <3>1, <3>2, <3>3 DEF ReaderStates
  <2>5. Len(s.conds) = n - 1 /\ \A k \in 1..(n - 1) : s.conds[k] = rd.conds[k]
    <3> HIDE DEF s
    <3>1. rd.conds \in Seq(Cond) /\ 1 \in 1..(n + 1) /\ n - 1 \in 0..n
      BY <2>1, <2>2 DEF ReaderStates
    <3> QED BY <2>2, <2>3, <3>1, SubSeqProperties
  <2>6. ASSUME NEW k \in 1..(n - 1), rd.conds[k].active
        PROVE  rd.conds[k].taken /\ \A j \in 1..k : rd.conds[j].active
    BY <2>2, <2>6 DEF Good, Nests
  <2>7. Nests(s)
    <3> HIDE DEF s
    <3> QED BY <2>2, <2>5, <2>6 DEF Nests
  <2> QED BY <2>4, <2>7 DEF Good
<1> QED BY <1>1, <1>2

(* Text leaves the frames alone. *)
LEMMA TakeTextGood ==
    ASSUME NEW rd, Good(rd)
    PROVE  Good(TakeText(rd))
BY DEF Good, Nests, TakeText, ReaderStates

(* A new innermost frame that is active only where no arm was taken before
   switches no chain on a second time. *)
LEMMA SetTopOneGroup ==
    ASSUME NEW rd \in ReaderStates, rd.conds # <<>>,
           NEW c \in Cond,
           (c.active /\ TopCond(rd).taken) => TopCond(rd).active,
           NEW k \in 1..Len(rd.conds),
           rd.conds[k].taken,
           CloseWindow(SetTop(rd, c)).conds[k].active
    PROVE  rd.conds[k].active
<1>1. /\ rd.conds \in Seq(Cond)
      /\ CloseWindow(SetTop(rd, c)).conds = [rd.conds EXCEPT ![Len(rd.conds)] = c]
  BY DEF ReaderStates, SetTop, CloseWindow
<1>2. CASE k = Len(rd.conds)
  BY <1>1, <1>2 DEF TopCond
<1>3. CASE k # Len(rd.conds)
  BY <1>1, <1>3
<1> QED BY <1>2, <1>3

-----------------------------------------------------------------------------
(* What each handler makes of the frames, exactly. *)

(* The frame an opening line adds. *)
OpenFrame(rd, c, v) == /\ c.active <=> Live(rd) /\ v
                       /\ c.taken = c.active
                       /\ ~c.sawElse

LEMMA BeginIfFrames ==
    ASSUME NEW rd \in ReaderStates, NEW v \in BOOLEAN, NEW g \in GuardNames
    PROVE  \E c \in Cond : BeginIf(rd, v, g).conds = Append(rd.conds, c) /\ OpenFrame(rd, c, v)
<1> DEFINE on == Live(rd) /\ v
           c == [taken |-> on, active |-> on, sawElse |-> FALSE,
                 guard |-> IF GuardWindow(rd) THEN g ELSE NoGuard]
<1>1. on \in BOOLEAN /\ c \in Cond
  BY DEF Cond, GuardNames, Live
<1>2. BeginIf(rd, v, g).conds = Append(rd.conds, c)
  BY DEF BeginIf, ReaderStates
<1>3. c.active = on /\ c.taken = on /\ c.sawElse = FALSE
  OBVIOUS
<1>4. OpenFrame(rd, c, v)
  BY <1>3 DEF OpenFrame, on
<1> HIDE DEF c, on
<1> QED BY <1>1, <1>2, <1>4

(* An arm that may start: the innermost frame is replaced. *)
ArmFrame(rd, c, v) ==
    /\ c.active <=> /\ ~rd.conds[Len(rd.conds)].taken
                    /\ \A k \in 1..(Len(rd.conds) - 1) : rd.conds[k].active
                    /\ v
    /\ c.taken <=> rd.conds[Len(rd.conds)].taken \/ c.active

LEMMA DoElifFrames ==
    ASSUME NEW rd \in ReaderStates, NEW v \in BOOLEAN, ~Misplaced(rd)
    PROVE  \E c \in Cond : /\ DoElif(rd, v).conds = [rd.conds EXCEPT ![Len(rd.conds)] = c]
                          /\ ArmFrame(rd, c, v)
                          /\ ~c.sawElse
<1> DEFINE c == TopCond(rd)
           on == ~c.taken /\ ~ParentSkipping(rd) /\ v
           d == [c EXCEPT !.active = on, !.taken = @ \/ on]
<1>1. rd.conds # <<>> /\ c \in Cond /\ ~c.sawElse
  BY TopCondType DEF Misplaced, Stray
<1>2. on \in BOOLEAN /\ d \in Cond /\ d.active = on /\ d.taken = (c.taken \/ on) /\ d.sawElse = c.sawElse
  BY <1>1 DEF Cond, ParentSkipping
<1>3. DoElif(rd, v).conds = [rd.conds EXCEPT ![Len(rd.conds)] = d]
  <2> HIDE DEF d
  <2>1. DoElif(rd, v) = CloseWindow(SetTop(rd, d))
    BY DEF DoElif, d
  <2> QED BY <2>1 DEF CloseWindow, SetTop, ReaderStates
<1>4. ParentSkipping(rd) <=> ~\A k \in 1..(Len(rd.conds) - 1) : rd.conds[k].active
  BY DEF ParentSkipping
<1>5. ArmFrame(rd, d, v)
  <2> HIDE DEF d
  <2> QED BY <1>2, <1>4 DEF ArmFrame, TopCond
<1> HIDE DEF d
<1> QED BY <1>1, <1>2, <1>3, <1>5

LEMMA DoElseFrames ==
    ASSUME NEW rd \in ReaderStates, ~Misplaced(rd)
    PROVE  \E c \in Cond : /\ DoElse(rd).conds = [rd.conds EXCEPT ![Len(rd.conds)] = c]
                          /\ ArmFrame(rd, c, TRUE)
                          /\ c.sawElse
<1> DEFINE c == TopCond(rd)
           on == ~c.taken /\ ~ParentSkipping(rd)
           d == [c EXCEPT !.active = on, !.taken = @ \/ on,
                          !.sawElse = TRUE, !.guard = NoGuard]
<1>1. rd.conds # <<>> /\ c \in Cond /\ ~c.sawElse /\ ~Stray(rd)
  BY TopCondType DEF Misplaced, Stray
<1>2. on \in BOOLEAN /\ d \in Cond /\ d.active = on /\ d.taken = (c.taken \/ on) /\ d.sawElse
  BY <1>1 DEF Cond, ParentSkipping, GuardNames
<1>3. DoElse(rd).conds = [rd.conds EXCEPT ![Len(rd.conds)] = d]
  <2> HIDE DEF d
  <2>1. DoElse(rd) = CloseWindow(SetTop(rd, d))
    BY <1>1 DEF DoElse, d
  <2> QED BY <2>1 DEF CloseWindow, SetTop, ReaderStates
<1>4. ParentSkipping(rd) <=> ~\A k \in 1..(Len(rd.conds) - 1) : rd.conds[k].active
  BY DEF ParentSkipping
<1>5. ArmFrame(rd, d, TRUE)
  <2> HIDE DEF d
  <2> QED BY <1>2, <1>4 DEF ArmFrame, TopCond
<1> HIDE DEF d
<1> QED BY <1>2, <1>3, <1>5

LEMMA DoEndifFrames ==
    ASSUME NEW rd \in ReaderStates, ~Stray(rd)
    PROVE  DoEndif(rd).conds = SubSeq(rd.conds, 1, Len(rd.conds) - 1)
BY DEF DoEndif, CloseWindow, ReaderStates
=============================================================================
