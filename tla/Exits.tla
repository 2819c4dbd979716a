------------------------------- MODULE Exits -------------------------------
(* What one function lowered by lower/ (try.go, stmt.go, arc.go, vla.go,
   objc.go's pool and lock statements) does on its way out of anything: falling
   off the end of a construct, break, continue, return, @throw and unwinding.

   The program is any structured program: at each point the environment picks
   the next statement.  "nest" is where control stands: the constructs around
   it, outermost first.  The stacks the lowering keeps while it emits code at
   that point (fn.tries, fn.handlers, fn.strongs, fn.pools, fn.vlaScopes) are
   read off nest; what the emitted code does to the running frame is applied to
   the other variables.

   The Objective-C runtime is outside the repository: a pool pop, a release, an
   unlock and an end_catch are modelled from the calls the lowering emits. *)
EXTENDS Naturals, Sequences, FiniteSets, SequencesExt

CONSTANTS MaxNest,         \* bound: constructs around a statement
          MaxConstructs,   \* bound: constructs entered by one execution
          Kinds,           \* the constructs the program uses
          Shapes           \* the shapes of exit the program uses, see MayLeave

ConstructKinds == {"loop", "switch", "scope", "pool", "sync", "try"}
AllShapes == {"leave sync", "leave catch", "leave unwound finally", "two finallys",
              "owner outside finally", "override return", "throw in catch", "no claim",
              "leave vla", "case past a declaration", "declaration in a looped switch"}

ASSUME ExitsAssumption ==
    /\ MaxNest \in Nat /\ MaxConstructs \in Nat
    /\ Kinds \subseteq ConstructKinds /\ Shapes \subseteq AllShapes

VARIABLES nest,      \* the constructs around the statement about to run
          status,    \* running, unwinding, returned, thrown
          dest,      \* tryScope.dest: where each @finally goes when it has run
          rethrow,   \* tryScope.rethrow: the @finally was entered by unwinding
          rt,        \* what the frame holds of the runtime
          owed,      \* history: the @finally blocks entered into debt and not run
          leaked,    \* history: the locals an unwinding passed over
          made       \* the constructs entered so far

vars == <<nest, status, dest, rethrow, rt, owed, leaked, made>>

Ids == 1..MaxConstructs

(* A construct.  fin and claims describe a @try: whether it has a @finally, and
   which exceptions its @catch clauses claim.  local and vla say whether a
   scope has declared a strong local and a variable-length array; local says of a
   switch, and of a loop around one, that the switch has declared the scope's. *)
Construct(k, id, fin, claims) ==
    [kind |-> k, id |-> id, fin |-> fin, claims |-> claims, local |-> FALSE, vla |-> FALSE]

(* The exits of a @finally: a statement, the entry of another @finally, or the
   releases and the return of a return statement that stood at "nest". *)
At(n)     == [op |-> "at", nest |-> n]
Return(n) == [op |-> "return", nest |-> n]

Holding == [pools |-> <<>>, locks |-> {}, caught |-> 0, held |-> {}, stack |-> <<>>,
            faults |-> {}]

Init ==
    /\ nest = <<>> /\ status = "running"
    /\ dest = [i \in Ids |-> At(<<>>)]
    /\ rethrow = [i \in Ids |-> FALSE]
    /\ rt = Holding
    /\ owed = {} /\ leaked = {} /\ made = 0

-----------------------------------------------------------------------------
(* The stacks of the lowering at nest n, and what a construct owes. *)
Depth     == Len(nest)
Innermost == nest[Depth]
Outside(n, p) == SubSeq(n, 1, p - 1)          \* the nest around the construct at p

Positions(n, kinds) == {p \in 1..Len(n) : n[p].kind \in kinds}
IdsOf(n, ps)        == {n[p].id : p \in ps}

Tries(n)     == Positions(n, {"try", "catch"})        \* open across @catch bodies
Handlers(n)  == Positions(n, {"try", "catch", "finally", "pool", "sync"})
Pools(n)     == Positions(n, {"pool"})
Strongs(n)   == {p \in Positions(n, {"scope"}) : n[p].local}
Arrays(n)    == {p \in Positions(n, {"scope"}) : n[p].vla}
Breakable(n) == Positions(n, {"loop", "switch"})
Finallys(n)  == {p \in Tries(n) : n[p].fin}
Inside(ps, p) == {q \in ps : q > p}

Largest(ps)  == CHOOSE p \in ps : \A q \in ps : q <= p
Smallest(ps) == CHOOSE p \in ps : \A q \in ps : p <= q

-----------------------------------------------------------------------------
(* The runtime calls.  Popping a pool pops the pools pushed after it; popping a
   token that is not on the page stack, releasing a local twice and ending a
   catch that was not begun are faults. *)
Fault(h, what, bad) == [h EXCEPT !.faults = IF bad THEN @ \cup {what} ELSE @]

PopPool(h, id) ==
    LET at == {k \in 1..Len(h.pools) : h.pools[k] = id}
    IN  IF at = {} THEN Fault(h, "pop", TRUE)
        ELSE [h EXCEPT !.pools = SubSeq(@, 1, Smallest(at) - 1)]

(* The pools of several constructs, innermost first: what is left is what was
   pushed before the outermost. *)
PopPools(h, n, ps) ==
    IF ps = {} THEN h
    ELSE Fault(PopPool(h, n[Smallest(ps)].id), "pop",
               ~(IdsOf(n, ps) \subseteq ToSet(h.pools)))

(* StackRestore: what was allocated since the scope's mark goes with it. *)
RestoreStack(h, id) ==
    LET at == {k \in 1..Len(h.stack) : h.stack[k] = id}
    IN  IF at = {} THEN h ELSE [h EXCEPT !.stack = SubSeq(@, 1, Smallest(at) - 1)]

Release(h, ids) == Fault([h EXCEPT !.held = @ \ ids], "release", ~(ids \subseteq h.held))

Unlock(h, id) == Fault([h EXCEPT !.locks = @ \ {id}], "unlock", id \notin h.locks)

EndCatch(h) == IF h.caught = 0 THEN Fault(h, "end_catch", TRUE)
               ELSE [h EXCEPT !.caught = @ - 1]

BeginCatch(h) == [h EXCEPT !.caught = @ + 1]

(* Mutants of leaveScopes: it forgets the pools; it stops at the innermost scope. *)
LeaveLocals(h, n, p) == Release(h, IdsOf(n, Inside(Strongs(n), p)))

LeaveInnermost(h, n, p) ==
    LET deep == Inside(Strongs(n), p)
    IN  PopPools(IF deep = {} THEN h ELSE Release(h, {n[Largest(deep)].id}),
                 n, Inside(Pools(n), p))

(* leaveScopes: the locals of every scope deeper than p, then the pools. *)
LeaveScopes(h, n, p) ==
    PopPools(Release(h, IdsOf(n, Inside(Strongs(n), p))), n, Inside(Pools(n), p))

-----------------------------------------------------------------------------
(* Control reaches the @finally of the @try at position p of n.  It runs with
   the @try closed: neither its own handler nor its own dest stands over it. *)
EnterFinally(n, p) ==
    /\ nest' = Append(Outside(n, p), [n[p] EXCEPT !.kind = "finally"])
    /\ owed' = owed \ {n[p].id}

(* The entry of that @finally, as an exit. *)
Finally(n, p) == At(Append(Outside(n, p), [n[p] EXCEPT !.kind = "finally"]))

(* Control goes to an exit; h is what the frame holds there. *)
GoTo(exit, h) ==
    LET n == exit.nest IN
    CASE exit.op = "at" ->
            /\ nest' = n
            /\ rt' = h
            /\ owed' = owed \ IdsOf(n, Positions(n, {"finally"}))
            /\ UNCHANGED status
      [] exit.op = "return" ->         \* releaseAllStrong, releasePools, ret
            /\ nest' = <<>>
            /\ rt' = [LeaveScopes(h, n, 0) EXCEPT !.stack = <<>>]
            /\ status' = "returned"
            /\ UNCHANGED owed

(* leaveTries: every @finally deeper than p takes part.  Each one's destination
   is the next deeper one, the deepest one's is the exit, and control enters the
   outermost. *)
LeaveTries(exit, p, h) ==
    LET chain == Inside(Finallys(nest), p)
        after(q) == LET deeper == Inside(chain, q)
                    IN  IF deeper = {} THEN exit ELSE Finally(nest, Smallest(deeper))
    IN  IF chain = {} THEN GoTo(exit, h) /\ UNCHANGED dest
        ELSE /\ EnterFinally(nest, Smallest(chain))
             /\ dest' = [i \in Ids |-> IF i \in IdsOf(nest, chain)
                                       THEN after(CHOOSE q \in chain : nest[q].id = i)
                                       ELSE dest[i]]
             /\ rt' = h
             /\ UNCHANGED status

(* Mutant of leaveTry: the body's end goes straight to the statement after. *)
LeaveTryAtOnce(p, h) == rt' = h /\ nest' = Outside(nest, p) /\ UNCHANGED <<dest, owed>>

(* leaveTry: the end of a @try's own body or @catch goes to the statement after
   the @try, through its @finally. *)
LeaveTry(p, h) ==
    /\ rt' = h
    /\ IF nest[p].fin
       THEN /\ dest' = [dest EXCEPT ![nest[p].id] = At(Outside(nest, p))]
            /\ EnterFinally(nest, p)
       ELSE nest' = Outside(nest, p) /\ UNCHANGED <<dest, owed>>

-----------------------------------------------------------------------------
(* The statements.  Which of them the program may use where: the language allows
   them all, and each shape named here is one the lowering is seen to treat
   differently from its documentation. *)
Unless(shape, ok) == shape \in Shapes \/ ok

Deeper(kinds, p) == Inside(Positions(nest, kinds), p)

(* Leaving, by return or by a jump, everything deeper than p. *)
MayLeave(p) ==
    /\ Unless("leave sync", Deeper({"sync"}, p) = {})
    /\ Unless("leave catch", Deeper({"catch"}, p) = {})
    /\ Unless("leave unwound finally", \A q \in Deeper({"finally"}, p) : ~rethrow[nest[q].id])
    /\ Unless("two finallys", Cardinality(Inside(Finallys(nest), p)) <= 1)
    /\ Unless("override return",
              \A q \in Deeper({"finally"}, p) : dest[nest[q].id].op # "return")
    /\ Unless("leave vla", \/ Inside(Arrays(nest), p) = {}
                           \/ p = 0 /\ Finallys(nest) = {})

(* A jump across a @finally out of a scope or a pool that is outside its @try. *)
MayJump(p) ==
    /\ MayLeave(p)
    /\ Unless("owner outside finally",
              \A q \in Inside(Finallys(nest), p), o \in Strongs(nest) \cup Pools(nest) :
                    ~(p < o /\ o < q))

MayThrow ==
    /\ Unless("throw in catch", \A p \in Positions(nest, {"catch"}) : ~nest[p].fin)
    /\ Unless("override return",
              \A q \in Positions(nest, {"finally"}) : dest[nest[q].id].op # "return")
    /\ Unless("leave vla", Arrays(nest) = {} \/ Handlers(nest) = {})

MayTry(fin, claims) ==
    /\ fin \/ claims # "none"              \* the analyzer asks for one or the other
    /\ Unless("no claim", fin \/ claims = "all" \/ Handlers(nest) = {})

(* The body of a switch opens no scope of ownership: the scope that notes what is
   declared in it is the one around, past loops without braces. *)
Noting == Largest(Positions(nest, {"scope"}))

ScopeAround ==
    /\ Positions(nest, {"scope"}) # {}
    /\ \A p \in (Noting + 1)..Depth : nest[p].kind \in {"loop", "switch"}

MayDeclare ==
    /\ ScopeAround
    /\ \A p \in Deeper({"switch"}, Noting) : ~nest[p].local
    /\ nest[Noting].local =>
            /\ "declaration in a looped switch" \in Shapes
            /\ \E p \in Deeper({"loop"}, Noting) : nest[p].local

-----------------------------------------------------------------------------
Running == status = "running"
InnermostIs(k) == Running /\ nest # <<>> /\ Innermost.kind = k

Enter(k, fin, claims) ==
    /\ Running /\ k \in Kinds
    /\ Depth < MaxNest /\ made < MaxConstructs
    /\ made' = made + 1
    /\ nest' = Append(nest, Construct(k, made', fin, claims))
    /\ UNCHANGED <<status, leaked>>

EnterLoop == Enter("loop", FALSE, "none") /\ UNCHANGED <<dest, rethrow, rt, owed>>

(* switchStmt up to the label control goes to: what is declared before the label is
   noted, and has not been written. *)
EnterSwitch ==
    \E past \in BOOLEAN :
        /\ past => ScopeAround /\ ~nest[Noting].local
        /\ Unless("case past a declaration", ~past)
        /\ Running /\ "switch" \in Kinds
        /\ Depth < MaxNest /\ made < MaxConstructs
        /\ made' = made + 1
        /\ nest' = Append(IF past THEN [nest EXCEPT ![Noting].local = TRUE] ELSE nest,
                          Construct("switch", made', FALSE, "none"))
        /\ UNCHANGED <<status, dest, rethrow, rt, owed, leaked>>

EnterScope == Enter("scope", FALSE, "none") /\ UNCHANGED <<dest, rethrow, rt, owed>>

EnterPool ==
    /\ Enter("pool", FALSE, "none")
    /\ rt' = [rt EXCEPT !.pools = Append(@, made')]
    /\ UNCHANGED <<dest, rethrow, owed>>

EnterSync ==
    /\ Enter("sync", FALSE, "none")
    /\ rt' = [rt EXCEPT !.locks = @ \cup {made'}]
    /\ UNCHANGED <<dest, rethrow, owed>>

(* tryStmt up to its body: the slots of a @finally start at zero, which is the
   statement after the @try and no rethrow. *)
EnterTry ==
    \E fin \in BOOLEAN, claims \in {"none", "some", "all"} :
        /\ MayTry(fin, claims)
        /\ Enter("try", fin, claims)
        /\ dest' = [dest EXCEPT ![made'] = At(nest)]
        /\ rethrow' = [rethrow EXCEPT ![made'] = FALSE]
        /\ owed' = IF fin THEN owed \cup {made'} ELSE owed
        /\ UNCHANGED rt

(* A strong local with an initializer: noteStrongLocal and the first store. *)
DeclareStrong ==
    /\ InnermostIs("scope") /\ ~Innermost.local
    /\ nest' = [nest EXCEPT ![Depth].local = TRUE]
    /\ rt' = [rt EXCEPT !.held = @ \cup {Innermost.id}]
    /\ UNCHANGED <<status, dest, rethrow, owed, leaked, made>>

(* The same in the body of a switch.  Its first store releases nothing, so one that
   runs again loses what it held. *)
DeclareInSwitch ==
    /\ InnermostIs("switch") /\ MayDeclare
    /\ nest' = [p \in 1..Depth |-> [nest[p] EXCEPT !.local = @ \/ p >= Noting]]
    /\ rt' = Fault([rt EXCEPT !.held = @ \cup {nest[Noting].id}], "overwrite",
                   nest[Noting].id \in rt.held)
    /\ UNCHANGED <<status, dest, rethrow, owed, leaked, made>>

(* A variable-length array: the first one in a scope marks the stack. *)
DeclareArray ==
    /\ InnermostIs("scope") /\ ~Innermost.vla
    /\ nest' = [nest EXCEPT ![Depth].vla = TRUE]
    /\ rt' = [rt EXCEPT !.stack = Append(@, Innermost.id)]
    /\ UNCHANGED <<status, dest, rethrow, owed, leaked, made>>

-----------------------------------------------------------------------------
(* Falling off the end of the innermost construct. *)
EndsInto(h) ==
    /\ nest' = Outside(nest, Depth)
    /\ rt' = h
    /\ UNCHANGED <<status, dest, rethrow, owed, leaked, made>>

EndLoop == InnermostIs("loop") /\ EndsInto(rt)

EndSwitch == InnermostIs("switch") /\ EndsInto(rt)

EndScope ==
    /\ InnermostIs("scope")
    /\ EndsInto(Release(IF Innermost.vla THEN RestoreStack(rt, Innermost.id) ELSE rt,
                        IF Innermost.local THEN {Innermost.id} ELSE {}))

EndPool == InnermostIs("pool") /\ EndsInto(PopPool(rt, Innermost.id))

EndSync == InnermostIs("sync") /\ EndsInto(Unlock(rt, Innermost.id))

EndTry ==
    /\ InnermostIs("try")
    /\ LeaveTry(Depth, rt)
    /\ UNCHANGED <<status, rethrow, leaked, made>>

EndCatchBody ==
    /\ InnermostIs("catch")
    /\ LeaveTry(Depth, EndCatch(rt))
    /\ UNCHANGED <<status, rethrow, leaked, made>>

(* The end of a @finally: the object goes back on its way, or control goes to the
   destination. *)
EndFinallyRethrow ==
    /\ InnermostIs("finally") /\ rethrow[Innermost.id]
    /\ status' = "unwinding"
    /\ nest' = Outside(nest, Depth)
    /\ rt' = EndCatch(rt)
    /\ UNCHANGED <<dest, rethrow, owed, leaked, made>>

EndFinally ==
    /\ InnermostIs("finally") /\ ~rethrow[Innermost.id]
    /\ GoTo(dest[Innermost.id], rt)
    /\ UNCHANGED <<dest, rethrow, leaked, made>>

-----------------------------------------------------------------------------
(* jumpOut: the locals and the pools, then the @finally blocks. *)
JumpOut(p, exit) ==
    /\ MayJump(p)
    /\ LeaveTries(exit, p, LeaveScopes(rt, nest, p))
    /\ UNCHANGED <<rethrow, leaked, made>>

Break ==
    /\ Running /\ Breakable(nest) # {}
    /\ LET p == Largest(Breakable(nest)) IN JumpOut(p, At(Outside(nest, p)))

Continue ==
    /\ Running /\ Positions(nest, {"loop"}) # {}
    /\ LET p == Largest(Positions(nest, {"loop"})) IN JumpOut(p, At(SubSeq(nest, 1, p)))

(* finishReturn: with no @finally open, release and return; otherwise the
   releases wait in a block of their own on the far side. *)
ReturnStmt ==
    /\ Running /\ MayLeave(0)
    /\ LeaveTries(Return(nest), 0, rt)
    /\ UNCHANGED <<rethrow, leaked, made>>

(* @throw, or any call that throws. *)
Throw ==
    /\ Running /\ MayThrow
    /\ status' = "unwinding"
    /\ UNCHANGED <<nest, dest, rethrow, rt, owed, leaked, made>>

-----------------------------------------------------------------------------
(* Unwinding.  The call's unwind edge is the pad of the innermost region, and
   the locals of the scopes inside it are passed over. *)
Unwinding == status = "unwinding"
Pad       == Largest(Handlers(nest))
PadIs(k)  == Unwinding /\ Handlers(nest) # {} /\ nest[Pad].kind = k

PassOver(p) == leaked' = leaked \cup IdsOf(nest, Inside(Strongs(nest), p))

(* escapePad: run what the region owes, and rethrow into what encloses it. *)
Escape(h) ==
    /\ rt' = h
    /\ nest' = Outside(nest, Pad)
    /\ PassOver(Pad)
    /\ UNCHANGED <<status, dest, rethrow, owed, made>>

(* Mutants of the pads: they rethrow and owe nothing. *)
EscapeSyncLocked == PadIs("sync") /\ Escape(rt)

EscapeCatchOpen == PadIs("catch") /\ Escape(rt)

EscapePool == PadIs("pool") /\ Escape(PopPool(rt, nest[Pad].id))

EscapeSync == PadIs("sync") /\ Escape(Unlock(rt, nest[Pad].id))

EscapeCatch == PadIs("catch") /\ Escape(EndCatch(rt))

EscapeFinally ==
    /\ PadIs("finally")
    /\ Escape(IF rethrow[nest[Pad].id] THEN EndCatch(rt) ELSE rt)

(* dispatchClauses: a @catch claims the exception. *)
CatchArm ==
    /\ PadIs("try") /\ nest[Pad].claims # "none"
    /\ status' = "running"
    /\ nest' = Append(Outside(nest, Pad), [nest[Pad] EXCEPT !.kind = "catch"])
    /\ rt' = BeginCatch(rt)
    /\ PassOver(Pad)
    /\ UNCHANGED <<dest, rethrow, owed, made>>

(* No @catch claims it and there is a @finally: the catch-all arm. *)
FinallyArm ==
    /\ PadIs("try") /\ nest[Pad].claims # "all" /\ nest[Pad].fin
    /\ status' = "running"
    /\ rethrow' = [rethrow EXCEPT ![nest[Pad].id] = TRUE]
    /\ LeaveTry(Pad, BeginCatch(rt))
    /\ PassOver(Pad)
    /\ UNCHANGED made

(* No clause of the pad matches: the personality does not stop at this frame. *)
StepPast ==
    /\ Unwinding
    /\ \/ Handlers(nest) = {}
       \/ PadIs("try") /\ nest[Pad].claims # "all" /\ ~nest[Pad].fin
    /\ status' = "thrown"
    /\ nest' = <<>>
    /\ rt' = [rt EXCEPT !.stack = <<>>]
    /\ PassOver(0)
    /\ UNCHANGED <<dest, rethrow, owed, made>>

Next == \/ EnterLoop \/ EnterSwitch \/ EnterScope \/ EnterPool \/ EnterSync \/ EnterTry
        \/ DeclareStrong \/ DeclareInSwitch \/ DeclareArray
        \/ EndLoop \/ EndSwitch \/ EndScope \/ EndPool \/ EndSync \/ EndTry \/ EndCatchBody
        \/ EndFinallyRethrow \/ EndFinally
        \/ Break \/ Continue \/ ReturnStmt \/ Throw
        \/ EscapePool \/ EscapeSync \/ EscapeCatch \/ EscapeFinally
        \/ CatchArm \/ FinallyArm \/ StepPast

Spec == Init /\ [][Next]_vars

-----------------------------------------------------------------------------
(* The properties.  Each compares what the running frame holds with what the
   constructs around the next statement own, and asks that a function that has
   been left, either way, holds nothing. *)
Left == status \in {"returned", "thrown"}

(* A return waits on the far side of a @finally that is running. *)
ReturnPending == \E p \in Positions(nest, {"finally"}) : dest[nest[p].id].op = "return"

(* "@finally blocks execute on all exit paths", once each and innermost first: the
   @finally blocks still to run are those of the @try statements around control. *)
FinallysOwed ==
    /\ Running => owed = IdsOf(nest, Finallys(nest))
    /\ Left => owed = {}

(* "The unlock happens on every path out": the locks held are those of the
   @synchronized statements around control. *)
LocksOwned ==
    /\ Running => rt.locks = IdsOf(nest, Positions(nest, {"sync"}))
    /\ Left => rt.locks = {}
    /\ "unlock" \notin rt.faults

(* Every pool is popped on every way out and none twice: the pools pushed are those
   of the @autoreleasepool blocks around control, and of a return that waits. *)
PoolsOwned ==
    /\ Running => /\ IdsOf(nest, Pools(nest)) \subseteq ToSet(rt.pools)
                  /\ ReturnPending \/ ToSet(rt.pools) = IdsOf(nest, Pools(nest))
    /\ Left => rt.pools = <<>>
    /\ "pop" \notin rt.faults

(* A strong local in scope is held wherever it can be named, the @finally blocks
   included; none is released twice; and none outlives its scope but those an
   exception passed over, which the lowering's README names as a leak; none is
   written over while it is held.  The stack
   holds the variable-length arrays in scope, so a loop gives each iteration's back. *)
LocalsOwned ==
    /\ Running => ToSet(rt.stack) = IdsOf(nest, Arrays(nest))
    /\ Running => /\ IdsOf(nest, Strongs(nest)) \subseteq rt.held
                  /\ ReturnPending \/ rt.held = IdsOf(nest, Strongs(nest)) \cup leaked
    /\ Left => rt.held \subseteq leaked
    /\ rt.faults \cap {"release", "overwrite"} = {}

(* begin_catch and end_catch stand around each @catch body, and around the run of a
   @finally an exception entered, whatever leaves them. *)
CatchesOwned ==
    /\ Running => rt.caught = Cardinality(Positions(nest, {"catch"}))
            + Cardinality({p \in Positions(nest, {"finally"}) : rethrow[nest[p].id]})
    /\ Left => rt.caught = 0
    /\ "end_catch" \notin rt.faults
=============================================================================
