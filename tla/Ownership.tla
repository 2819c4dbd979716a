----------------------------- MODULE Ownership -----------------------------
(* Who owns what while a statement runs under ARC (lower/arc.go, the expression
   forms of lower/expr.go and lower/objc.go that move a reference, and the
   statement expression of lower/stmtexpr.go).

   The program is any sequence of statements over a few strong locals, however
   long: at each point the environment picks the next expression.  "frames" is the
   path from the function's body to the expression being evaluated; temps is the
   register the lowering keeps, fn.temps; rt is what the emitted calls do to the
   reference counts.  One branch of a conditional is followed, the one that runs:
   the other leaves the register as it found it, since an arm releases what it
   registered and a return inside one finds the register empty.  A comma leaves on
   the register what its left operand made, as a send does with its receiver's,
   and has no case of its own.

   The Objective-C runtime and the callees are outside the repository.  A callee
   keeps ARC's conventions: what it hands back at +0 is in a pool or held by
   another object, which may let go of it during any later call. *)
EXTENDS Naturals, FiniteSets, SequencesExt

CONSTANTS Locals,        \* the names of the strong locals
          MaxObjects,    \* bound: objects alive at once
          MaxFrames,     \* bound: constructs around an expression
          Shapes         \* the shapes of program used beyond the plain ones

AllShapes == {"statement expression beside a temporary", "return in an initializer",
              "init returns another object", "self assigned another object",
              "self consumed in passing"}

ASSUME OwnershipAssumption ==
    /\ IsFiniteSet(Locals) /\ MaxObjects \in Nat \ {0} /\ MaxFrames \in Nat
    /\ Shapes \subseteq AllShapes

Objects == 1..MaxObjects
Nil     == 0
Absent  == MaxObjects + 1     \* a local that is not in scope
Garbage == MaxObjects + 2     \* a slot that has been noted and not yet written

VARIABLES initializer, \* the method being lowered owns its receiver, as init does
          mode,        \* statement: between statements; want: an expression is
                       \* about to be evaluated; have: val is one's value; done
          frames,      \* what waits for it, outermost first
          val,         \* the value, and whether it is an entry of temps
          temps,       \* fn.temps: what the full expression made and nothing took
          locals,      \* the slots of the strong locals, with fn.strongs
          self,        \* the receiver, and whether this frame owns a reference to it
          elsewhere,   \* an object something outside this frame holds
          rt,          \* reference counts, the pool's references, faults
          given        \* what the caller of this method was given at +1

vars == <<initializer, mode, frames, val, temps, locals, self, elsewhere, rt, given>>

(* Nothing tells the locals apart, so states that differ by their names are one. *)
LocalNames == Permutations(Locals)

NoValue == [o |-> Nil, own |-> FALSE]
Borrowed(o) == [o |-> o, own |-> FALSE]
Owned(o)    == [o |-> o, own |-> o # Nil]     \* nil is registered too, to no effect

-----------------------------------------------------------------------------
(* The runtime calls: nil is accepted everywhere, and a call on an object that is
   gone, or on a slot never written, is a fault. *)
Alive(o) == o = Nil \/ (o \in Objects /\ rt.rc[o] > 0)

Retain(h, o) ==
    IF o = Nil THEN h
    ELSE [h EXCEPT !.rc[o] = @ + 1,
                   !.faults = IF h.rc[o] = 0 THEN @ \cup {"retain"} ELSE @]

Times(s, o) == Cardinality({k \in DOMAIN s : s[k] = o})

(* Releases of the slots or temporaries in s. *)
ReleaseAll(h, s) ==
    [h EXCEPT !.rc = [o \in Objects |-> IF Times(s, o) > h.rc[o] THEN 0
                                        ELSE h.rc[o] - Times(s, o)],
              !.faults = IF \/ \E o \in Objects : Times(s, o) > h.rc[o]
                            \/ \E k \in DOMAIN s : s[k] = Garbage
                         THEN @ \cup {"release"} ELSE @]

Release(h, o) == ReleaseAll(h, <<o>>)

(* The slots of the locals in S. *)
Slots(S) == LET s == SetToSeq(S) IN [k \in DOMAIN s |-> locals[s[k]]]

(* The pool outlives the frame: it keeps an object however many references to it
   it has, and the model counts one. *)
Autorelease(h, o) == IF o = Nil THEN h
                     ELSE IF o \in h.pool THEN Release(h, o)
                     ELSE [h EXCEPT !.pool = @ \cup {o}]

(* An object is made under a name no living one has, the first there is. *)
Fresh == LET dead == {o \in Objects : rt.rc[o] = 0}
         IN  {o \in dead : \A d \in dead : o <= d}
Create(h, o) == [h EXCEPT !.rc[o] = 1]

-----------------------------------------------------------------------------
(* takeOwned: whether a value is on the register, and the register without it. *)
Registered(v) == v.own /\ \E k \in DOMAIN temps : temps[k] = v.o

Take(v) ==
    IF Registered(v)
    THEN RemoveAt(temps, CHOOSE k \in DOMAIN temps :
                            temps[k] = v.o /\ \A j \in DOMAIN temps : temps[j] = v.o => j <= k)
    ELSE temps

(* Mutant of rvalueOwned: what is already owned is retained all the same. *)
ClaimTwice(h, v) == Retain(h, v.o)

(* A context that takes ownership: a value on the register is taken off it, a
   borrowed one retained. *)
Claim(h, v) == IF Registered(v) THEN h ELSE Retain(h, v.o)

(* tempMark and releaseTempsSince: what a register holds past a mark, and before. *)
Mark == Len(temps)
Since(s, mark) == SubSeq(s, mark + 1, Len(s))
Until(s, mark) == IF Len(s) <= mark THEN s ELSE SubSeq(s, 1, mark)

Register(s, o) == IF o = Nil THEN s ELSE Append(s, o)

-----------------------------------------------------------------------------
(* Frames.  "expr", "init" and "return" are statements, "block" a statement
   expression, the others expressions. *)
Frame(k, name, o, mark) == [k |-> k, name |-> name, o |-> o, mark |-> mark]

Top      == frames[Len(frames)]
TopIs(k) == frames # <<>> /\ Top.k = k
Below    == SubSeq(frames, 1, Len(frames) - 1)
InBlock  == TopIs("block")

Push(f) == frames' = Append(frames, f) /\ Len(frames) < MaxFrames
Become(f) == frames' = Append(Below, f)

Scope == {v \in Locals : locals[v] # Absent}
Readable == {v \in Locals : locals[v] \notin {Absent, Garbage}}

Init ==
    /\ initializer \in BOOLEAN
    /\ mode = "statement"
    /\ frames = <<>> /\ val = NoValue /\ temps = <<>>
    \* object 1 is the receiver, which an initializer owns and any other method's
    \* caller keeps alive; or an argument, which a strong parameter retains and
    \* something else holds
    /\ \E receiver \in {TRUE, initializer}, first \in Locals :
        /\ self = [o |-> IF receiver THEN 1 ELSE Nil, owned |-> initializer]
        /\ locals = [v \in Locals |-> IF v # first THEN Absent ELSE IF receiver THEN Nil ELSE 1]
        /\ elsewhere = IF receiver THEN Nil ELSE 1
        /\ rt = [rc |-> [o \in Objects |-> IF o # 1 THEN 0 ELSE IF receiver THEN 1 ELSE 2],
                 pool |-> {}, faults |-> {}]
    /\ given = Nil

-----------------------------------------------------------------------------
Unless(shape, ok) == shape \in Shapes \/ ok

(* Statements.  In a statement expression the last one is its value. *)
Statement == mode = "statement"

Begin(f) ==
    /\ Statement
    /\ Push(f)
    /\ mode' = "want"

ExprStatement ==
    /\ Begin(Frame("expr", "", Nil, 0))
    /\ UNCHANGED <<initializer, val, temps, locals, self, elsewhere, rt, given>>

(* localDecl of a strong local: noted before its initializer is evaluated. *)
DeclareStrong ==
    \E v \in Locals \ Scope :
        /\ Begin(Frame("init", v, Nil, 0))
        /\ locals' = [locals EXCEPT ![v] = Garbage]
        /\ UNCHANGED <<initializer, val, temps, self, elsewhere, rt, given>>

ReturnStatement ==
    /\ Begin(Frame("return", "", Nil, 0))
    /\ Unless("return in an initializer", \A v \in Locals : locals[v] # Garbage)
    /\ UNCHANGED <<initializer, val, temps, locals, self, elsewhere, rt, given>>

(* The last item of a statement expression: its value leaves the block at +1. *)
BlockValue ==
    /\ Statement /\ InBlock
    /\ Become([Top EXCEPT !.k = "result"])
    /\ mode' = "want"
    /\ UNCHANGED <<initializer, val, temps, locals, self, elsewhere, rt, given>>

-----------------------------------------------------------------------------
(* Expressions.  A local that an expression still waits on, or self, is not assigned
   by the rest of it: C leaves that undefined. *)
Want == mode = "want"

Value(v) == mode' = "have" /\ val' = v /\ UNCHANGED <<initializer, frames, self, given>>

(* What is assigned to self, and what an initializer returns, is the result of an
   init sent to self or super, or self itself (ConsumeSelf, ReturnSelf). *)
AnyUse == /\ TopIs("self") => "self assigned another object" \in Shapes
          /\ initializer /\ TopIs("return") => "init returns another object" \in Shapes

LoadLocal ==
    /\ Want /\ AnyUse
    /\ \E v \in Readable : Value(Borrowed(locals[v]))
    /\ UNCHANGED <<temps, locals, elsewhere, rt>>

LoadNil ==
    /\ Want /\ (AnyUse \/ (TopIs("return") /\ self.o = Nil))
    /\ Value(NoValue)
    /\ UNCHANGED <<temps, locals, elsewhere, rt>>

(* In an initializer, a receiver of an init that is written self is ConsumeSelf's. *)
LoadSelf ==
    /\ Want /\ AnyUse
    /\ ~(initializer /\ TopIs("receiver") /\ Top.name = "init")
    /\ Value(Borrowed(self.o))
    /\ UNCHANGED <<temps, locals, elsewhere, rt>>

(* loadFrom a weak slot: retained, and a temporary of the full expression.  A slot
   somewhere may refer to any object; that of a dead one reads nil. *)
LoadWeak ==
    /\ Want /\ AnyUse
    /\ \E o \in {a \in Objects : rt.rc[a] > 0} :
        /\ Value(Owned(o))
        /\ temps' = Register(temps, o)
        /\ rt' = Retain(rt, o)
    /\ UNCHANGED <<locals, elsewhere>>

(* [C new], a copy, a __bridge_transfer: a +1 nothing has claimed. *)
MakeOwned ==
    /\ Want /\ AnyUse
    /\ \E o \in Fresh :
        /\ Value(Owned(o))
        /\ temps' = Register(temps, o)
        /\ rt' = Create(rt, o)
    /\ UNCHANGED <<locals, elsewhere>>

(* The receiver of an init that waits for its argument: message has taken it. *)
Consumed(k) == frames[k].k = "argument" /\ frames[k].name = "init"

Open(f) == Want /\ AnyUse /\ Push(f)
    /\ UNCHANGED <<initializer, mode, val, temps, locals, self, elsewhere, rt, given>>

OpenSend  == \E fam \in {"plain", "init"} : Open(Frame("receiver", fam, Nil, 0))
OpenElvis == Open(Frame("elvis", "", Nil, Mark))

Waiting(o) == \E k \in DOMAIN frames : frames[k].k = "argument" /\ frames[k].o = o

OpenAssign == \E v \in Readable : ~Waiting(locals[v]) /\ Open(Frame("assign", v, Nil, 0))

OpenAutoreleasing == Open(Frame("autoreleasing", "", Nil, 0))     \* *error = e

(* An operand of && or ||, or what a conditional tests: what it made ends where its
   truth is known. *)
OpenTest == Open(Frame("test", "", Nil, Mark))

OpenBlock ==
    /\ Want /\ AnyUse
    /\ Unless("statement expression beside a temporary",
              temps = <<>> /\ \A k \in DOMAIN frames : ~Consumed(k))
    /\ Push(Frame("block", Scope, Nil, 0))
    /\ mode' = "statement"
    /\ UNCHANGED <<initializer, val, temps, locals, self, elsewhere, rt, given>>

(* self = e, in an initializer. *)
OpenSelf ==
    /\ Want /\ TopIs("expr") /\ initializer /\ ~Waiting(self.o)
    /\ Push(Frame("self", "", Nil, 0))
    /\ UNCHANGED <<initializer, mode, val, temps, locals, self, elsewhere, rt, given>>

-----------------------------------------------------------------------------
(* A value arrives. *)
Have == mode = "have"
HaveFor(k) == Have /\ TopIs(k)

(* The receiver of an init is consumed: the +1 it carries, or one taken now.  It is
   neither super nor, in an initializer, self. *)
TakeReceiver ==
    /\ HaveFor("receiver")
    /\ Become(Frame("argument", Top.name, val.o, 0))
    /\ mode' = "want" /\ val' = NoValue
    /\ IF Top.name = "init"
       THEN temps' = Take(val) /\ rt' = Claim(rt, val)
       ELSE UNCHANGED <<temps, rt>>
    /\ UNCHANGED <<initializer, locals, self, elsewhere, given>>

(* What a callee does: o is its result, at +0 or +1 by its name, h and e the
   counts and the object held elsewhere afterwards.  It may create an object,
   leave it elsewhere, or let go of what is held there. *)
Callees(fam, recv) ==
    LET keep == [o |-> Nil, h |-> rt, e |-> elsewhere]
        borrowed == {[keep EXCEPT !.o = o] : o \in {Nil, recv, elsewhere}}
                    \cup {[keep EXCEPT !.o = n, !.h = Autorelease(Create(rt, n), n)] : n \in Fresh}
                    \cup {[o |-> n, h |-> Create(Release(rt, elsewhere), n), e |-> n] : n \in Fresh}
                    \cup {[keep EXCEPT !.h = Release(rt, elsewhere), !.e = Nil]}
        inited   == {[keep EXCEPT !.o = recv], [keep EXCEPT !.h = Release(rt, recv)]}
                    \cup {[keep EXCEPT !.o = n, !.h = Create(Release(rt, recv), n)] : n \in Fresh}
    IN  IF recv = Nil THEN {keep} ELSE IF fam = "plain" THEN borrowed ELSE inited

(* Mutant of claimResult: a result at +0 is not retained. *)
ClaimNothing(h, fam, o) == h

(* claimResult: a result at +0 is retained on the spot.  A name that promises +1
   is taken at its word. *)
ClaimResult(h, fam, o) == IF fam = "plain" THEN Retain(h, o) ELSE h

Returned(c, h, fam) ==
    /\ rt' = ClaimResult(h, fam, c.o)
    /\ val' = Owned(c.o)
    /\ temps' = Register(temps, c.o)
    /\ elsewhere' = c.e
    /\ frames' = Below
    /\ UNCHANGED <<initializer, mode, self, given>>

(* message: the send, once its last argument has a value. *)
Send ==
    /\ HaveFor("argument")
    /\ \E c \in Callees(Top.name, Top.o) : Returned(c, c.h, Top.name)
    /\ UNCHANGED locals

(* A send whose last argument is &v: the callee is handed a temporary that holds
   what v does, and what it left there is retained into v after the call. *)
SendOut ==
    /\ Want /\ TopIs("argument") /\ Top.name = "plain"
    /\ \E v \in Readable, c \in Callees("plain", Top.o) :
        /\ ~Waiting(locals[v])
        /\ mode' = "have"
        /\ \E out \in {Nil, locals[v], c.o} :
            /\ locals' = [locals EXCEPT ![v] = out]
            /\ rt' = ClaimResult(Release(Retain(c.h, out), locals[v]), "plain", c.o)
        /\ val' = Owned(c.o)
        /\ temps' = Register(temps, c.o)
        /\ elsewhere' = c.e
        /\ frames' = Below
    /\ UNCHANGED <<initializer, self, given>>

(* [super init], and in an initializer [self init]: message leaves a receiver that is
   super or consumingSelf as it is, and the call consumes the reference the method
   was called with. *)
ConsumeSelf ==
    /\ Want /\ initializer
    /\ Unless("self consumed in passing", TopIs("self") \/ TopIs("return"))
    /\ \E c \in Callees("init", self.o) :
        /\ rt' = c.h
        /\ val' = Owned(c.o)
        /\ temps' = Register(temps, c.o)
        /\ elsewhere' = c.e
        /\ self' = [self EXCEPT !.owned = FALSE]
    /\ mode' = "have"
    /\ UNCHANGED <<initializer, frames, locals, given>>

(* consumingSelf: the store takes the +1 and releases nothing. *)
AssignSelf ==
    /\ HaveFor("self")
    /\ self' = [o |-> val.o, owned |-> TRUE]
    /\ temps' = Take(val)
    /\ val' = Borrowed(val.o)
    /\ frames' = Below
    /\ UNCHANGED <<initializer, mode, locals, elsewhere, rt, given>>

(* Mutant of storeStrong: the old value goes before the new one is owned. *)
ReplaceEarly(h, old, v) == Claim(Release(h, old), v)

(* storeStrong: the new value is owned, then the old one is let go. *)
Replace(h, old, v) == Release(Claim(h, v), old)

AssignStrong ==
    /\ HaveFor("assign")
    /\ LET v == Top.name IN
        /\ rt' = Replace(rt, locals[v], val)
        /\ locals' = [locals EXCEPT ![v] = val.o]
    /\ temps' = Take(val)
    /\ val' = Borrowed(val.o)
    /\ frames' = Below
    /\ UNCHANGED <<initializer, mode, self, elsewhere, given>>

(* autoreleasingValue: the pool is made to hold it. *)
AssignAutoreleasing ==
    /\ HaveFor("autoreleasing")
    /\ rt' = Autorelease(Claim(rt, val), val.o)
    /\ temps' = Take(val)
    /\ val' = Borrowed(val.o)
    /\ frames' = Below
    /\ UNCHANGED <<initializer, mode, locals, self, elsewhere, given>>

(* A test's temporaries go; its truth picks the arm, or the next operand, that is
   evaluated, or is itself the value, which is no object. *)
Decide ==
    /\ HaveFor("test")
    /\ rt' = ReleaseAll(rt, Since(temps, Top.mark))
    /\ temps' = Until(temps, Top.mark)
    /\ val' = NoValue
    /\ \/ mode' = "want" /\ Become([Top EXCEPT !.k = "arm"])
       \/ mode' = "want" /\ UNCHANGED frames
       \/ mode' = "have" /\ frames' = Below
    /\ UNCHANGED <<initializer, locals, self, elsewhere, given>>

(* The value of an arm, of the tested operand of ?:, or of a block, leaves at +1;
   what else was registered since ends there. *)
LeaveArm(mark) ==
    LET taken == Take(val) IN
    /\ rt' = ReleaseAll(Claim(rt, val), Since(taken, mark))
    /\ temps' = Register(Until(taken, mark), val.o)
    /\ val' = Owned(val.o)

EndArm ==
    /\ HaveFor("arm")
    /\ LeaveArm(Top.mark)
    /\ frames' = Below
    /\ UNCHANGED <<initializer, mode, locals, self, elsewhere, given>>

ElvisHolds ==
    /\ HaveFor("elvis") /\ val.o # Nil
    /\ LeaveArm(Top.mark)
    /\ frames' = Below
    /\ UNCHANGED <<initializer, mode, locals, self, elsewhere, given>>

ElvisFails ==
    /\ HaveFor("elvis") /\ val.o = Nil
    /\ rt' = ReleaseAll(rt, Since(temps, Top.mark))
    /\ temps' = Until(temps, Top.mark)
    /\ Become([Top EXCEPT !.k = "arm"])
    /\ mode' = "want" /\ val' = NoValue
    /\ UNCHANGED <<initializer, locals, self, elsewhere, given>>

(* stmtExpr: the value at +1, then the block's own locals. *)
EndBlock ==
    /\ HaveFor("result")
    /\ LET gone == Scope \ Top.name IN
        /\ rt' = ReleaseAll(Claim(rt, val), Slots(gone))
        /\ locals' = [v \in Locals |-> IF v \in gone THEN Absent ELSE locals[v]]
    /\ temps' = Register(Take(val), val.o)
    /\ val' = Owned(val.o)
    /\ frames' = Below
    /\ UNCHANGED <<initializer, mode, self, elsewhere, given>>

-----------------------------------------------------------------------------
(* The end of a statement: releaseTemps. *)
NextStatement(h, left) ==
    /\ rt' = ReleaseAll(h, left)
    /\ temps' = <<>>
    /\ mode' = "statement"
    /\ frames' = Below
    /\ val' = NoValue

EndExpr ==
    /\ HaveFor("expr")
    /\ NextStatement(rt, temps)
    /\ UNCHANGED <<initializer, locals, self, elsewhere, given>>

(* initStrong: there is no old value to release. *)
EndDeclaration ==
    /\ HaveFor("init")
    /\ NextStatement(Claim(rt, val), Take(val))
    /\ locals' = [locals EXCEPT ![Top.name] = val.o]
    /\ UNCHANGED <<initializer, self, elsewhere, given>>

(* finishReturn: the frame lets go of everything it holds and hands over a value
   at +1; a name that promises +1 gives it to the caller, any other puts it in the
   pool. *)
Leave(o, h, left) ==
    /\ LET empty == ReleaseAll(ReleaseAll(h, left), Slots(Scope)) IN
        \/ ~initializer /\ rt' = Autorelease(empty, o) /\ UNCHANGED given
        \/ rt' = empty /\ given' = o
    /\ self' = [self EXCEPT !.owned = FALSE]
    /\ locals' = [v \in Locals |-> Absent]
    /\ temps' = <<>> /\ frames' = <<>> /\ val' = NoValue /\ mode' = "done"
    /\ UNCHANGED <<initializer, elsewhere>>

(* returnStmt and returnObject: a borrowed value is retained. *)
EndReturn ==
    /\ HaveFor("return")
    /\ Leave(val.o, Claim(rt, val), Take(val))

(* return self, in an initializer: the reference it was called with goes back. *)
ReturnSelf ==
    /\ Want /\ TopIs("return") /\ initializer
    /\ Leave(self.o, rt, temps)

Finished == mode = "done" /\ UNCHANGED vars

Next ==
    \/ ExprStatement \/ DeclareStrong \/ ReturnStatement \/ BlockValue
    \/ LoadLocal \/ LoadNil \/ LoadSelf \/ LoadWeak \/ MakeOwned
    \/ OpenSend \/ OpenElvis \/ OpenAssign \/ OpenAutoreleasing
    \/ OpenTest \/ OpenBlock \/ OpenSelf
    \/ TakeReceiver \/ Send \/ SendOut \/ ConsumeSelf \/ AssignSelf
    \/ AssignStrong \/ AssignAutoreleasing
    \/ Decide \/ EndArm \/ ElvisHolds \/ ElvisFails
    \/ EndBlock \/ EndExpr \/ EndDeclaration \/ EndReturn \/ ReturnSelf
    \/ Finished

Spec == Init /\ [][Next]_vars

-----------------------------------------------------------------------------
(* A return inside a statement expression leaves what waits for it for good. *)
Abandoned(k) == \E j \in DOMAIN frames : j > k /\ frames[j].k = "return"

(* An object that an expression has evaluated and not yet used is alive: the value
   in hand, and every receiver that waits for its argument, whatever the calls and
   the statements evaluated meanwhile let go of (arc.go:12-15, 104-110). *)
PendingAlive ==
    /\ mode = "have" => Alive(val.o)
    /\ \A k \in DOMAIN frames :
        frames[k].k = "argument" /\ ~Abandoned(k) => Alive(frames[k].o)

(* The references to o that the frame knows of, and those outside it: the caller
   keeps a receiver it has not handed over. *)
Holders(o) ==
    Cardinality({v \in Locals : locals[v] = o})
    + Times(temps, o)
    + Cardinality({k \in DOMAIN frames : Consumed(k) /\ frames[k].o = o})
    + Cardinality({h \in {<<"elsewhere", elsewhere>>, <<"given", given>>} : h[2] = o})
    + (IF o \in rt.pool THEN 1 ELSE 0)
    + (IF initializer THEN (IF self.owned /\ self.o = o THEN 1 ELSE 0)
       ELSE IF self.o = o THEN 1 ELSE 0)

(* At every point each reference taken has exactly one place that will let go of
   it: a local, the register, a pool, a consuming call, the caller.  When the method
   has returned only those outside it are left, so nothing leaks and nothing is
   released early (arc.go: claimResult, storeStrong, returnObject, releaseTemps). *)
Accounted == \A o \in Objects : rt.rc[o] = Holders(o)

(* No retain or release reaches an object that is gone or a slot never written
   (arc.go:364-369: "releasing first can free what is about to be stored"). *)
NoFaults == rt.faults = {}
=============================================================================
