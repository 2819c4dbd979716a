--------------------------- MODULE Exits_proofs ---------------------------
(* Proofs about Exits, for any number of constructs and any nesting: the five
   properties of its runs, each without the shapes of exit that break it.

   The locks and the @finally blocks come first.  What makes them true is where the
   @finally blocks that are running will go: past nothing that owes an unlock or
   another @finally ("Leads").

   The pools, the locals with the arrays, and the catches share an argument.  "Owns"
   says what a construct owns of a kind, "Held" what the nest and the returns that
   wait own of it, "Sound" what keeps the two together, and "Watches" names the kinds
   one property has to follow; a lemma per action says how the step changes what is
   held.  PoolsInv, LocalsInv and CatchesInv are the inductive invariants: the nest
   is sound for the kinds watched, and the frame has what is held. *)
EXTENDS Exits, SequenceTheorems, WellFoundedInduction, FiniteSetTheorems, TLAPS

(* A set of positions that is not empty has a largest one. *)
LEMMA LargestExists ==
    ASSUME NEW N \in Nat, NEW ps, ps \subseteq 1..N, ps # {}
    PROVE  Largest(ps) \in ps /\ \A q \in ps : q <= Largest(ps)
<1> DEFINE T == {x \in Nat : N - x \in ps}
           R == OpToRel(<, Nat)
<1>1. PICK p0 \in ps : TRUE
  OBVIOUS
<1>2. N - p0 \in T
  <2>1. p0 \in 1..N
    BY <1>1
  <2> QED BY <2>1
<1>3. PICK x \in T : \A y \in T : ~ (<<y, x>> \in R)
  BY <1>2, NatLessThanWellFounded, WFMin
<1>4. \A y \in T : ~ (y < x)
  BY <1>3 DEF OpToRel
<1>5. ASSUME NEW q \in ps PROVE q <= N - x
  <2>1. q \in 1..N
    OBVIOUS
  <2>2. N - q \in T
    BY <2>1
  <2>3. ~ (N - q < x)
    BY <1>4, <2>2
  <2> HIDE DEF T
  <2>4. x \in Nat
    BY DEF T
  <2> QED BY <2>1, <2>3, <2>4
<1>6. N - x \in ps
  OBVIOUS
<1>7. \E p \in ps : \A q \in ps : q <= p
  BY <1>5, <1>6
<1> QED BY <1>7 DEF Largest

-----------------------------------------------------------------------------
(* The shapes of exit that leave a lock held or a @finally not run; the properties
   are proved of every program without them. *)
Owing == {"leave sync", "two finallys", "throw in catch", "no claim"}

Records == [kind : ConstructKinds \cup {"catch", "finally"}, id : Nat, fin : BOOLEAN,
            claims : {"none", "some", "all"}, local : BOOLEAN, vla : BOOLEAN]

HandlerKinds == {"try", "catch", "finally", "pool", "sync"}

Syncs(n) == IdsOf(n, Positions(n, {"sync"}))
Fins(n)  == IdsOf(n, Finallys(n))

(* The constructs that owe an unlock or the run of a @finally. *)
Owes(c) == \/ c.kind = "sync"
           \/ c.kind \in {"try", "catch"} /\ c.fin

(* Leaving n for the exit e passes over nothing that owes. *)
Leads(n, e) ==
    \/ e.op = "return" /\ \A q \in 1..Len(n) : ~Owes(n[q])
    \/ e.op = "at" /\ \E k \in 0..Len(n) : /\ e.nest = SubSeq(n, 1, k)
                                           /\ \A q \in (k + 1)..Len(n) : ~Owes(n[q])

(* No @catch body of n is in a @try with a @finally. *)
CatchesPlain(n) == \A q \in 1..Len(n) : n[q].kind = "catch" => ~n[q].fin

Named(n, m) ==
    /\ n \in Seq(Records)
    /\ \A p \in 1..Len(n) : n[p].id \in 1..m
    /\ \A p, q \in 1..Len(n) : n[p].id = n[q].id => p = q

(* A @finally that runs leads out; one that was entered by unwinding is in no
   @catch body that owes another. *)
Directed(n, d, r) ==
    \A p \in 1..Len(n) :
        /\ n[p].kind = "finally" => Leads(Outside(n, p), d[n[p].id])
        /\ n[p].kind = "finally" /\ r[n[p].id] => CatchesPlain(Outside(n, p))
        /\ n[p].kind \in {"try", "catch"} => ~r[n[p].id]

(* An exception that a @try neither claims nor has a @finally for finds no handler
   around it. *)
Claimed(n) ==
    \A p \in 1..Len(n) : n[p].kind = "try" /\ ~n[p].fin /\ n[p].claims # "all" =>
        \A q \in 1..(p - 1) : n[q].kind \notin HandlerKinds

Shaped(n, d, r, m) == Named(n, m) /\ Directed(n, d, r) /\ Claimed(n)

RtOK(h) == /\ {"pools", "locks", "caught", "held", "stack", "faults"} \subseteq DOMAIN h
           /\ "unlock" \notin h.faults

IInv ==
    /\ status \in {"running", "unwinding", "returned", "thrown"}
    /\ made \in 0..MaxConstructs
    /\ dest = [i \in Ids |-> dest[i]] /\ rethrow = [i \in Ids |-> rethrow[i]]
    /\ Shaped(nest, dest, rethrow, made)
    /\ status = "unwinding" => CatchesPlain(nest)
    /\ Left => nest = <<>>
    /\ RtOK(rt)
    /\ rt.locks = Syncs(nest)
    /\ owed = Fins(nest)

-----------------------------------------------------------------------------
(* The calls to the runtime that take no lock keep the locks, and are not the
   fault of an unlock. *)
LEMMA FaultKeeps ==
    ASSUME NEW h, RtOK(h), NEW what, NEW bad, what # "unlock"
    PROVE  RtOK(Fault(h, what, bad)) /\ Fault(h, what, bad).locks = h.locks
BY DEF RtOK, Fault

LEMMA PopPoolKeeps ==
    ASSUME NEW h, RtOK(h), NEW id
    PROVE  RtOK(PopPool(h, id)) /\ PopPool(h, id).locks = h.locks
<1> DEFINE at == {k \in 1..Len(h.pools) : h.pools[k] = id}
<1>1. CASE at = {}
  BY <1>1, FaultKeeps DEF PopPool
<1>2. CASE at # {}
  BY <1>2 DEF PopPool, RtOK
<1> QED BY <1>1, <1>2

LEMMA PopPoolsKeeps ==
    ASSUME NEW h, RtOK(h), NEW n, NEW ps
    PROVE  RtOK(PopPools(h, n, ps)) /\ PopPools(h, n, ps).locks = h.locks
BY PopPoolKeeps, FaultKeeps DEF PopPools

LEMMA ReleaseKeeps ==
    ASSUME NEW h, RtOK(h), NEW ids
    PROVE  RtOK(Release(h, ids)) /\ Release(h, ids).locks = h.locks
<1> DEFINE g == [h EXCEPT !.held = @ \ ids]
           bad == ~(ids \subseteq h.held)
<1>1. RtOK(g) /\ g.locks = h.locks
  BY DEF RtOK
<1>2. Release(h, ids) = Fault(g, "release", bad)
  BY DEF Release
<1> HIDE DEF g, bad
<1>3. RtOK(Fault(g, "release", bad)) /\ Fault(g, "release", bad).locks = g.locks
  BY <1>1, FaultKeeps
<1> QED BY <1>1, <1>2, <1>3

LEMMA RestoreStackKeeps ==
    ASSUME NEW h, RtOK(h), NEW id
    PROVE  RtOK(RestoreStack(h, id)) /\ RestoreStack(h, id).locks = h.locks
<1> DEFINE at == {k \in 1..Len(h.stack) : h.stack[k] = id}
<1>1. CASE at = {}
  BY <1>1 DEF RestoreStack
<1>2. CASE at # {}
  BY <1>2 DEF RestoreStack, RtOK
<1> QED BY <1>1, <1>2

LEMMA CatchKeeps ==
    ASSUME NEW h, RtOK(h)
    PROVE  /\ RtOK(BeginCatch(h)) /\ BeginCatch(h).locks = h.locks
           /\ RtOK(EndCatch(h)) /\ EndCatch(h).locks = h.locks
<1>1. RtOK(BeginCatch(h)) /\ BeginCatch(h).locks = h.locks
  BY DEF BeginCatch, RtOK
<1>2. CASE h.caught = 0
  BY <1>1, <1>2, FaultKeeps DEF EndCatch
<1>3. CASE h.caught # 0
  BY <1>1, <1>3 DEF EndCatch, RtOK
<1> QED BY <1>1, <1>2, <1>3

LEMMA LeaveScopesKeeps ==
    ASSUME NEW h, RtOK(h), NEW n, NEW p
    PROVE  RtOK(LeaveScopes(h, n, p)) /\ LeaveScopes(h, n, p).locks = h.locks
BY ReleaseKeeps, PopPoolsKeeps DEF LeaveScopes

-----------------------------------------------------------------------------
(* Sequences of constructs: what is outside a position, and one construct more. *)
LEMMA Prefix ==
    ASSUME NEW n \in Seq(Records), NEW k \in 0..Len(n)
    PROVE  /\ SubSeq(n, 1, k) \in Seq(Records)
           /\ Len(SubSeq(n, 1, k)) = k
           /\ \A i \in 1..k : SubSeq(n, 1, k)[i] = n[i]
OBVIOUS

LEMMA PrefixOfAlike ==
    ASSUME NEW n \in Seq(Records), NEW o \in Seq(Records),
           NEW k \in 0..Len(n), k <= Len(o), \A i \in 1..k : n[i] = o[i]
    PROVE  SubSeq(n, 1, k) = SubSeq(o, 1, k)
<1>1. k \in 0..Len(o)
  OBVIOUS
<1> QED BY <1>1, Prefix, SeqEqual

LEMMA PrefixOfPrefix ==
    ASSUME NEW n \in Seq(Records), NEW k \in 0..Len(n), NEW j \in 0..k
    PROVE  SubSeq(SubSeq(n, 1, k), 1, j) = SubSeq(n, 1, j)
<1> DEFINE o == SubSeq(n, 1, k)
<1>1. o \in Seq(Records) /\ Len(o) = k /\ \A i \in 1..k : o[i] = n[i]
  BY Prefix
<1> HIDE DEF o
<1>2. SubSeq(o, 1, j) = SubSeq(n, 1, j)
  BY <1>1, PrefixOfAlike
<1> QED BY <1>2 DEF o

LEMMA OneMore ==
    ASSUME NEW n \in Seq(Records), NEW c \in Records
    PROVE  /\ Append(n, c) \in Seq(Records)
           /\ Len(Append(n, c)) = Len(n) + 1
           /\ \A i \in 1..Len(n) : Append(n, c)[i] = n[i]
           /\ Append(n, c)[Len(n) + 1] = c
           /\ \A k \in 0..Len(n) : SubSeq(Append(n, c), 1, k) = SubSeq(n, 1, k)
<1>1. /\ Append(n, c) \in Seq(Records)
      /\ Len(Append(n, c)) = Len(n) + 1
      /\ \A i \in 1..Len(n) : Append(n, c)[i] = n[i]
      /\ Append(n, c)[Len(n) + 1] = c
  OBVIOUS
<1>2. ASSUME NEW k \in 0..Len(n)
      PROVE  SubSeq(Append(n, c), 1, k) = SubSeq(n, 1, k)
  BY <1>1, PrefixOfAlike
<1> QED BY <1>1, <1>2

(* What nest n owes, position by position. *)
LEMMA SyncsMember ==
    ASSUME NEW n, NEW i
    PROVE  i \in Syncs(n) <=> \E p \in 1..Len(n) : n[p].kind = "sync" /\ n[p].id = i
BY DEF Syncs, IdsOf, Positions

LEMMA FinsMember ==
    ASSUME NEW n, NEW i
    PROVE  i \in Fins(n) <=> \E p \in 1..Len(n) : /\ n[p].kind \in {"try", "catch"}
                                                /\ n[p].fin
                                                /\ n[p].id = i
BY DEF Fins, IdsOf, Finallys, Tries, Positions

(* Constructs that owe nothing can be left out. *)
LEMMA PrefixOwes ==
    ASSUME NEW n \in Seq(Records), NEW k \in 0..Len(n),
           \A q \in (k + 1)..Len(n) : ~Owes(n[q])
    PROVE  Syncs(SubSeq(n, 1, k)) = Syncs(n) /\ Fins(SubSeq(n, 1, k)) = Fins(n)
<1> DEFINE o == SubSeq(n, 1, k)
<1>1. o \in Seq(Records) /\ Len(o) = k /\ \A i \in 1..k : o[i] = n[i]
  BY Prefix
<1> HIDE DEF o
<1>2. \A q \in 1..Len(n) : Owes(n[q]) => q \in 1..k
  OBVIOUS
<1>3. ASSUME NEW i PROVE i \in Syncs(o) <=> i \in Syncs(n)
  BY <1>1, <1>2, SyncsMember DEF Owes
<1>4. ASSUME NEW i PROVE i \in Fins(o) <=> i \in Fins(n)
  BY <1>1, <1>2, FinsMember DEF Owes
<1>5. Syncs(o) = Syncs(n) /\ Fins(o) = Fins(n)
  BY <1>3, <1>4
<1> QED BY <1>5 DEF o

(* One construct more adds what it owes. *)
LEMMA OneMoreOwes ==
    ASSUME NEW n \in Seq(Records), NEW c \in Records
    PROVE  /\ Syncs(Append(n, c)) = IF c.kind = "sync" THEN Syncs(n) \cup {c.id} ELSE Syncs(n)
           /\ Fins(Append(n, c)) = IF c.kind \in {"try", "catch"} /\ c.fin
                                   THEN Fins(n) \cup {c.id} ELSE Fins(n)
<1> DEFINE o == Append(n, c)
<1>1. /\ Len(n) \in Nat /\ Len(o) = Len(n) + 1
      /\ \A i \in 1..Len(n) : o[i] = n[i]
      /\ o[Len(n) + 1] = c
  BY OneMore
<1> HIDE DEF o
<1>2. \A p : p \in 1..Len(o) <=> p \in 1..Len(n) \/ p = Len(n) + 1
  BY <1>1
<1>3. ASSUME NEW i
      PROVE  i \in Syncs(o) <=> i \in Syncs(n) \/ (c.kind = "sync" /\ i = c.id)
  BY <1>1, <1>2, SyncsMember
<1>4. ASSUME NEW i
      PROVE  i \in Fins(o) <=> i \in Fins(n) \/ (c.kind \in {"try", "catch"} /\ c.fin /\ i = c.id)
  BY <1>1, <1>2, FinsMember
<1>5. Syncs(o) = IF c.kind = "sync" THEN Syncs(n) \cup {c.id} ELSE Syncs(n)
  BY <1>3
<1>6. Fins(o) = IF c.kind \in {"try", "catch"} /\ c.fin THEN Fins(n) \cup {c.id} ELSE Fins(n)
  BY <1>4
<1> QED BY <1>5, <1>6 DEF o

-----------------------------------------------------------------------------
(* What keeps a nest in shape: leaving its end out, *)
LEMMA Truncate ==
    ASSUME NEW n, NEW d, NEW r, NEW m \in Nat, Shaped(n, d, r, m), NEW k \in 0..Len(n)
    PROVE  /\ Shaped(SubSeq(n, 1, k), d, r, m)
           /\ CatchesPlain(n) => CatchesPlain(SubSeq(n, 1, k))
<1> DEFINE o == SubSeq(n, 1, k)
<1>0. n \in Seq(Records)
  BY DEF Shaped, Named
<1>1. o \in Seq(Records) /\ Len(o) = k /\ \A i \in 1..k : o[i] = n[i]
  BY <1>0, Prefix
<1>2. \A p \in 1..k : Outside(o, p) = Outside(n, p)
  BY <1>0, PrefixOfPrefix DEF Outside
<1> HIDE DEF o
<1>3. Named(o, m)
  <2>1. \A p \in 1..k : p \in 1..Len(n)
    BY <1>0
  <2>2. \A p \in 1..k : o[p].id \in 1..m
    BY <1>1, <2>1 DEF Shaped, Named
  <2>3. \A p, q \in 1..k : o[p].id = o[q].id => p = q
    BY <1>1, <2>1 DEF Shaped, Named
  <2> QED BY <1>1, <2>2, <2>3 DEF Named
<1>4. Directed(o, d, r)
  BY <1>1, <1>2 DEF Shaped, Directed
<1>5. Claimed(o)
  BY <1>1 DEF Shaped, Claimed
<1>6. CatchesPlain(n) => CatchesPlain(o)
  BY <1>1 DEF CatchesPlain
<1> QED BY <1>3, <1>4, <1>5, <1>6 DEF o, Shaped

(* a construct more, of a new name, *)
LEMMA Extend ==
    ASSUME NEW n, NEW d, NEW r, NEW m \in Nat, Shaped(n, d, r, m),
           NEW c \in Records, c.id \in 1..m, \A p \in 1..Len(n) : n[p].id # c.id,
           c.kind = "finally" => /\ Leads(n, d[c.id])
                                 /\ r[c.id] => CatchesPlain(n),
           c.kind \in {"try", "catch"} => ~r[c.id],
           c.kind = "try" /\ ~c.fin /\ c.claims # "all" =>
                \A q \in 1..Len(n) : n[q].kind \notin HandlerKinds
    PROVE  Shaped(Append(n, c), d, r, m)
<1> DEFINE o == Append(n, c)
<1>0. n \in Seq(Records) /\ Len(n) \in Nat
  BY DEF Shaped, Named
<1>1. /\ o \in Seq(Records) /\ Len(o) = Len(n) + 1
      /\ \A i \in 1..Len(n) : o[i] = n[i]
      /\ o[Len(n) + 1] = c
  BY <1>0, OneMore
<1>2. \A p \in 1..Len(n) : Outside(o, p) = Outside(n, p)
  BY <1>0, OneMore DEF Outside
<1>3. Outside(o, Len(n) + 1) = n
  <2>1. Outside(o, Len(n) + 1) = SubSeq(n, 1, Len(n))
    BY <1>0, OneMore DEF Outside
  <2> QED BY <1>0, <2>1, SubSeqFull
<1> HIDE DEF o
<1>4. \A p : p \in 1..Len(o) <=> p \in 1..Len(n) \/ p = Len(n) + 1
  BY <1>0, <1>1
<1>5. Named(o, m)
  <2>1. \A p \in 1..Len(o) : o[p].id \in 1..m
    BY <1>1, <1>4 DEF Shaped, Named
  <2>2. ASSUME NEW p \in 1..Len(o), NEW q \in 1..Len(o), o[p].id = o[q].id
        PROVE  p = q
    <3>1. CASE p \in 1..Len(n) /\ q \in 1..Len(n)
      BY <1>1, <2>2, <3>1 DEF Shaped, Named
    <3>2. CASE p = Len(n) + 1 /\ q \in 1..Len(n)
      BY <1>1, <2>2, <3>2
    <3>3. CASE p \in 1..Len(n) /\ q = Len(n) + 1
      BY <1>1, <2>2, <3>3
    <3> QED BY <1>4, <3>1, <3>2, <3>3
  <2> QED BY <1>1, <2>1, <2>2 DEF Named
<1>6. Directed(o, d, r)
  BY <1>1, <1>2, <1>3, <1>4 DEF Shaped, Directed
<1>7. Claimed(o)
  <2> SUFFICES ASSUME NEW p \in 1..Len(o), o[p].kind = "try", ~o[p].fin, o[p].claims # "all",
                      NEW q \in 1..(p - 1)
               PROVE  o[q].kind \notin HandlerKinds
    BY DEF Claimed
  <2>1. q \in 1..Len(n) /\ o[q] = n[q]
    BY <1>0, <1>1
  <2>2. CASE p \in 1..Len(n)
    BY <1>1, <2>1, <2>2 DEF Shaped, Claimed
  <2>3. CASE p = Len(n) + 1
    BY <1>1, <2>1, <2>3
  <2> QED BY <1>4, <2>2, <2>3
<1> QED BY <1>5, <1>6, <1>7 DEF o, Shaped

(* and slots written that no @finally of it reads. *)
LEMMA Relabel ==
    ASSUME NEW n, NEW d, NEW r, NEW m \in Nat, Shaped(n, d, r, m),
           NEW e, NEW s, NEW l \in Nat, m <= l,
           \A p \in 1..Len(n) : e[n[p].id] = d[n[p].id] /\ s[n[p].id] = r[n[p].id]
    PROVE  Shaped(n, e, s, l)
<1>1. Named(n, l)
  BY DEF Shaped, Named
<1>2. Directed(n, e, s)
  BY DEF Shaped, Directed
<1> QED BY <1>1, <1>2 DEF Shaped

(* Marking what has been declared keeps everything, where no @finally is inside. *)
LEMMA Declare ==
    ASSUME NEW n, NEW d, NEW r, NEW m \in Nat, Shaped(n, d, r, m),
           NEW o \in Seq(Records), Len(o) = Len(n),
           \A p \in 1..Len(n) : /\ o[p].kind = n[p].kind /\ o[p].id = n[p].id
                                /\ o[p].fin = n[p].fin /\ o[p].claims = n[p].claims,
           NEW k \in 0..Len(n), \A p \in 1..k : o[p] = n[p],
           \A p \in (k + 1)..Len(n) : n[p].kind # "finally"
    PROVE  /\ Shaped(o, d, r, m)
           /\ Syncs(o) = Syncs(n) /\ Fins(o) = Fins(n)
<1>0. n \in Seq(Records) /\ Len(n) \in Nat
  BY DEF Shaped, Named
<1>1. Named(o, m)
  BY DEF Shaped, Named
<1>2. Directed(o, d, r)
  <2> SUFFICES ASSUME NEW p \in 1..Len(o), o[p].kind = "finally"
               PROVE  /\ Leads(Outside(o, p), d[o[p].id])
                      /\ r[o[p].id] => CatchesPlain(Outside(o, p))
    BY DEF Shaped, Directed
  <2>1. p \in 1..Len(n) /\ n[p].kind = "finally" /\ p \in 1..k
    BY <1>0
  <2>2. Outside(o, p) = Outside(n, p)
    BY <1>0, <2>1, PrefixOfAlike DEF Outside
  <2> QED BY <2>1, <2>2 DEF Shaped, Directed
<1>3. Claimed(o)
  BY <1>0 DEF Shaped, Claimed
<1>4. \A i : i \in Syncs(o) <=> i \in Syncs(n)
  BY SyncsMember
<1>5. \A i : i \in Fins(o) <=> i \in Fins(n)
  BY FinsMember
<1> QED BY <1>1, <1>2, <1>3, <1>4, <1>5 DEF Shaped

-----------------------------------------------------------------------------
(* Leaving a construct gives back what it owed, where nothing deeper owes. *)
LEMMA OneLess ==
    ASSUME NEW n, NEW m \in Nat, Named(n, m), NEW p \in 1..Len(n),
           \A q \in (p + 1)..Len(n) : ~Owes(n[q])
    PROVE  /\ Syncs(Outside(n, p)) = IF n[p].kind = "sync" THEN Syncs(n) \ {n[p].id}
                                                           ELSE Syncs(n)
           /\ Fins(Outside(n, p)) = IF n[p].kind \in {"try", "catch"} /\ n[p].fin
                                    THEN Fins(n) \ {n[p].id} ELSE Fins(n)
<1> DEFINE o == Outside(n, p)
<1>1. n \in Seq(Records) /\ Len(n) \in Nat
  BY DEF Named
<1>2. o \in Seq(Records) /\ Len(o) = p - 1 /\ \A i \in 1..(p - 1) : o[i] = n[i]
  BY <1>1, Prefix DEF Outside
<1> HIDE DEF o
<1>3. \A q \in 1..Len(n) : Owes(n[q]) => q = p \/ q \in 1..Len(o)
  BY <1>1, <1>2
<1>4. \A q \in 1..Len(o) : q \in 1..Len(n) /\ o[q] = n[q] /\ n[q].id # n[p].id
  BY <1>1, <1>2 DEF Named
<1>9. \A q \in 1..Len(n) : n[q].id = n[p].id => q = p
  BY DEF Named
<1>5. ASSUME NEW i
      PROVE  i \in Syncs(o) <=> i \in Syncs(n) /\ ~(n[p].kind = "sync" /\ i = n[p].id)
  <2>1. i \in Syncs(o) <=> \E q \in 1..Len(o) : o[q].kind = "sync" /\ o[q].id = i
    BY SyncsMember
  <2>2. i \in Syncs(n) <=> \E q \in 1..Len(n) : n[q].kind = "sync" /\ n[q].id = i
    BY SyncsMember
  <2> QED BY <1>3, <1>4, <1>9, <2>1, <2>2 DEF Owes
<1>6. ASSUME NEW i
      PROVE  i \in Fins(o) <=> /\ i \in Fins(n)
                               /\ ~(n[p].kind \in {"try", "catch"} /\ n[p].fin /\ i = n[p].id)
  <2>1. i \in Fins(o) <=> \E q \in 1..Len(o) : /\ o[q].kind \in {"try", "catch"}
                                                 /\ o[q].fin
                                                 /\ o[q].id = i
    BY FinsMember
  <2>2. i \in Fins(n) <=> \E q \in 1..Len(n) : /\ n[q].kind \in {"try", "catch"}
                                                 /\ n[q].fin
                                                 /\ n[q].id = i
    BY FinsMember
  <2> QED BY <1>3, <1>4, <1>9, <2>1, <2>2 DEF Owes
<1>7. Syncs(o) = IF n[p].kind = "sync" THEN Syncs(n) \ {n[p].id} ELSE Syncs(n)
  BY <1>5
<1>8. Fins(o) = IF n[p].kind \in {"try", "catch"} /\ n[p].fin
                THEN Fins(n) \ {n[p].id} ELSE Fins(n)
  BY <1>6
<1> QED BY <1>7, <1>8 DEF o

(* A @finally that runs is not owed. *)
LEMMA RunningNotOwed ==
    ASSUME NEW n, NEW m, Named(n, m)
    PROVE  Fins(n) \ IdsOf(n, Positions(n, {"finally"})) = Fins(n)
<1>1. ASSUME NEW i \in Fins(n), i \in IdsOf(n, Positions(n, {"finally"}))
      PROVE  FALSE
  <2>1. PICK p \in 1..Len(n) : n[p].kind \in {"try", "catch"} /\ n[p].id = i
    BY FinsMember
  <2>2. PICK q \in 1..Len(n) : n[q].kind = "finally" /\ n[q].id = i
    BY <1>1 DEF IdsOf, Positions
  <2> QED BY <2>1, <2>2 DEF Named
<1> QED BY <1>1

(* Nothing is owed where nothing is around. *)
LEMMA NothingAround ==
    /\ Syncs(<<>>) = {} /\ Fins(<<>>) = {}
    /\ \A d, r : \A m \in Nat : Shaped(<<>>, d, r, m)
    /\ CatchesPlain(<<>>)
<1>1. Len(<<>>) = 0 /\ 1..0 = {}
  OBVIOUS
<1>2. \A i : i \notin Syncs(<<>>) /\ i \notin Fins(<<>>)
  BY <1>1, SyncsMember, FinsMember
<1>3. <<>> \in Seq(Records)
  OBVIOUS
<1>4. \A d, r : \A m \in Nat : Shaped(<<>>, d, r, m)
  BY <1>1, <1>3 DEF Shaped, Named, Directed, Claimed
<1> QED BY <1>1, <1>2, <1>4 DEF CatchesPlain

LEMMA OwesNothing ==
    ASSUME NEW n \in Seq(Records), \A q \in 1..Len(n) : ~Owes(n[q])
    PROVE  Syncs(n) = {} /\ Fins(n) = {}
<1>1. \A i : i \notin Syncs(n) /\ i \notin Fins(n)
  BY SyncsMember, FinsMember DEF Owes
<1> QED BY <1>1

-----------------------------------------------------------------------------
(* The steps.  Control goes to a construct around, past nothing that owes. *)
LEMMA Outwards ==
    ASSUME IInv, NEW k \in 0..Len(nest), \A q \in (k + 1)..Len(nest) : ~Owes(nest[q]),
           nest' = SubSeq(nest, 1, k), owed' = owed, UNCHANGED <<dest, rethrow, made>>,
           RtOK(rt'), rt'.locks = rt.locks,
           status' \in {"running", "unwinding", "returned", "thrown"},
           status' = "unwinding" => CatchesPlain(nest'),
           status' \in {"returned", "thrown"} => k = 0
    PROVE  IInv'
<1>1. made \in Nat /\ Shaped(nest, dest, rethrow, made) /\ nest \in Seq(Records)
  BY ExitsAssumption DEF IInv, Shaped, Named
<1>2. Shaped(nest', dest, rethrow, made)
  BY <1>1, Truncate
<1>3. Syncs(nest') = Syncs(nest) /\ Fins(nest') = Fins(nest)
  BY <1>1, PrefixOwes
<1>4. Left' => nest' = <<>>
  BY <1>1 DEF Left
<1> QED BY <1>2, <1>3, <1>4 DEF IInv

(* One construct more is entered. *)
LEMMA Inwards ==
    ASSUME IInv, NEW k \in ConstructKinds, NEW fin \in BOOLEAN,
           NEW claims \in {"none", "some", "all"}, Enter(k, fin, claims),
           dest' = [i \in Ids |-> dest'[i]], rethrow' = [i \in Ids |-> rethrow'[i]],
           \A i \in Ids : i # made' => dest'[i] = dest[i] /\ rethrow'[i] = rethrow[i],
           k = "try" => /\ ~rethrow'[made']
                        /\ fin \/ claims = "all" \/ Handlers(nest) = {},
           RtOK(rt'),
           rt'.locks = IF k = "sync" THEN rt.locks \cup {made'} ELSE rt.locks,
           owed' = IF k = "try" /\ fin THEN owed \cup {made'} ELSE owed
    PROVE  IInv'
<1> DEFINE c == Construct(k, made', fin, claims)
<1>1. /\ made \in Nat /\ Shaped(nest, dest, rethrow, made) /\ nest \in Seq(Records)
      /\ Len(nest) \in Nat /\ Named(nest, made)
  BY ExitsAssumption DEF IInv, Shaped, Named
<1>2. /\ made' = made + 1 /\ made' \in Nat /\ made' \in 0..MaxConstructs
      /\ status = "running" /\ status' = status
      /\ nest' = Append(nest, c)
  BY <1>1, ExitsAssumption DEF Enter, Running, IInv
<1>3. /\ c \in Records /\ c.id = made' /\ c.kind = k /\ c.fin = fin /\ c.claims = claims
      /\ k \notin {"catch", "finally"}
  BY <1>2 DEF Construct, Records, ConstructKinds
<1>4. \A q \in 1..Len(nest) : /\ nest[q].id \in 1..made
                              /\ nest[q].id \in Ids /\ nest[q].id # made'
  BY <1>1, <1>2, ExitsAssumption DEF Named, Ids, IInv
<1>5. Shaped(nest, dest', rethrow', made')
  <2>1. \A q \in 1..Len(nest) : /\ dest'[nest[q].id] = dest[nest[q].id]
                                /\ rethrow'[nest[q].id] = rethrow[nest[q].id]
    BY <1>4
  <2> QED BY <1>1, <1>2, <2>1, Relabel
<1>6. k = "try" /\ ~fin /\ claims # "all" =>
            \A q \in 1..Len(nest) : nest[q].kind \notin HandlerKinds
  BY DEF Handlers, Positions, HandlerKinds
<1>7. c.id \in 1..made'
  BY <1>1, <1>2, <1>3
<1> HIDE DEF c
<1>8. Shaped(nest', dest', rethrow', made')
  BY <1>2, <1>3, <1>4, <1>5, <1>6, <1>7, Extend
<1>9. /\ Syncs(nest') = IF k = "sync" THEN Syncs(nest) \cup {made'} ELSE Syncs(nest)
      /\ Fins(nest') = IF k = "try" /\ fin THEN Fins(nest) \cup {made'} ELSE Fins(nest)
  BY <1>1, <1>2, <1>3, OneMoreOwes
<1> QED BY <1>2, <1>8, <1>9 DEF IInv, Left

(* Control goes through the @finally of the innermost @try that owes one. *)
LEMMA Through ==
    ASSUME IInv, NEW p \in 1..Len(nest), nest[p].kind \in {"try", "catch"}, nest[p].fin,
           \A q \in (p + 1)..Len(nest) : ~Owes(nest[q]),
           EnterFinally(nest, p), UNCHANGED made,
           dest' = [i \in Ids |-> dest'[i]], rethrow' = [i \in Ids |-> rethrow'[i]],
           \A i \in Ids : i # nest[p].id => dest'[i] = dest[i] /\ rethrow'[i] = rethrow[i],
           Leads(Outside(nest, p), dest'[nest[p].id]),
           rethrow'[nest[p].id] => CatchesPlain(Outside(nest, p)),
           RtOK(rt'), rt'.locks = rt.locks, status' = "running"
    PROVE  IInv'
<1>1. /\ made \in Nat /\ Shaped(nest, dest, rethrow, made) /\ Named(nest, made)
      /\ Len(nest) \in Nat
  BY ExitsAssumption DEF IInv, Shaped, Named
<1>2. \A q \in 1..(p - 1) : nest[q].id \in Ids /\ nest[q].id # nest[p].id
  <2>1. made <= MaxConstructs /\ MaxConstructs \in Nat
    BY ExitsAssumption DEF IInv
  <2>2. \A q \in 1..(p - 1) : q \in 1..Len(nest) /\ q # p
    BY <1>1
  <2> QED BY <1>1, <2>1, <2>2 DEF Named, Ids
<1>3. \A q \in 1..(p - 1) : /\ dest'[nest[q].id] = dest[nest[q].id]
                            /\ rethrow'[nest[q].id] = rethrow[nest[q].id]
  BY <1>2
<1>4. /\ nest' = Append(Outside(nest, p), [nest[p] EXCEPT !.kind = "finally"])
      /\ owed' = owed \ {nest[p].id}
  BY DEF EnterFinally
<1> DEFINE b == Outside(nest, p)
           c == [nest[p] EXCEPT !.kind = "finally"]
<1>5. nest \in Seq(Records) /\ p - 1 \in 0..Len(nest)
  BY <1>1 DEF Named
<1>6. b \in Seq(Records) /\ Len(b) = p - 1 /\ \A i \in 1..(p - 1) : b[i] = nest[i]
  BY <1>5, Prefix DEF Outside
<1>7. Shaped(b, dest, rethrow, made)
  BY <1>1, <1>5, Truncate DEF Outside
<1>8. c \in Records /\ c.id = nest[p].id /\ c.kind = "finally"
  <2>1. nest[p] \in Records
    BY <1>5
  <2> QED BY <2>1 DEF Records
<1>9. Syncs(b) = Syncs(nest) /\ Fins(b) = Fins(nest) \ {nest[p].id}
  BY <1>1, OneLess
<1>10. Leads(b, dest'[c.id]) /\ (rethrow'[c.id] => CatchesPlain(b))
  BY <1>8
<1>11. nest' = Append(b, c)
  BY <1>4
<1>12. c.id \in 1..made /\ \A q \in 1..Len(b) : b[q].id # c.id
  BY <1>1, <1>2, <1>6, <1>8 DEF Named
<1>13. \A q \in 1..Len(b) : /\ dest'[b[q].id] = dest[b[q].id]
                            /\ rethrow'[b[q].id] = rethrow[b[q].id]
  BY <1>3, <1>6
<1> HIDE DEF b, c
<1>14. Shaped(b, dest', rethrow', made)
  BY <1>1, <1>7, <1>13, Relabel
<1>15. Shaped(nest', dest', rethrow', made)
  BY <1>1, <1>8, <1>10, <1>11, <1>12, <1>14, Extend
<1>16. Syncs(nest') = Syncs(b) /\ Fins(nest') = Fins(b)
  BY <1>6, <1>8, <1>11, OneMoreOwes
<1> QED BY <1>4, <1>9, <1>15, <1>16 DEF IInv, Left

(* The statement after a @try is straight out of its @finally. *)
LEMMA LeadsStraight ==
    ASSUME NEW n \in Seq(Records)
    PROVE  Leads(n, At(n))
<1>1. Len(n) \in Nat /\ SubSeq(n, 1, Len(n)) = n
  BY SubSeqFull
<1>2. Len(n) \in 0..Len(n) /\ \A q \in (Len(n) + 1)..Len(n) : ~Owes(n[q])
  BY <1>1
<1>3. At(n).op = "at" /\ At(n).nest = SubSeq(n, 1, Len(n))
  BY <1>1 DEF At
<1> QED BY <1>2, <1>3 DEF Leads

(* leaveTries, for an exit that leaves what is deeper than p. *)
LEMMA Jumps ==
    ASSUME IInv, Running, Shapes \cap Owing = {}, NEW p \in 0..Len(nest), MayLeave(p),
           NEW exit, NEW h, RtOK(h), h.locks = rt.locks,
           LeaveTries(exit, p, h), UNCHANGED <<rethrow, made>>,
           p > 0 => ~Owes(nest[p]),
           \/ p = 0 /\ exit = Return(nest)
           \/ \E k \in 0..p : k >= p - 1 /\ exit = At(SubSeq(nest, 1, k))
    PROVE  IInv'
<1> DEFINE chain == Inside(Finallys(nest), p)
<1>1. /\ made \in Nat /\ Shaped(nest, dest, rethrow, made) /\ Named(nest, made)
      /\ Len(nest) \in Nat /\ nest \in Seq(Records)
  BY ExitsAssumption DEF IInv, Shaped, Named
<1>2. Deeper({"sync"}, p) = {} /\ Cardinality(chain) <= 1
  BY DEF MayLeave, Unless, Owing
<1>3. chain \subseteq 1..Len(nest) /\ IsFiniteSet(chain)
  <2>1. chain \subseteq 1..Len(nest)
    BY DEF Inside, Finallys, Tries, Positions
  <2>2. IsFiniteSet(1..Len(nest))
    BY <1>1, FS_Interval
  <2> QED BY <2>1, <2>2, FS_Subset
<1>4. \A q \in (p + 1)..Len(nest) : Owes(nest[q]) => q \in chain
  BY <1>1, <1>2 DEF Owes, Deeper, Inside, Finallys, Tries, Positions
<1>5. CASE chain = {}
  <2>1. GoTo(exit, h) /\ UNCHANGED dest
    BY <1>5 DEF LeaveTries
  <2>2. CASE p = 0 /\ exit = Return(nest)
    <3>1. /\ nest' = <<>> /\ status' = "returned" /\ owed' = owed
          /\ rt' = [LeaveScopes(h, nest, 0) EXCEPT !.stack = <<>>]
      BY <2>1, <2>2 DEF GoTo, Return
    <3>2. RtOK(rt') /\ rt'.locks = rt.locks
      BY <3>1, LeaveScopesKeeps DEF RtOK
    <3>3. nest' = SubSeq(nest, 1, 0)
      BY <1>1, <3>1
    <3> QED BY <1>1, <1>4, <1>5, <2>1, <2>2, <3>1, <3>2, <3>3, Outwards
  <2>3. ASSUME NEW k \in 0..p, k >= p - 1, exit = At(SubSeq(nest, 1, k))
        PROVE  IInv'
    <3>1. /\ nest' = SubSeq(nest, 1, k) /\ rt' = h /\ status' = status
          /\ owed' = owed \ IdsOf(nest', Positions(nest', {"finally"}))
      BY <2>1, <2>3 DEF GoTo, At
    <3>2. k \in 0..Len(nest) /\ \A q \in (k + 1)..Len(nest) : ~Owes(nest[q])
      BY <1>1, <1>4, <1>5, <2>3
    <3>3. Named(nest', made) /\ Fins(nest') = Fins(nest)
      BY <1>1, <3>1, <3>2, Truncate, PrefixOwes DEF Shaped
    <3>4. owed' = owed
      BY <3>1, <3>3, RunningNotOwed DEF IInv
    <3> QED BY <2>1, <3>1, <3>2, <3>4, Outwards DEF Running
  <2> QED BY <2>2, <2>3
<1>6. CASE chain # {}
  <2>1. PICK q : chain = {q}
    <3>1. Cardinality(chain) \in Nat /\ (Cardinality(chain) = 0 => chain = {})
      BY <1>3, FS_CardinalityType, FS_EmptySet
    <3>2. Cardinality(chain) = 1
      BY <1>2, <1>6, <3>1
    <3> QED BY <1>3, <3>2, FS_Singleton
  <2>2. /\ q \in 1..Len(nest) /\ nest[q].kind \in {"try", "catch"} /\ nest[q].fin
        /\ p < q
    BY <1>1, <2>1 DEF Inside, Finallys, Tries, Positions
  <2>3. Smallest(chain) = q
    BY <2>1, <2>2 DEF Smallest
  <2>4. \A j \in (p + 1)..Len(nest) : j # q => ~Owes(nest[j])
    BY <1>4, <2>1
  <2>5. /\ EnterFinally(nest, q) /\ rt' = h /\ status' = status
        /\ dest' = [i \in Ids |-> IF i = nest[q].id THEN exit ELSE dest[i]]
    <3>1. IdsOf(nest, chain) = {nest[q].id}
      BY <2>1 DEF IdsOf
    <3>2. Inside(chain, q) = {}
      BY <2>1, <2>2 DEF Inside
    <3>3. (CHOOSE r \in chain : nest[r].id = nest[q].id) = q
      BY <2>1
    <3> QED BY <1>6, <2>3, <3>1, <3>2, <3>3 DEF LeaveTries
  <2>6. Leads(Outside(nest, q), exit)
    <3> DEFINE o == Outside(nest, q)
    <3>1. Len(o) = q - 1 /\ \A j \in 1..(q - 1) : o[j] = nest[j]
      BY <1>1, <2>2, Prefix DEF Outside
    <3>2. CASE p = 0 /\ exit = Return(nest)
      BY <2>2, <2>4, <3>1, <3>2 DEF Leads, Return
    <3>3. ASSUME NEW k \in 0..p, k >= p - 1, exit = At(SubSeq(nest, 1, k))
          PROVE  Leads(o, exit)
      <4>1. k \in 0..(q - 1) /\ q - 1 \in 0..Len(nest)
        BY <1>1, <2>2
      <4>2. SubSeq(o, 1, k) = SubSeq(nest, 1, k)
        BY <1>1, <4>1, PrefixOfPrefix DEF Outside
      <4>3. \A j \in (k + 1)..(q - 1) : ~Owes(nest[j])
        BY <1>1, <2>2, <2>4, <3>3
      <4> QED BY <3>1, <3>3, <4>1, <4>2, <4>3 DEF Leads, At
    <3> QED BY <3>2, <3>3
  <2>7. nest[q].id \in Ids /\ ~rethrow[nest[q].id]
    <3>1. made <= MaxConstructs /\ MaxConstructs \in Nat
      BY ExitsAssumption DEF IInv
    <3> QED BY <1>1, <2>2, <3>1 DEF Named, Ids, Shaped, Directed
  <2>8. dest'[nest[q].id] = exit /\ rethrow' = rethrow /\ dest' = [i \in Ids |-> dest'[i]]
    BY <2>5, <2>7
  <2>9. \A j \in (q + 1)..Len(nest) : ~Owes(nest[j])
    BY <1>1, <2>2, <2>4
  <2>10. \A i \in Ids : i # nest[q].id => dest'[i] = dest[i] /\ rethrow'[i] = rethrow[i]
    BY <2>5, <2>8
  <2>11. rethrow' = [i \in Ids |-> rethrow'[i]]
    BY <2>8 DEF IInv
  <2> QED BY <2>2, <2>5, <2>6, <2>7, <2>8, <2>9, <2>10, <2>11, Through DEF Running
<1> QED BY <1>5, <1>6

-----------------------------------------------------------------------------
(* The actions.  Entering a construct, *)
LEMMA EnteringKeeps ==
    ASSUME IInv, Shapes \cap Owing = {},
           EnterLoop \/ EnterSwitch \/ EnterScope \/ EnterPool \/ EnterSync \/ EnterTry
    PROVE  IInv'
<1>1. RtOK(rt) /\ dest = [i \in Ids |-> dest[i]] /\ rethrow = [i \in Ids |-> rethrow[i]]
  BY DEF IInv
<1>2. ASSUME NEW k \in ConstructKinds \ {"try"}, Enter(k, FALSE, "none"),
             UNCHANGED <<dest, rethrow, owed>>, RtOK(rt'),
             rt'.locks = IF k = "sync" THEN rt.locks \cup {made'} ELSE rt.locks
      PROVE  IInv'
  <2>1. dest' = [i \in Ids |-> dest'[i]] /\ rethrow' = [i \in Ids |-> rethrow'[i]]
    BY <1>1, <1>2
  <2> QED BY <1>2, <2>1, Inwards
<1>3. CASE EnterLoop
  BY <1>1, <1>2, <1>3 DEF EnterLoop, ConstructKinds
<1>4. CASE EnterSwitch
  <2>1. PICK past \in BOOLEAN :
            /\ past => ScopeAround
            /\ Running /\ "switch" \in Kinds
            /\ Depth < MaxNest /\ made < MaxConstructs
            /\ made' = made + 1
            /\ nest' = Append(IF past THEN [nest EXCEPT ![Noting].local = TRUE] ELSE nest,
                              Construct("switch", made', FALSE, "none"))
            /\ UNCHANGED <<status, dest, rethrow, rt, owed, leaked>>
    BY <1>4 DEF EnterSwitch
  <2>2. CASE ~past
    <3>1. Enter("switch", FALSE, "none") /\ UNCHANGED <<dest, rethrow, rt, owed>>
      BY <2>1, <2>2 DEF Enter
    <3> QED BY <1>1, <1>2, <3>1 DEF ConstructKinds
  <2>3. CASE past
    <3> DEFINE n == [nest EXCEPT ![Noting].local = TRUE]
               c == Construct("switch", made', FALSE, "none")
    <3>1. /\ made \in Nat /\ Shaped(nest, dest, rethrow, made) /\ nest \in Seq(Records)
          /\ Len(nest) \in Nat /\ \A p \in 1..Len(nest) : nest[p].id \in 1..made
          /\ made <= MaxConstructs
      BY ExitsAssumption DEF IInv, Shaped, Named
    <3>2. Noting \in 1..Len(nest) /\ nest[Noting].kind = "scope" /\ nest[Noting] \in Records
      <4>1. Positions(nest, {"scope"}) \subseteq 1..Len(nest)
        BY DEF Positions
      <4>2. Noting \in Positions(nest, {"scope"})
        BY <2>1, <2>3, <3>1, <4>1, LargestExists DEF ScopeAround, Noting
      <4> QED BY <3>1, <4>2 DEF Positions
    <3>3. \A p \in (Noting + 1)..Len(nest) : nest[p].kind \in {"loop", "switch"}
      BY <2>1, <2>3 DEF ScopeAround, Depth
    <3>4. /\ n \in Seq(Records) /\ Len(n) = Len(nest)
          /\ \A p \in 1..Len(nest) : p # Noting => n[p] = nest[p]
          /\ n[Noting].kind = nest[Noting].kind /\ n[Noting].id = nest[Noting].id
          /\ n[Noting].fin = nest[Noting].fin /\ n[Noting].claims = nest[Noting].claims
      <4> DEFINE g == [nest[Noting] EXCEPT !.local = TRUE]
      <4>1. /\ g \in Records /\ g.kind = nest[Noting].kind /\ g.id = nest[Noting].id
            /\ g.fin = nest[Noting].fin /\ g.claims = nest[Noting].claims
        BY <3>2 DEF Records
      <4>2. n = [nest EXCEPT ![Noting] = g]
        BY <3>1, <3>2
      <4> HIDE DEF g, n
      <4>3. n \in Seq(Records) /\ Len(n) = Len(nest)
        BY <3>1, <3>2, <4>1, <4>2
      <4>4. n[Noting] = g
        BY <3>1, <3>2, <4>2
      <4>5. \A p \in 1..Len(nest) : p # Noting => n[p] = nest[p]
        BY <3>1, <3>2, <4>2
      <4> QED BY <4>1, <4>3, <4>4, <4>5
    <3>5. /\ nest' = Append(n, c) /\ made' = made + 1 /\ made' \in Nat /\ status = "running"
          /\ made' \in 0..MaxConstructs
          /\ UNCHANGED <<status, dest, rethrow, rt, owed>>
      <4>1. nest' = Append(n, c)
        BY <2>1, <2>3
      <4> HIDE DEF n, c
      <4>2. made' \in Nat /\ made' \in 0..MaxConstructs
        BY <2>1, <3>1, ExitsAssumption
      <4> QED BY <2>1, <4>1, <4>2 DEF Running
    <3>6. /\ c \in Records /\ c.id = made' /\ c.kind = "switch"
      BY <3>5 DEF Construct, Records, ConstructKinds
    <3> HIDE DEF n, c
    <3>7. /\ Noting - 1 \in 0..Len(nest)
          /\ \A p \in 1..(Noting - 1) : n[p] = nest[p]
          /\ \A p \in ((Noting - 1) + 1)..Len(nest) : nest[p].kind # "finally"
      <4>1. Noting - 1 \in 0..Len(nest)
        BY <3>1, <3>2
      <4>2. \A p \in 1..(Noting - 1) : p \in 1..Len(nest) /\ p # Noting
        BY <3>1, <3>2
      <4>3. \A p \in ((Noting - 1) + 1)..Len(nest) : p = Noting \/ p \in (Noting + 1)..Len(nest)
        BY <3>1, <3>2
      <4> QED BY <3>2, <3>3, <3>4, <4>1, <4>2, <4>3
    <3>8. \A p \in 1..Len(nest) : /\ n[p].kind = nest[p].kind /\ n[p].id = nest[p].id
                                  /\ n[p].fin = nest[p].fin /\ n[p].claims = nest[p].claims
      BY <3>4
    <3>9. Shaped(n, dest, rethrow, made) /\ Syncs(n) = Syncs(nest) /\ Fins(n) = Fins(nest)
      BY <3>1, <3>4, <3>7, <3>8, Declare
    <3>10. Shaped(n, dest, rethrow, made')
      BY <3>1, <3>5, <3>9, Relabel
    <3>11. c.id \in 1..made' /\ \A p \in 1..Len(n) : n[p].id # c.id
      BY <3>1, <3>4, <3>5, <3>6, <3>8
    <3>12. Shaped(nest', dest, rethrow, made')
      BY <3>5, <3>6, <3>10, <3>11, Extend
    <3>13. Syncs(nest') = Syncs(nest) /\ Fins(nest') = Fins(nest)
      BY <3>4, <3>5, <3>6, <3>9, OneMoreOwes
    <3> QED BY <3>5, <3>12, <3>13 DEF IInv, Left
  <2> QED BY <2>2, <2>3
<1>5. CASE EnterScope
  BY <1>1, <1>2, <1>5 DEF EnterScope, ConstructKinds
<1>6. CASE EnterPool
  <2>1. RtOK(rt') /\ rt'.locks = rt.locks
    BY <1>1, <1>6 DEF EnterPool, RtOK
  <2> QED BY <1>2, <1>6, <2>1 DEF EnterPool, ConstructKinds
<1>7. CASE EnterSync
  <2>1. RtOK(rt') /\ rt'.locks = rt.locks \cup {made'}
    BY <1>1, <1>7 DEF EnterSync, RtOK
  <2> QED BY <1>2, <1>7, <2>1 DEF EnterSync, ConstructKinds
<1>8. CASE EnterTry
  <2>1. PICK fin \in BOOLEAN, claims \in {"none", "some", "all"} :
            /\ MayTry(fin, claims)
            /\ Enter("try", fin, claims)
            /\ dest' = [dest EXCEPT ![made'] = At(nest)]
            /\ rethrow' = [rethrow EXCEPT ![made'] = FALSE]
            /\ owed' = IF fin THEN owed \cup {made'} ELSE owed
            /\ UNCHANGED rt
    BY <1>8 DEF EnterTry
  <2>2. made' \in Ids
    BY <2>1, ExitsAssumption DEF Enter, Ids, IInv
  <2>3. /\ dest' = [i \in Ids |-> dest'[i]] /\ rethrow' = [i \in Ids |-> rethrow'[i]]
        /\ \A i \in Ids : i # made' => dest'[i] = dest[i] /\ rethrow'[i] = rethrow[i]
        /\ ~rethrow'[made']
    BY <1>1, <2>1, <2>2
  <2>4. fin \/ claims = "all" \/ Handlers(nest) = {}
    BY <2>1 DEF MayTry, Unless, Owing
  <2>5. RtOK(rt') /\ rt'.locks = rt.locks
    BY <1>1, <2>1
  <2> QED BY <2>1, <2>3, <2>4, <2>5, Inwards DEF ConstructKinds
<1> QED BY <1>3, <1>4, <1>5, <1>6, <1>7, <1>8

(* declaring in one, *)
LEMMA DeclaringKeeps ==
    ASSUME IInv, DeclareStrong \/ DeclareInSwitch \/ DeclareArray
    PROVE  IInv'
<1>1. /\ made \in Nat /\ Shaped(nest, dest, rethrow, made) /\ nest \in Seq(Records)
      /\ Len(nest) \in Nat /\ RtOK(rt)
  BY ExitsAssumption DEF IInv, Shaped, Named
<1>2. ASSUME nest' \in Seq(Records), Len(nest') = Len(nest),
             \A p \in 1..Len(nest) : /\ nest'[p].kind = nest[p].kind
                                     /\ nest'[p].id = nest[p].id
                                     /\ nest'[p].fin = nest[p].fin
                                     /\ nest'[p].claims = nest[p].claims,
             NEW k \in 0..Len(nest), \A p \in 1..k : nest'[p] = nest[p],
             \A p \in (k + 1)..Len(nest) : nest[p].kind # "finally",
             RtOK(rt'), rt'.locks = rt.locks, status = "running",
             UNCHANGED <<status, dest, rethrow, owed, made>>
      PROVE  IInv'
  <2>1. /\ Shaped(nest', dest, rethrow, made)
        /\ Syncs(nest') = Syncs(nest) /\ Fins(nest') = Fins(nest)
    BY <1>1, <1>2, Declare
  <2> QED BY <1>2, <2>1 DEF IInv, Left
<1>3. ASSUME InnermostIs("scope"), NEW c \in Records, nest' = [nest EXCEPT ![Depth] = c],
             c.kind = "scope", c.id = Innermost.id, c.fin = Innermost.fin,
             c.claims = Innermost.claims,
             RtOK(rt'), rt'.locks = rt.locks,
             UNCHANGED <<status, dest, rethrow, owed, made>>
      PROVE  IInv'
  <2>1. /\ Depth \in 1..Len(nest) /\ Depth = Len(nest) /\ status = "running"
        /\ Innermost = nest[Depth] /\ nest[Depth].kind = "scope"
    BY <1>1, <1>3 DEF InnermostIs, Running, Depth, Innermost
  <2>2. nest' \in Seq(Records) /\ Len(nest') = Len(nest)
    BY <1>1, <1>3, <2>1
  <2>3. \A p \in 1..Len(nest) : nest'[p] = IF p = Depth THEN c ELSE nest[p]
    BY <1>1, <1>3, <2>1
  <2>4. /\ Len(nest) - 1 \in 0..Len(nest)
        /\ \A p \in 1..(Len(nest) - 1) : p \in 1..Len(nest) /\ p # Depth
        /\ \A p \in ((Len(nest) - 1) + 1)..Len(nest) : p = Depth
    BY <1>1, <2>1
  <2> QED BY <1>2, <1>3, <2>1, <2>2, <2>3, <2>4
<1>4. CASE DeclareStrong
  <2>1. InnermostIs("scope") /\ Innermost \in Records /\ Innermost.kind = "scope"
        /\ Depth \in 1..Len(nest)
    BY <1>1, <1>4 DEF DeclareStrong, InnermostIs, Innermost, Depth
  <2> DEFINE c == [Innermost EXCEPT !.local = TRUE]
  <2>2. /\ c \in Records /\ c.kind = "scope" /\ c.id = Innermost.id
        /\ c.fin = Innermost.fin /\ c.claims = Innermost.claims
    BY <2>1 DEF Records
  <2>3. nest' = [nest EXCEPT ![Depth] = c]
    BY <1>1, <1>4, <2>1 DEF DeclareStrong, Innermost
  <2>4. RtOK(rt') /\ rt'.locks = rt.locks
    BY <1>1, <1>4 DEF DeclareStrong, RtOK
  <2> HIDE DEF c
  <2> QED BY <1>3, <1>4, <2>1, <2>2, <2>3, <2>4 DEF DeclareStrong
<1>5. CASE DeclareArray
  <2>1. InnermostIs("scope") /\ Innermost \in Records /\ Innermost.kind = "scope"
        /\ Depth \in 1..Len(nest)
    BY <1>1, <1>5 DEF DeclareArray, InnermostIs, Innermost, Depth
  <2> DEFINE c == [Innermost EXCEPT !.vla = TRUE]
  <2>2. /\ c \in Records /\ c.kind = "scope" /\ c.id = Innermost.id
        /\ c.fin = Innermost.fin /\ c.claims = Innermost.claims
    BY <2>1 DEF Records
  <2>3. nest' = [nest EXCEPT ![Depth] = c]
    BY <1>1, <1>5, <2>1 DEF DeclareArray, Innermost
  <2>4. RtOK(rt') /\ rt'.locks = rt.locks
    BY <1>1, <1>5 DEF DeclareArray, RtOK
  <2> HIDE DEF c
  <2> QED BY <1>3, <1>5, <2>1, <2>2, <2>3, <2>4 DEF DeclareArray
<1>6. CASE DeclareInSwitch
  <2>1. /\ status = "running" /\ ScopeAround
        /\ nest' = [p \in 1..Depth |-> [nest[p] EXCEPT !.local = @ \/ p >= Noting]]
        /\ UNCHANGED <<status, dest, rethrow, owed, made>>
    BY <1>6 DEF DeclareInSwitch, InnermostIs, Running, MayDeclare
  <2>2. Noting \in 1..Len(nest) /\ nest[Noting].kind = "scope"
    <3>1. Positions(nest, {"scope"}) \subseteq 1..Len(nest)
      BY DEF Positions
    <3>2. Noting \in Positions(nest, {"scope"})
      BY <1>1, <2>1, <3>1, LargestExists DEF ScopeAround, Noting
    <3> QED BY <3>2 DEF Positions
  <2>3. \A p \in (Noting + 1)..Len(nest) : nest[p].kind \in {"loop", "switch"}
    BY <2>1 DEF ScopeAround, Depth
  <2>4. \A p \in 1..Len(nest) :
            /\ nest'[p] = [nest[p] EXCEPT !.local = nest[p].local \/ p >= Noting]
            /\ nest[p] \in Records
    BY <1>1, <2>1 DEF Depth
  <2>5. \A p \in 1..Len(nest) : /\ nest'[p] \in Records
                                /\ nest'[p].kind = nest[p].kind
                                /\ nest'[p].id = nest[p].id
                                /\ nest'[p].fin = nest[p].fin
                                /\ nest'[p].claims = nest[p].claims
    <3>1. ASSUME NEW c \in Records, NEW v \in BOOLEAN
          PROVE  /\ [c EXCEPT !.local = v] \in Records
                 /\ [c EXCEPT !.local = v].kind = c.kind
                 /\ [c EXCEPT !.local = v].id = c.id
                 /\ [c EXCEPT !.local = v].fin = c.fin
                 /\ [c EXCEPT !.local = v].claims = c.claims
      BY DEF Records
    <3>2. ASSUME NEW p \in 1..Len(nest)
          PROVE  /\ nest'[p] \in Records
                 /\ nest'[p].kind = nest[p].kind /\ nest'[p].id = nest[p].id
                 /\ nest'[p].fin = nest[p].fin /\ nest'[p].claims = nest[p].claims
      <4> DEFINE v == nest[p].local \/ p >= Noting
      <4>1. v \in BOOLEAN
        OBVIOUS
      <4>2. nest'[p] = [nest[p] EXCEPT !.local = v] /\ nest[p] \in Records
        BY <2>4
      <4> HIDE DEF v
      <4> QED BY <3>1, <4>1, <4>2
    <3> QED BY <3>2
  <2>6. nest' \in Seq(Records) /\ Len(nest') = Len(nest)
    BY <1>1, <2>1, <2>5 DEF Depth
  <2>7. /\ Noting - 1 \in 0..Len(nest)
        /\ \A p \in ((Noting - 1) + 1)..Len(nest) : nest[p].kind # "finally"
    BY <1>1, <2>2, <2>3
  <2>8. ASSUME NEW p \in 1..(Noting - 1) PROVE nest'[p] = nest[p]
    <3>1. p \in 1..Len(nest) /\ ~(p >= Noting)
      BY <1>1, <2>2
    <3>2. nest[p] \in Records /\ nest'[p] = [nest[p] EXCEPT !.local = nest[p].local \/ FALSE]
      BY <2>4, <3>1
    <3>3. (nest[p].local \/ FALSE) = nest[p].local
      BY <3>2 DEF Records
    <3>4. [nest[p] EXCEPT !.local = nest[p].local] = nest[p]
      BY <3>2 DEF Records
    <3> QED BY <3>2, <3>3, <3>4
  <2>9. RtOK(rt') /\ rt'.locks = rt.locks
    <3> DEFINE g == [rt EXCEPT !.held = @ \cup {nest[Noting].id}]
               bad == nest[Noting].id \in rt.held
    <3>1. RtOK(g) /\ g.locks = rt.locks
      BY <1>1 DEF RtOK
    <3>2. rt' = Fault(g, "overwrite", bad)
      BY <1>6 DEF DeclareInSwitch
    <3> HIDE DEF g, bad
    <3> QED BY <3>1, <3>2, FaultKeeps
  <2> QED BY <1>2, <2>1, <2>5, <2>6, <2>7, <2>8, <2>9
<1> QED BY <1>4, <1>5, <1>6

(* falling off the end of one, *)
LEMMA EndingKeeps ==
    ASSUME IInv,
           \/ EndLoop \/ EndSwitch \/ EndScope \/ EndPool \/ EndSync
           \/ EndTry \/ EndCatchBody \/ EndFinallyRethrow \/ EndFinally
    PROVE  IInv'
<1>1. /\ made \in Nat /\ Shaped(nest, dest, rethrow, made) /\ Named(nest, made)
      /\ nest \in Seq(Records) /\ Len(nest) \in Nat /\ RtOK(rt)
  BY ExitsAssumption DEF IInv, Shaped, Named
<1>2. ASSUME NEW k, InnermostIs(k)
      PROVE  /\ status = "running" /\ Depth = Len(nest) /\ Depth \in 1..Len(nest)
             /\ Depth - 1 \in 0..Len(nest)
             /\ Innermost = nest[Depth] /\ nest[Depth].kind = k
             /\ Outside(nest, Depth) = SubSeq(nest, 1, Depth - 1)
             /\ Outside(nest, Depth) \in Seq(Records) /\ Len(Outside(nest, Depth)) = Depth - 1
             /\ \A i \in 1..(Depth - 1) : Outside(nest, Depth)[i] = nest[i]
             /\ \A q \in ((Depth - 1) + 1)..Len(nest) : q = Depth
             /\ \A q \in (Depth + 1)..Len(nest) : ~Owes(nest[q])
  <2>1. /\ status = "running" /\ Depth = Len(nest) /\ Innermost = nest[Depth]
        /\ nest[Depth].kind = k /\ nest # <<>> /\ Outside(nest, Depth) = SubSeq(nest, 1, Depth - 1)
    BY <1>2 DEF InnermostIs, Running, Depth, Innermost, Outside
  <2>2. Depth \in 1..Len(nest)
    BY <1>1, <2>1
  <2>3. /\ SubSeq(nest, 1, Depth - 1) \in Seq(Records)
        /\ Len(SubSeq(nest, 1, Depth - 1)) = Depth - 1
        /\ \A i \in 1..(Depth - 1) : SubSeq(nest, 1, Depth - 1)[i] = nest[i]
    <3>1. Depth - 1 \in 0..Len(nest)
      BY <1>1, <2>1, <2>2
    <3> QED BY <1>1, <3>1, Prefix
  <2>4. /\ Depth - 1 \in 0..Len(nest)
        /\ \A q \in ((Depth - 1) + 1)..Len(nest) : q = Depth
        /\ \A q \in (Depth + 1)..Len(nest) : ~Owes(nest[q])
    BY <1>1, <2>1, <2>2
  <2> QED BY <2>1, <2>2, <2>3, <2>4
<1>3. ASSUME NEW k \in {"loop", "switch", "scope", "pool"}, InnermostIs(k), NEW h,
             EndsInto(h), RtOK(h), h.locks = rt.locks
      PROVE  IInv'
  <2>1. \A q \in ((Depth - 1) + 1)..Len(nest) : ~Owes(nest[q])
    BY <1>2, <1>3 DEF Owes
  <2> QED BY <1>2, <1>3, <2>1, Outwards DEF EndsInto
<1>4. CASE EndLoop
  BY <1>1, <1>3, <1>4 DEF EndLoop
<1>5. CASE EndSwitch
  BY <1>1, <1>3, <1>5 DEF EndSwitch
<1>6. CASE EndScope
  <2> DEFINE g == IF Innermost.vla THEN RestoreStack(rt, Innermost.id) ELSE rt
             ids == IF Innermost.local THEN {Innermost.id} ELSE {}
  <2>1. RtOK(g) /\ g.locks = rt.locks
    BY <1>1, RestoreStackKeeps
  <2>2. InnermostIs("scope") /\ EndsInto(Release(g, ids))
    BY <1>6 DEF EndScope
  <2> HIDE DEF g, ids
  <2>3. RtOK(Release(g, ids)) /\ Release(g, ids).locks = rt.locks
    BY <2>1, ReleaseKeeps
  <2> QED BY <1>3, <2>2, <2>3
<1>7. CASE EndPool
  <2>1. RtOK(PopPool(rt, Innermost.id)) /\ PopPool(rt, Innermost.id).locks = rt.locks
    BY <1>1, PopPoolKeeps
  <2> QED BY <1>3, <1>7, <2>1 DEF EndPool
<1>8. CASE EndSync
  <2>1. InnermostIs("sync") /\ EndsInto(Unlock(rt, nest[Depth].id))
    BY <1>8 DEF EndSync, Innermost
  <2>2. /\ nest' = Outside(nest, Depth) /\ rt' = Unlock(rt, nest[Depth].id)
        /\ UNCHANGED <<status, dest, rethrow, owed, made>>
    BY <2>1 DEF EndsInto
  <2>3. nest[Depth].id \in rt.locks
    <3>1. Depth \in 1..Len(nest) /\ nest[Depth].kind = "sync"
      BY <1>2, <2>1
    <3>2. nest[Depth].id \in Syncs(nest)
      BY <3>1, SyncsMember
    <3> QED BY <3>2 DEF IInv
  <2>4. RtOK(rt') /\ rt'.locks = rt.locks \ {nest[Depth].id}
    BY <1>1, <2>2, <2>3 DEF Unlock, Fault, RtOK
  <2>5. Syncs(nest') = Syncs(nest) \ {nest[Depth].id} /\ Fins(nest') = Fins(nest)
    BY <1>1, <1>2, <2>1, <2>2, OneLess
  <2>6. Shaped(nest', dest, rethrow, made)
    BY <1>1, <1>2, <2>1, <2>2, Truncate
  <2> QED BY <1>2, <2>1, <2>2, <2>4, <2>5, <2>6 DEF IInv, Left
<1>9. ASSUME NEW k \in {"try", "catch"}, InnermostIs(k), NEW h, LeaveTry(Depth, h),
             RtOK(h), h.locks = rt.locks, UNCHANGED <<status, rethrow, made>>
      PROVE  IInv'
  <2>1. CASE nest[Depth].fin
    <3>1. /\ rt' = h /\ EnterFinally(nest, Depth)
          /\ dest' = [dest EXCEPT ![nest[Depth].id] = At(Outside(nest, Depth))]
      BY <1>9, <2>1 DEF LeaveTry
    <3>2. nest[Depth].id \in Ids /\ ~rethrow[nest[Depth].id]
      <4>1. made <= MaxConstructs /\ MaxConstructs \in Nat
        BY ExitsAssumption DEF IInv
      <4>2. Depth \in 1..Len(nest) /\ nest[Depth].kind \in {"try", "catch"}
        BY <1>2, <1>9
      <4> QED BY <1>1, <4>1, <4>2 DEF Named, Ids, Shaped, Directed
    <3>3. /\ dest' = [i \in Ids |-> dest'[i]] /\ rethrow' = [i \in Ids |-> rethrow'[i]]
          /\ \A i \in Ids : i # nest[Depth].id =>
                dest'[i] = dest[i] /\ rethrow'[i] = rethrow[i]
          /\ dest'[nest[Depth].id] = At(Outside(nest, Depth))
      BY <1>9, <3>1, <3>2 DEF IInv
    <3>4. Leads(Outside(nest, Depth), dest'[nest[Depth].id])
      <4>1. Outside(nest, Depth) \in Seq(Records)
        BY <1>2, <1>9
      <4> QED BY <3>3, <4>1, LeadsStraight
    <3>5. CatchesPlain(Outside(nest, Depth)) \/ ~rethrow'[nest[Depth].id]
      BY <1>9, <3>2
    <3>6. status' = "running" /\ Depth \in 1..Len(nest) /\ nest[Depth].kind \in {"try", "catch"}
      BY <1>2, <1>9
    <3>7. \A q \in (Depth + 1)..Len(nest) : ~Owes(nest[q])
      BY <1>2, <1>9
    <3> QED BY <1>9, <2>1, <3>1, <3>3, <3>4, <3>5, <3>6, <3>7, Through
  <2>2. CASE ~nest[Depth].fin
    <3>1. rt' = h /\ nest' = Outside(nest, Depth) /\ UNCHANGED <<dest, owed>>
      BY <1>9, <2>2 DEF LeaveTry
    <3>2. \A q \in ((Depth - 1) + 1)..Len(nest) : ~Owes(nest[q])
      BY <1>2, <1>9, <2>2 DEF Owes
    <3> QED BY <1>2, <1>9, <3>1, <3>2, Outwards
  <2> QED BY <2>1, <2>2
<1>10. CASE EndTry
  BY <1>1, <1>9, <1>10 DEF EndTry
<1>11. CASE EndCatchBody
  BY <1>1, <1>9, <1>11, CatchKeeps DEF EndCatchBody
<1>12. CASE EndFinallyRethrow
  <2>1. /\ InnermostIs("finally") /\ rethrow[Innermost.id] /\ status' = "unwinding"
        /\ nest' = Outside(nest, Depth) /\ rt' = EndCatch(rt)
        /\ UNCHANGED <<dest, rethrow, owed, made>>
    BY <1>12 DEF EndFinallyRethrow
  <2>2. CatchesPlain(nest')
    BY <1>1, <1>2, <2>1 DEF Shaped, Directed
  <2>3. \A q \in ((Depth - 1) + 1)..Len(nest) : ~Owes(nest[q])
    BY <1>2, <2>1 DEF Owes
  <2> QED BY <1>1, <1>2, <2>1, <2>2, <2>3, CatchKeeps, Outwards
<1>13. CASE EndFinally
  <2> DEFINE e == dest[nest[Depth].id]
             o == Outside(nest, Depth)
  <2>1. /\ InnermostIs("finally") /\ GoTo(e, rt) /\ UNCHANGED <<dest, rethrow, made>>
    BY <1>2, <1>13 DEF EndFinally
  <2>2. Leads(o, e)
    BY <1>1, <1>2, <2>1 DEF Shaped, Directed
  <2>3. o \in Seq(Records) /\ Len(o) = Depth - 1 /\ \A i \in 1..(Depth - 1) : o[i] = nest[i]
    BY <1>2, <2>1
  <2>4. Depth \in 1..Len(nest) /\ Depth = Len(nest) /\ ~Owes(nest[Depth]) /\ status = "running"
    BY <1>2, <2>1 DEF Owes
  <2>5. Depth - 1 \in 0..Len(nest) /\ o = SubSeq(nest, 1, Depth - 1)
    BY <1>2, <2>1
  <2> HIDE DEF e, o
  <2>6. CASE e.op = "return" /\ \A q \in 1..Len(o) : ~Owes(o[q])
    <3>1. /\ nest' = <<>> /\ status' = "returned" /\ owed' = owed
          /\ rt' = [LeaveScopes(rt, e.nest, 0) EXCEPT !.stack = <<>>]
      BY <2>1, <2>6 DEF GoTo
    <3>2. RtOK(rt') /\ rt'.locks = rt.locks
      BY <1>1, <3>1, LeaveScopesKeeps DEF RtOK
    <3>3. nest' = SubSeq(nest, 1, 0) /\ \A q \in (0 + 1)..Len(nest) : ~Owes(nest[q])
      BY <1>1, <2>3, <2>4, <2>6, <3>1
    <3> QED BY <1>1, <2>1, <3>1, <3>2, <3>3, Outwards
  <2>7. ASSUME e.op = "at", NEW k \in 0..Len(o), e.nest = SubSeq(o, 1, k),
               \A q \in (k + 1)..Len(o) : ~Owes(o[q])
        PROVE  IInv'
    <3>1. /\ nest' = e.nest /\ rt' = rt /\ status' = status
          /\ owed' = owed \ IdsOf(nest', Positions(nest', {"finally"}))
      BY <2>1, <2>7 DEF GoTo
    <3>2. k \in 0..Len(nest) /\ \A q \in (k + 1)..Len(nest) : ~Owes(nest[q])
      BY <1>1, <2>3, <2>4, <2>7
    <3>3. nest' = SubSeq(nest, 1, k)
      BY <1>1, <2>3, <2>5, <2>7, <3>1, PrefixOfPrefix
    <3>4. Named(nest', made) /\ Fins(nest') = Fins(nest)
      BY <1>1, <3>2, <3>3, Truncate, PrefixOwes DEF Shaped
    <3>5. owed' = owed
      BY <3>1, <3>4, RunningNotOwed DEF IInv
    <3> QED BY <1>1, <2>1, <2>4, <3>1, <3>2, <3>3, <3>5, Outwards
  <2> QED BY <2>2, <2>6, <2>7 DEF Leads
<1> QED BY <1>4, <1>5, <1>6, <1>7, <1>8, <1>10, <1>11, <1>12, <1>13

(* a statement that leaves several, *)
LEMMA LeavingKeeps ==
    ASSUME IInv, Shapes \cap Owing = {}, Break \/ Continue \/ ReturnStmt \/ Throw
    PROVE  IInv'
<1>1. nest \in Seq(Records) /\ Len(nest) \in Nat /\ RtOK(rt)
  BY DEF IInv, Shaped, Named
<1>2. ASSUME NEW kinds \in {{"loop", "switch"}, {"loop"}}, Running, Positions(nest, kinds) # {},
             NEW k \in Nat, k <= Largest(Positions(nest, kinds)),
             k >= Largest(Positions(nest, kinds)) - 1,
             JumpOut(Largest(Positions(nest, kinds)), At(SubSeq(nest, 1, k)))
      PROVE  IInv'
  <2> DEFINE p == Largest(Positions(nest, kinds))
             h == LeaveScopes(rt, nest, p)
  <2>1. p \in 1..Len(nest) /\ nest[p].kind \in {"loop", "switch"}
    <3>1. Positions(nest, kinds) \subseteq 1..Len(nest)
      BY DEF Positions
    <3>2. p \in Positions(nest, kinds)
      BY <1>1, <1>2, <3>1, LargestExists
    <3> QED BY <1>2, <3>2 DEF Positions
  <2>2. /\ MayLeave(p) /\ LeaveTries(At(SubSeq(nest, 1, k)), p, h)
        /\ UNCHANGED <<rethrow, made>>
    BY <1>2 DEF JumpOut, MayJump
  <2>3. RtOK(h) /\ h.locks = rt.locks
    BY <1>1, LeaveScopesKeeps
  <2>4. k <= p /\ k >= p - 1
    BY <1>2
  <2> HIDE DEF p, h
  <2>5. ~Owes(nest[p]) /\ p \in 0..Len(nest) /\ k \in 0..p
    BY <1>1, <1>2, <2>1, <2>4 DEF Owes
  <2> QED BY <1>2, <2>2, <2>3, <2>4, <2>5, Jumps
<1>3. CASE Break
  <2> DEFINE p == Largest(Positions(nest, {"loop", "switch"}))
  <2>1. /\ Running /\ Positions(nest, {"loop", "switch"}) # {}
        /\ JumpOut(p, At(SubSeq(nest, 1, p - 1)))
    BY <1>3 DEF Break, Breakable, Outside
  <2>2. p \in 1..Len(nest)
    <3>1. Positions(nest, {"loop", "switch"}) \subseteq 1..Len(nest)
      BY DEF Positions
    <3> QED BY <1>1, <2>1, <3>1, LargestExists
  <2> HIDE DEF p
  <2>3. p - 1 \in Nat /\ p - 1 <= p /\ p - 1 >= p - 1
    BY <1>1, <2>2
  <2> QED BY <1>2, <2>1, <2>3 DEF p
<1>4. CASE Continue
  <2> DEFINE p == Largest(Positions(nest, {"loop"}))
  <2>1. /\ Running /\ Positions(nest, {"loop"}) # {}
        /\ JumpOut(p, At(SubSeq(nest, 1, p)))
    BY <1>4 DEF Continue
  <2>2. p \in 1..Len(nest)
    <3>1. Positions(nest, {"loop"}) \subseteq 1..Len(nest)
      BY DEF Positions
    <3> QED BY <1>1, <2>1, <3>1, LargestExists
  <2> HIDE DEF p
  <2>3. p \in Nat /\ p <= p /\ p >= p - 1
    BY <1>1, <2>2
  <2> QED BY <1>2, <2>1, <2>3 DEF p
<1>5. CASE ReturnStmt
  BY <1>1, <1>5, Jumps DEF ReturnStmt
<1>6. CASE Throw
  <2>1. CatchesPlain(nest)
    BY <1>6 DEF Throw, MayThrow, Unless, Owing, CatchesPlain, Positions
  <2> QED BY <1>6, <2>1 DEF Throw, IInv, Left, Running
<1> QED BY <1>3, <1>4, <1>5, <1>6

(* and unwinding. *)
LEMMA UnwindingKeeps ==
    ASSUME IInv,
           \/ EscapePool \/ EscapeSync \/ EscapeCatch \/ EscapeFinally
           \/ CatchArm \/ FinallyArm \/ StepPast
    PROVE  IInv'
<1>1. /\ made \in Nat /\ Shaped(nest, dest, rethrow, made) /\ Named(nest, made)
      /\ nest \in Seq(Records) /\ Len(nest) \in Nat /\ RtOK(rt)
  BY ExitsAssumption DEF IInv, Shaped, Named
<1>2. ASSUME Unwinding, Handlers(nest) # {}
      PROVE  /\ Pad \in 1..Len(nest) /\ Pad - 1 \in 0..Len(nest)
             /\ Outside(nest, Pad) = SubSeq(nest, 1, Pad - 1)
             /\ \A q \in (Pad + 1)..Len(nest) : ~Owes(nest[q])
             /\ CatchesPlain(nest) /\ CatchesPlain(Outside(nest, Pad))
             /\ status = "unwinding"
  <2>1. Handlers(nest) \subseteq 1..Len(nest)
    BY DEF Handlers, Positions
  <2>2. Pad \in 1..Len(nest) /\ \A q \in Handlers(nest) : q <= Pad
    BY <1>1, <1>2, <2>1, LargestExists DEF Pad
  <2>3. \A q \in (Pad + 1)..Len(nest) : q \in 1..Len(nest) /\ q \notin Handlers(nest)
    BY <1>1, <2>2
  <2>4. \A q \in (Pad + 1)..Len(nest) : ~Owes(nest[q])
    BY <2>3 DEF Handlers, Positions, Owes
  <2>5. Pad - 1 \in 0..Len(nest) /\ Outside(nest, Pad) = SubSeq(nest, 1, Pad - 1)
    BY <1>1, <2>2 DEF Outside
  <2>6. status = "unwinding" /\ CatchesPlain(nest)
    BY <1>2 DEF Unwinding, IInv
  <2>7. CatchesPlain(Outside(nest, Pad))
    BY <1>1, <2>5, <2>6, Truncate
  <2> QED BY <2>2, <2>4, <2>5, <2>6, <2>7
<1>3. ASSUME Unwinding, Handlers(nest) # {}, ~Owes(nest[Pad]), NEW h, Escape(h),
             RtOK(h), h.locks = rt.locks
      PROVE  IInv'
  <2>1. /\ rt' = h /\ nest' = Outside(nest, Pad)
        /\ UNCHANGED <<status, dest, rethrow, owed, made>>
    BY <1>3 DEF Escape
  <2>2. \A q \in ((Pad - 1) + 1)..Len(nest) : q = Pad \/ q \in (Pad + 1)..Len(nest)
    BY <1>1, <1>2, <1>3
  <2>3. \A q \in ((Pad - 1) + 1)..Len(nest) : ~Owes(nest[q])
    BY <1>2, <1>3, <2>2
  <2> QED BY <1>2, <1>3, <2>1, <2>3, Outwards
<1>4. CASE EscapePool
  <2>1. /\ Unwinding /\ Handlers(nest) # {} /\ nest[Pad].kind = "pool"
        /\ Escape(PopPool(rt, nest[Pad].id))
    BY <1>4 DEF EscapePool, PadIs
  <2> QED BY <1>1, <1>3, <2>1, PopPoolKeeps DEF Owes
<1>5. CASE EscapeSync
  <2>1. /\ Unwinding /\ Handlers(nest) # {} /\ nest[Pad].kind = "sync"
        /\ rt' = Unlock(rt, nest[Pad].id) /\ nest' = Outside(nest, Pad)
        /\ UNCHANGED <<status, dest, rethrow, owed, made>>
    BY <1>5 DEF EscapeSync, PadIs, Escape
  <2>2. nest[Pad].id \in rt.locks
    <3>1. nest[Pad].id \in Syncs(nest)
      BY <1>2, <2>1, SyncsMember
    <3> QED BY <3>1 DEF IInv
  <2>3. RtOK(rt') /\ rt'.locks = rt.locks \ {nest[Pad].id}
    BY <1>1, <2>1, <2>2 DEF Unlock, Fault, RtOK
  <2>4. Syncs(nest') = Syncs(nest) \ {nest[Pad].id} /\ Fins(nest') = Fins(nest)
    BY <1>1, <1>2, <2>1, OneLess
  <2>5. Shaped(nest', dest, rethrow, made)
    BY <1>1, <1>2, <2>1, Truncate
  <2> QED BY <1>2, <2>1, <2>3, <2>4, <2>5 DEF IInv, Left
<1>6. CASE EscapeCatch
  <2>1. /\ Unwinding /\ Handlers(nest) # {} /\ nest[Pad].kind = "catch"
        /\ Escape(EndCatch(rt))
    BY <1>6 DEF EscapeCatch, PadIs
  <2>2. ~Owes(nest[Pad])
    BY <1>2, <2>1 DEF Owes, CatchesPlain
  <2> QED BY <1>1, <1>3, <2>1, <2>2, CatchKeeps
<1>7. CASE EscapeFinally
  <2> DEFINE h == IF rethrow[nest[Pad].id] THEN EndCatch(rt) ELSE rt
  <2>1. /\ Unwinding /\ Handlers(nest) # {} /\ nest[Pad].kind = "finally" /\ Escape(h)
    BY <1>7 DEF EscapeFinally, PadIs
  <2>2. RtOK(h) /\ h.locks = rt.locks
    BY <1>1, CatchKeeps
  <2>3. ~Owes(nest[Pad])
    BY <2>1 DEF Owes
  <2> HIDE DEF h
  <2> QED BY <1>3, <2>1, <2>2, <2>3
<1>8. CASE CatchArm
  <2> DEFINE b == Outside(nest, Pad)
             c == [nest[Pad] EXCEPT !.kind = "catch"]
  <2>1. /\ Unwinding /\ Handlers(nest) # {} /\ nest[Pad].kind = "try"
        /\ status' = "running" /\ nest' = Append(b, c) /\ rt' = BeginCatch(rt)
        /\ UNCHANGED <<dest, rethrow, owed, made>>
    BY <1>8 DEF CatchArm, PadIs
  <2>2. /\ Shaped(b, dest, rethrow, made) /\ b \in Seq(Records) /\ Len(b) = Pad - 1
        /\ \A q \in 1..(Pad - 1) : b[q] = nest[q] /\ q \in 1..Len(nest) /\ q # Pad
    <3>1. Pad - 1 \in 0..Len(nest) /\ Outside(nest, Pad) = SubSeq(nest, 1, Pad - 1)
      BY <1>2, <2>1
    <3> QED BY <1>1, <3>1, Truncate, Prefix
  <2>3. Pad \in 1..Len(nest) /\ nest[Pad] \in Records
    BY <1>1, <1>2, <2>1
  <2>4. /\ c \in Records /\ c.id = nest[Pad].id /\ c.kind = "catch"
        /\ c.fin = nest[Pad].fin
    BY <2>3 DEF Records
  <2>5. /\ c.id \in 1..made /\ ~rethrow[c.id]
        /\ \A q \in 1..Len(b) : b[q].id # c.id
    BY <1>1, <2>1, <2>2, <2>3, <2>4 DEF Named, Shaped, Directed
  <2>6. /\ Syncs(b) = Syncs(nest)
        /\ Fins(b) = IF nest[Pad].fin THEN Fins(nest) \ {nest[Pad].id} ELSE Fins(nest)
    BY <1>1, <1>2, <2>1, <2>3, OneLess
  <2>7. nest[Pad].fin => nest[Pad].id \in Fins(nest)
    BY <2>1, <2>3, FinsMember
  <2> HIDE DEF b, c
  <2>8. Shaped(nest', dest, rethrow, made)
    BY <1>1, <2>1, <2>2, <2>4, <2>5, Extend
  <2>9. /\ Syncs(nest') = Syncs(b)
        /\ Fins(nest') = IF c.fin THEN Fins(b) \cup {c.id} ELSE Fins(b)
    BY <2>1, <2>2, <2>4, OneMoreOwes
  <2>10. Syncs(nest') = Syncs(nest) /\ Fins(nest') = Fins(nest)
    BY <2>4, <2>6, <2>7, <2>9
  <2> QED BY <1>1, <2>1, <2>8, <2>10, CatchKeeps DEF IInv, Left
<1>9. CASE FinallyArm
  <2>1. /\ Unwinding /\ Handlers(nest) # {} /\ nest[Pad].kind = "try" /\ nest[Pad].fin
        /\ status' = "running" /\ rethrow' = [rethrow EXCEPT ![nest[Pad].id] = TRUE]
        /\ LeaveTry(Pad, BeginCatch(rt)) /\ UNCHANGED made
    BY <1>9 DEF FinallyArm, PadIs
  <2>2. /\ rt' = BeginCatch(rt) /\ EnterFinally(nest, Pad)
        /\ dest' = [dest EXCEPT ![nest[Pad].id] = At(Outside(nest, Pad))]
    BY <2>1 DEF LeaveTry
  <2>3. nest[Pad].id \in Ids /\ Pad \in 1..Len(nest)
    <3>1. made <= MaxConstructs /\ MaxConstructs \in Nat
      BY ExitsAssumption DEF IInv
    <3>2. Pad \in 1..Len(nest)
      BY <1>2, <2>1
    <3> QED BY <1>1, <3>1, <3>2 DEF Named, Ids
  <2>4. /\ dest' = [i \in Ids |-> dest'[i]] /\ rethrow' = [i \in Ids |-> rethrow'[i]]
        /\ \A i \in Ids : i # nest[Pad].id => dest'[i] = dest[i] /\ rethrow'[i] = rethrow[i]
        /\ dest'[nest[Pad].id] = At(Outside(nest, Pad))
    BY <2>1, <2>2, <2>3 DEF IInv
  <2>5. Leads(Outside(nest, Pad), dest'[nest[Pad].id])
    <3>1. Outside(nest, Pad) \in Seq(Records)
      BY <1>1, <1>2, <2>1, Prefix
    <3> QED BY <2>4, <3>1, LeadsStraight
  <2>6. CatchesPlain(Outside(nest, Pad)) /\ \A q \in (Pad + 1)..Len(nest) : ~Owes(nest[q])
    BY <1>2, <2>1
  <2>7. RtOK(rt') /\ rt'.locks = rt.locks
    BY <1>1, <2>2, CatchKeeps
  <2> QED BY <2>1, <2>2, <2>3, <2>4, <2>5, <2>6, <2>7, Through
<1>10. CASE StepPast
  <2>1. /\ Unwinding /\ status' = "thrown" /\ nest' = <<>>
        /\ rt' = [rt EXCEPT !.stack = <<>>] /\ UNCHANGED <<dest, rethrow, owed, made>>
        /\ \/ Handlers(nest) = {}
           \/ /\ Handlers(nest) # {} /\ nest[Pad].kind = "try"
              /\ nest[Pad].claims # "all" /\ ~nest[Pad].fin
    BY <1>10 DEF StepPast, PadIs
  <2>2. \A q \in (0 + 1)..Len(nest) : ~Owes(nest[q])
    <3>1. CASE Handlers(nest) = {}
      BY <3>1 DEF Handlers, Positions, Owes
    <3>2. CASE Handlers(nest) # {}
      <4>1. /\ Pad \in 1..Len(nest) /\ \A q \in (Pad + 1)..Len(nest) : ~Owes(nest[q])
        BY <1>2, <2>1, <3>2
      <4>2. \A q \in 1..(Pad - 1) : nest[q].kind \notin HandlerKinds
        BY <1>1, <2>1, <3>2, <4>1 DEF Shaped, Claimed
      <4>3. \A q \in 1..(Pad - 1) : ~Owes(nest[q])
        BY <4>2 DEF Owes, HandlerKinds
      <4>4. ~Owes(nest[Pad])
        BY <2>1, <3>2 DEF Owes
      <4>5. \A q \in (0 + 1)..Len(nest) :
                q \in 1..(Pad - 1) \/ q = Pad \/ q \in (Pad + 1)..Len(nest)
        BY <1>1, <4>1
      <4> QED BY <4>1, <4>3, <4>4, <4>5
    <3> QED BY <3>1, <3>2
  <2>3. nest' = SubSeq(nest, 1, 0) /\ 0 \in 0..Len(nest)
    BY <1>1, <2>1
  <2>4. RtOK(rt') /\ rt'.locks = rt.locks
    BY <1>1, <2>1 DEF RtOK
  <2> QED BY <2>1, <2>2, <2>3, <2>4, Outwards
<1> QED BY <1>4, <1>5, <1>6, <1>7, <1>8, <1>9, <1>10

-----------------------------------------------------------------------------
(* The inductive invariant: where the @finally blocks that are running lead, and
   what is owed, at every statement of every program without the owing shapes. *)
THEOREM WhereFinallysLead ==
    ASSUME Shapes \cap Owing = {}
    PROVE  Spec => []IInv
<1>1. Init => IInv
  <2> SUFFICES ASSUME Init PROVE IInv
    OBVIOUS
  <2>1. /\ nest = <<>> /\ status = "running" /\ rt = Holding /\ owed = {} /\ made = 0
        /\ dest = [i \in Ids |-> At(<<>>)] /\ rethrow = [i \in Ids |-> FALSE]
    BY DEF Init
  <2>2. dest = [i \in Ids |-> dest[i]] /\ rethrow = [i \in Ids |-> rethrow[i]]
    BY <2>1
  <2>3. RtOK(rt) /\ rt.locks = {}
    BY <2>1 DEF Holding, RtOK
  <2>4. Shaped(nest, dest, rethrow, made)
    BY <2>1, NothingAround
  <2>5. made \in 0..MaxConstructs
    BY <2>1, ExitsAssumption
  <2> QED BY <2>1, <2>2, <2>3, <2>4, <2>5, NothingAround DEF IInv, Left
<1>2. IInv /\ [Next]_vars => IInv'
  <2>1. ASSUME IInv, Next PROVE IInv'
    BY <2>1, EnteringKeeps, DeclaringKeeps, EndingKeeps, LeavingKeeps, UnwindingKeeps DEF Next
  <2>2. ASSUME IInv, UNCHANGED vars PROVE IInv'
    BY <2>2 DEF vars, IInv, Left
  <2> QED BY <2>1, <2>2
<1> QED BY <1>1, <1>2, PTL DEF Spec

(* The unlock of a @synchronized happens on every path out of it, and once. *)
THEOREM LocksGivenBack ==
    ASSUME Shapes \cap Owing = {}
    PROVE  Spec => []LocksOwned
<1>1. IInv => LocksOwned
  BY NothingAround DEF IInv, LocksOwned, RtOK, Syncs
<1> QED BY <1>1, WhereFinallysLead, PTL

(* A @finally runs on every path out of its @try: those still owed are those of the
   @try statements around control, and a function that has been left owes none. *)
THEOREM FinallysRun ==
    ASSUME Shapes \cap Owing = {}
    PROVE  Spec => []FinallysOwed
<1>1. IInv => FinallysOwed
  BY NothingAround DEF IInv, FinallysOwed, Fins
<1> QED BY <1>1, WhereFinallysLead, PTL

-----------------------------------------------------------------------------
(* What the frame holds, by what owns it: a strong local or an array that a scope
   has declared, a pool, a catch that was begun.  A @finally that will return is
   counted with them: nothing may pass it. *)
Owns(c, w, r, d) ==
    \/ w = "local" /\ c.kind = "scope" /\ c.local
    \/ w = "array" /\ c.kind = "scope" /\ c.vla
    \/ w = "pool" /\ c.kind = "pool"
    \/ w = "catch" /\ c.kind = "catch"
    \/ w = "catch" /\ c.kind = "finally" /\ r[c.id]
    \/ w = "return" /\ c.kind = "finally" /\ d[c.id].op = "return"

NoneIn(n, w, r, d) == \A p \in 1..Len(n) : ~Owns(n[p], w, r, d)
NoneFrom(n, k, w, r, d) == \A p \in (k + 1)..Len(n) : ~Owns(n[p], w, r, d)

Of(n, w, r, d) == {n[p].id : p \in {q \in 1..Len(n) : Owns(n[q], w, r, d)}}
From(n, k, w, r, d) == {n[p].id : p \in {q \in (k + 1)..Len(n) : Owns(n[q], w, r, d)}}

(* Constructs are numbered as they are entered. *)
Ordered(n, m) ==
    /\ n \in Seq(Records)
    /\ \A p \in 1..Len(n) : n[p].id \in 1..m
    /\ \A p, q \in 1..Len(n) : p < q => n[p].id < n[q].id

NestOK(n, r, m) == /\ Ordered(n, m)
                   /\ \A p \in 1..Len(n) : n[p].kind \in {"try", "catch"} => ~r[n[p].id]

(* The exit of a @finally in n passes over no w; a return takes the locals and the
   pools with it.  One that an exception entered stands in no @finally that returns,
   and past no array. *)
Clears(n, e, b, w, r, d) ==
    /\ \/ e.op = "at" /\ \E k \in 0..Len(n) : e.nest = SubSeq(n, 1, k) /\ NoneFrom(n, k, w, r, d)
       \/ e.op = "return" /\ (w \in {"array", "catch", "return"} => NoneIn(n, w, r, d))
    /\ b /\ w \in {"array", "return"} => NoneIn(n, w, r, d)

Cleared(n, w, r, d) ==
    \A p \in 1..Len(n) : n[p].kind = "finally" =>
        Clears(Outside(n, p), d[n[p].id], r[n[p].id], w, r, d)

(* The @finally at p of n will return from o: n was o up to there, and what has been
   entered since is newer than all of o. *)
Awaits(n, p, o, m) ==
    /\ Ordered(o, m) /\ p \in 1..Len(o)
    /\ \A i \in 1..(p - 1) : o[i] = n[i]
    /\ \A q \in (p + 1)..Len(n), j \in 1..Len(o) : o[j].id < n[q].id

Awaited(n, r, d, m) ==
    \A p \in 1..Len(n) : Owns(n[p], "return", r, d) =>
        Awaits(n, p, d[n[p].id].nest, m) /\ ~r[n[p].id]

-----------------------------------------------------------------------------
LEMMA OrderedPrefix ==
    ASSUME NEW n, NEW m, Ordered(n, m), NEW k \in 0..Len(n)
    PROVE  /\ Ordered(SubSeq(n, 1, k), m) /\ n \in Seq(Records) /\ Len(n) \in Nat
           /\ Len(SubSeq(n, 1, k)) = k
           /\ \A i \in 1..k : SubSeq(n, 1, k)[i] = n[i] /\ i \in 1..Len(n)
<1> DEFINE o == SubSeq(n, 1, k)
<1>1. n \in Seq(Records) /\ Len(n) \in Nat
  BY DEF Ordered
<1>2. o \in Seq(Records) /\ Len(o) = k /\ \A i \in 1..k : o[i] = n[i]
  BY <1>1, Prefix
<1> HIDE DEF o
<1>3. \A i \in 1..k : i \in 1..Len(n)
  BY <1>1
<1>4. Ordered(o, m)
  BY <1>2, <1>3 DEF Ordered
<1> QED BY <1>1, <1>2, <1>3, <1>4 DEF o

LEMMA OrderedMore ==
    ASSUME NEW n, NEW m \in Nat, Ordered(n, m), NEW c \in Records, NEW l \in Nat, m <= l,
           c.id \in 1..l, \A p \in 1..Len(n) : n[p].id < c.id
    PROVE  /\ Ordered(Append(n, c), l) /\ Len(Append(n, c)) = Len(n) + 1 /\ Len(n) \in Nat
           /\ Append(n, c)[Len(n) + 1] = c
           /\ \A p \in 1..Len(n) : Append(n, c)[p] = n[p]
           /\ \A p : p \in 1..Len(Append(n, c)) <=> p \in 1..Len(n) \/ p = Len(n) + 1
<1> DEFINE o == Append(n, c)  h == Len(n)
<1>1. n \in Seq(Records) /\ h \in Nat
  BY DEF Ordered
<1>2. o \in Seq(Records) /\ Len(o) = h + 1 /\ o[h + 1] = c /\ \A p \in 1..h : o[p] = n[p]
  BY <1>1, OneMore
<1>3. h = Len(n)
  OBVIOUS
<1> HIDE DEF o, h
<1>4. \A p : p \in 1..(h + 1) <=> p \in 1..h \/ p = h + 1
  BY <1>1
<1>5. \A p \in 1..(h + 1) : o[p].id \in 1..l
  <2>1. \A p \in 1..h : n[p].id \in 1..l
    BY <1>3 DEF Ordered
  <2> QED BY <1>2, <1>4, <2>1
<1>6. \A p, q \in 1..(h + 1) : p < q => o[p].id < o[q].id
  <2> SUFFICES ASSUME NEW p \in 1..(h + 1), NEW q \in 1..(h + 1), p < q
               PROVE  o[p].id < o[q].id
    OBVIOUS
  <2>1. p \in 1..h
    BY <1>1
  <2>2. CASE q \in 1..h
    BY <1>2, <1>3, <2>1, <2>2 DEF Ordered
  <2>3. CASE q = h + 1
    BY <1>2, <1>3, <2>1, <2>3
  <2> QED BY <1>4, <2>2, <2>3
<1> QED BY <1>1, <1>2, <1>3, <1>4, <1>5, <1>6 DEF Ordered, o

(* Only a @finally's ownership depends on the slots. *)
LEMMA OwnsAlike ==
    ASSUME NEW c, NEW r, NEW d, NEW s, NEW e, s[c.id] = r[c.id], e[c.id] = d[c.id], NEW w
    PROVE  Owns(c, w, s, e) <=> Owns(c, w, r, d)
BY DEF Owns

LEMMA OfMember ==
    ASSUME NEW n, NEW w, NEW r, NEW d, NEW x
    PROVE  x \in Of(n, w, r, d) <=> \E p \in 1..Len(n) : Owns(n[p], w, r, d) /\ n[p].id = x
BY DEF Of

LEMMA FromMember ==
    ASSUME NEW n, NEW k, NEW w, NEW r, NEW d, NEW x
    PROVE  x \in From(n, k, w, r, d) <=>
               \E p \in (k + 1)..Len(n) : Owns(n[p], w, r, d) /\ n[p].id = x
BY DEF From

(* A nest cut at k keeps what its constructs own, all of it older than the rest. *)
LEMMA OfPrefix ==
    ASSUME NEW n, NEW m \in Nat, Ordered(n, m), NEW k \in 0..Len(n), NEW w, NEW r, NEW d
    PROVE  /\ Of(n, w, r, d) = Of(SubSeq(n, 1, k), w, r, d) \cup From(n, k, w, r, d)
           /\ \A x \in Of(SubSeq(n, 1, k), w, r, d), y \in From(n, k, w, r, d) : x < y
           /\ Of(n, w, r, d) \subseteq 1..m
           /\ NoneFrom(n, k, w, r, d) => From(n, k, w, r, d) = {}
<1> DEFINE o == SubSeq(n, 1, k)
<1>1. /\ Len(n) \in Nat /\ Len(o) = k /\ \A i \in 1..k : o[i] = n[i] /\ i \in 1..Len(n)
  BY OrderedPrefix
<1> HIDE DEF o
<1>2. \A i : i \in 1..Len(n) <=> i \in 1..k \/ i \in (k + 1)..Len(n)
  BY <1>1
<1>3. ASSUME NEW x
      PROVE  x \in Of(n, w, r, d) <=> x \in Of(o, w, r, d) \/ x \in From(n, k, w, r, d)
  BY <1>1, <1>2, OfMember, FromMember
<1>4. \A x \in Of(o, w, r, d), y \in From(n, k, w, r, d) : x < y
  <2> SUFFICES ASSUME NEW i \in 1..k, NEW j \in (k + 1)..Len(n) PROVE n[i].id < n[j].id
    BY <1>1, OfMember, FromMember
  <2>1. i \in 1..Len(n) /\ j \in 1..Len(n) /\ i < j
    BY <1>1
  <2> QED BY <2>1 DEF Ordered
<1>5. Of(n, w, r, d) \subseteq 1..m
  BY OfMember DEF Ordered
<1>6. NoneFrom(n, k, w, r, d) => From(n, k, w, r, d) = {}
  BY FromMember DEF NoneFrom
<1>7. Of(n, w, r, d) = Of(o, w, r, d) \cup From(n, k, w, r, d)
  BY <1>3
<1> QED BY <1>4, <1>5, <1>6, <1>7 DEF o

LEMMA OfMore ==
    ASSUME NEW n, NEW m \in Nat, Ordered(n, m), NEW c \in Records,
           NEW w, NEW r, NEW d, NEW s, NEW e,
           \A p \in 1..Len(n) : s[n[p].id] = r[n[p].id] /\ e[n[p].id] = d[n[p].id]
    PROVE  /\ Owns(c, w, s, e) => Of(Append(n, c), w, s, e) = Of(n, w, r, d) \cup {c.id}
           /\ ~Owns(c, w, s, e) => Of(Append(n, c), w, s, e) = Of(n, w, r, d)
<1> DEFINE o == Append(n, c)
<1>1. /\ Len(n) \in Nat /\ Len(o) = Len(n) + 1 /\ o[Len(n) + 1] = c
      /\ \A p \in 1..Len(n) : o[p] = n[p]
  BY OneMore DEF Ordered
<1> HIDE DEF o
<1>2. \A p : p \in 1..Len(o) <=> p \in 1..Len(n) \/ p = Len(n) + 1
  BY <1>1
<1>3. \A p \in 1..Len(n) : Owns(o[p], w, s, e) <=> Owns(n[p], w, r, d)
  BY <1>1, OwnsAlike
<1>4. ASSUME NEW x
      PROVE  x \in Of(o, w, s, e) <=> x \in Of(n, w, r, d) \/ (Owns(c, w, s, e) /\ x = c.id)
  BY <1>1, <1>2, <1>3, OfMember
<1>5. Owns(c, w, s, e) => Of(o, w, s, e) = Of(n, w, r, d) \cup {c.id}
  BY <1>4
<1>6. ~Owns(c, w, s, e) => Of(o, w, s, e) = Of(n, w, r, d)
  BY <1>4
<1> QED BY <1>5, <1>6 DEF o

(* What is held of a kind at n: what its constructs own, and what those own that
   stood around a return that waits. *)
Held(n, w, r, d) ==
    Of(n, w, r, d) \cup
    {x \in Nat : /\ w \in {"local", "pool"}
                 /\ \E p \in 1..Len(n) : /\ Owns(n[p], "return", r, d)
                                         /\ x \in Of(d[n[p].id].nest, w, r, d)}

AllClaimed == "no claim" \notin Shapes

(* The nest, watched for the kinds V. *)
Sound(n, r, d, m, V) ==
    /\ NestOK(n, r, m)
    /\ \A w \in V : Cleared(n, w, r, d)
    /\ "return" \in V => Awaited(n, r, d, m)
    /\ AllClaimed => Claimed(n)

(* The kinds a property is about. *)
Watches == {{"pool", "return"}, {"local", "array", "return"}, {"catch"}}

LEMMA HeldMember ==
    ASSUME NEW n, NEW w, NEW r, NEW d, NEW x
    PROVE  x \in Held(n, w, r, d) <=>
               \/ x \in Of(n, w, r, d)
               \/ /\ x \in Nat /\ w \in {"local", "pool"}
                  /\ \E p \in 1..Len(n) : /\ Owns(n[p], "return", r, d)
                                          /\ x \in Of(d[n[p].id].nest, w, r, d)
BY DEF Held

(* A return's exit is watched alike wherever its owners read the same slots. *)
LEMMA ClearsAlike ==
    ASSUME NEW n, NEW x, NEW b, NEW w, NEW r, NEW d, NEW s, NEW e,
           n \in Seq(Records), Clears(n, x, b, w, r, d),
           \A p \in 1..Len(n) : s[n[p].id] = r[n[p].id] /\ e[n[p].id] = d[n[p].id]
    PROVE  Clears(n, x, b, w, s, e)
<1>1. \A p \in 1..Len(n) : Owns(n[p], w, s, e) <=> Owns(n[p], w, r, d)
  BY OwnsAlike
<1>2. \A k \in 0..Len(n) : \A p \in (k + 1)..Len(n) : p \in 1..Len(n)
  OBVIOUS
<1>3. NoneIn(n, w, r, d) => NoneIn(n, w, s, e)
  BY <1>1 DEF NoneIn
<1>4. \A k \in 0..Len(n) : NoneFrom(n, k, w, r, d) => NoneFrom(n, k, w, s, e)
  BY <1>1, <1>2 DEF NoneFrom
<1> QED BY <1>3, <1>4 DEF Clears

(* A nest cut short is watched as the whole was. *)
LEMMA CutSound ==
    ASSUME NEW V, NEW n, NEW r, NEW d, NEW m \in Nat, Sound(n, r, d, m, V),
           NEW k \in 0..Len(n)
    PROVE  Sound(SubSeq(n, 1, k), r, d, m, V)
<1> DEFINE o == SubSeq(n, 1, k)
<1>1. NestOK(n, r, m) /\ Ordered(n, m)
  BY DEF Sound, NestOK
<1>2. /\ Ordered(o, m) /\ n \in Seq(Records) /\ Len(n) \in Nat /\ Len(o) = k
      /\ \A i \in 1..k : o[i] = n[i] /\ i \in 1..Len(n)
  BY <1>1, OrderedPrefix
<1>3. \A p \in 1..k : Outside(o, p) = Outside(n, p)
  BY <1>2, PrefixOfPrefix DEF Outside
<1> HIDE DEF o
<1>4. NestOK(o, r, m)
  BY <1>1, <1>2 DEF NestOK
<1>5. \A w \in V : Cleared(o, w, r, d)
  BY <1>2, <1>3 DEF Sound, Cleared
<1>6. "return" \in V => Awaited(o, r, d, m)
  <2> SUFFICES ASSUME "return" \in V, NEW p \in 1..k, Owns(o[p], "return", r, d)
               PROVE  Awaits(o, p, d[o[p].id].nest, m) /\ ~r[o[p].id]
    BY <1>2 DEF Awaited
  <2>1. Awaits(n, p, d[n[p].id].nest, m) /\ ~r[n[p].id] /\ o[p] = n[p]
    BY <1>2 DEF Sound, Awaited
  <2>2. \A i \in 1..(p - 1) : i \in 1..k
    BY <1>2
  <2>3. \A q \in (p + 1)..k : q \in (p + 1)..Len(n) /\ q \in 1..k
    BY <1>2
  <2> QED BY <1>2, <2>1, <2>2, <2>3 DEF Awaits
<1>7. AllClaimed => Claimed(o)
  <2> SUFFICES ASSUME AllClaimed, NEW p \in 1..k, o[p].kind = "try",
                      ~o[p].fin, o[p].claims # "all", NEW q \in 1..(p - 1)
               PROVE  o[q].kind \notin HandlerKinds
    BY <1>2 DEF Claimed
  <2>0. k \in Nat
    BY <1>2
  <2>1. q \in 1..k
    BY <2>0
  <2>2. Claimed(n)
    BY DEF Sound
  <2> QED BY <1>2, <2>1, <2>2 DEF Claimed
<1> QED BY <1>4, <1>5, <1>6, <1>7 DEF Sound, o

(* A construct that may come to stand innermost in n, the slots being s and e then. *)
Alike(n, r, d, s, e) == \A p \in 1..Len(n) : s[n[p].id] = r[n[p].id] /\ e[n[p].id] = d[n[p].id]

Newest(n, c, r, d, V) ==
    /\ \A p \in 1..Len(n) : n[p].id < c.id
    /\ "return" \in V => \A p \in 1..Len(n) : Owns(n[p], "return", r, d) =>
            \A j \in 1..Len(d[n[p].id].nest) : d[n[p].id].nest[j].id < c.id

Fits(n, c, r, d, s, e, l, V) ==
    /\ c \in Records /\ l \in Nat /\ c.id \in 1..l
    /\ Newest(n, c, r, d, V)
    /\ Alike(n, r, d, s, e)
    /\ c.kind \in {"try", "catch"} => ~s[c.id]
    /\ c.kind = "finally" => \A w \in V : Clears(n, e[c.id], s[c.id], w, r, d)
    /\ "return" \in V /\ Owns(c, "return", s, e) =>
            /\ ~s[c.id] /\ Ordered(e[c.id].nest, l)
            /\ Len(n) + 1 \in 1..Len(e[c.id].nest)
            /\ \A i \in 1..Len(n) : e[c.id].nest[i] = n[i]
    /\ AllClaimed /\ c.kind = "try" /\ ~c.fin /\ c.claims # "all" =>
            \A q \in 1..Len(n) : n[q].kind \notin HandlerKinds

(* So is one with a construct more, of a kind and a number that fit. *)
LEMMA MoreSound ==
    ASSUME NEW V, NEW n, NEW r, NEW d, NEW m \in Nat, Sound(n, r, d, m, V),
           NEW c, NEW s, NEW e, NEW l, m <= l, Fits(n, c, r, d, s, e, l, V)
    PROVE  Sound(Append(n, c), s, e, l, V)
<1> DEFINE o == Append(n, c)  h == Len(n)
<1>0. NestOK(n, r, m) /\ Ordered(n, m) /\ n \in Seq(Records)
  BY DEF Sound, NestOK, Ordered
<1>1. NestOK(n, r, m) /\ Ordered(n, m) /\ n \in Seq(Records) /\ h \in Nat /\ h = Len(n)
  BY <1>0
<1>5. \A p \in 1..h : s[n[p].id] = r[n[p].id] /\ e[n[p].id] = d[n[p].id]
  BY DEF Fits, Alike
<1>6. c \in Records /\ l \in Nat /\ c.id \in 1..l /\ \A p \in 1..h : n[p].id < c.id
  BY DEF Fits, Newest
<1>2. /\ Ordered(o, l) /\ Len(o) = h + 1 /\ o[h + 1] = c
      /\ \A p \in 1..h : o[p] = n[p]
      /\ \A p : p \in 1..Len(o) <=> p \in 1..h \/ p = h + 1
  BY <1>1, <1>6, OrderedMore
<1>3. \A p \in 1..h : Outside(o, p) = Outside(n, p)
  BY <1>1, <1>6, OneMore DEF Outside
<1>4. Outside(o, h + 1) = n
  <2>1. Outside(o, h + 1) = SubSeq(n, 1, h)
    BY <1>1, <1>6, OneMore DEF Outside
  <2> QED BY <1>1, <2>1, SubSeqFull
<1> HIDE DEF o, h
<1>7. NestOK(o, s, l)
  <2>1. c.kind \in {"try", "catch"} => ~s[c.id]
    BY DEF Fits
  <2>2. \A p \in 1..h : n[p].kind \in {"try", "catch"} => ~r[n[p].id]
    BY <1>1 DEF NestOK
  <2> QED BY <1>2, <1>5, <2>1, <2>2 DEF NestOK
<1>9. ASSUME NEW w \in V PROVE Cleared(o, w, s, e)
  <2> SUFFICES ASSUME NEW p \in 1..Len(o), o[p].kind = "finally"
               PROVE  Clears(Outside(o, p), e[o[p].id], s[o[p].id], w, s, e)
    BY DEF Cleared
  <2>1. CASE p = h + 1
    <3>1. Clears(n, e[c.id], s[c.id], w, r, d)
      BY <1>2, <2>1 DEF Fits
    <3>2. Clears(n, e[c.id], s[c.id], w, s, e)
      BY <1>1, <1>5, <3>1, ClearsAlike
    <3> QED BY <1>2, <1>4, <2>1, <3>2
  <2>2. CASE p \in 1..h
    <3>1. Clears(Outside(n, p), d[n[p].id], r[n[p].id], w, r, d)
      BY <1>1, <1>2, <2>2 DEF Sound, Cleared
    <3>2. /\ Outside(n, p) \in Seq(Records)
          /\ \A i \in 1..Len(Outside(n, p)) : Outside(n, p)[i] = n[i] /\ i \in 1..h
      <4>1. p - 1 \in 0..h /\ \A i \in 1..(p - 1) : i \in 1..h
        BY <1>1, <2>2
      <4> QED BY <1>1, <4>1, Prefix DEF Outside
    <3>3. /\ e[o[p].id] = d[n[p].id] /\ s[o[p].id] = r[n[p].id]
          /\ Outside(o, p) = Outside(n, p)
      BY <1>2, <1>3, <1>5, <2>2
    <3> DEFINE b == Outside(n, p)
    <3> HIDE DEF b
    <3>4. \A i \in 1..Len(b) : s[b[i].id] = r[b[i].id] /\ e[b[i].id] = d[b[i].id]
      BY <1>5, <3>2 DEF b
    <3>5. Clears(b, d[n[p].id], r[n[p].id], w, s, e)
      BY <3>1, <3>2, <3>4, ClearsAlike DEF b
    <3> QED BY <3>3, <3>5 DEF b
  <2> QED BY <1>2, <2>1, <2>2
<1>10. ASSUME "return" \in V PROVE Awaited(o, s, e, l)
  <2> SUFFICES ASSUME NEW p \in 1..Len(o), Owns(o[p], "return", s, e)
               PROVE  Awaits(o, p, e[o[p].id].nest, l) /\ ~s[o[p].id]
    BY DEF Awaited
  <2>1. CASE p = h + 1
    <3>1. \A i \in 1..(p - 1) : i \in 1..h
      BY <1>1, <2>1
    <3>2. \A q \in (p + 1)..Len(o) : FALSE
      BY <1>1, <1>2, <2>1
    <3>3. /\ ~s[c.id] /\ Ordered(e[c.id].nest, l) /\ h + 1 \in 1..Len(e[c.id].nest)
          /\ \A i \in 1..h : e[c.id].nest[i] = n[i]
      BY <1>1, <1>2, <1>10, <2>1 DEF Fits
    <3> QED BY <1>2, <2>1, <3>1, <3>2, <3>3 DEF Awaits
  <2>2. CASE p \in 1..h
    <3> DEFINE a == d[n[p].id].nest
    <3>1. o[p] = n[p] /\ Owns(n[p], "return", r, d)
      BY <1>2, <1>5, <2>2, OwnsAlike
    <3>2. Awaits(n, p, a, m) /\ ~r[n[p].id]
      BY <1>1, <1>10, <2>2, <3>1 DEF Sound, Awaited
    <3>3. \A j \in 1..Len(a) : a[j].id < c.id
      BY <1>1, <1>10, <2>2, <3>1 DEF Fits, Newest
    <3>4. e[o[p].id].nest = a /\ ~s[o[p].id]
      BY <1>5, <2>2, <3>1, <3>2
    <3> HIDE DEF a
    <3>5. \A i \in 1..(p - 1) : i \in 1..h
      BY <1>1, <2>2
    <3>6. \A q \in (p + 1)..Len(o) : q = h + 1 \/ (q \in (p + 1)..h /\ q \in 1..h)
      BY <1>1, <1>2, <2>2
    <3>7. Ordered(a, l)
      <4>1. \A i \in 1..m : i \in 1..l
        BY <1>6
      <4> QED BY <3>2, <4>1 DEF Awaits, Ordered
    <3>8. \A i \in 1..(p - 1) : a[i] = o[i]
      BY <1>2, <3>2, <3>5 DEF Awaits
    <3>9. \A q \in (p + 1)..Len(o), j \in 1..Len(a) : a[j].id < o[q].id
      BY <1>1, <1>2, <3>2, <3>3, <3>6 DEF Awaits
    <3> QED BY <3>2, <3>4, <3>7, <3>8, <3>9 DEF Awaits
  <2> QED BY <1>2, <2>1, <2>2
<1>11. AllClaimed => Claimed(o)
  <2> SUFFICES ASSUME AllClaimed, NEW p \in 1..Len(o), o[p].kind = "try",
                      ~o[p].fin, o[p].claims # "all", NEW q \in 1..(p - 1)
               PROVE  o[q].kind \notin HandlerKinds
    BY DEF Claimed
  <2>1. q \in 1..h /\ o[q] = n[q]
    <3>1. p \in 1..(h + 1)
      BY <1>2
    <3>2. h \in Nat
      BY <1>1
    <3>3. q \in 1..h
      BY <3>1, <3>2
    <3> QED BY <1>2, <3>3
  <2>2. CASE p \in 1..h
    <3>1. Claimed(n) /\ o[p] = n[p]
      BY <1>2, <2>2 DEF Sound
    <3> QED BY <1>1, <2>1, <2>2, <3>1 DEF Claimed
  <2>3. CASE p = h + 1
    BY <1>1, <1>2, <2>1, <2>3 DEF Fits
  <2> QED BY <1>2, <2>2, <2>3
<1> QED BY <1>7, <1>9, <1>10, <1>11 DEF Sound, o

(* What a nest holds is what its prefix holds, and then what is newer. *)
LEMMA HeldCut ==
    ASSUME NEW V \in Watches, NEW n, NEW r, NEW d, NEW m \in Nat, Sound(n, r, d, m, V),
           NEW k \in 0..Len(n), "return" \in V => NoneFrom(n, k, "return", r, d), NEW w \in V
    PROVE  /\ Held(n, w, r, d) = Held(SubSeq(n, 1, k), w, r, d) \cup From(n, k, w, r, d)
           /\ \A x \in Held(SubSeq(n, 1, k), w, r, d), y \in From(n, k, w, r, d) : x < y
           /\ Held(n, w, r, d) \subseteq 1..m
           /\ NoneFrom(n, k, w, r, d) => From(n, k, w, r, d) = {}
<1> DEFINE o == SubSeq(n, 1, k)
<1>1. Ordered(n, m)
  BY DEF Sound, NestOK
<1>2. /\ n \in Seq(Records) /\ Len(n) \in Nat /\ Len(o) = k
      /\ \A i \in 1..k : o[i] = n[i] /\ i \in 1..Len(n)
  BY <1>1, OrderedPrefix
<1>3. /\ Of(n, w, r, d) = Of(o, w, r, d) \cup From(n, k, w, r, d)
      /\ \A x \in Of(o, w, r, d), y \in From(n, k, w, r, d) : x < y
      /\ Of(n, w, r, d) \subseteq 1..m
      /\ NoneFrom(n, k, w, r, d) => From(n, k, w, r, d) = {}
  BY <1>1, OfPrefix
<1>4. w \in {"local", "pool"} => "return" \in V
  BY DEF Watches
<1> HIDE DEF o
<1>5. ASSUME w \in {"local", "pool"}, NEW p \in 1..Len(n), Owns(n[p], "return", r, d)
      PROVE  /\ p \in 1..k
             /\ Ordered(d[n[p].id].nest, m)
             /\ \A x \in Of(d[n[p].id].nest, w, r, d), y \in From(n, k, w, r, d) : x < y
             /\ Of(d[n[p].id].nest, w, r, d) \subseteq 1..m
  <2> DEFINE a == d[n[p].id].nest
  <2>1. Awaits(n, p, a, m)
    BY <1>4, <1>5 DEF Sound, Awaited
  <2> HIDE DEF a
  <2>2. p \in 1..k
    <3>1. k \in Nat /\ ~(p \in (k + 1)..Len(n))
      BY <1>2, <1>4, <1>5 DEF NoneFrom
    <3> QED BY <1>2, <3>1
  <2>3. Ordered(a, m) /\ \A q \in (p + 1)..Len(n), j \in 1..Len(a) : a[j].id < n[q].id
    BY <2>1 DEF Awaits
  <2>4. \A q \in (k + 1)..Len(n) : q \in (p + 1)..Len(n)
    BY <1>2, <2>2
  <2>5. \A x \in Of(a, w, r, d), y \in From(n, k, w, r, d) : x < y
    BY <2>3, <2>4, OfMember, FromMember
  <2>6. Of(a, w, r, d) \subseteq 1..m
    BY <2>3, OfMember DEF Ordered
  <2> QED BY <2>2, <2>3, <2>5, <2>6 DEF a
<1>6. \A p \in 1..k : Owns(o[p], "return", r, d) <=> Owns(n[p], "return", r, d)
  BY <1>2
<1>7. ASSUME NEW x
      PROVE  x \in Held(n, w, r, d) <=> x \in Held(o, w, r, d) \/ x \in From(n, k, w, r, d)
  <2>1. x \in Of(n, w, r, d) <=> x \in Of(o, w, r, d) \/ x \in From(n, k, w, r, d)
    BY <1>3
  <2>2. ASSUME w \in {"local", "pool"}
        PROVE  (\E p \in 1..Len(n) : /\ Owns(n[p], "return", r, d)
                                      /\ x \in Of(d[n[p].id].nest, w, r, d))
               <=> \E p \in 1..Len(o) : /\ Owns(o[p], "return", r, d)
                                         /\ x \in Of(d[o[p].id].nest, w, r, d)
    BY <1>2, <1>5, <2>2
  <2> QED BY <2>1, <2>2, HeldMember
<1>8. \A x \in Held(o, w, r, d), y \in From(n, k, w, r, d) : x < y
  BY <1>2, <1>3, <1>5, HeldMember
<1>9. Held(n, w, r, d) \subseteq 1..m
  BY <1>3, <1>5, HeldMember
<1>10. Held(n, w, r, d) = Held(o, w, r, d) \cup From(n, k, w, r, d)
  BY <1>7
<1> QED BY <1>3, <1>8, <1>9, <1>10 DEF o

(* What a construct adds to what is held. *)
Adds(c, w, s, e) ==
    (IF Owns(c, w, s, e) THEN {c.id} ELSE {}) \cup
    (IF w \in {"local", "pool"} /\ Owns(c, "return", s, e)
     THEN Of(e[c.id].nest, w, s, e) ELSE {})

(* A construct more adds what it owns, and what a return it waits for owns. *)
LEMMA HeldMore ==
    ASSUME NEW V \in Watches, NEW n, NEW r, NEW d, NEW m \in Nat, Sound(n, r, d, m, V),
           NEW c, NEW s, NEW e, NEW l, m <= l, Fits(n, c, r, d, s, e, l, V), NEW w \in V
    PROVE  Held(Append(n, c), w, s, e) = Held(n, w, r, d) \cup Adds(c, w, s, e)
<1> DEFINE o == Append(n, c)
<1>1. Ordered(n, m) /\ n \in Seq(Records) /\ c \in Records
  BY DEF Sound, NestOK, Ordered, Fits
<1>2. /\ Len(n) \in Nat /\ Len(o) = Len(n) + 1 /\ o[Len(n) + 1] = c
      /\ \A p \in 1..Len(n) : o[p] = n[p]
  BY <1>1, OneMore
<1> HIDE DEF o
<1>3. \A p : p \in 1..Len(o) <=> p \in 1..Len(n) \/ p = Len(n) + 1
  BY <1>2
<1>4. \A p \in 1..Len(n) : s[n[p].id] = r[n[p].id] /\ e[n[p].id] = d[n[p].id]
  BY DEF Fits, Alike
<1>5. /\ \A p \in 1..Len(n) : Owns(n[p], w, s, e) <=> Owns(n[p], w, r, d)
      /\ \A p \in 1..Len(n) : Owns(n[p], "return", s, e) <=> Owns(n[p], "return", r, d)
  BY <1>4, OwnsAlike
<1>6. w \in {"local", "pool"} => "return" \in V
  BY DEF Watches
<1>7. ASSUME w \in {"local", "pool"}, NEW a PROVE Of(a, w, s, e) = Of(a, w, r, d)
  <2>1. \A x : Owns(x, w, s, e) <=> Owns(x, w, r, d)
    BY <1>7 DEF Owns
  <2> QED BY <2>1 DEF Of
<1>8. ASSUME w \in {"local", "pool"}, Owns(c, "return", s, e),
             NEW x \in Of(e[c.id].nest, w, s, e)
      PROVE  x \in Nat
  <2>1. Ordered(e[c.id].nest, l) /\ l \in Nat
    BY <1>6, <1>8 DEF Fits
  <2> QED BY <2>1, OfMember DEF Ordered
<1>9. ASSUME NEW x
      PROVE  x \in Held(o, w, s, e) <=> x \in Held(n, w, r, d) \/ x \in Adds(c, w, s, e)
  <2>1. x \in Of(o, w, s, e) <=> x \in Of(n, w, r, d) \/ (Owns(c, w, s, e) /\ x = c.id)
    BY <1>2, <1>3, <1>5, OfMember
  <2>2. ASSUME w \in {"local", "pool"}, x \in Nat
        PROVE  (\E p \in 1..Len(o) : /\ Owns(o[p], "return", s, e)
                                      /\ x \in Of(e[o[p].id].nest, w, s, e))
               <=> \/ \E p \in 1..Len(n) : /\ Owns(n[p], "return", r, d)
                                           /\ x \in Of(d[n[p].id].nest, w, r, d)
                   \/ Owns(c, "return", s, e) /\ x \in Of(e[c.id].nest, w, s, e)
    <3> DEFINE h == Len(n) + 1
    <3>1. ASSUME NEW p \in 1..Len(n)
          PROVE  /\ Owns(o[p], "return", s, e) <=> Owns(n[p], "return", r, d)
                 /\ Of(e[o[p].id].nest, w, s, e) = Of(d[n[p].id].nest, w, r, d)
      BY <1>2, <1>4, <1>5, <1>7, <2>2
    <3>2. o[h] = c
      BY <1>2
    <3>3. \A p : p \in 1..Len(o) <=> p \in 1..Len(n) \/ p = h
      BY <1>3
    <3> HIDE DEF h
    <3> QED BY <3>1, <3>2, <3>3
  <2> QED BY <1>8, <2>1, <2>2, HeldMember DEF Adds
<1> QED BY <1>9 DEF o

(* Scopes from g on note what they have declared; no @finally is inside. *)
Marks(n, o, g) ==
    /\ o \in Seq(Records) /\ Len(o) = Len(n) /\ g \in 1..Len(n)
    /\ \A p \in 1..Len(n) : /\ o[p].kind = n[p].kind /\ o[p].id = n[p].id
                            /\ o[p].fin = n[p].fin /\ o[p].claims = n[p].claims
    /\ \A p \in 1..(g - 1) : o[p] = n[p]
    /\ \A p \in g..Len(n) : n[p].kind # "finally"

(* A scope that declares a local stays where it is; it holds one thing more. *)
LEMMA MarkSound ==
    ASSUME NEW V \in Watches, NEW n, NEW r, NEW d, NEW m \in Nat, Sound(n, r, d, m, V),
           NEW o, NEW g, Marks(n, o, g)
    PROVE  /\ Sound(o, r, d, m, V)
           /\ \A w \in V, b \in BOOLEAN :
                (\A p \in 1..Len(n) : Owns(o[p], w, r, d) <=> Owns(n[p], w, r, d) \/ (b /\ p = g))
                => Held(o, w, r, d) = Held(n, w, r, d) \cup (IF b THEN {n[g].id} ELSE {})
<1>0. NestOK(n, r, m) /\ Ordered(n, m) /\ n \in Seq(Records) /\ Len(n) \in Nat
  BY DEF Sound, NestOK, Ordered
<1>1. /\ o \in Seq(Records) /\ Len(o) = Len(n) /\ g \in 1..Len(n)
      /\ \A p \in 1..Len(n) : o[p].kind = n[p].kind /\ o[p].id = n[p].id
      /\ \A p \in 1..(g - 1) : o[p] = n[p]
      /\ \A p \in 1..Len(n) : n[p].kind = "finally" => p \in 1..(g - 1)
  <2>1. \A p \in 1..Len(n) : ~(p \in g..Len(n)) => p \in 1..(g - 1)
    BY <1>0 DEF Marks
  <2> QED BY <2>1 DEF Marks
<1>2. \A p \in 1..Len(n) : Owns(o[p], "return", r, d) <=> Owns(n[p], "return", r, d)
  BY <1>1 DEF Owns
<1>3. \A p \in 1..Len(n) : Owns(n[p], "return", r, d) => p \in 1..(g - 1)
  BY <1>1 DEF Owns
<1>4. NestOK(o, r, m)
  BY <1>0, <1>1 DEF NestOK, Ordered
<1>5. \A p \in 1..(g - 1) : Outside(o, p) = Outside(n, p)
  <2> SUFFICES ASSUME NEW p \in 1..(g - 1) PROVE Outside(o, p) = Outside(n, p)
    OBVIOUS
  <2>1. p - 1 \in 0..Len(n) /\ p - 1 <= Len(o) /\ \A i \in 1..(p - 1) : i \in 1..(g - 1)
    BY <1>0, <1>1
  <2> QED BY <1>0, <1>1, <2>1, PrefixOfAlike DEF Outside
<1>6. \A w \in V : Cleared(o, w, r, d)
  BY <1>1, <1>5 DEF Sound, Cleared
<1>7. "return" \in V => Awaited(o, r, d, m)
  <2> SUFFICES ASSUME "return" \in V, NEW p \in 1..Len(n), Owns(o[p], "return", r, d)
               PROVE  Awaits(o, p, d[o[p].id].nest, m) /\ ~r[o[p].id]
    BY <1>1 DEF Awaited
  <2>1. p \in 1..(g - 1) /\ Awaits(n, p, d[n[p].id].nest, m) /\ ~r[n[p].id] /\ o[p].id = n[p].id
    BY <1>1, <1>2, <1>3 DEF Sound, Awaited
  <2>2. \A i \in 1..(p - 1) : i \in 1..(g - 1)
    BY <1>0, <1>1, <2>1
  <2>3. \A q \in (p + 1)..Len(n) : q \in 1..Len(n)
    BY <1>0
  <2> QED BY <1>1, <2>1, <2>2, <2>3 DEF Awaits
<1>8. AllClaimed => Claimed(o)
  <2>1. \A p \in 1..Len(n) : \A q \in 1..(p - 1) : q \in 1..Len(n)
    BY <1>0
  <2>2. \A p \in 1..Len(n) : o[p].fin = n[p].fin /\ o[p].claims = n[p].claims
    BY DEF Marks
  <2> QED BY <1>1, <2>1, <2>2 DEF Sound, Claimed
<1>9. ASSUME NEW w \in V, NEW b \in BOOLEAN,
             \A p \in 1..Len(n) : Owns(o[p], w, r, d) <=> Owns(n[p], w, r, d) \/ (b /\ p = g)
      PROVE  Held(o, w, r, d) = Held(n, w, r, d) \cup (IF b THEN {n[g].id} ELSE {})
  <2>1. ASSUME NEW x
        PROVE  x \in Of(o, w, r, d) <=> x \in Of(n, w, r, d) \/ (b /\ x = n[g].id)
    BY <1>1, <1>9, OfMember
  <2>2. ASSUME NEW x
        PROVE  x \in Held(o, w, r, d) <=> x \in Held(n, w, r, d) \/ (b /\ x = n[g].id)
    <3>1. (\E p \in 1..Len(o) : Owns(o[p], "return", r, d) /\ x \in Of(d[o[p].id].nest, w, r, d))
          <=> (\E p \in 1..Len(n) : /\ Owns(n[p], "return", r, d)
                                     /\ x \in Of(d[n[p].id].nest, w, r, d))
      <4>1. \A p \in 1..Len(n) : o[p].id = n[p].id
        BY <1>1
      <4>2. Len(o) = Len(n)
        BY <1>1
      <4> QED BY ONLY <1>2, <4>1, <4>2
    <3>2. x \in Of(o, w, r, d) <=> x \in Of(n, w, r, d) \/ (b /\ x = n[g].id)
      BY <2>1
    <3> QED BY <3>1, <3>2, HeldMember
  <2> QED BY <2>2
<1> QED BY <1>4, <1>6, <1>7, <1>8, <1>9 DEF Sound
-----------------------------------------------------------------------------
(* The shapes of exit that each kind does without. *)
Single       == "two finallys" \notin Shapes
Unoverridden == "override return" \notin Shapes
OwnersInside == "owner outside finally" \notin Shapes
ArraysStay   == "leave vla" \notin Shapes
CatchesStay  == "leave catch" \notin Shapes /\ "leave unwound finally" \notin Shapes
LabelsPlain  == "case past a declaration" \notin Shapes
SwitchesOnce == "declaration in a looped switch" \notin Shapes

Plain(V) ==
    /\ Single
    /\ "return" \in V => Unoverridden /\ OwnersInside
    /\ "local" \in V => ArraysStay /\ LabelsPlain /\ SwitchesOnce
    /\ "catch" \in V => CatchesStay
    /\ "local" \notin V => AllClaimed

NoHandlers(n) == \A p \in 1..Len(n) : n[p].kind \notin HandlerKinds

(* What an exception leaves: no return that waits, no array under a pad. *)
Quiet(n, r, d, V) ==
    /\ "return" \in V => NoneIn(n, "return", r, d)
    /\ "array" \in V => NoneIn(n, "array", r, d) \/ NoHandlers(n)

SInv(V) ==
    /\ status \in {"running", "unwinding", "returned", "thrown"}
    /\ made \in 0..MaxConstructs
    /\ dest = [i \in Ids |-> dest[i]] /\ rethrow = [i \in Ids |-> rethrow[i]]
    /\ Sound(nest, rethrow, dest, made, V)
    /\ status = "unwinding" => Quiet(nest, rethrow, dest, V)
    /\ Left => nest = <<>>

Now(w) == Held(nest, w, rethrow, dest)

(* A step gives up X, which is newer than all it keeps. *)
GivesUp(w, X) == Now(w) = Now(w)' \cup X /\ \A x \in Now(w)', y \in X : x < y

LEMMA SoundState ==
    ASSUME NEW V, SInv(V)
    PROVE  /\ made \in Nat /\ made <= MaxConstructs /\ MaxConstructs \in Nat
           /\ nest \in Seq(Records) /\ Len(nest) \in Nat
           /\ Ordered(nest, made) /\ NestOK(nest, rethrow, made)
           /\ \A p \in 1..Len(nest) : nest[p].id \in 1..made /\ nest[p].id \in Ids
           /\ \A p, q \in 1..Len(nest) : p < q => nest[p].id < nest[q].id
           /\ \A p \in 1..Len(nest) : nest[p] \in Records
           /\ \A p \in 1..Len(nest) : nest[p].kind \in {"try", "catch"} => ~rethrow[nest[p].id]
<1>1. made \in Nat /\ made <= MaxConstructs /\ MaxConstructs \in Nat
  BY ExitsAssumption DEF SInv
<1>2. Ordered(nest, made) /\ NestOK(nest, rethrow, made)
  BY DEF SInv, Sound, NestOK
<1>3. nest \in Seq(Records)
  BY <1>2 DEF Ordered
<1>4. \A p \in 1..Len(nest) : nest[p].id \in 1..made
  BY <1>2 DEF Ordered
<1>5. \A p, q \in 1..Len(nest) : p < q => nest[p].id < nest[q].id
  BY <1>2 DEF Ordered
<1>6. \A p \in 1..Len(nest) : nest[p].id \in Ids
  BY <1>1, <1>4 DEF Ids
<1>7. \A p \in 1..Len(nest) : nest[p].kind \in {"try", "catch"} => ~rethrow[nest[p].id]
  BY <1>2 DEF NestOK
<1> QED BY <1>1, <1>2, <1>3, <1>4, <1>5, <1>6, <1>7

LEMMA NowOld ==
    ASSUME NEW V \in Watches, SInv(V), NEW w \in V
    PROVE  Now(w) \subseteq 1..made
<1>1. /\ made \in Nat /\ Len(nest) \in 0..Len(nest) /\ Len(nest) \in Nat
      /\ Sound(nest, rethrow, dest, made, V)
  BY SoundState DEF SInv
<1>2. NoneFrom(nest, Len(nest), "return", rethrow, dest)
  BY <1>1 DEF NoneFrom
<1> QED BY <1>1, <1>2, HeldCut DEF Now

(* Control goes to a construct around. *)
LEMMA CutStep ==
    ASSUME NEW V \in Watches, SInv(V), NEW k \in 0..Len(nest),
           "return" \in V => NoneFrom(nest, k, "return", rethrow, dest),
           nest' = SubSeq(nest, 1, k), UNCHANGED <<dest, rethrow, made>>,
           status' \in {"running", "unwinding", "returned", "thrown"},
           status' = "unwinding" =>
                status = "unwinding" \/ Quiet(nest', rethrow, dest, V),
           Left' => k = 0
    PROVE  SInv(V)' /\ \A w \in V : GivesUp(w, From(nest, k, w, rethrow, dest))
<1>1. /\ made \in Nat /\ Sound(nest, rethrow, dest, made, V) /\ nest \in Seq(Records)
      /\ Len(nest) \in Nat
  BY SoundState DEF SInv
<1>2. Sound(nest', rethrow, dest, made, V)
  BY <1>1, CutSound
<1>3. ASSUME status' = "unwinding" PROVE Quiet(nest', rethrow, dest, V)
  <2> DEFINE o == SubSeq(nest, 1, k)
  <2>1. Len(o) = k /\ \A i \in 1..k : o[i] = nest[i] /\ i \in 1..Len(nest)
    BY <1>1, Prefix
  <2>2. nest' = o
    OBVIOUS
  <2> HIDE DEF o
  <2>3. Quiet(nest, rethrow, dest, V) => Quiet(o, rethrow, dest, V)
    BY <2>1 DEF Quiet, NoneIn, NoHandlers
  <2> QED BY <1>3, <2>2, <2>3 DEF SInv
<1>4. Left' => nest' = <<>>
  BY <1>1
<1>5. SInv(V)'
  <2>1. dest' = dest /\ rethrow' = rethrow /\ made' = made
    OBVIOUS
  <2> QED BY <1>2, <1>3, <1>4, <2>1 DEF SInv
<1>6. ASSUME NEW w \in V PROVE GivesUp(w, From(nest, k, w, rethrow, dest))
  <2>1. Now(w)' = Held(SubSeq(nest, 1, k), w, rethrow, dest)
    BY DEF Now
  <2> QED BY <1>1, <2>1, HeldCut DEF GivesUp, Now
<1> QED BY <1>5, <1>6

LEMMA NothingHeld ==
    ASSUME NEW w, NEW r, NEW d
    PROVE  Held(<<>>, w, r, d) = {}
<1>1. Len(<<>>) = 0 /\ 1..0 = {}
  OBVIOUS
<1> QED BY <1>1, HeldMember, OfMember

(* A construct is entered in n, which is the nest as it is marked. *)
LEMMA GrowStep ==
    ASSUME NEW V \in Watches, SInv(V), NEW n, Sound(n, rethrow, dest, made, V),
           NEW k \in ConstructKinds, NEW fin \in BOOLEAN, NEW claims \in {"none", "some", "all"},
           nest' = Append(n, Construct(k, made', fin, claims)),
           made < MaxConstructs, made' = made + 1, status = "running", status' = status,
           dest' = [i \in Ids |-> dest'[i]], rethrow' = [i \in Ids |-> rethrow'[i]],
           \A i \in Ids : i # made' => dest'[i] = dest[i] /\ rethrow'[i] = rethrow[i],
           k = "try" => ~rethrow'[made'],
           AllClaimed /\ k = "try" => fin \/ claims = "all" \/ NoHandlers(n)
    PROVE  /\ SInv(V)'
           /\ \A w \in V : Now(w)' = Held(n, w, rethrow, dest) \cup
                                        (IF k = w THEN {made'} ELSE {})
<1> DEFINE c == Construct(k, made', fin, claims)
<1>1. made \in Nat /\ made <= MaxConstructs /\ MaxConstructs \in Nat
  BY SoundState
<1>2. /\ c \in Records /\ c.id = made' /\ c.kind = k /\ c.fin = fin /\ c.claims = claims
      /\ c.local = FALSE /\ c.vla = FALSE /\ k \notin {"catch", "finally"}
      /\ made' \in Nat /\ made <= made' /\ made' \in 0..MaxConstructs /\ made' \in 1..made'
  BY <1>1 DEF Construct, Records, ConstructKinds
<1>3. nest' = Append(n, c)
  OBVIOUS
<1> HIDE DEF c
<1>4. Ordered(n, made)
  BY DEF Sound, NestOK
<1>5. \A p \in 1..Len(n) : /\ n[p].id \in 1..made /\ n[p].id \in Ids
                            /\ n[p].id # made' /\ n[p].id < made'
  <2>1. \A i \in 1..made : i \in Ids /\ i # made' /\ i < made'
    BY <1>1, <1>2 DEF Ids
  <2> QED BY <1>4, <2>1 DEF Ordered
<1>6. Alike(n, rethrow, dest, rethrow', dest')
  BY <1>5 DEF Alike
<1>7. Newest(n, c, rethrow, dest, V)
  <2>1. ASSUME "return" \in V, NEW p \in 1..Len(n), Owns(n[p], "return", rethrow, dest),
               NEW j \in 1..Len(dest[n[p].id].nest)
        PROVE  dest[n[p].id].nest[j].id < made'
    <3>1. Ordered(dest[n[p].id].nest, made)
      BY <2>1 DEF Sound, Awaited, Awaits
    <3>2. dest[n[p].id].nest[j].id \in 1..made
      BY <3>1 DEF Ordered
    <3>3. \A i \in 1..made : i < made'
      BY <1>1, <1>2
    <3> QED BY <3>2, <3>3
  <2> QED BY <1>2, <1>5, <2>1 DEF Newest
<1>8. ~Owns(c, "return", rethrow', dest')
  BY <1>2 DEF Owns
<1>9. Fits(n, c, rethrow, dest, rethrow', dest', made', V)
  <2>1. AllClaimed /\ c.kind = "try" /\ ~c.fin /\ c.claims # "all" =>
            \A q \in 1..Len(n) : n[q].kind \notin HandlerKinds
    BY <1>2 DEF NoHandlers
  <2> QED BY <1>2, <1>6, <1>7, <1>8, <2>1 DEF Fits
<1>10. Sound(nest', rethrow', dest', made', V)
  BY <1>1, <1>2, <1>3, <1>9, MoreSound
<1>11. SInv(V)'
  BY <1>2, <1>10 DEF SInv, Left
<1>12. ASSUME NEW w \in V
       PROVE  Now(w)' = Held(n, w, rethrow, dest) \cup (IF k = w THEN {made'} ELSE {})
  <2>1. Held(nest', w, rethrow', dest') =
            Held(n, w, rethrow, dest) \cup Adds(c, w, rethrow', dest')
    BY <1>1, <1>2, <1>3, <1>9, HeldMore
  <2>2. Owns(c, w, rethrow', dest') <=> k = w
    <3>1. w \in {"local", "array", "pool", "catch", "return"}
      BY DEF Watches
    <3> QED BY <1>2, <3>1 DEF Owns, ConstructKinds
  <2>3. Adds(c, w, rethrow', dest') = IF k = w THEN {made'} ELSE {}
    BY <1>2, <1>8, <2>2 DEF Adds
  <2> QED BY <2>1, <2>3 DEF Now
<1> QED BY <1>11, <1>12
(* The @try at p becomes the run of its @finally, or of a @catch of it; what is held
   then. *)
Turns(V, p, K) ==
    /\ "return" \in V => NoneFrom(nest, p, "return", rethrow, dest)
    /\ nest[p].kind \in {"try", "catch"}
    /\ nest' = Append(Outside(nest, p), [nest[p] EXCEPT !.kind = K])
    /\ UNCHANGED made /\ status' = "running"
    /\ dest' = [i \in Ids |-> dest'[i]] /\ rethrow' = [i \in Ids |-> rethrow'[i]]
    /\ \A i \in Ids : i # nest[p].id => dest'[i] = dest[i] /\ rethrow'[i] = rethrow[i]
    /\ K = "catch" => ~rethrow'[nest[p].id]
    /\ K = "finally" => \A w \in V :
            Clears(Outside(nest, p), dest'[nest[p].id], rethrow'[nest[p].id], w, rethrow, dest)
    /\ K = "finally" /\ dest'[nest[p].id].op = "return" =>
            dest'[nest[p].id] = Return(nest) /\ ~rethrow'[nest[p].id]

Turned(w, p, K) ==
    /\ Now(w) = Held(Outside(nest, p), w, rethrow, dest)
                    \cup From(nest, p - 1, w, rethrow, dest)
    /\ \A x \in Held(Outside(nest, p), w, rethrow, dest),
          y \in From(nest, p - 1, w, rethrow, dest) : x < y
    /\ w = "catch" => Now(w)' = Held(Outside(nest, p), w, rethrow, dest) \cup
           (IF K = "catch" \/ rethrow'[nest[p].id] THEN {nest[p].id} ELSE {})
    /\ w = "array" \/ (w # "catch" /\ (K = "catch" \/ dest'[nest[p].id].op = "at")) =>
           Now(w)' = Held(Outside(nest, p), w, rethrow, dest)
    /\ w \in {"local", "pool"} /\ K = "finally" /\ dest'[nest[p].id].op = "return" =>
           Now(w)' = Held(Outside(nest, p), w, rethrow, dest) \cup Of(nest, w, rethrow, dest)

(* A @try gives way to its @catch or its @finally. *)
LEMMA TurnStep ==
    ASSUME NEW V \in Watches, SInv(V), NEW p \in 1..Len(nest), NEW K \in {"catch", "finally"},
           Turns(V, p, K)
    PROVE  SInv(V)' /\ \A w \in V : Turned(w, p, K)
<1> DEFINE n == Outside(nest, p)  c == [nest[p] EXCEPT !.kind = K]  id == nest[p].id
<1>1. /\ made \in Nat /\ made <= MaxConstructs /\ MaxConstructs \in Nat
      /\ nest \in Seq(Records) /\ Len(nest) \in Nat /\ Ordered(nest, made)
      /\ \A q \in 1..Len(nest) : nest[q].id \in 1..made /\ nest[q].id \in Ids
      /\ \A q, s \in 1..Len(nest) : q < s => nest[q].id < nest[s].id
      /\ nest[p] \in Records
      /\ Sound(nest, rethrow, dest, made, V)
  BY SoundState DEF SInv
<1>2. /\ c \in Records /\ c.id = id /\ c.kind = K /\ id \in 1..made /\ id \in Ids
      /\ c.kind \in {"catch", "finally"}
  BY <1>1 DEF Records
<1>3. p - 1 \in 0..Len(nest) /\ n = SubSeq(nest, 1, p - 1)
  BY <1>1 DEF Outside
<1>4. /\ Len(n) = p - 1
      /\ \A q \in 1..Len(n) : /\ n[q] = nest[q] /\ q \in 1..Len(nest) /\ q < p
                              /\ n[q].id < id /\ n[q].id \in Ids /\ n[q].id # id
  <2>1. Len(n) = p - 1 /\ \A q \in 1..(p - 1) : n[q] = nest[q]
    BY <1>1, <1>3, Prefix
  <2>2. ASSUME NEW q \in 1..(p - 1)
        PROVE  q \in 1..Len(nest) /\ q < p /\ nest[q].id < id /\ nest[q].id \in Ids
               /\ nest[q].id # id
    <3>1. q \in 1..Len(nest) /\ q < p
      BY <1>1
    <3>2. nest[q].id < nest[p].id /\ nest[q].id \in 1..made /\ nest[q].id \in Ids
          /\ nest[p].id \in 1..made
      BY <1>1, <3>1
    <3>3. nest[q].id # nest[p].id
      BY <1>1, <3>2
    <3> QED BY <3>1, <3>2, <3>3
  <2> HIDE DEF n, id
  <2> QED BY <2>1, <2>2
<1>5. Sound(n, rethrow, dest, made, V)
  BY <1>1, <1>3, CutSound
<1>6. nest' = Append(n, c) /\ UNCHANGED made /\ status' = "running"
      /\ dest' = [i \in Ids |-> dest'[i]] /\ rethrow' = [i \in Ids |-> rethrow'[i]]
  BY DEF Turns
<1>7. \A i \in Ids : i # id => dest'[i] = dest[i] /\ rethrow'[i] = rethrow[i]
  BY DEF Turns
<1>8. /\ K = "catch" => ~rethrow'[id]
      /\ K = "finally" => \A w \in V : Clears(n, dest'[id], rethrow'[id], w, rethrow, dest)
      /\ K = "finally" /\ dest'[id].op = "return" => dest'[id] = Return(nest) /\ ~rethrow'[id]
  BY DEF Turns
<1>9. nest[p].kind \in {"try", "catch"}
      /\ ("return" \in V => NoneFrom(nest, p, "return", rethrow, dest))
  BY DEF Turns
<1>10. "return" \in V => NoneFrom(nest, p - 1, "return", rethrow, dest)
  <2>1. \A q \in ((p - 1) + 1)..Len(nest) : q = p \/ q \in (p + 1)..Len(nest)
    BY <1>1
  <2>2. ~Owns(nest[p], "return", rethrow, dest)
    BY <1>9 DEF Owns
  <2> QED BY <1>9, <2>1, <2>2 DEF NoneFrom
<1>11. id = nest[p].id
  OBVIOUS
<1> HIDE DEF n, c, id
<1>12. Alike(n, rethrow, dest, rethrow', dest')
  BY <1>4, <1>7 DEF Alike
<1>13. Newest(n, c, rethrow, dest, V)
  <2>1. ASSUME "return" \in V, NEW q \in 1..Len(n), Owns(n[q], "return", rethrow, dest),
               NEW j \in 1..Len(dest[n[q].id].nest)
        PROVE  dest[n[q].id].nest[j].id < id
    <3>1. n[q] = nest[q] /\ q \in 1..Len(nest) /\ q < p
      BY <1>4
    <3>2. Awaits(nest, q, dest[nest[q].id].nest, made)
      BY <1>1, <2>1, <3>1 DEF Sound, Awaited
    <3>3. p \in (q + 1)..Len(nest)
      BY <1>1, <3>1
    <3> QED BY <1>11, <2>1, <3>1, <3>2, <3>3 DEF Awaits
  <2> QED BY <1>2, <1>4, <2>1 DEF Newest
<1>14. Owns(c, "return", rethrow', dest') => K = "finally" /\ dest'[id].op = "return"
  BY <1>2 DEF Owns
<1>15. Fits(n, c, rethrow, dest, rethrow', dest', made, V)
  <2>1. ASSUME Owns(c, "return", rethrow', dest')
        PROVE  /\ ~rethrow'[c.id] /\ Ordered(dest'[c.id].nest, made)
               /\ Len(n) + 1 \in 1..Len(dest'[c.id].nest)
               /\ \A i \in 1..Len(n) : dest'[c.id].nest[i] = n[i]
    <3>1. dest'[id].nest = nest /\ ~rethrow'[id]
      BY <1>8, <1>14, <2>1 DEF Return
    <3>2. Len(n) + 1 \in 1..Len(nest)
      BY <1>1, <1>4
    <3> QED BY <1>1, <1>2, <1>4, <3>1, <3>2
  <2>2. c.kind = "finally" => \A w \in V : Clears(n, dest'[c.id], rethrow'[c.id], w, rethrow, dest)
    BY <1>2, <1>8
  <2>3. c.kind \in {"try", "catch"} => ~rethrow'[c.id]
    BY <1>2, <1>8
  <2>4. c.kind # "try"
    BY <1>2
  <2> QED BY <1>1, <1>2, <1>12, <1>13, <2>1, <2>2, <2>3, <2>4 DEF Fits
<1>21. made \in Nat /\ made <= made
  BY <1>1
<1>16. Sound(nest', rethrow', dest', made, V)
  BY <1>5, <1>6, <1>15, <1>21, MoreSound
<1>17. SInv(V)'
  BY <1>6, <1>16 DEF SInv, Left
<1>18. ASSUME NEW w \in V
       PROVE  /\ Now(w) = Held(n, w, rethrow, dest) \cup From(nest, p - 1, w, rethrow, dest)
              /\ \A x \in Held(n, w, rethrow, dest), y \in From(nest, p - 1, w, rethrow, dest) :
                    x < y
              /\ Now(w)' = Held(n, w, rethrow, dest) \cup Adds(c, w, rethrow', dest')
  <2>1. Held(nest', w, rethrow', dest') =
            Held(n, w, rethrow, dest) \cup Adds(c, w, rethrow', dest')
    BY <1>5, <1>6, <1>15, <1>21, HeldMore
  <2> QED BY <1>1, <1>3, <1>10, <2>1, HeldCut DEF Now
<1>19. ASSUME NEW w \in V
       PROVE  /\ w = "catch" => Adds(c, w, rethrow', dest') =
                     IF K = "catch" \/ rethrow'[id] THEN {id} ELSE {}
              /\ w = "array" \/ (w # "catch" /\ (K = "catch" \/ dest'[id].op = "at")) =>
                     (w # "return" => Adds(c, w, rethrow', dest') = {})
              /\ w = "return" /\ (K = "catch" \/ dest'[id].op = "at") =>
                     Adds(c, w, rethrow', dest') = {}
              /\ w \in {"local", "pool"} /\ K = "finally" /\ dest'[id].op = "return" =>
                     Adds(c, w, rethrow', dest') = Of(nest, w, rethrow, dest)
  <2>1. w \in {"local", "array", "pool", "catch", "return"}
    BY DEF Watches
  <2>2. Owns(c, w, rethrow', dest') <=>
            \/ w = "catch" /\ K = "catch"
            \/ w = "catch" /\ K = "finally" /\ rethrow'[id]
            \/ w = "return" /\ K = "finally" /\ dest'[id].op = "return"
    BY <1>2, <2>1 DEF Owns
  <2>3. Owns(c, "return", rethrow', dest') <=> K = "finally" /\ dest'[id].op = "return"
    BY <1>2 DEF Owns
  <2>4. ASSUME w \in {"local", "pool"}, K = "finally", dest'[id].op = "return"
        PROVE  Of(dest'[id].nest, w, rethrow', dest') = Of(nest, w, rethrow, dest)
    <3>1. dest'[id].nest = nest
      BY <1>8, <2>4 DEF Return
    <3>2. \A x : Owns(x, w, rethrow', dest') <=> Owns(x, w, rethrow, dest)
      BY <2>4 DEF Owns
    <3> QED BY <3>1, <3>2 DEF Of
  <2>5. "return" # "at" /\ K \in {"catch", "finally"}
    OBVIOUS
  <2> QED BY <1>2, <2>1, <2>2, <2>3, <2>4, <2>5 DEF Adds
<1>20. ASSUME NEW w \in V
       PROVE  /\ w = "catch" => Now(w)' = Held(n, w, rethrow, dest) \cup
                       (IF K = "catch" \/ rethrow'[id] THEN {id} ELSE {})
              /\ w = "array" \/ (w # "catch" /\ (K = "catch" \/ dest'[id].op = "at")) =>
                       Now(w)' = Held(n, w, rethrow, dest)
              /\ w \in {"local", "pool"} /\ K = "finally" /\ dest'[id].op = "return" =>
                       Now(w)' = Held(n, w, rethrow, dest) \cup Of(nest, w, rethrow, dest)
  BY <1>18, <1>19
<1> QED BY <1>17, <1>18, <1>20 DEF n, id, Turned
-----------------------------------------------------------------------------
Own(c, w) == IF Owns(c, w, rethrow, dest) THEN {c.id} ELSE {}

LEMMA InnermostFacts ==
    ASSUME NEW V, SInv(V), NEW k, InnermostIs(k)
    PROVE  /\ status = "running" /\ Depth \in 1..Len(nest) /\ Depth - 1 \in 0..Len(nest)
           /\ Innermost = nest[Depth] /\ nest[Depth].kind = k
           /\ Outside(nest, Depth) = SubSeq(nest, 1, Depth - 1)
           /\ \A q \in ((Depth - 1) + 1)..Len(nest) : q = Depth
           /\ \A w : NoneFrom(nest, Depth, w, rethrow, dest)
           /\ \A w : From(nest, Depth - 1, w, rethrow, dest) = Own(Innermost, w)
<1>1. nest \in Seq(Records) /\ Len(nest) \in Nat
  BY SoundState
<1>2. /\ status = "running" /\ Depth = Len(nest) /\ Innermost = nest[Depth]
      /\ nest[Depth].kind = k /\ nest # <<>>
      /\ Outside(nest, Depth) = SubSeq(nest, 1, Depth - 1)
  BY DEF InnermostIs, Running, Depth, Innermost, Outside
<1>3. Depth \in 1..Len(nest)
  BY <1>1, <1>2
<1>4. /\ Depth - 1 \in 0..Len(nest)
      /\ \A q : q \in ((Depth - 1) + 1)..Len(nest) <=> q = Depth
      /\ \A q \in (Depth + 1)..Len(nest) : FALSE
  BY <1>1, <1>2, <1>3
<1>5. \A w : NoneFrom(nest, Depth, w, rethrow, dest)
  BY <1>4 DEF NoneFrom
<1>6. ASSUME NEW w PROVE From(nest, Depth - 1, w, rethrow, dest) = Own(Innermost, w)
  <2>1. \A x : x \in From(nest, Depth - 1, w, rethrow, dest) <=>
                    \E q \in ((Depth - 1) + 1)..Len(nest) :
                        Owns(nest[q], w, rethrow, dest) /\ nest[q].id = x
    BY FromMember
  <2>2. \A x : x \in From(nest, Depth - 1, w, rethrow, dest) <=>
                    Owns(nest[Depth], w, rethrow, dest) /\ nest[Depth].id = x
    <3> DEFINE D == ((Depth - 1) + 1)..Len(nest)  g == Depth
    <3>1. \A q : q \in D <=> q = g
      BY <1>4
    <3>2. \A x : x \in From(nest, Depth - 1, w, rethrow, dest) <=>
                    \E q \in D : Owns(nest[q], w, rethrow, dest) /\ nest[q].id = x
      BY <2>1
    <3> HIDE DEF D, g
    <3>3. \A x : x \in From(nest, Depth - 1, w, rethrow, dest) <=>
                    Owns(nest[g], w, rethrow, dest) /\ nest[g].id = x
      BY ONLY <3>1, <3>2
    <3> QED BY <3>3 DEF g
  <2>3. \A x : x \in From(nest, Depth - 1, w, rethrow, dest) <=> x \in Own(Innermost, w)
    BY <1>2, <2>2 DEF Own
  <2> QED BY <2>3
<1> QED BY <1>2, <1>3, <1>4, <1>5, <1>6

(* Straight out of a @finally, to the statement after the @try. *)
LEMMA ClearsStraight ==
    ASSUME NEW n \in Seq(Records), NEW b, NEW w, NEW r, NEW d,
           b /\ w \in {"array", "return"} => NoneIn(n, w, r, d)
    PROVE  Clears(n, At(n), b, w, r, d)
<1>1. Len(n) \in Nat /\ SubSeq(n, 1, Len(n)) = n
  BY SubSeqFull
<1>2. Len(n) \in 0..Len(n) /\ \A q \in (Len(n) + 1)..Len(n) : FALSE
  BY <1>1
<1>3. At(n).op = "at" /\ At(n).nest = SubSeq(n, 1, Len(n))
  BY <1>1 DEF At
<1> QED BY <1>2, <1>3 DEF Clears, NoneFrom

(* Falling off the end of a construct that is no @try and no @finally. *)
LEMMA EndStep ==
    ASSUME NEW V \in Watches, SInv(V), NEW k \in {"loop", "switch", "scope", "pool", "sync"},
           InnermostIs(k), NEW h, EndsInto(h)
    PROVE  SInv(V)' /\ \A w \in V : GivesUp(w, Own(Innermost, w))
<1>1. /\ status = "running" /\ Depth \in 1..Len(nest) /\ Depth - 1 \in 0..Len(nest)
      /\ nest[Depth].kind = k /\ Outside(nest, Depth) = SubSeq(nest, 1, Depth - 1)
      /\ \A q \in ((Depth - 1) + 1)..Len(nest) : q = Depth
      /\ \A w : From(nest, Depth - 1, w, rethrow, dest) = Own(Innermost, w)
  BY InnermostFacts
<1>2. nest' = SubSeq(nest, 1, Depth - 1) /\ status' = "running"
      /\ UNCHANGED <<dest, rethrow, made>>
  BY <1>1 DEF EndsInto
<1>3. NoneFrom(nest, Depth - 1, "return", rethrow, dest)
  BY <1>1 DEF NoneFrom, Owns
<1>4. SInv(V)' /\ \A w \in V : GivesUp(w, From(nest, Depth - 1, w, rethrow, dest))
  BY <1>1, <1>2, <1>3, CutStep DEF Left
<1> QED BY <1>1, <1>4

(* The @try at p goes into its @finally, which leads to e.nest; b says whether an
   exception entered it. *)
RunsFinally(V, p, e, b) ==
    /\ "return" \in V => NoneFrom(nest, p, "return", rethrow, dest)
    /\ nest[p].kind \in {"try", "catch"} /\ EnterFinally(nest, p) /\ UNCHANGED made
    /\ status' = "running"
    /\ e.op = "at" /\ dest' = [dest EXCEPT ![nest[p].id] = e]
    /\ b \in BOOLEAN
    /\ rethrow' = IF b THEN [rethrow EXCEPT ![nest[p].id] = TRUE] ELSE rethrow
    /\ \A w \in V : Clears(Outside(nest, p), e, b, w, rethrow, dest)

RanFinally(w, p, b) ==
    /\ b /\ w = "catch" => Now(w)' = Held(Outside(nest, p), w, rethrow, dest) \cup {nest[p].id}
    /\ ~b \/ w # "catch" => Now(w)' = Held(Outside(nest, p), w, rethrow, dest)
    /\ Now(w) = Held(Outside(nest, p), w, rethrow, dest)
                    \cup From(nest, p - 1, w, rethrow, dest)
    /\ \A x \in Held(Outside(nest, p), w, rethrow, dest),
          y \in From(nest, p - 1, w, rethrow, dest) : x < y

LEMMA TurnFinally ==
    ASSUME NEW V \in Watches, SInv(V), NEW p \in 1..Len(nest), NEW e, NEW b,
           RunsFinally(V, p, e, b)
    PROVE  SInv(V)' /\ \A w \in V : RanFinally(w, p, b)
<1>0. /\ "return" \in V => NoneFrom(nest, p, "return", rethrow, dest)
      /\ nest[p].kind \in {"try", "catch"} /\ EnterFinally(nest, p) /\ UNCHANGED made
      /\ status' = "running"
      /\ e.op = "at" /\ dest' = [dest EXCEPT ![nest[p].id] = e]
      /\ b \in BOOLEAN
      /\ rethrow' = IF b THEN [rethrow EXCEPT ![nest[p].id] = TRUE] ELSE rethrow
      /\ \A w \in V : Clears(Outside(nest, p), e, b, w, rethrow, dest)
  BY DEF RunsFinally
<1>1. nest[p].id \in Ids /\ ~rethrow[nest[p].id]
  BY <1>0, SoundState
<1>2. dest = [i \in Ids |-> dest[i]] /\ rethrow = [i \in Ids |-> rethrow[i]]
  BY DEF SInv
<1>3. /\ dest' = [i \in Ids |-> dest'[i]]
      /\ \A i \in Ids : i # nest[p].id => dest'[i] = dest[i]
      /\ dest'[nest[p].id] = e
  BY <1>0, <1>1, <1>2
<1>4. /\ rethrow' = [i \in Ids |-> rethrow'[i]]
      /\ \A i \in Ids : i # nest[p].id => rethrow'[i] = rethrow[i]
      /\ rethrow'[nest[p].id] <=> b
  BY <1>0, <1>1, <1>2
<1>5. \A w \in V : Clears(Outside(nest, p), dest'[nest[p].id], rethrow'[nest[p].id], w,
                          rethrow, dest)
  BY <1>0, <1>3, <1>4 DEF Clears
<1>6. nest' = Append(Outside(nest, p), [nest[p] EXCEPT !.kind = "finally"])
  BY <1>0 DEF EnterFinally
<1>7. /\ "finally" \in {"catch", "finally"} /\ "finally" # "catch"
      /\ dest'[nest[p].id].op = "at" /\ dest'[nest[p].id].op # "return"
      /\ \A i \in Ids : i # nest[p].id => dest'[i] = dest[i] /\ rethrow'[i] = rethrow[i]
  BY <1>0, <1>3, <1>4
<1>8. Turns(V, p, "finally")
  BY <1>0, <1>3, <1>4, <1>5, <1>6, <1>7 DEF Turns
<1>9. SInv(V)' /\ \A w \in V : Turned(w, p, "finally")
  BY <1>7, <1>8, TurnStep
<1>10. \A w \in V : w \in {"local", "array", "pool", "catch", "return"}
  BY DEF Watches
<1> QED BY <1>4, <1>7, <1>9, <1>10 DEF Turned, RanFinally

(* The end of the body of a @try, and of a @catch. *)
LEMMA LeaveTryStep ==
    ASSUME NEW V \in Watches, SInv(V), NEW k \in {"try", "catch"},
           InnermostIs(k), NEW h, LeaveTry(Depth, h), UNCHANGED <<status, rethrow, made>>
    PROVE  SInv(V)' /\ \A w \in V : GivesUp(w, Own(Innermost, w))
<1>1. /\ status = "running" /\ Depth \in 1..Len(nest) /\ Depth - 1 \in 0..Len(nest)
      /\ Innermost = nest[Depth]
      /\ nest[Depth].kind = k /\ Outside(nest, Depth) = SubSeq(nest, 1, Depth - 1)
      /\ \A q \in ((Depth - 1) + 1)..Len(nest) : q = Depth
      /\ \A w : NoneFrom(nest, Depth, w, rethrow, dest)
      /\ \A w : From(nest, Depth - 1, w, rethrow, dest) = Own(Innermost, w)
  BY InnermostFacts
<1>2. /\ nest \in Seq(Records) /\ nest[Depth].id \in Ids /\ ~rethrow[nest[Depth].id]
  BY <1>1, SoundState
<1>3. CASE ~nest[Depth].fin
  <2>1. nest' = SubSeq(nest, 1, Depth - 1) /\ status' = "running"
        /\ UNCHANGED <<dest, rethrow, made>>
    BY <1>1, <1>3 DEF LeaveTry
  <2>2. NoneFrom(nest, Depth - 1, "return", rethrow, dest)
    BY <1>1 DEF NoneFrom, Owns
  <2>3. SInv(V)' /\ \A w \in V : GivesUp(w, From(nest, Depth - 1, w, rethrow, dest))
    BY <1>1, <2>1, <2>2, CutStep DEF Left
  <2> QED BY <1>1, <2>3
<1>4. CASE nest[Depth].fin
  <2> DEFINE b == Outside(nest, Depth)
  <2>1. /\ nest' = Append(b, [nest[Depth] EXCEPT !.kind = "finally"])
        /\ dest' = [dest EXCEPT ![nest[Depth].id] = At(b)]
        /\ status' = "running" /\ UNCHANGED <<rethrow, made>>
    BY <1>1, <1>4 DEF LeaveTry, EnterFinally
  <2>2. b \in Seq(Records)
    BY <1>1, <1>2, Prefix
  <2>3. \A w \in V : Clears(b, At(b), FALSE, w, rethrow, dest)
    BY <2>2, ClearsStraight
  <2>4. RunsFinally(V, Depth, At(b), FALSE)
    BY <1>1, <1>4, <2>1, <2>3 DEF RunsFinally, EnterFinally, At, LeaveTry
  <2>5. SInv(V)' /\ \A w \in V : RanFinally(w, Depth, FALSE)
    BY <1>1, <2>4, TurnFinally
  <2> QED BY <1>1, <2>5 DEF GivesUp, RanFinally
<1> QED BY <1>3, <1>4

(* The end of a @finally an exception entered. *)
LEMMA RethrowStep ==
    ASSUME NEW V \in Watches, SInv(V), EndFinallyRethrow
    PROVE  SInv(V)' /\ \A w \in V : GivesUp(w, IF w = "catch" THEN {Innermost.id} ELSE {})
<1>1. /\ InnermostIs("finally") /\ rethrow[Innermost.id] /\ status' = "unwinding"
      /\ nest' = Outside(nest, Depth) /\ UNCHANGED <<dest, rethrow, made>>
  BY DEF EndFinallyRethrow
<1>2. /\ status = "running" /\ Depth \in 1..Len(nest) /\ Depth - 1 \in 0..Len(nest)
      /\ Innermost = nest[Depth]
      /\ nest[Depth].kind = "finally" /\ Outside(nest, Depth) = SubSeq(nest, 1, Depth - 1)
      /\ \A q \in ((Depth - 1) + 1)..Len(nest) : q = Depth
      /\ \A w : From(nest, Depth - 1, w, rethrow, dest) = Own(Innermost, w)
  BY <1>1, InnermostFacts
<1>3. \A w \in V : Clears(Outside(nest, Depth), dest[nest[Depth].id],
                          rethrow[nest[Depth].id], w, rethrow, dest)
  BY <1>2 DEF SInv, Sound, Cleared
<1>4. Quiet(nest', rethrow, dest, V)
  BY <1>1, <1>2, <1>3 DEF Quiet, Clears
<1>5. "return" \in V => ~Owns(nest[Depth], "return", rethrow, dest)
  BY <1>1, <1>2 DEF SInv, Sound, Awaited
<1>6. "return" \in V => NoneFrom(nest, Depth - 1, "return", rethrow, dest)
  BY <1>2, <1>5 DEF NoneFrom
<1>7. SInv(V)' /\ \A w \in V : GivesUp(w, From(nest, Depth - 1, w, rethrow, dest))
  BY <1>1, <1>2, <1>4, <1>6, CutStep DEF Left
<1>8. \A w \in V : Own(Innermost, w) = IF w = "catch" THEN {Innermost.id} ELSE {}
  <2>1. \A w \in V : Owns(Innermost, w, rethrow, dest) <=> w = "catch"
    BY <1>1, <1>2, <1>5 DEF Owns
  <2> QED BY <2>1 DEF Own
<1> QED BY <1>2, <1>7, <1>8
(* An exit out of n for a construct around clears what is between for every kind. *)
LEMMA ClearsAt ==
    ASSUME NEW V \in Watches, NEW n \in Seq(Records), NEW e, NEW b, NEW r, NEW d, e.op = "at",
           \A w \in V : Clears(n, e, b, w, r, d)
    PROVE  \E k \in 0..Len(n) : /\ e.nest = SubSeq(n, 1, k)
                                /\ \A w \in V : NoneFrom(n, k, w, r, d)
<1>1. \A w \in V : \E k \in 0..Len(n) : e.nest = SubSeq(n, 1, k) /\ NoneFrom(n, k, w, r, d)
  BY DEF Clears
<1>2. PICK v \in V : TRUE
  BY DEF Watches
<1>3. PICK k \in 0..Len(n) : e.nest = SubSeq(n, 1, k)
  BY <1>1, <1>2
<1>4. ASSUME NEW w \in V PROVE NoneFrom(n, k, w, r, d)
  <2>1. PICK j \in 0..Len(n) : e.nest = SubSeq(n, 1, j) /\ NoneFrom(n, j, w, r, d)
    BY <1>1
  <2>2. Len(SubSeq(n, 1, j)) = j /\ Len(SubSeq(n, 1, k)) = k
    BY Prefix
  <2>3. j = k
    BY <1>3, <2>1, <2>2
  <2> QED BY <2>1, <2>3
<1> QED BY <1>3, <1>4

(* A return from a statement at o: everything owned there is let go. *)
LetsGo(V) ==
    \E o : /\ rt' = [LeaveScopes(rt, o, 0) EXCEPT !.stack = <<>>]
           /\ status' = "returned"
           /\ \A w \in V : /\ Now(w)' = {}
                           /\ w \in {"local", "pool"} =>
                                  Ordered(o, made) /\ Now(w) = Of(o, w, rethrow, dest)
                           /\ w = "catch" => Now(w) = {}

(* Control goes on, and nothing that is held changes. *)
GoesOn(V) == /\ rt' = rt /\ status' = "running"
             /\ \A w \in V \ {"return"} : Now(w)' = Now(w)

(* The end of a @finally that goes on to its destination. *)
LEMMA FinallyStep ==
    ASSUME NEW V \in Watches, SInv(V), EndFinally
    PROVE  SInv(V)' /\ leaked' = leaked /\ (GoesOn(V) \/ LetsGo(V))
<1> DEFINE b == Outside(nest, Depth)  e == dest[nest[Depth].id]
<1>1. /\ InnermostIs("finally") /\ ~rethrow[Innermost.id] /\ GoTo(dest[Innermost.id], rt)
      /\ UNCHANGED <<dest, rethrow, leaked, made>>
  BY DEF EndFinally
<1>2. /\ status = "running" /\ Depth \in 1..Len(nest) /\ Depth - 1 \in 0..Len(nest)
      /\ Innermost = nest[Depth]
      /\ nest[Depth].kind = "finally" /\ b = SubSeq(nest, 1, Depth - 1)
      /\ \A q \in ((Depth - 1) + 1)..Len(nest) : q = Depth
      /\ \A w : From(nest, Depth - 1, w, rethrow, dest) = Own(Innermost, w)
  BY <1>1, InnermostFacts
<1>3. /\ made \in Nat /\ nest \in Seq(Records) /\ Len(nest) \in Nat /\ Ordered(nest, made)
      /\ Sound(nest, rethrow, dest, made, V)
  BY SoundState DEF SInv
<1>4. /\ b \in Seq(Records) /\ Len(b) = Depth - 1
      /\ \A i \in 1..(Depth - 1) : b[i] = nest[i] /\ i \in 1..Len(nest)
  BY <1>2, <1>3, Prefix
<1>5. \A w \in V : Clears(b, e, rethrow[nest[Depth].id], w, rethrow, dest)
  BY <1>2, <1>3 DEF Sound, Cleared
<1>6. GoTo(e, rt)
  BY <1>1, <1>2
<1> HIDE DEF b, e
<1>7. CASE e.op = "at"
  <2>1. nest' = e.nest /\ rt' = rt /\ status' = status
    BY <1>6, <1>7 DEF GoTo
  <2>2. PICK k \in 0..Len(b) : /\ e.nest = SubSeq(b, 1, k)
                               /\ \A w \in V : NoneFrom(b, k, w, rethrow, dest)
    BY <1>4, <1>5, <1>7, ClearsAt
  <2>3. /\ k \in 0..Len(nest) /\ nest' = SubSeq(nest, 1, k)
    <3>1. k \in 0..(Depth - 1)
      BY <1>4, <2>2
    <3>2. SubSeq(b, 1, k) = SubSeq(nest, 1, k)
      BY <1>2, <1>3, <3>1, PrefixOfPrefix
    <3> QED BY <1>2, <1>3, <2>1, <2>2, <3>1, <3>2
  <2>4. \A w \in V : NoneFrom(nest, k, w, rethrow, dest)
    <3> SUFFICES ASSUME NEW w \in V, NEW q \in (k + 1)..Len(nest)
                 PROVE  ~Owns(nest[q], w, rethrow, dest)
      BY DEF NoneFrom
    <3>1. CASE q = Depth
      <4>1. e = dest[nest[Depth].id] /\ "return" # "at" /\ ~rethrow[nest[Depth].id]
        BY <1>1, <1>2 DEF e
      <4> QED BY <1>2, <1>7, <3>1, <4>1 DEF Owns
    <3>2. CASE q # Depth
      <4>1. q \in (k + 1)..Len(b) /\ q \in 1..(Depth - 1)
        <5>1. q <= Depth - 1
          BY <1>2, <1>3, <2>3, <3>2
        <5> QED BY <1>2, <1>3, <1>4, <2>3, <5>1
      <4> QED BY <1>4, <2>2, <4>1 DEF NoneFrom
    <3> QED BY <3>1, <3>2
  <2>5. /\ UNCHANGED <<dest, rethrow, made>> /\ status' = "running"
        /\ "return" \in V => NoneFrom(nest, k, "return", rethrow, dest)
    BY <1>1, <1>2, <2>1, <2>4
  <2>6. SInv(V)' /\ \A w \in V : GivesUp(w, From(nest, k, w, rethrow, dest))
    BY <2>3, <2>5, CutStep DEF Left
  <2>7. \A w \in V : From(nest, k, w, rethrow, dest) = {}
    BY <2>4, FromMember DEF NoneFrom
  <2> QED BY <1>1, <2>1, <2>5, <2>6, <2>7 DEF GivesUp, GoesOn
<1>8. CASE e.op = "return"
  <2> DEFINE o == e.nest
  <2>0. "return" # "at"
    OBVIOUS
  <2>1. /\ nest' = <<>> /\ status' = "returned" /\ leaked' = leaked
        /\ rt' = [LeaveScopes(rt, o, 0) EXCEPT !.stack = <<>>]
    BY <1>1, <1>6, <1>8, <2>0 DEF GoTo
  <2>2. SInv(V)'
    <3>1. SubSeq(nest, 1, 0) = <<>> /\ 0 \in 0..Len(nest)
      BY <1>3
    <3>2. Sound(<<>>, rethrow, dest, made, V)
      BY <1>3, <3>1, CutSound
    <3> QED BY <1>1, <2>1, <3>2 DEF SInv, Left
  <2>3. \A w \in V : Now(w)' = {}
    BY <2>1, NothingHeld DEF Now
  <2>4. ASSUME "catch" \in V PROVE Now("catch") = {}
    <3>1. NoneIn(b, "catch", rethrow, dest)
      BY <1>5, <1>8, <2>0, <2>4 DEF Clears
    <3>2. ~Owns(nest[Depth], "catch", rethrow, dest)
      BY <1>1, <1>2 DEF Owns
    <3>3. \A q \in 1..Len(nest) : q = Depth \/ q \in 1..(Depth - 1)
      BY <1>2, <1>3
    <3>4. \A q \in 1..Len(nest) : ~Owns(nest[q], "catch", rethrow, dest)
      BY <1>4, <3>1, <3>2, <3>3 DEF NoneIn
    <3>5. \A x : x \notin Now("catch")
      BY <3>4, HeldMember, OfMember DEF Now
    <3> QED BY <3>5
  <2>5. ASSUME NEW w \in V, w \in {"local", "pool"}
        PROVE  Ordered(o, made) /\ Now(w) = Of(o, w, rethrow, dest)
    <3>1. "return" \in V
      BY <2>5 DEF Watches
    <3>2. Owns(nest[Depth], "return", rethrow, dest)
      BY <1>2, <1>8 DEF Owns, e
    <3>3. Awaits(nest, Depth, o, made)
      BY <1>2, <1>3, <3>1, <3>2 DEF Sound, Awaited, e
    <3>4. /\ Ordered(o, made) /\ Depth \in 1..Len(o)
          /\ \A i \in 1..(Depth - 1) : o[i] = nest[i]
      BY <3>3 DEF Awaits
    <3>5. \A q \in 1..Len(nest) : Owns(nest[q], "return", rethrow, dest) => q = Depth
      <4>1. NoneIn(b, "return", rethrow, dest)
        BY <1>5, <1>8, <2>0, <3>1 DEF Clears
      <4>2. \A q \in 1..Len(nest) : q = Depth \/ q \in 1..(Depth - 1)
        BY <1>2, <1>3
      <4> QED BY <1>4, <4>1, <4>2 DEF NoneIn
    <3>6. ASSUME NEW q \in 1..Len(nest), Owns(nest[q], w, rethrow, dest)
          PROVE  q \in 1..Len(o) /\ o[q] = nest[q]
      <4>1. q # Depth
        BY <1>2, <2>5, <3>6 DEF Owns
      <4>2. q \in 1..(Depth - 1)
        BY <1>2, <1>3, <4>1
      <4>3. Len(o) \in Nat
        BY <3>4 DEF Ordered
      <4> HIDE DEF o
      <4>4. q \in 1..Len(o)
        BY <3>4, <4>2, <4>3
      <4> QED BY <3>4, <4>2, <4>4
    <3>7. o = dest[nest[Depth].id].nest
      BY DEF e
    <3> HIDE DEF o
    <3>8. \A x \in Of(nest, w, rethrow, dest) : x \in Of(o, w, rethrow, dest)
      BY <3>6, OfMember
    <3>9. \A x \in Of(o, w, rethrow, dest) : x \in Nat
      BY <1>3, <3>4, OfMember DEF Ordered
    <3>10. ASSUME NEW x PROVE x \in Now(w) <=> x \in Of(o, w, rethrow, dest)
      <4>1. x \in Now(w) <=> \/ x \in Of(nest, w, rethrow, dest)
                             \/ x \in Nat /\ x \in Of(o, w, rethrow, dest)
        BY <1>2, <2>5, <3>2, <3>5, <3>7, HeldMember DEF Now
      <4> QED BY <3>8, <3>9, <4>1
    <3>11. Now(w) = Of(o, w, rethrow, dest)
      BY <3>10
    <3> QED BY <3>4, <3>11
  <2> HIDE DEF o
  <2>6. LetsGo(V)
    BY <2>1, <2>3, <2>4, <2>5 DEF LetsGo
  <2> QED BY <2>1, <2>2, <2>6
<1>9. e.op = "at" \/ e.op = "return"
  <2>1. PICK v \in V : TRUE
    BY DEF Watches
  <2> QED BY <1>5, <2>1 DEF Clears
<1> QED BY <1>7, <1>8, <1>9
-----------------------------------------------------------------------------
(* leaveTries where at most one @finally takes part. *)
LEMMA OneFinally ==
    ASSUME NEW V \in Watches, SInv(V), Plain(V), NEW p \in 0..Len(nest), MayLeave(p),
           NEW exit, NEW h, LeaveTries(exit, p, h)
    PROVE  \/ /\ Inside(Finallys(nest), p) = {}
              /\ GoTo(exit, h) /\ UNCHANGED dest
           \/ \E q \in 1..Len(nest) :
                /\ p < q /\ nest[q].kind \in {"try", "catch"} /\ nest[q].fin
                /\ EnterFinally(nest, q) /\ rt' = h /\ status' = status
                /\ dest' = [dest EXCEPT ![nest[q].id] = exit]
                /\ q \in Inside(Finallys(nest), p)
<1> DEFINE chain == Inside(Finallys(nest), p)
<1>1. /\ nest \in Seq(Records) /\ Len(nest) \in Nat
      /\ dest = [i \in Ids |-> dest[i]]
      /\ \A q \in 1..Len(nest) : nest[q].id \in Ids
  BY SoundState DEF SInv
<1>2. Cardinality(chain) <= 1
  BY DEF MayLeave, Unless, Plain, Single
<1>3. chain \subseteq 1..Len(nest) /\ IsFiniteSet(chain)
  <2>1. chain \subseteq 1..Len(nest)
    BY DEF Inside, Finallys, Tries, Positions
  <2>2. IsFiniteSet(1..Len(nest))
    <3>1. 1 \in Int /\ Len(nest) \in Int
      BY <1>1
    <3> QED BY <3>1, FS_Interval
  <2> QED BY <2>1, <2>2, FS_Subset
<1>4. CASE chain = {}
  BY <1>4 DEF LeaveTries
<1>5. CASE chain # {}
  <2>1. PICK q : chain = {q}
    <3>1. Cardinality(chain) \in Nat /\ (Cardinality(chain) = 0 => chain = {})
      BY <1>3, FS_CardinalityType, FS_EmptySet
    <3>2. Cardinality(chain) = 1
      BY <1>2, <1>5, <3>1
    <3> QED BY <1>3, <3>2, FS_Singleton
  <2>2. /\ q \in 1..Len(nest) /\ nest[q].kind \in {"try", "catch"} /\ nest[q].fin
        /\ p < q
    BY <1>1, <2>1 DEF Inside, Finallys, Tries, Positions
  <2>3. Smallest(chain) = q
    BY <2>1, <2>2 DEF Smallest
  <2>4. /\ EnterFinally(nest, q) /\ rt' = h /\ status' = status
        /\ dest' = [i \in Ids |-> IF i = nest[q].id THEN exit ELSE dest[i]]
    <3>1. IdsOf(nest, chain) = {nest[q].id}
      BY <2>1 DEF IdsOf
    <3>2. Inside(chain, q) = {}
      BY <2>1, <2>2 DEF Inside
    <3>3. (CHOOSE r \in chain : nest[r].id = nest[q].id) = q
      BY <2>1
    <3> QED BY <1>5, <2>3, <3>1, <3>2, <3>3 DEF LeaveTries
  <2>5. dest' = [dest EXCEPT ![nest[q].id] = exit]
    BY <1>1, <2>2, <2>4
  <2> QED BY <2>1, <2>2, <2>4, <2>5
<1> QED BY <1>4, <1>5

(* What may be left without @finally blocks that return, catches, and arrays. *)
LEMMA LeavesPlainly ==
    ASSUME NEW V \in Watches, SInv(V), Plain(V), NEW p \in 0..Len(nest), MayLeave(p)
    PROVE  /\ "return" \in V => NoneFrom(nest, p, "return", rethrow, dest)
           /\ "catch" \in V => NoneFrom(nest, p, "catch", rethrow, dest)
           /\ "array" \in V => \/ NoneFrom(nest, p, "array", rethrow, dest)
                               \/ p = 0 /\ Finallys(nest) = {}
<1>1. Len(nest) \in Nat /\ \A q \in (p + 1)..Len(nest) : q \in 1..Len(nest) /\ q > p
  <2>1. Len(nest) \in Nat
    BY SoundState
  <2> QED BY <2>1
<1>2. ASSUME "return" \in V PROVE NoneFrom(nest, p, "return", rethrow, dest)
  <2>1. \A q \in Deeper({"finally"}, p) : dest[nest[q].id].op # "return"
    BY <1>2 DEF Plain, Unoverridden, MayLeave, Unless
  <2> QED BY <1>1, <2>1 DEF NoneFrom, Owns, Deeper, Inside, Positions
<1>3. ASSUME "catch" \in V PROVE NoneFrom(nest, p, "catch", rethrow, dest)
  <2>1. /\ Deeper({"catch"}, p) = {}
        /\ \A q \in Deeper({"finally"}, p) : ~rethrow[nest[q].id]
    BY <1>3 DEF Plain, CatchesStay, MayLeave, Unless
  <2>2. \A q \in (p + 1)..Len(nest) : nest[q].kind # "catch"
    BY <1>1, <2>1 DEF Deeper, Inside, Positions
  <2>3. \A q \in (p + 1)..Len(nest) : nest[q].kind = "finally" => ~rethrow[nest[q].id]
    BY <1>1, <2>1 DEF Deeper, Inside, Positions
  <2> QED BY <2>2, <2>3 DEF NoneFrom, Owns
<1>4. ASSUME "array" \in V
      PROVE  NoneFrom(nest, p, "array", rethrow, dest) \/ (p = 0 /\ Finallys(nest) = {})
  <2>0. "local" \in V
    BY <1>4 DEF Watches
  <2>1. Inside(Arrays(nest), p) = {} \/ (p = 0 /\ Finallys(nest) = {})
    BY <2>0 DEF Plain, ArraysStay, MayLeave, Unless
  <2>2. Inside(Arrays(nest), p) = {} => NoneFrom(nest, p, "array", rethrow, dest)
    BY <1>1 DEF NoneFrom, Owns, Inside, Arrays, Positions
  <2> QED BY <2>1, <2>2
<1> QED BY <1>2, <1>3, <1>4

(* A break or a continue gives up what is deeper than the loop or the switch. *)
LEMMA JumpStep ==
    ASSUME NEW V \in Watches, SInv(V), Plain(V), status = "running",
           NEW p \in 1..Len(nest), nest[p].kind \in {"loop", "switch"},
           NEW k \in {p - 1, p}, JumpOut(p, At(SubSeq(nest, 1, k)))
    PROVE  /\ SInv(V)' /\ status' = "running" /\ leaked' = leaked
           /\ rt' = LeaveScopes(rt, nest, p)
           /\ \A w \in V : GivesUp(w, From(nest, p, w, rethrow, dest))
           /\ "array" \in V => From(nest, p, "array", rethrow, dest) = {}
           /\ "catch" \in V => From(nest, p, "catch", rethrow, dest) = {}
<1> DEFINE h == LeaveScopes(rt, nest, p)  exit == At(SubSeq(nest, 1, k))
<1>1. /\ MayJump(p) /\ MayLeave(p) /\ LeaveTries(exit, p, h)
      /\ UNCHANGED <<rethrow, leaked, made>>
  BY DEF JumpOut, MayJump
<1>2. /\ nest \in Seq(Records) /\ Len(nest) \in Nat /\ p \in 0..Len(nest) /\ k \in 0..Len(nest)
  <2>1. nest \in Seq(Records) /\ Len(nest) \in Nat
    BY SoundState
  <2> QED BY <2>1
<1>3. exit.op = "at" /\ exit.nest = SubSeq(nest, 1, k)
  BY DEF At
<1>4. /\ "return" \in V => NoneFrom(nest, p, "return", rethrow, dest)
      /\ "catch" \in V => NoneFrom(nest, p, "catch", rethrow, dest)
      /\ "array" \in V => \/ NoneFrom(nest, p, "array", rethrow, dest)
                          \/ p = 0 /\ Finallys(nest) = {}
  BY <1>1, <1>2, LeavesPlainly
<1>5. p # 0 /\ ("array" \in V => NoneFrom(nest, p, "array", rethrow, dest))
  BY <1>2, <1>4
<1>6. \A w \in V : ~Owns(nest[p], w, rethrow, dest)
  BY DEF Owns
<1>7. \A q \in (k + 1)..Len(nest) : q = p \/ q \in (p + 1)..Len(nest)
  BY <1>2
<1>8. \A w \in V : From(nest, k, w, rethrow, dest) = From(nest, p, w, rethrow, dest)
  <2>1. \A q \in (p + 1)..Len(nest) : q \in (k + 1)..Len(nest)
    BY <1>2
  <2>2. ASSUME NEW w \in V, NEW x
        PROVE  x \in From(nest, k, w, rethrow, dest) <=> x \in From(nest, p, w, rethrow, dest)
    BY <1>6, <1>7, <2>1, FromMember
  <2> QED BY <2>2
<1>9. /\ "array" \in V => From(nest, p, "array", rethrow, dest) = {}
      /\ "catch" \in V => From(nest, p, "catch", rethrow, dest) = {}
  BY <1>4, <1>5, FromMember DEF NoneFrom
<1> HIDE DEF h, exit
<1>10. CASE Inside(Finallys(nest), p) = {} /\ GoTo(exit, h) /\ UNCHANGED dest
  <2>1. nest' = SubSeq(nest, 1, k) /\ rt' = h /\ status' = "running"
    BY <1>3, <1>10 DEF GoTo
  <2>2. "return" \in V => NoneFrom(nest, k, "return", rethrow, dest)
    BY <1>4, <1>6, <1>7 DEF NoneFrom
  <2>3. SInv(V)' /\ \A w \in V : GivesUp(w, From(nest, k, w, rethrow, dest))
    BY <1>1, <1>2, <1>10, <2>1, <2>2, CutStep DEF Left
  <2> QED BY <1>1, <1>8, <1>9, <2>1, <2>3 DEF h
<1>11. ASSUME NEW q \in 1..Len(nest),
              p < q, nest[q].kind \in {"try", "catch"}, nest[q].fin,
              EnterFinally(nest, q), rt' = h, status' = status,
              dest' = [dest EXCEPT ![nest[q].id] = exit], q \in Inside(Finallys(nest), p)
       PROVE  /\ SInv(V)' /\ \A w \in V : GivesUp(w, From(nest, p, w, rethrow, dest))
  <2> DEFINE b == Outside(nest, q)
  <2>1. b \in Seq(Records) /\ Len(b) = q - 1 /\ \A i \in 1..(q - 1) : b[i] = nest[i]
    BY <1>2, Prefix DEF Outside
  <2>2. k \in 0..Len(b) /\ exit.nest = SubSeq(b, 1, k)
    <3>1. k \in 0..(q - 1) /\ q - 1 \in 0..Len(nest)
      BY <1>2, <1>11
    <3> QED BY <1>2, <1>3, <2>1, <3>1, PrefixOfPrefix DEF Outside
  <2>3. ASSUME NEW w \in V, NEW j \in (p + 1)..Len(nest), j < q
        PROVE  ~Owns(nest[j], w, rethrow, dest)
    <3>1. CASE w \in {"local", "pool"}
      <4>1. "return" \in V
        BY <3>1 DEF Watches
      <4>2. \A i \in Inside(Finallys(nest), p), o \in Strongs(nest) \cup Pools(nest) :
                ~(p < o /\ o < i)
        BY <1>1, <4>1 DEF MayJump, Unless, Plain, OwnersInside
      <4>3. j \in 1..Len(nest) /\ p < j
        BY <1>2
      <4>4. j \notin Strongs(nest) /\ j \notin Pools(nest)
        BY <1>11, <2>3, <4>2, <4>3
      <4> QED BY <3>1, <4>3, <4>4 DEF Owns, Strongs, Pools, Positions
    <3>2. CASE w \notin {"local", "pool"}
      <4>1. w \in {"return", "catch", "array"}
        BY <3>2 DEF Watches
      <4> QED BY <1>4, <1>5, <2>3, <4>1 DEF NoneFrom
    <3> QED BY <3>1, <3>2
  <2>4. \A w \in V : NoneFrom(b, k, w, rethrow, dest)
    <3> SUFFICES ASSUME NEW w \in V, NEW j \in (k + 1)..(q - 1)
                 PROVE  ~Owns(nest[j], w, rethrow, dest)
      <4>1. \A j \in (k + 1)..(q - 1) : j \in 1..(q - 1)
        BY <1>2
      <4> QED BY <2>1, <4>1 DEF NoneFrom
    <3>1. j = p \/ (j \in (p + 1)..Len(nest) /\ j < q)
      BY <1>2
    <3> QED BY <1>6, <2>3, <3>1
  <2>5. "return" \in V => NoneFrom(nest, q, "return", rethrow, dest)
    <3>1. \A j \in (q + 1)..Len(nest) : j \in (p + 1)..Len(nest)
      BY <1>2, <1>11
    <3> QED BY <1>4, <3>1 DEF NoneFrom
  <2>6. \A w \in V : Clears(b, exit, FALSE, w, rethrow, dest)
    BY <1>3, <2>2, <2>4 DEF Clears
  <2>7. RunsFinally(V, q, exit, FALSE)
    BY <1>1, <1>3, <1>11, <2>5, <2>6 DEF RunsFinally
  <2>8. SInv(V)' /\ \A w \in V : RanFinally(w, q, FALSE)
    BY <2>7, TurnFinally
  <2>9. \A w \in V : From(nest, q - 1, w, rethrow, dest) = From(nest, p, w, rethrow, dest)
    <3>1. /\ \A j \in ((q - 1) + 1)..Len(nest) : j \in (p + 1)..Len(nest)
          /\ \A j \in (p + 1)..Len(nest) : j \in ((q - 1) + 1)..Len(nest) \/ j < q
      BY <1>2, <1>11
    <3>2. ASSUME NEW w \in V, NEW x
          PROVE  x \in From(nest, q - 1, w, rethrow, dest)
                 <=> x \in From(nest, p, w, rethrow, dest)
      <4>1. x \in From(nest, q - 1, w, rethrow, dest) <=>
                \E j \in ((q - 1) + 1)..Len(nest) :
                    Owns(nest[j], w, rethrow, dest) /\ nest[j].id = x
        BY FromMember
      <4>2. x \in From(nest, p, w, rethrow, dest) <=>
                \E j \in (p + 1)..Len(nest) :
                    Owns(nest[j], w, rethrow, dest) /\ nest[j].id = x
        BY FromMember
      <4> QED BY <2>3, <3>1, <4>1, <4>2
    <3> QED BY <3>2
  <2> QED BY <2>8, <2>9 DEF RanFinally, GivesUp
<1>12. \/ Inside(Finallys(nest), p) = {} /\ GoTo(exit, h) /\ UNCHANGED dest
       \/ \E q \in 1..Len(nest) :
                /\ p < q /\ nest[q].kind \in {"try", "catch"} /\ nest[q].fin
                /\ EnterFinally(nest, q) /\ rt' = h /\ status' = status
                /\ dest' = [dest EXCEPT ![nest[q].id] = exit]
                /\ q \in Inside(Finallys(nest), p)
  BY <1>1, <1>2, OneFinally
<1> QED BY <1>1, <1>9, <1>10, <1>11, <1>12 DEF h
LEMMA NoReturns ==
    ASSUME NEW w, NoneIn(nest, "return", rethrow, dest)
    PROVE  Now(w) = Of(nest, w, rethrow, dest)
<1>1. \A x : x \in Now(w) <=> x \in Of(nest, w, rethrow, dest)
  BY HeldMember DEF NoneIn, Now
<1> QED BY <1>1

(* A return: everything is let go, or waits for the one @finally around. *)
LEMMA ReturnStep ==
    ASSUME NEW V \in Watches, SInv(V), Plain(V), ReturnStmt
    PROVE  SInv(V)' /\ leaked' = leaked /\ (GoesOn(V) \/ LetsGo(V))
<1>1. /\ status = "running" /\ MayLeave(0) /\ LeaveTries(Return(nest), 0, rt)
      /\ UNCHANGED <<rethrow, leaked, made>>
  BY DEF ReturnStmt, Running
<1>2. /\ nest \in Seq(Records) /\ Len(nest) \in Nat /\ 0 \in 0..Len(nest)
      /\ Ordered(nest, made) /\ made \in Nat /\ Sound(nest, rethrow, dest, made, V)
      /\ \A q \in 1..Len(nest) : nest[q].kind \in {"try", "catch"} => ~rethrow[nest[q].id]
      /\ \A q \in 1..Len(nest) : nest[q].id \in Ids
      /\ dest = [i \in Ids |-> dest[i]] /\ rethrow = [i \in Ids |-> rethrow[i]]
  <2>1. nest \in Seq(Records) /\ Len(nest) \in Nat
    BY SoundState
  <2> QED BY <2>1, SoundState DEF SInv
<1>3. /\ "return" \in V => NoneIn(nest, "return", rethrow, dest)
      /\ "catch" \in V => NoneIn(nest, "catch", rethrow, dest)
      /\ "array" \in V => NoneIn(nest, "array", rethrow, dest) \/ Finallys(nest) = {}
  <2>1. /\ "return" \in V => NoneFrom(nest, 0, "return", rethrow, dest)
        /\ "catch" \in V => NoneFrom(nest, 0, "catch", rethrow, dest)
        /\ "array" \in V => \/ NoneFrom(nest, 0, "array", rethrow, dest)
                            \/ 0 = 0 /\ Finallys(nest) = {}
    BY <1>1, <1>2, LeavesPlainly
  <2>2. \A w : NoneFrom(nest, 0, w, rethrow, dest) => NoneIn(nest, w, rethrow, dest)
    BY DEF NoneFrom, NoneIn
  <2> QED BY <2>1, <2>2
<1>4. \A w \in V : w \in {"local", "pool"} => Now(w) = Of(nest, w, rethrow, dest)
  <2>1. \A w \in V : w \in {"local", "pool"} => "return" \in V
    BY DEF Watches
  <2> QED BY <1>3, <2>1, NoReturns
<1>5. "catch" \in V => Now("catch") = {}
  <2>1. ASSUME "catch" \in V, NEW x PROVE x \notin Now("catch")
    BY <1>3, <2>1, HeldMember, OfMember DEF NoneIn, Now
  <2> QED BY <2>1
<1>6. CASE GoTo(Return(nest), rt) /\ UNCHANGED dest
  <2>1. /\ nest' = <<>> /\ status' = "returned"
        /\ rt' = [LeaveScopes(rt, nest, 0) EXCEPT !.stack = <<>>]
    BY <1>6 DEF GoTo, Return
  <2>2. SInv(V)'
    <3>1. SubSeq(nest, 1, 0) = <<>>
      BY <1>2
    <3>2. Sound(<<>>, rethrow, dest, made, V)
      BY <1>2, <3>1, CutSound
    <3> QED BY <1>1, <1>6, <2>1, <3>2 DEF SInv, Left
  <2>3. \A w \in V : Now(w)' = {}
    BY <2>1, NothingHeld DEF Now
  <2>4. LetsGo(V)
    BY <1>2, <1>4, <1>5, <2>1, <2>3 DEF LetsGo
  <2> QED BY <1>1, <2>2, <2>4
<1>7. ASSUME NEW q \in 1..Len(nest), nest[q].kind \in {"try", "catch"}, nest[q].fin,
             EnterFinally(nest, q), rt' = rt, status' = status,
             dest' = [dest EXCEPT ![nest[q].id] = Return(nest)],
             q \in Inside(Finallys(nest), 0)
      PROVE  SInv(V)' /\ GoesOn(V)
  <2> DEFINE b == Outside(nest, q)
  <2>1. /\ b \in Seq(Records) /\ Len(b) = q - 1
        /\ \A i \in 1..(q - 1) : b[i] = nest[i] /\ i \in 1..Len(nest)
    <3>1. q - 1 \in 0..Len(nest) /\ \A i \in 1..(q - 1) : i \in 1..Len(nest)
      BY <1>2
    <3> QED BY <1>2, <3>1, Prefix DEF Outside
  <2>2. nest' = Append(b, [nest[q] EXCEPT !.kind = "finally"])
    BY <1>7 DEF EnterFinally
  <2>3. "array" \in V => NoneIn(nest, "array", rethrow, dest)
    BY <1>3, <1>7 DEF Inside
  <2> HIDE DEF b
  <2>4. \A w \in V : Clears(b, Return(nest), FALSE, w, rethrow, dest)
    <3>1. \A w \in V : w \in {"array", "catch", "return"} => NoneIn(b, w, rethrow, dest)
      BY <1>3, <2>1, <2>3 DEF NoneIn
    <3> QED BY <3>1 DEF Clears, Return
  <2>5. /\ dest'[nest[q].id] = Return(nest) /\ ~rethrow'[nest[q].id]
        /\ dest' = [i \in Ids |-> dest'[i]] /\ rethrow' = [i \in Ids |-> rethrow'[i]]
        /\ \A i \in Ids : i # nest[q].id => dest'[i] = dest[i] /\ rethrow'[i] = rethrow[i]
    <3>1. nest[q].id \in Ids /\ rethrow' = rethrow /\ ~rethrow[nest[q].id]
      BY <1>1, <1>2, <1>7
    <3> QED BY <1>2, <1>7, <3>1
  <2>6. "return" \in V => NoneFrom(nest, q, "return", rethrow, dest)
    <3>1. \A i \in (q + 1)..Len(nest) : i \in 1..Len(nest)
      BY <1>2
    <3> QED BY <1>3, <3>1 DEF NoneIn, NoneFrom
  <2>7. Turns(V, q, "finally")
    <3>1. \A w \in V : Clears(b, dest'[nest[q].id], rethrow'[nest[q].id], w, rethrow, dest)
      BY <2>4, <2>5 DEF Clears
    <3>2. UNCHANGED made /\ status' = "running" /\ "finally" # "catch"
      BY <1>1, <1>7
    <3> QED BY <1>7, <2>2, <2>5, <2>6, <3>1, <3>2 DEF Turns, b
  <2>8. SInv(V)' /\ \A w \in V : Turned(w, q, "finally")
    BY <2>7, TurnStep
  <2>9. dest'[nest[q].id].op = "return" /\ "finally" # "catch"
    BY <2>5 DEF Return
  <2>10. \A w \in V : w \in {"local", "pool"} => Now(w)' = Now(w)
    BY <1>4, <2>8, <2>9 DEF Turned
  <2>11. \A w \in V : w \in {"array", "catch"} =>
                From(nest, q - 1, w, rethrow, dest) = {}
    <3>1. \A i \in ((q - 1) + 1)..Len(nest) : i \in 1..Len(nest)
      BY <1>2
    <3> QED BY <1>3, <2>3, <3>1, FromMember DEF NoneIn
  <2>12. \A w \in V : w \in {"array", "catch"} => Now(w)' = Now(w)
    <3> SUFFICES ASSUME NEW w \in V, w \in {"array", "catch"} PROVE Now(w)' = Now(w)
      OBVIOUS
    <3>1. Turned(w, q, "finally") /\ From(nest, q - 1, w, rethrow, dest) = {}
      BY <2>8, <2>11
    <3>2. ~rethrow'[nest[q].id] /\ ~("finally" = "catch")
      BY <2>5
    <3>3. Now(w)' = Held(Outside(nest, q), w, rethrow, dest)
      BY <3>1, <3>2 DEF Turned
    <3>4. Now(w) = Held(Outside(nest, q), w, rethrow, dest)
      BY <3>1 DEF Turned
    <3> QED BY <3>3, <3>4
  <2>13. \A w \in V \ {"return"} : w \in {"local", "pool", "array", "catch"}
    BY DEF Watches
  <2> QED BY <1>1, <1>7, <2>8, <2>10, <2>12, <2>13 DEF GoesOn
<1>8. \/ Inside(Finallys(nest), 0) = {} /\ GoTo(Return(nest), rt) /\ UNCHANGED dest
      \/ \E q \in 1..Len(nest) :
                /\ 0 < q /\ nest[q].kind \in {"try", "catch"} /\ nest[q].fin
                /\ EnterFinally(nest, q) /\ rt' = rt /\ status' = status
                /\ dest' = [dest EXCEPT ![nest[q].id] = Return(nest)]
                /\ q \in Inside(Finallys(nest), 0)
  BY <1>1, <1>2, OneFinally
<1> QED BY <1>1, <1>6, <1>7, <1>8
-----------------------------------------------------------------------------
(* The pad of the innermost region, and what an exception finds around it. *)
LEMMA PadFacts ==
    ASSUME NEW V \in Watches, SInv(V), Unwinding, Handlers(nest) # {}
    PROVE  /\ status = "unwinding" /\ Pad \in 1..Len(nest) /\ Pad - 1 \in 0..Len(nest)
           /\ Outside(nest, Pad) = SubSeq(nest, 1, Pad - 1)
           /\ \A q \in (Pad + 1)..Len(nest) : nest[q].kind \notin HandlerKinds
           /\ \A q \in ((Pad - 1) + 1)..Len(nest) : q = Pad \/ q \in (Pad + 1)..Len(nest)
           /\ nest[Pad].kind \in HandlerKinds
           /\ "return" \in V => /\ NoneIn(nest, "return", rethrow, dest)
                                /\ \A k \in 0..Len(nest) :
                                      NoneFrom(nest, k, "return", rethrow, dest)
           /\ "array" \in V => NoneIn(nest, "array", rethrow, dest)
           /\ From(nest, Pad - 1, "local", rethrow, dest)
                    = From(nest, Pad, "local", rethrow, dest)
           /\ \A w \in V : w # "local" =>
                    From(nest, Pad - 1, w, rethrow, dest) = Own(nest[Pad], w)
<1>1. Len(nest) \in Nat
  BY SoundState
<1>2. Handlers(nest) \subseteq 1..Len(nest)
  BY DEF Handlers, Positions
<1>3. Pad \in Handlers(nest) /\ \A q \in Handlers(nest) : q <= Pad
  BY <1>1, <1>2, LargestExists DEF Pad
<1>4. Pad \in 1..Len(nest) /\ nest[Pad].kind \in HandlerKinds
  BY <1>3 DEF Handlers, Positions, HandlerKinds
<1>5. /\ Pad - 1 \in 0..Len(nest)
      /\ Outside(nest, Pad) = SubSeq(nest, 1, Pad - 1)
      /\ \A q : q \in ((Pad - 1) + 1)..Len(nest) <=> q = Pad \/ q \in (Pad + 1)..Len(nest)
  BY <1>1, <1>4 DEF Outside
<1>6. \A q \in (Pad + 1)..Len(nest) : nest[q].kind \notin HandlerKinds
  <2>1. \A q \in (Pad + 1)..Len(nest) : q \in 1..Len(nest) /\ q \notin Handlers(nest)
    BY <1>1, <1>3, <1>4
  <2> QED BY <2>1 DEF Handlers, Positions, HandlerKinds
<1>7. status = "unwinding" /\ Quiet(nest, rethrow, dest, V)
  BY DEF Unwinding, SInv
<1>8. "return" \in V => /\ NoneIn(nest, "return", rethrow, dest)
                        /\ \A k \in 0..Len(nest) : NoneFrom(nest, k, "return", rethrow, dest)
  <2>1. \A k \in 0..Len(nest) : \A q \in (k + 1)..Len(nest) : q \in 1..Len(nest)
    BY <1>1
  <2> QED BY <1>7, <2>1 DEF Quiet, NoneIn, NoneFrom
<1>9. "array" \in V => NoneIn(nest, "array", rethrow, dest)
  BY <1>4, <1>7 DEF Quiet, NoHandlers
<1>10. ASSUME NEW w
       PROVE  \A x : x \in From(nest, Pad - 1, w, rethrow, dest) <=>
                  \/ Owns(nest[Pad], w, rethrow, dest) /\ nest[Pad].id = x
                  \/ x \in From(nest, Pad, w, rethrow, dest)
  <2> DEFINE D == ((Pad - 1) + 1)..Len(nest)  E == (Pad + 1)..Len(nest)
  <2>1. \A x : x \in From(nest, Pad - 1, w, rethrow, dest) <=>
                 \E q \in D : Owns(nest[q], w, rethrow, dest) /\ nest[q].id = x
    BY FromMember
  <2>2. \A x : x \in From(nest, Pad, w, rethrow, dest) <=>
                 \E q \in E : Owns(nest[q], w, rethrow, dest) /\ nest[q].id = x
    BY FromMember
  <2>3. \A q : q \in D <=> q = Pad \/ q \in E
    BY <1>5
  <2> HIDE DEF D, E
  <2> QED BY <2>1, <2>2, <2>3
<1>11. From(nest, Pad - 1, "local", rethrow, dest) = From(nest, Pad, "local", rethrow, dest)
  <2>1. ~Owns(nest[Pad], "local", rethrow, dest)
    BY <1>4 DEF Owns, HandlerKinds
  <2>2. \A x : x \in From(nest, Pad - 1, "local", rethrow, dest)
               <=> x \in From(nest, Pad, "local", rethrow, dest)
    BY <1>10, <2>1
  <2> QED BY <2>2
<1>12. ASSUME NEW w \in V, w # "local"
       PROVE  From(nest, Pad - 1, w, rethrow, dest) = Own(nest[Pad], w)
  <2>1. From(nest, Pad, w, rethrow, dest) = {}
    <3>1. CASE w \in {"return", "array"}
      <4>1. \A q \in (Pad + 1)..Len(nest) : q \in 1..Len(nest)
        BY <1>1, <1>4
      <4> QED BY <1>8, <1>9, <3>1, <4>1, FromMember DEF NoneIn
    <3>2. CASE w \in {"pool", "catch"}
      <4>1. \A q \in (Pad + 1)..Len(nest) : ~Owns(nest[q], w, rethrow, dest)
        BY <1>6, <3>2 DEF Owns, HandlerKinds
      <4> QED BY <4>1, FromMember
    <3>3. w \in {"return", "array", "pool", "catch"}
      BY <1>12 DEF Watches
    <3> QED BY <3>1, <3>2, <3>3
  <2>2. \A x : x \in From(nest, Pad - 1, w, rethrow, dest) <=> x \in Own(nest[Pad], w)
    BY <1>10, <2>1 DEF Own
  <2> QED BY <2>2
<1> QED BY <1>4, <1>5, <1>6, <1>7, <1>8, <1>9, <1>11, <1>12

LEMMA StrongsFrom ==
    ASSUME NEW n, NEW k \in 0..Len(n), Len(n) \in Nat, NEW r, NEW d
    PROVE  /\ IdsOf(n, Inside(Strongs(n), k)) = From(n, k, "local", r, d)
           /\ IdsOf(n, Inside(Pools(n), k)) = From(n, k, "pool", r, d)
<1>1. \A p : p \in (k + 1)..Len(n) <=> p \in 1..Len(n) /\ p > k
  OBVIOUS
<1>2. Inside(Strongs(n), k) = {p \in (k + 1)..Len(n) : Owns(n[p], "local", r, d)}
  BY <1>1 DEF Inside, Strongs, Positions, Owns
<1>3. Inside(Pools(n), k) = {p \in (k + 1)..Len(n) : Owns(n[p], "pool", r, d)}
  BY <1>1 DEF Inside, Pools, Positions, Owns
<1> QED BY <1>2, <1>3 DEF IdsOf, From

(* The pads of the pools, the locks, the catches and the @finally blocks. *)
LEMMA EscapeStep ==
    ASSUME NEW V \in Watches, SInv(V), Unwinding, Handlers(nest) # {}, NEW h, Escape(h)
    PROVE  /\ SInv(V)'
           /\ leaked' = leaked \cup From(nest, Pad, "local", rethrow, dest)
           /\ \A w \in V : w # "local" => GivesUp(w, Own(nest[Pad], w))
           /\ "local" \in V => GivesUp("local", From(nest, Pad, "local", rethrow, dest))
<1>1. /\ status = "unwinding" /\ Pad \in 1..Len(nest) /\ Pad - 1 \in 0..Len(nest)
      /\ Outside(nest, Pad) = SubSeq(nest, 1, Pad - 1)
      /\ "return" \in V => NoneFrom(nest, Pad - 1, "return", rethrow, dest)
      /\ From(nest, Pad - 1, "local", rethrow, dest) = From(nest, Pad, "local", rethrow, dest)
      /\ \A w \in V : w # "local" => From(nest, Pad - 1, w, rethrow, dest) = Own(nest[Pad], w)
  BY PadFacts
<1>2. /\ nest' = SubSeq(nest, 1, Pad - 1) /\ status' = "unwinding"
      /\ UNCHANGED <<dest, rethrow, made>>
      /\ leaked' = leaked \cup IdsOf(nest, Inside(Strongs(nest), Pad))
  BY <1>1 DEF Escape, PassOver
<1>3. SInv(V)' /\ \A w \in V : GivesUp(w, From(nest, Pad - 1, w, rethrow, dest))
  BY <1>1, <1>2, CutStep DEF Left
<1>4. IdsOf(nest, Inside(Strongs(nest), Pad)) = From(nest, Pad, "local", rethrow, dest)
  <2>1. Len(nest) \in Nat /\ Pad \in 0..Len(nest)
    <3>1. Len(nest) \in Nat
      BY SoundState
    <3> QED BY <1>1, <3>1
  <2> QED BY <2>1, StrongsFrom
<1> QED BY <1>1, <1>2, <1>3, <1>4

(* The pad of a @try that takes the exception, in a @catch or in its @finally. *)
LEMMA ArmStep ==
    ASSUME NEW V \in Watches, SInv(V), CatchArm \/ FinallyArm
    PROVE  /\ SInv(V)' /\ rt' = BeginCatch(rt) /\ status' = "running"
           /\ leaked' = leaked \cup From(nest, Pad, "local", rethrow, dest)
           /\ \A w \in V : w \in {"pool", "array"} => Now(w)' = Now(w)
           /\ "local" \in V => GivesUp("local", From(nest, Pad, "local", rethrow, dest))
           /\ "catch" \in V => /\ Now("catch")' = Now("catch") \cup {nest[Pad].id}
                               /\ nest[Pad].id \notin Now("catch")
<1>1. /\ Unwinding /\ Handlers(nest) # {} /\ nest[Pad].kind = "try" /\ status' = "running"
      /\ UNCHANGED made /\ PassOver(Pad)
  BY DEF CatchArm, FinallyArm, PadIs
<1>2. /\ status = "unwinding" /\ Pad \in 1..Len(nest) /\ Pad - 1 \in 0..Len(nest)
      /\ Outside(nest, Pad) = SubSeq(nest, 1, Pad - 1)
      /\ \A q \in ((Pad - 1) + 1)..Len(nest) : q = Pad \/ q \in (Pad + 1)..Len(nest)
      /\ "return" \in V => /\ NoneIn(nest, "return", rethrow, dest)
                           /\ \A k \in 0..Len(nest) :
                                 NoneFrom(nest, k, "return", rethrow, dest)
      /\ "array" \in V => NoneIn(nest, "array", rethrow, dest)
      /\ From(nest, Pad - 1, "local", rethrow, dest) = From(nest, Pad, "local", rethrow, dest)
      /\ \A w \in V : w # "local" => From(nest, Pad - 1, w, rethrow, dest) = Own(nest[Pad], w)
  BY <1>1, PadFacts
<1>3. /\ nest \in Seq(Records) /\ Len(nest) \in Nat /\ Pad \in 0..Len(nest)
      /\ nest[Pad].id \in Ids /\ ~rethrow[nest[Pad].id]
      /\ dest = [i \in Ids |-> dest[i]] /\ rethrow = [i \in Ids |-> rethrow[i]]
  <2>1. nest \in Seq(Records) /\ Len(nest) \in Nat
    BY SoundState
  <2> QED BY <1>1, <1>2, <2>1, SoundState DEF SInv
<1> DEFINE b == Outside(nest, Pad)
<1>4. /\ b \in Seq(Records) /\ Len(b) = Pad - 1
      /\ \A i \in 1..(Pad - 1) : b[i] = nest[i] /\ i \in 1..Len(nest) /\ i < Pad
  <2>1. \A i \in 1..(Pad - 1) : i \in 1..Len(nest) /\ i < Pad
    BY <1>2, <1>3
  <2> QED BY <1>2, <1>3, <2>1, Prefix
<1>5. leaked' = leaked \cup From(nest, Pad, "local", rethrow, dest)
  BY <1>1, <1>3, StrongsFrom DEF PassOver
<1>6. \A w \in V : w # "local" => From(nest, Pad - 1, w, rethrow, dest) = {}
  BY <1>1, <1>2 DEF Own, Owns
<1>7. "return" \in V => NoneFrom(nest, Pad, "return", rethrow, dest)
  BY <1>2, <1>3
<1>8. \A x \in Held(b, "catch", rethrow, dest) : x # nest[Pad].id
  <2>1. \A i \in 1..(Pad - 1) : nest[i].id < nest[Pad].id
    BY <1>2, <1>4, SoundState
  <2>2. \A i \in 1..(Pad - 1) : nest[i].id # nest[Pad].id
    <3>1. \A i \in 1..(Pad - 1) : nest[i].id \in Nat /\ nest[Pad].id \in Nat
      BY <1>2, <1>4, SoundState
    <3> QED BY <2>1, <3>1
  <2>3. \A x \in Held(b, "catch", rethrow, dest) : \E i \in 1..(Pad - 1) : x = b[i].id
    BY <1>4, HeldMember, OfMember
  <2> QED BY <1>4, <2>2, <2>3
<1>9. CASE CatchArm
  <2>1. /\ nest' = Append(b, [nest[Pad] EXCEPT !.kind = "catch"]) /\ rt' = BeginCatch(rt)
        /\ UNCHANGED <<dest, rethrow, made>>
    BY <1>9 DEF CatchArm
  <2>2. Turns(V, Pad, "catch")
    BY <1>1, <1>3, <1>7, <2>1 DEF Turns
  <2>3. SInv(V)' /\ \A w \in V : Turned(w, Pad, "catch")
    BY <1>2, <2>2, TurnStep
  <2>4. \A w \in V : w \in {"pool", "array", "local"} =>
            /\ Now(w)' = Held(b, w, rethrow, dest)
            /\ Now(w) = Held(b, w, rethrow, dest) \cup From(nest, Pad - 1, w, rethrow, dest)
            /\ \A x \in Held(b, w, rethrow, dest),
                  y \in From(nest, Pad - 1, w, rethrow, dest) : x < y
    BY <2>3 DEF Turned
  <2>5. "catch" \in V =>
            /\ Now("catch")' = Held(b, "catch", rethrow, dest) \cup {nest[Pad].id}
            /\ Now("catch") = Held(b, "catch", rethrow, dest)
                                \cup From(nest, Pad - 1, "catch", rethrow, dest)
    BY <2>3 DEF Turned
  <2>6. \A w \in V : w \in {"pool", "array"} => Now(w)' = Now(w)
    BY <1>6, <2>4
  <2>7. "local" \in V => GivesUp("local", From(nest, Pad, "local", rethrow, dest))
    BY <1>2, <2>4 DEF GivesUp
  <2>8. "catch" \in V => /\ Now("catch")' = Now("catch") \cup {nest[Pad].id}
                            /\ nest[Pad].id \notin Now("catch")
    <3>1. "catch" \in V => Now("catch") = Held(b, "catch", rethrow, dest)
      BY <1>6, <2>5
    <3> HIDE DEF b
    <3>2. nest[Pad].id \notin Held(b, "catch", rethrow, dest)
      BY <1>8
    <3> QED BY <3>1, <3>2, <2>5
  <2> QED BY <1>1, <1>5, <2>1, <2>3, <2>6, <2>7, <2>8
<1>10. CASE FinallyArm
  <2>1. /\ nest[Pad].fin /\ rethrow' = [rethrow EXCEPT ![nest[Pad].id] = TRUE]
        /\ rt' = BeginCatch(rt) /\ EnterFinally(nest, Pad)
        /\ dest' = [dest EXCEPT ![nest[Pad].id] = At(b)]
    BY <1>10 DEF FinallyArm, LeaveTry
  <2>2. \A w \in V : Clears(b, At(b), TRUE, w, rethrow, dest)
    <3>1. \A w \in V : w \in {"array", "return"} => NoneIn(b, w, rethrow, dest)
      BY <1>2, <1>4 DEF NoneIn
    <3> QED BY <1>4, <3>1, ClearsStraight
  <2>3. RunsFinally(V, Pad, At(b), TRUE)
    BY <1>1, <1>7, <2>1, <2>2 DEF RunsFinally, At
  <2>4. SInv(V)' /\ \A w \in V : RanFinally(w, Pad, TRUE)
    BY <1>2, <2>3, TurnFinally
  <2>5. \A w \in V : w \in {"pool", "array", "local"} =>
            /\ Now(w)' = Held(b, w, rethrow, dest)
            /\ Now(w) = Held(b, w, rethrow, dest) \cup From(nest, Pad - 1, w, rethrow, dest)
            /\ \A x \in Held(b, w, rethrow, dest),
                  y \in From(nest, Pad - 1, w, rethrow, dest) : x < y
    BY <2>4 DEF RanFinally
  <2>6. "catch" \in V =>
            /\ Now("catch")' = Held(b, "catch", rethrow, dest) \cup {nest[Pad].id}
            /\ Now("catch") = Held(b, "catch", rethrow, dest)
                                \cup From(nest, Pad - 1, "catch", rethrow, dest)
    BY <2>4 DEF RanFinally
  <2>7. \A w \in V : w \in {"pool", "array"} => Now(w)' = Now(w)
    BY <1>6, <2>5
  <2>8. "local" \in V => GivesUp("local", From(nest, Pad, "local", rethrow, dest))
    BY <1>2, <2>5 DEF GivesUp
  <2>9. "catch" \in V => /\ Now("catch")' = Now("catch") \cup {nest[Pad].id}
                            /\ nest[Pad].id \notin Now("catch")
    <3>1. "catch" \in V => Now("catch") = Held(b, "catch", rethrow, dest)
      BY <1>6, <2>6
    <3> HIDE DEF b
    <3>2. nest[Pad].id \notin Held(b, "catch", rethrow, dest)
      BY <1>8
    <3> QED BY <3>1, <3>2, <2>6
  <2> QED BY <1>1, <1>5, <2>1, <2>4, <2>7, <2>8, <2>9
<1> QED BY <1>9, <1>10

(* No clause takes the exception: it leaves the function. *)
LEMMA PastStep ==
    ASSUME NEW V \in Watches, SInv(V), Plain(V), StepPast
    PROVE  /\ SInv(V)' /\ rt' = [rt EXCEPT !.stack = <<>>] /\ status' = "thrown"
           /\ leaked' = leaked \cup From(nest, 0, "local", rethrow, dest)
           /\ \A w \in V : Now(w)' = {}
           /\ "local" \in V => Now("local") = From(nest, 0, "local", rethrow, dest)
           /\ "pool" \in V => Now("pool") = {}
           /\ "catch" \in V => Now("catch") = {}
<1>1. /\ status = "unwinding" /\ status' = "thrown" /\ nest' = <<>>
      /\ rt' = [rt EXCEPT !.stack = <<>>] /\ UNCHANGED <<dest, rethrow, owed, made>>
      /\ leaked' = leaked \cup IdsOf(nest, Inside(Strongs(nest), 0))
      /\ \/ Handlers(nest) = {}
         \/ /\ Unwinding /\ Handlers(nest) # {} /\ nest[Pad].kind = "try"
            /\ nest[Pad].claims # "all" /\ ~nest[Pad].fin
  BY DEF StepPast, PadIs, PassOver, Unwinding
<1>2. /\ nest \in Seq(Records) /\ Len(nest) \in Nat /\ 0 \in 0..Len(nest)
      /\ Sound(nest, rethrow, dest, made, V)
  <2>1. nest \in Seq(Records) /\ Len(nest) \in Nat
    BY SoundState
  <2> QED BY <2>1 DEF SInv
<1>3. leaked' = leaked \cup From(nest, 0, "local", rethrow, dest)
  BY <1>1, <1>2, StrongsFrom
<1>4. /\ "return" \in V => NoneIn(nest, "return", rethrow, dest)
      /\ "return" \in V => NoneFrom(nest, 0, "return", rethrow, dest)
  BY <1>1 DEF SInv, Quiet, NoneIn, NoneFrom
<1>5. SInv(V)'
  <2>1. nest' = SubSeq(nest, 1, 0)
    BY <1>1, <1>2
  <2> QED BY <1>1, <1>2, <1>4, <2>1, CutStep
<1>6. \A w \in V : Now(w)' = {}
  BY <1>1, NothingHeld DEF Now
<1>7. "local" \in V => Now("local") = From(nest, 0, "local", rethrow, dest)
  <2>1. "local" \in V => "return" \in V
    BY DEF Watches
  <2>2. Of(nest, "local", rethrow, dest) = From(nest, 0, "local", rethrow, dest)
    BY DEF Of, From
  <2> QED BY <1>4, <2>1, <2>2, NoReturns
<1>8. ASSUME NEW w \in {"pool", "catch"}, w \in V PROVE Now(w) = {}
  <2>1. AllClaimed
    BY <1>8 DEF Watches, Plain
  <2>2. \A q \in 1..Len(nest) : nest[q].kind \notin HandlerKinds \/ nest[q].kind = "try"
    <3>1. CASE Handlers(nest) = {}
      BY <3>1 DEF Handlers, Positions, HandlerKinds
    <3>2. CASE Handlers(nest) # {}
      <4>1. /\ Pad \in 1..Len(nest)
            /\ \A q \in (Pad + 1)..Len(nest) : nest[q].kind \notin HandlerKinds
        BY <1>1, <3>2, PadFacts
      <4>2. \A q \in 1..(Pad - 1) : nest[q].kind \notin HandlerKinds
        BY <1>1, <1>2, <2>1, <3>2, <4>1 DEF Sound, Claimed
      <4>3. \A q \in 1..Len(nest) :
                q \in 1..(Pad - 1) \/ q = Pad \/ q \in (Pad + 1)..Len(nest)
        BY <1>2, <4>1
      <4> QED BY <1>1, <3>2, <4>1, <4>2, <4>3
    <3> QED BY <3>1, <3>2
  <2>3. \A q \in 1..Len(nest) : ~Owns(nest[q], w, rethrow, dest)
    BY <2>2 DEF Owns, HandlerKinds
  <2>4. w = "pool" => "return" \in V
    BY <1>8 DEF Watches
  <2>5. \A x : x \notin Of(nest, w, rethrow, dest)
    BY <2>3, OfMember
  <2>6. w = "pool" => NoneIn(nest, "return", rethrow, dest)
    BY <1>4, <2>4
  <2>7. \A x : x \notin Now(w)
    BY <2>5, <2>6, HeldMember DEF Now, NoneIn
  <2> QED BY <2>7
<1> QED BY <1>1, <1>3, <1>5, <1>6, <1>7, <1>8

-----------------------------------------------------------------------------
(* The numbers of the constructs around. *)
Around(n) == IdsOf(n, 1..Len(n))

LEMMA AroundMember ==
    ASSUME NEW n, NEW x
    PROVE  x \in Around(n) <=> \E p \in 1..Len(n) : n[p].id = x
BY DEF Around, IdsOf

LEMMA NotingFacts ==
    ASSUME NEW V, SInv(V), ScopeAround
    PROVE  /\ Noting \in 1..Len(nest) /\ nest[Noting].kind = "scope"
           /\ \A p \in (Noting + 1)..Len(nest) : nest[p].kind \in {"loop", "switch"}
           /\ \A p \in Noting..Len(nest) : nest[p].kind # "finally"
           /\ \A p \in 1..Len(nest) : p >= Noting /\ p # Noting => p \in (Noting + 1)..Len(nest)
<1>1. Len(nest) \in Nat
  BY SoundState
<1>2. Positions(nest, {"scope"}) \subseteq 1..Len(nest)
  BY DEF Positions
<1>3. Noting \in Positions(nest, {"scope"})
  BY <1>1, <1>2, LargestExists DEF ScopeAround, Noting
<1>4. Noting \in 1..Len(nest) /\ nest[Noting].kind = "scope"
  BY <1>3 DEF Positions
<1>5. \A p \in (Noting + 1)..Len(nest) : nest[p].kind \in {"loop", "switch"}
  BY DEF ScopeAround, Depth
<1>6. /\ \A p \in Noting..Len(nest) : p = Noting \/ p \in (Noting + 1)..Len(nest)
      /\ \A p \in 1..Len(nest) : p >= Noting /\ p # Noting => p \in (Noting + 1)..Len(nest)
  BY <1>1, <1>4
<1>7. \A p \in Noting..Len(nest) : nest[p].kind # "finally"
  BY <1>4, <1>5, <1>6
<1> QED BY <1>4, <1>5, <1>6, <1>7

(* A scope that has noted what it declares, as a nest of its own. *)
LEMMA MarkOne ==
    ASSUME NEW V, SInv(V), NEW g \in 1..Len(nest), NEW c \in Records,
           c.kind = nest[g].kind, c.id = nest[g].id, c.fin = nest[g].fin,
           c.claims = nest[g].claims,
           \A p \in g..Len(nest) : nest[p].kind # "finally"
    PROVE  /\ Marks(nest, [nest EXCEPT ![g] = c], g)
           /\ Len([nest EXCEPT ![g] = c]) = Len(nest)
           /\ [nest EXCEPT ![g] = c][g] = c
           /\ \A p \in 1..Len(nest) : p # g => [nest EXCEPT ![g] = c][p] = nest[p]
<1> DEFINE o == [nest EXCEPT ![g] = c]
<1>1. nest \in Seq(Records) /\ Len(nest) \in Nat
  BY SoundState
<1>2. /\ o \in Seq(Records) /\ Len(o) = Len(nest) /\ o[g] = c
      /\ \A p \in 1..Len(nest) : p # g => o[p] = nest[p]
  BY <1>1
<1> HIDE DEF o
<1>3. \A p \in 1..(g - 1) : p \in 1..Len(nest) /\ p # g
  BY <1>1
<1>4. \A p \in 1..Len(nest) : /\ o[p].kind = nest[p].kind /\ o[p].id = nest[p].id
                              /\ o[p].fin = nest[p].fin /\ o[p].claims = nest[p].claims
  BY <1>2
<1>5. Marks(nest, o, g)
  BY <1>2, <1>3, <1>4 DEF Marks
<1> QED BY <1>2, <1>5 DEF o

(* Where marking changes no ownership of a kind, what is held of it stays. *)
LEMMA MarkedAlike ==
    ASSUME NEW V \in Watches, SInv(V), NEW o, NEW g, Marks(nest, o, g), NEW w \in V,
           \A p \in 1..Len(nest) : Owns(o[p], w, rethrow, dest) <=> Owns(nest[p], w, rethrow, dest)
    PROVE  Held(o, w, rethrow, dest) = Now(w)
<1>1. Sound(nest, rethrow, dest, made, V) /\ made \in Nat
  BY SoundState DEF SInv
<1>2. FALSE \in BOOLEAN
  OBVIOUS
<1>3. \A b \in BOOLEAN :
        (\A p \in 1..Len(nest) : Owns(o[p], w, rethrow, dest) <=>
                Owns(nest[p], w, rethrow, dest) \/ (b /\ p = g))
        => Held(o, w, rethrow, dest)
               = Held(nest, w, rethrow, dest) \cup (IF b THEN {nest[g].id} ELSE {})
  BY <1>1, MarkSound
<1>4. Held(o, w, rethrow, dest) = Held(nest, w, rethrow, dest) \cup {}
  BY <1>2, <1>3
<1> QED BY <1>4 DEF Now

LEMMA MarkedOne ==
    ASSUME NEW V \in Watches, SInv(V), NEW o, NEW g, Marks(nest, o, g), NEW w \in V,
           \A p \in 1..Len(nest) : Owns(o[p], w, rethrow, dest) <=>
                Owns(nest[p], w, rethrow, dest) \/ p = g
    PROVE  Held(o, w, rethrow, dest) = Now(w) \cup {nest[g].id}
<1>1. Sound(nest, rethrow, dest, made, V) /\ made \in Nat
  BY SoundState DEF SInv
<1>2. TRUE \in BOOLEAN
  OBVIOUS
<1>3. \A b \in BOOLEAN :
        (\A p \in 1..Len(nest) : Owns(o[p], w, rethrow, dest) <=>
                Owns(nest[p], w, rethrow, dest) \/ (b /\ p = g))
        => Held(o, w, rethrow, dest)
               = Held(nest, w, rethrow, dest) \cup (IF b THEN {nest[g].id} ELSE {})
  BY <1>1, MarkSound
<1>4. Held(o, w, rethrow, dest) = Held(nest, w, rethrow, dest) \cup {nest[g].id}
  BY <1>2, <1>3
<1> QED BY <1>4 DEF Now

LEMMA AroundMore ==
    ASSUME NEW n \in Seq(Records), NEW c \in Records
    PROVE  Around(Append(n, c)) = Around(n) \cup {c.id}
<1> DEFINE o == Append(n, c)
<1>1. /\ Len(n) \in Nat /\ Len(o) = Len(n) + 1 /\ o[Len(n) + 1] = c
      /\ \A p \in 1..Len(n) : o[p] = n[p]
  BY OneMore
<1> HIDE DEF o
<1>2. \A p : p \in 1..Len(o) <=> p \in 1..Len(n) \/ p = Len(n) + 1
  BY <1>1
<1>3. \A x : x \in Around(o) <=> x \in Around(n) \/ x = c.id
  BY <1>1, <1>2, AroundMember
<1>4. Around(o) = Around(n) \cup {c.id}
  BY <1>3
<1> QED BY <1>4 DEF o

LEMMA AroundAlike ==
    ASSUME NEW n, NEW o, Len(o) = Len(n), \A p \in 1..Len(n) : o[p].id = n[p].id
    PROVE  Around(o) = Around(n)
<1>1. \A x : x \in Around(o) <=> x \in Around(n)
  BY AroundMember
<1> QED BY <1>1

(* A construct is entered: a pool is pushed, a lock taken, or nothing. *)
Entered(V) ==
    /\ status' = "running" /\ leaked' = leaked /\ made < made' /\ made' \in Nat
    /\ Around(nest') = Around(nest) \cup {made'}
    /\ \A w \in V \ {"pool"} : Now(w)' = Now(w)
    /\ \/ /\ rt' = [rt EXCEPT !.pools = Append(@, made')]
          /\ "pool" \in V => Now("pool")' = Now("pool") \cup {made'}
       \/ /\ rt' = rt \/ rt' = [rt EXCEPT !.locks = @ \cup {made'}]
          /\ "pool" \in V => Now("pool")' = Now("pool")

(* The six ways into a construct. *)
LEMMA EnterStep ==
    ASSUME NEW V \in Watches, SInv(V), Plain(V),
           EnterLoop \/ EnterSwitch \/ EnterScope \/ EnterPool \/ EnterSync \/ EnterTry
    PROVE  SInv(V)' /\ Entered(V)
<1>1. /\ made \in Nat /\ made <= MaxConstructs /\ MaxConstructs \in Nat
      /\ nest \in Seq(Records) /\ Len(nest) \in Nat
      /\ dest = [i \in Ids |-> dest[i]] /\ rethrow = [i \in Ids |-> rethrow[i]]
      /\ Sound(nest, rethrow, dest, made, V)
  BY SoundState DEF SInv
<1>2. ASSUME NEW n \in Seq(Records), Sound(n, rethrow, dest, made, V), Around(n) = Around(nest),
             \A w \in V : Held(n, w, rethrow, dest) = Now(w),
             NEW k \in ConstructKinds, NEW fin \in BOOLEAN, NEW claims \in {"none", "some", "all"},
             nest' = Append(n, Construct(k, made', fin, claims)),
             made < MaxConstructs, made' = made + 1, status = "running", status' = status,
             leaked' = leaked,
             dest' = [i \in Ids |-> dest'[i]], rethrow' = [i \in Ids |-> rethrow'[i]],
             \A i \in Ids : i # made' => dest'[i] = dest[i] /\ rethrow'[i] = rethrow[i],
             k = "try" => ~rethrow'[made'],
             AllClaimed /\ k = "try" => fin \/ claims = "all" \/ NoHandlers(n),
             IF k = "pool" THEN rt' = [rt EXCEPT !.pools = Append(@, made')]
             ELSE rt' = rt \/ rt' = [rt EXCEPT !.locks = @ \cup {made'}]
      PROVE  SInv(V)' /\ Entered(V)
  <2>1. /\ SInv(V)'
        /\ \A w \in V : Now(w)' = Held(n, w, rethrow, dest) \cup
                                        (IF k = w THEN {made'} ELSE {})
    BY <1>2, GrowStep
  <2>2. Construct(k, made', fin, claims) \in Records /\ Construct(k, made', fin, claims).id = made'
    BY <1>1, <1>2 DEF Construct, Records
  <2>3. Around(nest') = Around(nest) \cup {made'}
    BY <1>2, <2>2, AroundMore
  <2>4. \A w \in V : Now(w)' = Now(w) \cup (IF k = w THEN {made'} ELSE {})
    BY <1>2, <2>1
  <2>5. \A w \in V : w # "pool" => k # w
    BY DEF Watches, ConstructKinds
  <2>6. made < made' /\ made' \in Nat
    BY <1>1, <1>2
  <2>7. \A w \in V \ {"pool"} : Now(w)' = Now(w)
    <3>1. ASSUME NEW w \in V \ {"pool"} PROVE Now(w)' = Now(w)
      <4>1. w \in V /\ k # w
        BY <2>5
      <4>2. Now(w)' = Now(w) \cup {}
        BY <2>4, <4>1
      <4> QED BY <4>2
    <3> QED BY <3>1
  <2>8. /\ "pool" \in V /\ k = "pool" => Now("pool")' = Now("pool") \cup {made'}
        /\ "pool" \in V /\ k # "pool" => Now("pool")' = Now("pool")
    BY <2>4
  <2>9. \/ /\ rt' = [rt EXCEPT !.pools = Append(@, made')]
           /\ "pool" \in V => Now("pool")' = Now("pool") \cup {made'}
        \/ /\ rt' = rt \/ rt' = [rt EXCEPT !.locks = @ \cup {made'}]
           /\ "pool" \in V => Now("pool")' = Now("pool")
    <3>1. CASE k = "pool"
      BY <1>2, <2>8, <3>1
    <3>2. CASE k # "pool"
      BY <1>2, <2>8, <3>2
    <3> QED BY <3>1, <3>2
  <2> QED BY <1>2, <2>1, <2>3, <2>6, <2>7, <2>9 DEF Entered
<1>3. ASSUME NEW k \in ConstructKinds \ {"try"}, Enter(k, FALSE, "none"),
             UNCHANGED <<dest, rethrow>>,
             IF k = "pool" THEN rt' = [rt EXCEPT !.pools = Append(@, made')]
             ELSE rt' = rt \/ rt' = [rt EXCEPT !.locks = @ \cup {made'}]
      PROVE  SInv(V)' /\ Entered(V)
  <2>1. dest' = [i \in Ids |-> dest'[i]] /\ rethrow' = [i \in Ids |-> rethrow'[i]]
    BY <1>1, <1>3
  <2>2. \A w \in V : Held(nest, w, rethrow, dest) = Now(w)
    BY DEF Now
  <2>3. /\ nest' = Append(nest, Construct(k, made', FALSE, "none"))
        /\ made < MaxConstructs /\ made' = made + 1 /\ status = "running" /\ status' = status
        /\ leaked' = leaked /\ k # "try"
    BY <1>3 DEF Enter, Running
  <2> QED BY <1>1, <1>2, <1>3, <2>1, <2>2, <2>3
<1>4. CASE EnterLoop
  BY <1>3, <1>4 DEF EnterLoop, ConstructKinds
<1>5. CASE EnterScope
  BY <1>3, <1>5 DEF EnterScope, ConstructKinds
<1>6. CASE EnterPool
  BY <1>3, <1>6 DEF EnterPool, ConstructKinds
<1>7. CASE EnterSync
  BY <1>3, <1>7 DEF EnterSync, ConstructKinds
<1>8. CASE EnterTry
  <2>1. PICK fin \in BOOLEAN, claims \in {"none", "some", "all"} :
            /\ MayTry(fin, claims)
            /\ Enter("try", fin, claims)
            /\ dest' = [dest EXCEPT ![made'] = At(nest)]
            /\ rethrow' = [rethrow EXCEPT ![made'] = FALSE]
            /\ UNCHANGED rt
    BY <1>8 DEF EnterTry
  <2>2. /\ nest' = Append(nest, Construct("try", made', fin, claims))
        /\ made < MaxConstructs /\ made' = made + 1 /\ status = "running" /\ status' = status
        /\ leaked' = leaked
    BY <2>1 DEF Enter, Running
  <2>3. made' \in Ids
    BY <1>1, <2>2 DEF Ids
  <2>4. /\ dest' = [i \in Ids |-> dest'[i]] /\ rethrow' = [i \in Ids |-> rethrow'[i]]
        /\ \A i \in Ids : i # made' => dest'[i] = dest[i] /\ rethrow'[i] = rethrow[i]
        /\ ~rethrow'[made']
    BY <1>1, <2>1, <2>3
  <2>5. AllClaimed => fin \/ claims = "all" \/ NoHandlers(nest)
    <3>1. AllClaimed => fin \/ claims = "all" \/ Handlers(nest) = {}
      BY <2>1 DEF MayTry, Unless, AllClaimed
    <3>2. Handlers(nest) = {} => NoHandlers(nest)
      BY DEF Handlers, NoHandlers, Positions, HandlerKinds
    <3> QED BY <3>1, <3>2
  <2>6. \A w \in V : Held(nest, w, rethrow, dest) = Now(w)
    BY DEF Now
  <2>7. "try" \in ConstructKinds /\ "try" # "pool"
    BY DEF ConstructKinds
  <2> QED BY <1>1, <1>2, <2>1, <2>2, <2>4, <2>5, <2>6, <2>7
<1>9. CASE EnterSwitch
  <2>1. PICK past \in BOOLEAN :
            /\ past => ScopeAround /\ ~nest[Noting].local
            /\ Unless("case past a declaration", ~past)
            /\ Running /\ made < MaxConstructs
            /\ made' = made + 1
            /\ nest' = Append(IF past THEN [nest EXCEPT ![Noting].local = TRUE] ELSE nest,
                              Construct("switch", made', FALSE, "none"))
            /\ UNCHANGED <<status, dest, rethrow, rt, owed, leaked>>
    BY <1>9 DEF EnterSwitch
  <2>2. "local" \in V => ~past
    BY <2>1 DEF Plain, LabelsPlain, Unless
  <2>3. /\ made < MaxConstructs /\ made' = made + 1 /\ status = "running" /\ status' = status
        /\ leaked' = leaked /\ rt' = rt /\ dest' = dest /\ rethrow' = rethrow
        /\ dest' = [i \in Ids |-> dest'[i]] /\ rethrow' = [i \in Ids |-> rethrow'[i]]
    BY <1>1, <2>1 DEF Running
  <2>4. "switch" \in ConstructKinds /\ "switch" # "pool" /\ "switch" # "try"
        /\ FALSE \in BOOLEAN /\ "none" \in {"none", "some", "all"}
    BY DEF ConstructKinds
  <2>5. CASE ~past
    <3>1. nest' = Append(nest, Construct("switch", made', FALSE, "none"))
      BY <2>1, <2>5
    <3>2. \A w \in V : Held(nest, w, rethrow, dest) = Now(w)
      BY DEF Now
    <3> QED BY <1>1, <1>2, <2>3, <2>4, <3>1, <3>2
  <2>6. CASE past
    <3> DEFINE g == Noting  c == [nest[g] EXCEPT !.local = TRUE]  n == [nest EXCEPT ![g] = c]
    <3>1. /\ g \in 1..Len(nest) /\ nest[g].kind = "scope"
          /\ \A p \in g..Len(nest) : nest[p].kind # "finally"
      BY <2>1, <2>6, NotingFacts
    <3>2. nest[g] \in Records
      BY <3>1, SoundState
    <3>3. /\ c \in Records /\ c.kind = nest[g].kind /\ c.id = nest[g].id
          /\ c.fin = nest[g].fin /\ c.claims = nest[g].claims /\ c.vla = nest[g].vla
      BY <3>2 DEF Records
    <3>4. nest' = Append(n, Construct("switch", made', FALSE, "none"))
      BY <2>1, <2>6
    <3> HIDE DEF g, c
    <3>5. /\ Marks(nest, n, g) /\ Len(n) = Len(nest) /\ n[g] = c
          /\ \A p \in 1..Len(nest) : p # g => n[p] = nest[p]
      BY <3>1, <3>3, MarkOne
    <3> HIDE DEF n
    <3>6. n \in Seq(Records) /\ Sound(n, rethrow, dest, made, V)
      <4>1. n \in Seq(Records)
        BY <3>5 DEF Marks
      <4> QED BY <1>1, <3>5, <4>1, MarkSound
    <3>7. \A w \in V : Held(n, w, rethrow, dest) = Now(w)
      <4>1. ASSUME NEW w \in V, NEW p \in 1..Len(nest)
            PROVE  Owns(n[p], w, rethrow, dest) <=> Owns(nest[p], w, rethrow, dest)
        BY <2>2, <2>6, <3>3, <3>5 DEF Owns
      <4> QED BY <3>5, <4>1, MarkedAlike
    <3>8. Around(n) = Around(nest)
      <4>1. \A p \in 1..Len(nest) : n[p].id = nest[p].id
        BY <3>3, <3>5
      <4> QED BY <3>5, <4>1, AroundAlike
    <3> QED BY <1>2, <2>3, <2>4, <3>4, <3>6, <3>7, <3>8
  <2> QED BY <2>5, <2>6
<1> QED BY <1>4, <1>5, <1>6, <1>7, <1>8, <1>9

(* What has not been declared where control stands is not held. *)
LEMMA NotYet ==
    ASSUME NEW V \in Watches, "local" \in V, SInv(V), NEW g \in 1..Len(nest),
           \A p \in g..Len(nest) : nest[p].kind # "finally",
           ~Owns(nest[g], "local", rethrow, dest)
    PROVE  nest[g].id \notin Now("local")
<1>1. /\ Len(nest) \in Nat /\ made \in Nat
      /\ \A p \in 1..Len(nest) : nest[p].id \in 1..made
      /\ \A p, q \in 1..Len(nest) : p < q => nest[p].id < nest[q].id
      /\ Sound(nest, rethrow, dest, made, V) /\ "return" \in V
  BY SoundState DEF SInv, Watches
<1>2. ASSUME NEW p \in 1..Len(nest), p # g PROVE nest[p].id # nest[g].id
  <2>1. p < g \/ g < p
    BY <1>1, <1>2
  <2>2. nest[p].id < nest[g].id \/ nest[g].id < nest[p].id
    BY <1>1, <2>1
  <2>3. nest[p].id \in 1..made /\ nest[g].id \in 1..made
    BY <1>1
  <2> QED BY <1>1, <2>2, <2>3
<1>3. nest[g].id \notin Of(nest, "local", rethrow, dest)
  BY <1>2, OfMember
<1>4. ASSUME NEW p \in 1..Len(nest), Owns(nest[p], "return", rethrow, dest)
      PROVE  nest[g].id \notin Of(dest[nest[p].id].nest, "local", rethrow, dest)
  <2> DEFINE o == dest[nest[p].id].nest
  <2>1. Awaits(nest, p, o, made)
    BY <1>1, <1>4 DEF Sound, Awaited
  <2> HIDE DEF o
  <2>2. g \in (p + 1)..Len(nest)
    <3>1. ~(p \in g..Len(nest))
      BY <1>4 DEF Owns
    <3> QED BY <1>1, <3>1
  <2>3. \A j \in 1..Len(o) : o[j].id < nest[g].id /\ o[j].id \in 1..made
    BY <2>1, <2>2 DEF Awaits, Ordered
  <2>4. \A j \in 1..Len(o) : o[j].id # nest[g].id
    <3>1. \A x \in 1..made : ~(x < x)
      BY <1>1
    <3> QED BY <2>3, <3>1
  <2>5. nest[g].id \notin Of(o, "local", rethrow, dest)
    BY <2>4, OfMember
  <2> QED BY <2>5 DEF o
<1> QED BY <1>3, <1>4, HeldMember DEF Now

(* A local is declared in a scope around, or an array in the innermost one. *)
DeclaresLocal(V) ==
    \E x \in Around(nest) :
        /\ \/ rt' = [rt EXCEPT !.held = @ \cup {x}]
           \/ rt' = Fault([rt EXCEPT !.held = @ \cup {x}], "overwrite", x \in rt.held)
        /\ \A w \in V \ {"local"} : Now(w)' = Now(w)
        /\ "local" \in V => x \notin Now("local") /\ Now("local")' = Now("local") \cup {x}

DeclaresArray(V) ==
    \E x \in Around(nest) :
        /\ rt' = [rt EXCEPT !.stack = Append(@, x)]
        /\ \A w \in V \ {"array"} : Now(w)' = Now(w)
        /\ "array" \in V => /\ \A y \in Now("array") : y < x
                            /\ Now("array")' = Now("array") \cup {x}

(* The three declarations. *)
LEMMA DeclareStep ==
    ASSUME NEW V \in Watches, SInv(V), Plain(V),
           DeclareStrong \/ DeclareInSwitch \/ DeclareArray
    PROVE  /\ SInv(V)' /\ status' = "running" /\ leaked' = leaked /\ made' = made
           /\ Around(nest') = Around(nest)
           /\ DeclaresLocal(V) \/ DeclaresArray(V)
<1>1. /\ made \in Nat /\ nest \in Seq(Records) /\ Len(nest) \in Nat
      /\ Sound(nest, rethrow, dest, made, V)
      /\ dest = [i \in Ids |-> dest[i]] /\ rethrow = [i \in Ids |-> rethrow[i]]
  BY SoundState DEF SInv
<1>2. ASSUME NEW g, Marks(nest, nest', g), status = "running",
             UNCHANGED <<status, dest, rethrow, made>>
      PROVE  SInv(V)' /\ Around(nest') = Around(nest) /\ status' = "running"
  <2>1. Sound(nest', rethrow, dest, made, V)
    BY <1>1, <1>2, MarkSound
  <2>2. SInv(V)'
    BY <1>2, <2>1 DEF SInv, Left
  <2>3. Around(nest') = Around(nest)
    BY <1>2, AroundAlike DEF Marks
  <2> QED BY <1>2, <2>2, <2>3
<1>3. ASSUME NEW g, Marks(nest, nest', g), UNCHANGED <<dest, rethrow, made>>, NEW w \in V,
             \A p \in 1..Len(nest) : Owns(nest'[p], w, rethrow, dest) <=>
                    Owns(nest[p], w, rethrow, dest)
      PROVE  Now(w)' = Now(w)
  BY <1>3, MarkedAlike DEF Now
<1>4. ASSUME NEW g, Marks(nest, nest', g), UNCHANGED <<dest, rethrow, made>>, NEW w \in V,
             \A p \in 1..Len(nest) : Owns(nest'[p], w, rethrow, dest) <=>
                    Owns(nest[p], w, rethrow, dest) \/ p = g
      PROVE  Now(w)' = Now(w) \cup {nest[g].id}
  BY <1>4, MarkedOne DEF Now
<1>5. ASSUME InnermostIs("scope")
      PROVE  /\ Depth \in 1..Len(nest) /\ Innermost = nest[Depth] /\ Innermost \in Records
             /\ nest[Depth].kind = "scope" /\ nest[Depth] \in Records /\ status = "running"
             /\ \A p \in Depth..Len(nest) : nest[p].kind # "finally"
             /\ Innermost.id \in Around(nest)
             /\ \A p \in 1..Len(nest) : p # Depth => nest[p].id < Innermost.id
  <2>1. Depth \in 1..Len(nest) /\ Innermost = nest[Depth] /\ nest[Depth].kind = "scope"
        /\ status = "running" /\ Depth = Len(nest)
    BY <1>5, InnermostFacts DEF Depth
  <2>2. \A p \in Depth..Len(nest) : p = Depth
    BY <1>1, <2>1
  <2>3. \A p \in 1..Len(nest) : p # Depth => p < Depth
    BY <1>1, <2>1
  <2>4. \A p \in 1..Len(nest) : p # Depth => nest[p].id < Innermost.id
    BY <2>1, <2>3, SoundState
  <2> QED BY <2>1, <2>2, <2>4, SoundState, AroundMember
<1>6. CASE DeclareStrong
  <2> DEFINE c == [nest[Depth] EXCEPT !.local = TRUE]
  <2>1. /\ nest' = [nest EXCEPT ![Depth] = c] /\ InnermostIs("scope") /\ ~Innermost.local
        /\ rt' = [rt EXCEPT !.held = @ \cup {Innermost.id}]
        /\ UNCHANGED <<status, dest, rethrow, leaked, made>>
    BY <1>6 DEF DeclareStrong
  <2>2. /\ Depth \in 1..Len(nest) /\ Innermost = nest[Depth] /\ Innermost \in Records
        /\ nest[Depth].kind = "scope" /\ nest[Depth] \in Records /\ status = "running"
        /\ \A p \in Depth..Len(nest) : nest[p].kind # "finally"
        /\ Innermost.id \in Around(nest)
    BY <1>5, <2>1
  <2>3. /\ c \in Records /\ c.kind = nest[Depth].kind /\ c.id = nest[Depth].id
        /\ c.fin = nest[Depth].fin /\ c.claims = nest[Depth].claims
        /\ c.local /\ c.vla = nest[Depth].vla
    BY <2>2 DEF Records
  <2> HIDE DEF c
  <2>4. /\ Marks(nest, nest', Depth) /\ nest'[Depth] = c
        /\ \A p \in 1..Len(nest) : p # Depth => nest'[p] = nest[p]
    <3>1. nest' = [nest EXCEPT ![Depth] = c]
      BY <2>1 DEF c
    <3>2. /\ Marks(nest, [nest EXCEPT ![Depth] = c], Depth)
          /\ [nest EXCEPT ![Depth] = c][Depth] = c
          /\ \A p \in 1..Len(nest) : p # Depth => [nest EXCEPT ![Depth] = c][p] = nest[p]
      BY <2>2, <2>3, MarkOne
    <3> QED BY <3>1, <3>2
  <2>5. ASSUME NEW w \in V \ {"local"} PROVE Now(w)' = Now(w)
    <3>1. \A p \in 1..Len(nest) : Owns(nest'[p], w, rethrow, dest) <=>
                                        Owns(nest[p], w, rethrow, dest)
      BY <2>2, <2>3, <2>4 DEF Owns
    <3> QED BY <1>3, <2>1, <2>4, <3>1
  <2>6. ASSUME "local" \in V
        PROVE  /\ Innermost.id \notin Now("local")
               /\ Now("local")' = Now("local") \cup {Innermost.id}
    <3>1. \A p \in 1..Len(nest) : Owns(nest'[p], "local", rethrow, dest) <=>
                                        Owns(nest[p], "local", rethrow, dest) \/ p = Depth
      BY <2>2, <2>3, <2>4 DEF Owns
    <3>2. Now("local")' = Now("local") \cup {nest[Depth].id}
      BY <1>4, <2>1, <2>4, <2>6, <3>1
    <3>3. ~Owns(nest[Depth], "local", rethrow, dest)
      BY <2>1, <2>2 DEF Owns
    <3> QED BY <2>2, <2>6, <3>2, <3>3, NotYet
  <2>7. SInv(V)' /\ Around(nest') = Around(nest) /\ status' = "running"
    BY <1>2, <2>1, <2>2, <2>4
  <2>8. DeclaresLocal(V)
    BY <2>1, <2>2, <2>5, <2>6 DEF DeclaresLocal
  <2> QED BY <2>1, <2>7, <2>8
<1>7. CASE DeclareArray
  <2> DEFINE c == [nest[Depth] EXCEPT !.vla = TRUE]
  <2>1. /\ nest' = [nest EXCEPT ![Depth] = c] /\ InnermostIs("scope") /\ ~Innermost.vla
        /\ rt' = [rt EXCEPT !.stack = Append(@, Innermost.id)]
        /\ UNCHANGED <<status, dest, rethrow, leaked, made>>
    BY <1>7 DEF DeclareArray
  <2>2. /\ Depth \in 1..Len(nest) /\ Innermost = nest[Depth] /\ Innermost \in Records
        /\ nest[Depth].kind = "scope" /\ nest[Depth] \in Records /\ status = "running"
        /\ \A p \in Depth..Len(nest) : nest[p].kind # "finally"
        /\ Innermost.id \in Around(nest)
        /\ \A p \in 1..Len(nest) : p # Depth => nest[p].id < Innermost.id
    BY <1>5, <2>1
  <2>3. /\ c \in Records /\ c.kind = nest[Depth].kind /\ c.id = nest[Depth].id
        /\ c.fin = nest[Depth].fin /\ c.claims = nest[Depth].claims
        /\ c.vla /\ c.local = nest[Depth].local
    BY <2>2 DEF Records
  <2> HIDE DEF c
  <2>4. /\ Marks(nest, nest', Depth) /\ nest'[Depth] = c
        /\ \A p \in 1..Len(nest) : p # Depth => nest'[p] = nest[p]
    <3>1. nest' = [nest EXCEPT ![Depth] = c]
      BY <2>1 DEF c
    <3>2. /\ Marks(nest, [nest EXCEPT ![Depth] = c], Depth)
          /\ [nest EXCEPT ![Depth] = c][Depth] = c
          /\ \A p \in 1..Len(nest) : p # Depth => [nest EXCEPT ![Depth] = c][p] = nest[p]
      BY <2>2, <2>3, MarkOne
    <3> QED BY <3>1, <3>2
  <2>5. ASSUME NEW w \in V \ {"array"} PROVE Now(w)' = Now(w)
    <3>1. \A p \in 1..Len(nest) : Owns(nest'[p], w, rethrow, dest) <=>
                                        Owns(nest[p], w, rethrow, dest)
      BY <2>2, <2>3, <2>4 DEF Owns
    <3> QED BY <1>3, <2>1, <2>4, <3>1
  <2>6. ASSUME "array" \in V
        PROVE  /\ \A y \in Now("array") : y < Innermost.id
               /\ Now("array")' = Now("array") \cup {Innermost.id}
    <3>1. \A p \in 1..Len(nest) : Owns(nest'[p], "array", rethrow, dest) <=>
                                        Owns(nest[p], "array", rethrow, dest) \/ p = Depth
      BY <2>2, <2>3, <2>4 DEF Owns
    <3>2. Now("array")' = Now("array") \cup {nest[Depth].id}
      BY <1>4, <2>1, <2>4, <2>6, <3>1
    <3>3. ~Owns(nest[Depth], "array", rethrow, dest)
      BY <2>1, <2>2 DEF Owns
    <3>4. \A y \in Now("array") : \E p \in 1..Len(nest) : p # Depth /\ y = nest[p].id
      BY <3>3, HeldMember, OfMember DEF Now
    <3> QED BY <2>2, <3>2, <3>4
  <2>7. SInv(V)' /\ Around(nest') = Around(nest) /\ status' = "running"
    BY <1>2, <2>1, <2>2, <2>4
  <2>8. DeclaresArray(V)
    BY <2>1, <2>2, <2>5, <2>6 DEF DeclaresArray
  <2> QED BY <2>1, <2>7, <2>8
<1>8. CASE DeclareInSwitch
  <2> DEFINE g == Noting
  <2>1. /\ status = "running" /\ MayDeclare /\ ScopeAround
        /\ nest' = [p \in 1..Len(nest) |-> [nest[p] EXCEPT !.local = @ \/ p >= Noting]]
        /\ rt' = Fault([rt EXCEPT !.held = @ \cup {nest[Noting].id}], "overwrite",
                       nest[Noting].id \in rt.held)
        /\ UNCHANGED <<status, dest, rethrow, leaked, made>>
    BY <1>8 DEF DeclareInSwitch, InnermostIs, Running, MayDeclare, Depth
  <2>2. /\ g \in 1..Len(nest) /\ nest[g].kind = "scope"
        /\ \A p \in (g + 1)..Len(nest) : nest[p].kind \in {"loop", "switch"}
        /\ \A p \in g..Len(nest) : nest[p].kind # "finally"
        /\ \A p \in 1..Len(nest) : p >= g /\ p # g => p \in (g + 1)..Len(nest)
    BY <2>1, NotingFacts
  <2>3. /\ rt' = Fault([rt EXCEPT !.held = @ \cup {nest[g].id}], "overwrite",
                       nest[g].id \in rt.held)
        /\ \A p \in 1..Len(nest) :
              nest'[p] = [nest[p] EXCEPT !.local = nest[p].local \/ p >= g]
        /\ nest' = [p \in 1..Len(nest) |-> nest'[p]]
    BY <1>1, <2>1
  <2> HIDE DEF g
  <2>4. ASSUME NEW p \in 1..Len(nest)
        PROVE  /\ nest'[p] \in Records
               /\ nest'[p].kind = nest[p].kind /\ nest'[p].id = nest[p].id
               /\ nest'[p].fin = nest[p].fin /\ nest'[p].claims = nest[p].claims
               /\ nest'[p].vla = nest[p].vla
               /\ p < g => nest'[p] = nest[p]
               /\ p = g => nest'[p].local
    <3>1. ASSUME NEW c \in Records, NEW v \in BOOLEAN
          PROVE  /\ [c EXCEPT !.local = v] \in Records
                 /\ [c EXCEPT !.local = v].kind = c.kind
                 /\ [c EXCEPT !.local = v].id = c.id
                 /\ [c EXCEPT !.local = v].fin = c.fin
                 /\ [c EXCEPT !.local = v].claims = c.claims
                 /\ [c EXCEPT !.local = v].vla = c.vla
                 /\ [c EXCEPT !.local = v].local = v
                 /\ v = c.local => [c EXCEPT !.local = v] = c
      BY DEF Records
    <3> DEFINE v == nest[p].local \/ p >= g
    <3>2. nest[p] \in Records /\ nest'[p] = [nest[p] EXCEPT !.local = v]
      BY <2>3, SoundState
    <3>3. v \in BOOLEAN /\ (p < g => v = nest[p].local) /\ (p = g => v)
      <4>1. nest[p].local \in BOOLEAN
        BY <3>2 DEF Records
      <4>2. (p < g => ~(p >= g)) /\ (p = g => p >= g)
        BY <1>1, <2>2
      <4> QED BY <4>1, <4>2
    <3> HIDE DEF v
    <3> QED BY <3>1, <3>2, <3>3
  <2>5. nest' \in Seq(Records) /\ Len(nest') = Len(nest)
    <3>1. nest' \in [1..Len(nest) -> Records]
      BY <2>3, <2>4
    <3> QED BY <1>1, <3>1
  <2>6. Marks(nest, nest', g)
    <3>1. \A p \in 1..(g - 1) : p \in 1..Len(nest) /\ p < g
      BY <1>1, <2>2
    <3>2. \A p \in 1..(g - 1) : nest'[p] = nest[p]
      BY <2>4, <3>1
    <3> QED BY <2>2, <2>4, <2>5, <3>2 DEF Marks
  <2>7. \A p \in 1..Len(nest) : p # g /\ nest[p].kind = "scope" => nest'[p] = nest[p]
    <3> SUFFICES ASSUME NEW p \in 1..Len(nest), p # g, nest[p].kind = "scope"
                 PROVE  nest'[p] = nest[p]
      OBVIOUS
    <3>1. ~(p \in (g + 1)..Len(nest))
      BY <2>2
    <3>2. p < g
      BY <1>1, <2>2, <3>1
    <3> QED BY <2>4, <3>2
  <2>8. ASSUME NEW w \in V \ {"local"} PROVE Now(w)' = Now(w)
    <3>1. \A p \in 1..Len(nest) : Owns(nest'[p], w, rethrow, dest) <=>
                                        Owns(nest[p], w, rethrow, dest)
      BY <2>4 DEF Owns
    <3> QED BY <1>3, <2>1, <2>6, <3>1
  <2>9. ASSUME "local" \in V
        PROVE  /\ nest[g].id \notin Now("local")
               /\ Now("local")' = Now("local") \cup {nest[g].id}
    <3>1. \A p \in 1..Len(nest) : Owns(nest'[p], "local", rethrow, dest) <=>
                                        Owns(nest[p], "local", rethrow, dest) \/ p = g
      BY <2>2, <2>4, <2>7 DEF Owns
    <3>2. Now("local")' = Now("local") \cup {nest[g].id}
      BY <1>4, <2>1, <2>6, <2>9, <3>1
    <3>3. ~nest[g].local
      BY <2>1, <2>9 DEF g, MayDeclare, Plain, SwitchesOnce
    <3>4. ~Owns(nest[g], "local", rethrow, dest)
      BY <3>3 DEF Owns
    <3> QED BY <2>2, <2>9, <3>2, <3>4, NotYet
  <2>10. SInv(V)' /\ Around(nest') = Around(nest) /\ status' = "running"
    BY <1>2, <2>1, <2>6
  <2>11. nest[g].id \in Around(nest)
    BY <2>2, AroundMember
  <2>12. DeclaresLocal(V)
    BY <2>3, <2>8, <2>9, <2>11 DEF DeclaresLocal
  <2> QED BY <2>1, <2>10, <2>12
<1> QED BY <1>6, <1>7, <1>8

-----------------------------------------------------------------------------
(* A break or a continue, up to the loop or the switch it leaves. *)
Leaves(V) ==
    \E p \in 0..Len(nest) :
        /\ rt' = LeaveScopes(rt, nest, p)
        /\ \A w \in V : GivesUp(w, From(nest, p, w, rethrow, dest))
        /\ "array" \in V => From(nest, p, "array", rethrow, dest) = {}
        /\ "catch" \in V => From(nest, p, "catch", rethrow, dest) = {}

(* Both jumps release what they leave. *)
LEMMA LeaveStep ==
    ASSUME NEW V \in Watches, SInv(V), Plain(V), Break \/ Continue
    PROVE  SInv(V)' /\ status' = "running" /\ leaked' = leaked /\ Leaves(V)
<1>1. nest \in Seq(Records) /\ Len(nest) \in Nat
  BY SoundState
<1>2. ASSUME NEW p \in 1..Len(nest), nest[p].kind \in {"loop", "switch"}, status = "running",
             NEW k \in {p - 1, p}, JumpOut(p, At(SubSeq(nest, 1, k)))
      PROVE  SInv(V)' /\ status' = "running" /\ leaked' = leaked /\ Leaves(V)
  <2>1. p \in 0..Len(nest)
    BY <1>1
  <2> QED BY <1>2, <2>1, JumpStep DEF Leaves
<1>3. CASE Break
  <2> DEFINE p == Largest(Positions(nest, {"loop", "switch"}))
  <2>1. /\ status = "running" /\ Positions(nest, {"loop", "switch"}) # {}
        /\ JumpOut(p, At(SubSeq(nest, 1, p - 1)))
    BY <1>3 DEF Break, Breakable, Outside, Running
  <2>2. Positions(nest, {"loop", "switch"}) \subseteq 1..Len(nest)
    BY DEF Positions
  <2>3. p \in Positions(nest, {"loop", "switch"})
    BY <1>1, <2>1, <2>2, LargestExists
  <2> HIDE DEF p
  <2>4. p \in 1..Len(nest) /\ nest[p].kind \in {"loop", "switch"}
    BY <2>3 DEF Positions
  <2> QED BY <1>2, <2>1, <2>4
<1>4. CASE Continue
  <2> DEFINE p == Largest(Positions(nest, {"loop"}))
  <2>1. /\ status = "running" /\ Positions(nest, {"loop"}) # {}
        /\ JumpOut(p, At(SubSeq(nest, 1, p)))
    BY <1>4 DEF Continue, Running
  <2>2. Positions(nest, {"loop"}) \subseteq 1..Len(nest)
    BY DEF Positions
  <2>3. p \in Positions(nest, {"loop"})
    BY <1>1, <2>1, <2>2, LargestExists
  <2> HIDE DEF p
  <2>4. p \in 1..Len(nest) /\ nest[p].kind \in {"loop", "switch"}
    BY <2>3 DEF Positions
  <2> QED BY <1>2, <2>1, <2>4
<1> QED BY <1>3, <1>4

(* An exception is thrown where nothing it would override waits. *)
LEMMA ThrowStep ==
    ASSUME NEW V \in Watches, SInv(V), Plain(V), Throw
    PROVE  /\ SInv(V)' /\ status' = "unwinding" /\ UNCHANGED <<nest, rt, leaked, made>>
           /\ \A w \in V : Now(w)' = Now(w)
<1>1. /\ MayThrow /\ status' = "unwinding"
      /\ UNCHANGED <<nest, dest, rethrow, rt, leaked, made>>
  BY DEF Throw
<1>2. ASSUME "return" \in V PROVE NoneIn(nest, "return", rethrow, dest)
  <2>1. \A q \in Positions(nest, {"finally"}) : dest[nest[q].id].op # "return"
    BY <1>1, <1>2 DEF Plain, Unoverridden, MayThrow, Unless
  <2> QED BY <2>1 DEF NoneIn, Owns, Positions
<1>3. ASSUME "array" \in V
      PROVE  NoneIn(nest, "array", rethrow, dest) \/ NoHandlers(nest)
  <2>1. "local" \in V
    BY <1>3 DEF Watches
  <2>2. Arrays(nest) = {} \/ Handlers(nest) = {}
    BY <1>1, <2>1 DEF Plain, ArraysStay, MayThrow, Unless
  <2>3. Arrays(nest) = {} => NoneIn(nest, "array", rethrow, dest)
    BY DEF Arrays, Positions, NoneIn, Owns
  <2>4. Handlers(nest) = {} => NoHandlers(nest)
    BY DEF Handlers, NoHandlers, Positions, HandlerKinds
  <2> QED BY <2>2, <2>3, <2>4
<1>4. Quiet(nest, rethrow, dest, V)
  BY <1>2, <1>3 DEF Quiet
<1>5. SInv(V)'
  BY <1>1, <1>4 DEF SInv, Left
<1>6. \A w \in V : Now(w)' = Now(w)
  BY <1>1 DEF Now
<1> QED BY <1>1, <1>5, <1>6

LEMMA AroundCut ==
    ASSUME NEW V, SInv(V), NEW k \in 0..Len(nest)
    PROVE  Around(SubSeq(nest, 1, k)) \subseteq Around(nest)
<1> DEFINE o == SubSeq(nest, 1, k)
<1>1. Len(o) = k /\ \A i \in 1..k : o[i] = nest[i] /\ i \in 1..Len(nest)
  BY SoundState, OrderedPrefix
<1> HIDE DEF o
<1>2. Around(o) \subseteq Around(nest)
  BY <1>1, AroundMember
<1> QED BY <1>2 DEF o

LEMMA AroundTurn ==
    ASSUME NEW V, SInv(V), NEW p \in 1..Len(nest), NEW K \in {"catch", "finally"}
    PROVE  /\ Around(Append(Outside(nest, p), [nest[p] EXCEPT !.kind = K])) \subseteq Around(nest)
           /\ Around(Outside(nest, p)) \subseteq Around(nest)
<1> DEFINE o == Outside(nest, p)  c == [nest[p] EXCEPT !.kind = K]
<1>1. nest \in Seq(Records) /\ Len(nest) \in Nat /\ nest[p] \in Records
  BY SoundState
<1>2. p - 1 \in 0..Len(nest) /\ o = SubSeq(nest, 1, p - 1)
  BY <1>1 DEF Outside
<1>3. o \in Seq(Records) /\ Around(o) \subseteq Around(nest)
  BY <1>1, <1>2, AroundCut, Prefix
<1>4. c \in Records /\ c.id = nest[p].id
  BY <1>1 DEF Records
<1> HIDE DEF o, c
<1>5. Around(Append(o, c)) = Around(o) \cup {nest[p].id}
  BY <1>3, <1>4, AroundMore
<1>6. nest[p].id \in Around(nest)
  BY AroundMember
<1> QED BY <1>3, <1>5, <1>6 DEF o, c

LEMMA AroundNothing == Around(<<>>) = {}
<1>1. Len(<<>>) = 0 /\ 1..0 = {}
  OBVIOUS
<1> QED BY <1>1 DEF Around, IdsOf

(* A step that enters nothing leaves no construct around that was not. *)
LEMMA Dwindles ==
    ASSUME NEW V \in Watches, SInv(V), Plain(V),
           \/ EndLoop \/ EndSwitch \/ EndScope \/ EndPool \/ EndSync \/ EndTry \/ EndCatchBody
           \/ EndFinallyRethrow \/ EndFinally \/ Break \/ Continue \/ ReturnStmt
    PROVE  Around(nest') \subseteq Around(nest) /\ made' = made
<1>1. nest \in Seq(Records) /\ Len(nest) \in Nat
  BY SoundState
<1>2. ASSUME NEW p \in 1..Len(nest), EnterFinally(nest, p)
      PROVE  Around(nest') \subseteq Around(nest)
  BY <1>2, AroundTurn DEF EnterFinally
<1>3. ASSUME NEW k, InnermostIs(k)
      PROVE  Depth \in 1..Len(nest) /\ Around(Outside(nest, Depth)) \subseteq Around(nest)
  <2>1. Depth \in 1..Len(nest)
    BY <1>3, InnermostFacts
  <2> QED BY <2>1, AroundTurn
<1>4. ASSUME NEW e, NEW h, GoTo(e, h), e.op = "return" \/ \E k \in 0..Len(nest) :
                    e.op = "at" /\ e.nest = SubSeq(nest, 1, k)
      PROVE  Around(nest') \subseteq Around(nest)
  <2>1. CASE e.op = "return"
    <3>1. nest' = <<>>
      BY <1>4, <2>1 DEF GoTo
    <3> QED BY <3>1, AroundNothing
  <2>2. CASE e.op # "return"
    <3>1. PICK k \in 0..Len(nest) : e.op = "at" /\ e.nest = SubSeq(nest, 1, k)
      BY <1>4, <2>2
    <3>2. nest' = SubSeq(nest, 1, k)
      BY <1>4, <3>1 DEF GoTo
    <3> QED BY <3>2, AroundCut
  <2> QED BY <2>1, <2>2
<1>5. CASE EndLoop \/ EndSwitch \/ EndScope \/ EndPool \/ EndSync
  <2>1. /\ nest' = Outside(nest, Depth) /\ made' = made
        /\ \E k : InnermostIs(k)
    BY <1>5 DEF EndLoop, EndSwitch, EndScope, EndPool, EndSync, EndsInto
  <2> QED BY <1>3, <2>1
<1>6. CASE EndTry \/ EndCatchBody
  <2>1. /\ made' = made /\ \E k : InnermostIs(k)
        /\ nest' = Outside(nest, Depth) \/ EnterFinally(nest, Depth)
    BY <1>6 DEF EndTry, EndCatchBody, LeaveTry
  <2> QED BY <1>2, <1>3, <2>1
<1>7. CASE EndFinallyRethrow
  <2>1. nest' = Outside(nest, Depth) /\ made' = made /\ InnermostIs("finally")
    BY <1>7 DEF EndFinallyRethrow
  <2> QED BY <1>3, <2>1
<1>8. CASE EndFinally
  <2> DEFINE b == Outside(nest, Depth)  e == dest[nest[Depth].id]
  <2>1. /\ GoTo(e, rt) /\ made' = made /\ InnermostIs("finally")
    BY <1>8 DEF EndFinally, Innermost
  <2>2. /\ Depth \in 1..Len(nest) /\ nest[Depth].kind = "finally"
        /\ b = SubSeq(nest, 1, Depth - 1) /\ Depth - 1 \in 0..Len(nest)
    BY <2>1, InnermostFacts
  <2>3. PICK w \in V : TRUE
    BY DEF Watches
  <2>4. Clears(b, e, rethrow[nest[Depth].id], w, rethrow, dest)
    BY <2>2 DEF SInv, Sound, Cleared
  <2>5. b \in Seq(Records) /\ Len(b) = Depth - 1
    BY <1>1, <2>2, Prefix
  <2> HIDE DEF e
  <2>6. ASSUME NEW j \in 0..Len(b), e.nest = SubSeq(b, 1, j)
        PROVE  j \in 0..Len(nest) /\ e.nest = SubSeq(nest, 1, j)
    <3>1. j \in 0..(Depth - 1) /\ j \in 0..Len(nest)
      BY <1>1, <2>2, <2>5
    <3> QED BY <1>1, <2>2, <2>6, <3>1, PrefixOfPrefix
  <2>7. e.op = "return" \/ \E k \in 0..Len(nest) : e.op = "at" /\ e.nest = SubSeq(nest, 1, k)
    <3>1. e.op = "return" \/ (e.op = "at" /\ \E j \in 0..Len(b) : e.nest = SubSeq(b, 1, j))
      BY <2>4 DEF Clears
    <3> HIDE DEF b
    <3> QED BY <2>6, <3>1
  <2> QED BY <1>4, <2>1, <2>7
<1>9. ASSUME NEW p \in 0..Len(nest), MayLeave(p), NEW exit, NEW h, LeaveTries(exit, p, h),
             exit.op = "return" \/ \E k \in 0..Len(nest) :
                    exit.op = "at" /\ exit.nest = SubSeq(nest, 1, k)
      PROVE  Around(nest') \subseteq Around(nest)
  <2>1. \/ GoTo(exit, h)
        \/ \E q \in 1..Len(nest) : EnterFinally(nest, q)
    BY <1>9, OneFinally
  <2> QED BY <1>2, <1>4, <1>9, <2>1
<1>10. CASE Break
  <2> DEFINE p == Largest(Positions(nest, {"loop", "switch"}))
  <2>1. /\ Positions(nest, {"loop", "switch"}) # {} /\ made' = made
        /\ JumpOut(p, At(SubSeq(nest, 1, p - 1)))
    BY <1>10 DEF Break, Breakable, Outside, JumpOut
  <2>2. Positions(nest, {"loop", "switch"}) \subseteq 1..Len(nest)
    BY DEF Positions
  <2>3. p \in 1..Len(nest)
    BY <1>1, <2>1, <2>2, LargestExists
  <2> HIDE DEF p
  <2>4. p \in 0..Len(nest) /\ p - 1 \in 0..Len(nest)
    BY <1>1, <2>3
  <2>5. MayLeave(p) /\ LeaveTries(At(SubSeq(nest, 1, p - 1)), p, LeaveScopes(rt, nest, p))
    BY <2>1 DEF JumpOut, MayJump
  <2>6. At(SubSeq(nest, 1, p - 1)).op = "at"
        /\ At(SubSeq(nest, 1, p - 1)).nest = SubSeq(nest, 1, p - 1)
    BY DEF At
  <2> QED BY <1>9, <2>1, <2>4, <2>5, <2>6
<1>11. CASE Continue
  <2> DEFINE p == Largest(Positions(nest, {"loop"}))
  <2>1. /\ Positions(nest, {"loop"}) # {} /\ made' = made
        /\ JumpOut(p, At(SubSeq(nest, 1, p)))
    BY <1>11 DEF Continue, JumpOut
  <2>2. Positions(nest, {"loop"}) \subseteq 1..Len(nest)
    BY DEF Positions
  <2>3. p \in 1..Len(nest)
    BY <1>1, <2>1, <2>2, LargestExists
  <2> HIDE DEF p
  <2>4. p \in 0..Len(nest)
    BY <1>1, <2>3
  <2>5. MayLeave(p) /\ LeaveTries(At(SubSeq(nest, 1, p)), p, LeaveScopes(rt, nest, p))
    BY <2>1 DEF JumpOut, MayJump
  <2>6. At(SubSeq(nest, 1, p)).op = "at" /\ At(SubSeq(nest, 1, p)).nest = SubSeq(nest, 1, p)
    BY DEF At
  <2> QED BY <1>9, <2>1, <2>4, <2>5, <2>6
<1>12. CASE ReturnStmt
  <2>1. MayLeave(0) /\ LeaveTries(Return(nest), 0, rt) /\ made' = made /\ 0 \in 0..Len(nest)
    BY <1>1, <1>12 DEF ReturnStmt
  <2>2. Return(nest).op = "return"
    BY DEF Return
  <2> QED BY <1>9, <2>1, <2>2
<1> QED BY <1>5, <1>6, <1>7, <1>8, <1>10, <1>11, <1>12

(* What an exception passes over is no longer around. *)
LEMMA PassedOver ==
    ASSUME NEW V \in Watches, SInv(V), Unwinding, Handlers(nest) # {},
           NEW K \in {"catch", "finally"},
           \/ nest' = Outside(nest, Pad)
           \/ nest' = Append(Outside(nest, Pad), [nest[Pad] EXCEPT !.kind = K])
    PROVE  /\ Around(nest') \subseteq Around(nest)
           /\ \A x \in Around(nest') : x \notin From(nest, Pad, "local", rethrow, dest)
           /\ From(nest, Pad, "local", rethrow, dest) \subseteq Around(nest)
<1> DEFINE o == Outside(nest, Pad)
<1>1. /\ Pad \in 1..Len(nest) /\ Pad - 1 \in 0..Len(nest) /\ o = SubSeq(nest, 1, Pad - 1)
  BY PadFacts
<1>2. /\ nest \in Seq(Records) /\ Len(nest) \in Nat /\ made \in Nat /\ nest[Pad] \in Records
      /\ \A p \in 1..Len(nest) : nest[p].id \in 1..made
      /\ \A p, q \in 1..Len(nest) : p < q => nest[p].id < nest[q].id
  BY <1>1, SoundState
<1>3. Around(nest') \subseteq Around(nest)
  BY <1>1, AroundTurn
<1>4. Around(nest') \subseteq {nest[i].id : i \in 1..Pad}
  <2>1. o \in Seq(Records) /\ Len(o) = Pad - 1 /\ \A i \in 1..(Pad - 1) : o[i] = nest[i]
    BY <1>1, <1>2, Prefix
  <2>2. [nest[Pad] EXCEPT !.kind = K] \in Records /\ [nest[Pad] EXCEPT !.kind = K].id = nest[Pad].id
    BY <1>2 DEF Records
  <2> HIDE DEF o
  <2>3. Around(nest') \subseteq Around(o) \cup {nest[Pad].id}
    BY <2>1, <2>2, AroundMore DEF o
  <2>4. Pad \in 1..Pad /\ \A i \in 1..(Pad - 1) : i \in 1..Pad
    BY <1>1, <1>2
  <2>5. Around(o) \subseteq {nest[i].id : i \in 1..Pad}
    BY <2>1, <2>4, AroundMember
  <2> QED BY <2>3, <2>4, <2>5
<1>5. ASSUME NEW i \in 1..Pad, NEW q \in (Pad + 1)..Len(nest) PROVE nest[i].id # nest[q].id
  <2>1. i \in 1..Len(nest) /\ q \in 1..Len(nest) /\ i < q
    BY <1>1, <1>2
  <2>2. nest[i].id < nest[q].id /\ nest[i].id \in 1..made /\ nest[q].id \in 1..made
    BY <1>2, <2>1
  <2> QED BY <1>2, <2>2
<1>6. \A x \in Around(nest') : x \notin From(nest, Pad, "local", rethrow, dest)
  BY <1>4, <1>5, FromMember
<1>7. From(nest, Pad, "local", rethrow, dest) \subseteq Around(nest)
  <2>1. \A q \in (Pad + 1)..Len(nest) : q \in 1..Len(nest)
    BY <1>1, <1>2
  <2> QED BY <2>1, FromMember, AroundMember
<1> QED BY <1>3, <1>6, <1>7

-----------------------------------------------------------------------------
(* The calls to the runtime: what each changes of a frame, and the faults it may be. *)
Framed(h) == {"pools", "locks", "caught", "held", "stack", "faults"} \subseteq DOMAIN h

Touches(h, g, fields, faults) ==
    /\ Framed(g)
    /\ \A f \in {"pools", "caught", "held", "stack"} \ fields : g[f] = h[f]
    /\ g.faults \subseteq h.faults \cup faults

(* What each call of the runtime does to the frame, one lemma a call. *)
LEMMA FaultDoes ==
    ASSUME NEW h, Framed(h), NEW what, NEW bad
    PROVE  /\ Touches(h, Fault(h, what, bad), {}, {what})
           /\ ~bad => Touches(h, Fault(h, what, bad), {}, {})
           /\ \A f \in {"pools", "locks", "caught", "held", "stack"} : Fault(h, what, bad)[f] = h[f]
BY DEF Framed, Fault, Touches

LEMMA ReleaseDoes ==
    ASSUME NEW h, Framed(h), NEW ids
    PROVE  /\ Touches(h, Release(h, ids), {"held"}, {"release"})
           /\ Release(h, ids).held = h.held \ ids
           /\ ids \subseteq h.held => Touches(h, Release(h, ids), {"held"}, {})
<1> DEFINE g == [h EXCEPT !.held = @ \ ids]  bad == ~(ids \subseteq h.held)
<1>1. Touches(h, g, {"held"}, {}) /\ Framed(g) /\ g.held = h.held \ ids /\ g.faults = h.faults
  BY DEF Framed, Touches
<1>2. Release(h, ids) = Fault(g, "release", bad)
  BY DEF Release
<1>3. bad <=> ~(ids \subseteq h.held)
  OBVIOUS
<1> HIDE DEF g, bad
<1> QED BY <1>1, <1>2, <1>3, FaultDoes DEF Touches

LEMMA UnlockDoes ==
    ASSUME NEW h, Framed(h), NEW id
    PROVE  Touches(h, Unlock(h, id), {}, {"unlock"})
<1> DEFINE g == [h EXCEPT !.locks = @ \ {id}]  bad == id \notin h.locks
<1>1. Touches(h, g, {}, {}) /\ Framed(g) /\ g.faults = h.faults
  BY DEF Framed, Touches
<1>2. Unlock(h, id) = Fault(g, "unlock", bad)
  BY DEF Unlock
<1> HIDE DEF g, bad
<1> QED BY <1>1, <1>2, FaultDoes DEF Touches

LEMMA EndCatchDoes ==
    ASSUME NEW h, Framed(h)
    PROVE  /\ Touches(h, EndCatch(h), {"caught"}, {"end_catch"})
           /\ h.caught # 0 => /\ Touches(h, EndCatch(h), {"caught"}, {})
                              /\ EndCatch(h).caught = h.caught - 1
<1>1. CASE h.caught = 0
  <2>1. EndCatch(h) = Fault(h, "end_catch", TRUE)
    BY <1>1 DEF EndCatch
  <2>2. Touches(h, Fault(h, "end_catch", TRUE), {}, {"end_catch"})
    BY FaultDoes
  <2> QED BY <1>1, <2>1, <2>2 DEF Touches
<1>2. CASE h.caught # 0
  <2>1. EndCatch(h) = [h EXCEPT !.caught = @ - 1]
    BY <1>2 DEF EndCatch
  <2> QED BY <1>2, <2>1 DEF Framed, Touches
<1> QED BY <1>1, <1>2

LEMMA BeginCatchDoes ==
    ASSUME NEW h, Framed(h)
    PROVE  Touches(h, BeginCatch(h), {"caught"}, {}) /\ BeginCatch(h).caught = h.caught + 1
BY DEF Framed, Touches, BeginCatch

(* What of s is older than its x. *)
Has(s, x)   == {k \in 1..Len(s) : s[k] = x} # {}
Older(s, x) == SubSeq(s, 1, Smallest({k \in 1..Len(s) : s[k] = x}) - 1)

LEMMA PopPoolDoes ==
    ASSUME NEW h, Framed(h), NEW id
    PROVE  /\ Touches(h, PopPool(h, id), {"pools"}, {"pop"})
           /\ Has(h.pools, id) => /\ Touches(h, PopPool(h, id), {"pools"}, {})
                                  /\ PopPool(h, id).pools = Older(h.pools, id)
<1> DEFINE at == {k \in 1..Len(h.pools) : h.pools[k] = id}
<1>1. CASE at = {}
  <2>1. PopPool(h, id) = Fault(h, "pop", TRUE)
    BY <1>1 DEF PopPool
  <2>2. Touches(h, Fault(h, "pop", TRUE), {}, {"pop"})
    BY FaultDoes
  <2>3. Touches(h, PopPool(h, id), {"pools"}, {"pop"})
    BY <2>1, <2>2 DEF Touches
  <2> QED BY <1>1, <2>3 DEF Has, at
<1>2. CASE at # {}
  <2>1. PopPool(h, id) = [h EXCEPT !.pools = SubSeq(@, 1, Smallest(at) - 1)]
    BY <1>2 DEF PopPool
  <2> HIDE DEF at
  <2>2. /\ Touches(h, PopPool(h, id), {"pools"}, {})
        /\ PopPool(h, id).pools = SubSeq(h.pools, 1, Smallest(at) - 1)
    BY <2>1 DEF Framed, Touches
  <2>3. PopPool(h, id).pools = Older(h.pools, id)
    BY <2>2 DEF Older, at
  <2> QED BY <2>2, <2>3 DEF Touches
<1> QED BY <1>1, <1>2

LEMMA RestoreStackDoes ==
    ASSUME NEW h, Framed(h), NEW id
    PROVE  /\ Touches(h, RestoreStack(h, id), {"stack"}, {})
           /\ Has(h.stack, id) => RestoreStack(h, id).stack = Older(h.stack, id)
<1> DEFINE at == {k \in 1..Len(h.stack) : h.stack[k] = id}
<1>1. CASE at = {}
  <2>1. RestoreStack(h, id) = h
    BY <1>1 DEF RestoreStack
  <2> HIDE DEF at
  <2> QED BY <1>1, <2>1 DEF Touches, Has, at
<1>2. CASE at # {}
  <2>1. RestoreStack(h, id) = [h EXCEPT !.stack = SubSeq(@, 1, Smallest(at) - 1)]
    BY <1>2 DEF RestoreStack
  <2> HIDE DEF at
  <2>2. /\ Touches(h, RestoreStack(h, id), {"stack"}, {})
        /\ RestoreStack(h, id).stack = SubSeq(h.stack, 1, Smallest(at) - 1)
    BY <2>1 DEF Framed, Touches
  <2>3. RestoreStack(h, id).stack = Older(h.stack, id)
    BY <2>2 DEF Older, at
  <2> QED BY <2>2, <2>3
<1> QED BY <1>1, <1>2

LEMMA PopPoolsDoes ==
    ASSUME NEW h, Framed(h), NEW n, NEW ps
    PROVE  Touches(h, PopPools(h, n, ps), {"pools"}, {"pop"})
<1>1. CASE ps = {}
  BY <1>1 DEF PopPools, Touches
<1>2. CASE ps # {}
  <2> DEFINE g == PopPool(h, n[Smallest(ps)].id)  bad == ~(IdsOf(n, ps) \subseteq ToSet(h.pools))
  <2>1. PopPools(h, n, ps) = Fault(g, "pop", bad)
    BY <1>2 DEF PopPools
  <2>2. Touches(h, g, {"pools"}, {"pop"})
    BY PopPoolDoes
  <2> HIDE DEF g, bad
  <2>3. Touches(g, Fault(g, "pop", bad), {}, {"pop"})
    BY <2>2, FaultDoes DEF Touches
  <2> QED BY <2>1, <2>2, <2>3 DEF Touches
<1> QED BY <1>1, <1>2

LEMMA LeaveScopesDoes ==
    ASSUME NEW h, Framed(h), NEW n, NEW p
    PROVE  /\ Touches(h, LeaveScopes(h, n, p), {"pools", "held"}, {"pop", "release"})
           /\ LeaveScopes(h, n, p).held = h.held \ IdsOf(n, Inside(Strongs(n), p))
           /\ IdsOf(n, Inside(Strongs(n), p)) \subseteq h.held =>
                  Touches(h, LeaveScopes(h, n, p), {"pools", "held"}, {"pop"})
<1> DEFINE X == IdsOf(n, Inside(Strongs(n), p))  g == Release(h, X)
           ps == Inside(Pools(n), p)  l == PopPools(g, n, ps)
<1>1. LeaveScopes(h, n, p) = l
  BY DEF LeaveScopes
<1>2. /\ Touches(h, g, {"held"}, {"release"}) /\ g.held = h.held \ X
      /\ X \subseteq h.held => Touches(h, g, {"held"}, {})
  BY ReleaseDoes
<1> HIDE DEF X, g, ps
<1>3. Touches(g, l, {"pools"}, {"pop"})
  BY <1>2, PopPoolsDoes DEF Touches
<1> HIDE DEF l
<1>4. l.held = h.held \ X /\ l["caught"] = h["caught"] /\ l["stack"] = h["stack"]
      /\ Framed(l)
  BY <1>2, <1>3 DEF Touches
<1>5. l.faults \subseteq h.faults \cup {"pop", "release"}
  BY <1>2, <1>3 DEF Touches
<1>6. X \subseteq h.held => l.faults \subseteq h.faults \cup {"pop"}
  BY <1>2, <1>3 DEF Touches
<1> QED BY <1>1, <1>4, <1>5, <1>6 DEF Touches, X

-----------------------------------------------------------------------------
(* What is pushed is in the order it was entered, so a pop leaves what is older. *)
Rising(s) == s \in Seq(Nat) /\ \A i, j \in 1..Len(s) : i < j => s[i] < s[j]

LEMMA ToSetMember ==
    ASSUME NEW s, s \in Seq(Nat), NEW x
    PROVE  x \in ToSet(s) <=> \E i \in 1..Len(s) : s[i] = x
BY DEF ToSet

LEMMA SmallestExists ==
    ASSUME NEW N \in Nat, NEW ps, ps \subseteq 1..N, ps # {}
    PROVE  Smallest(ps) \in ps /\ \A q \in ps : Smallest(ps) <= q
<1> DEFINE R == OpToRel(<, Nat)
<1>1. ps \subseteq Nat
  OBVIOUS
<1>2. PICK p0 \in ps : TRUE
  OBVIOUS
<1>3. PICK x \in ps : \A y \in ps : ~ (<<y, x>> \in R)
  BY <1>1, <1>2, NatLessThanWellFounded, WFMin
<1>4. \A y \in ps : ~ (y < x)
  BY <1>1, <1>3 DEF OpToRel
<1>5. \E p \in ps : \A q \in ps : p <= q
  BY <1>1, <1>4
<1> QED BY <1>5 DEF Smallest

(* s holds K and X, which is newer and begins with x. *)
Tops(s, K, X, x) == /\ Rising(s) /\ ToSet(s) = K \cup X
                    /\ \A y \in K, z \in X : y < z
                    /\ x \in X /\ \A z \in X : x <= z

(* Popping the oldest of the newest leaves the rest, in order. *)
LEMMA Popped ==
    ASSUME NEW s, NEW K, NEW X, NEW x, Tops(s, K, X, x)
    PROVE  Has(s, x) /\ Rising(Older(s, x)) /\ ToSet(Older(s, x)) = K
<1> USE DEF Tops
<1> DEFINE at == {k \in 1..Len(s) : s[k] = x}
<1>1. s \in Seq(Nat) /\ Len(s) \in Nat /\ \A i \in 1..Len(s) : s[i] \in Nat
  BY DEF Rising
<1>2. \A y : y \in K \cup X <=> \E i \in 1..Len(s) : s[i] = y
  BY <1>1, ToSetMember
<1>3. PICK a \in 1..Len(s) : s[a] = x
  BY <1>2
<1>4. \A i \in 1..Len(s) : i # a => s[i] # x
  <2> SUFFICES ASSUME NEW i \in 1..Len(s), i # a PROVE s[i] # x
    OBVIOUS
  <2>1. i < a \/ a < i
    BY <1>1
  <2>2. s[i] < s[a] \/ s[a] < s[i]
    BY <2>1 DEF Rising
  <2> QED BY <1>1, <1>3, <2>2
<1>5. at = {a}
  BY <1>3, <1>4
<1>6. Smallest(at) = a
  <2>1. a <= a
    BY <1>1
  <2> QED BY <1>5, <2>1 DEF Smallest
<1> HIDE DEF at
<1> DEFINE o == SubSeq(s, 1, a - 1)
<1>7. /\ o \in Seq(Nat) /\ Len(o) = a - 1 /\ \A i \in 1..(a - 1) : o[i] = s[i]
      /\ \A i \in 1..(a - 1) : i \in 1..Len(s) /\ i < a
  BY <1>1
<1> HIDE DEF o
<1>8. Rising(o)
  BY <1>7 DEF Rising
<1>9. ASSUME NEW y PROVE y \in ToSet(o) <=> y \in K
  <2>1. ASSUME y \in ToSet(o) PROVE y \in K
    <3>1. PICK i \in 1..(a - 1) : s[i] = y /\ i \in 1..Len(s) /\ i < a
      BY <1>7, <2>1, ToSetMember
    <3>2. y < x /\ y \in Nat /\ x \in Nat
      BY <1>1, <1>3, <3>1 DEF Rising
    <3>3. y \notin X
      BY <3>2
    <3> QED BY <1>2, <3>1, <3>3
  <2>2. ASSUME y \in K PROVE y \in ToSet(o)
    <3>1. PICK i \in 1..Len(s) : s[i] = y
      BY <1>2, <2>2
    <3>2. y < x /\ y \in Nat /\ x \in Nat
      BY <1>1, <1>3, <2>2, <3>1
    <3>3. i < a
      <4>1. i = a \/ a < i \/ i < a
        BY <1>1
      <4>2. ~(a < i)
        BY <1>3, <3>1, <3>2 DEF Rising
      <4>3. i # a
        BY <1>3, <3>1, <3>2
      <4> QED BY <4>1, <4>2, <4>3
    <3>4. i \in 1..(a - 1)
      BY <1>1, <3>3
    <3> QED BY <1>7, <3>1, <3>4, ToSetMember
  <2> QED BY <2>1, <2>2
<1>10. ToSet(o) = K
  BY <1>9
<1>11. Has(s, x) /\ Older(s, x) = o
  BY <1>5, <1>6 DEF Has, Older, at, o
<1> QED BY <1>8, <1>10, <1>11

LEMMA Pushed ==
    ASSUME NEW s, Rising(s), NEW x \in Nat, \A y \in ToSet(s) : y < x
    PROVE  Rising(Append(s, x)) /\ ToSet(Append(s, x)) = ToSet(s) \cup {x}
<1> DEFINE o == Append(s, x)  h == Len(s)
<1>1. s \in Seq(Nat) /\ h \in Nat /\ \A i \in 1..h : s[i] \in Nat
  BY DEF Rising
<1>2. /\ o \in Seq(Nat) /\ Len(o) = h + 1 /\ o[h + 1] = x /\ \A i \in 1..h : o[i] = s[i]
  BY <1>1
<1>3. h = Len(s)
  OBVIOUS
<1> HIDE DEF o, h
<1>4. \A i : i \in 1..(h + 1) <=> i \in 1..h \/ i = h + 1
  BY <1>1
<1>5. \A i \in 1..h : s[i] < x
  BY <1>1, <1>3, ToSetMember
<1>6. Rising(o)
  <2> SUFFICES ASSUME NEW i \in 1..(h + 1), NEW j \in 1..(h + 1), i < j PROVE o[i] < o[j]
    BY <1>2 DEF Rising
  <2>1. i \in 1..h
    BY <1>1
  <2>2. CASE j \in 1..h
    BY <1>2, <1>3, <2>1, <2>2 DEF Rising
  <2>3. CASE j = h + 1
    BY <1>2, <1>5, <2>1, <2>3
  <2> QED BY <1>4, <2>2, <2>3
<1>7. \A y : y \in ToSet(o) <=> y \in ToSet(s) \/ y = x
  <2> SUFFICES ASSUME NEW y PROVE y \in ToSet(o) <=> y \in ToSet(s) \/ y = x
    OBVIOUS
  <2>1. y \in ToSet(o) <=> \E i \in 1..(h + 1) : o[i] = y
    BY <1>2, ToSetMember
  <2>2. y \in ToSet(s) <=> \E i \in 1..h : s[i] = y
    BY <1>1, <1>3, ToSetMember
  <2> QED BY <1>2, <1>4, <2>1, <2>2
<1> QED BY <1>6, <1>7 DEF o

LEMMA NothingPushed ==
    ASSUME NEW s, Rising(s), ToSet(s) = {}
    PROVE  s = <<>>
<1>1. s \in Seq(Nat) /\ Len(s) \in Nat
  BY DEF Rising
<1>2. \A i \in 1..Len(s) : FALSE
  BY <1>1, ToSetMember
<1>3. Len(s) = 0
  <2>1. Len(s) # 0 => 1 \in 1..Len(s)
    BY <1>1
  <2> QED BY <1>2, <2>1
<1> QED BY <1>1, <1>3

LEMMA EmptyRises == Rising(<<>>) /\ ToSet(<<>>) = {}
BY DEF Rising, ToSet

-----------------------------------------------------------------------------
(* The pools: those on the page stack are those owned, in order. *)
LEMMA PoolsLeft ==
    ASSUME NEW h, Framed(h), Rising(h.pools), NEW n, NEW m \in Nat, Ordered(n, m),
           NEW p \in 0..Len(n), NEW r, NEW d, NEW K,
           ToSet(h.pools) = K \cup From(n, p, "pool", r, d),
           \A y \in K, z \in From(n, p, "pool", r, d) : y < z
    PROVE  /\ Rising(LeaveScopes(h, n, p).pools) /\ ToSet(LeaveScopes(h, n, p).pools) = K
           /\ LeaveScopes(h, n, p).faults \subseteq h.faults \cup {"release"}
<1> DEFINE X == IdsOf(n, Inside(Strongs(n), p))  g == Release(h, X)
           ps == Inside(Pools(n), p)  l == PopPools(g, n, ps)
           F == From(n, p, "pool", r, d)  x == n[Smallest(ps)].id
<1>1. LeaveScopes(h, n, p) = l
  BY DEF LeaveScopes
<1>2. /\ Framed(g) /\ g.pools = h.pools /\ g.faults \subseteq h.faults \cup {"release"}
  <2>1. Touches(h, g, {"held"}, {"release"})
    BY ReleaseDoes
  <2> HIDE DEF g
  <2>2. g["pools"] = h["pools"]
    BY <2>1 DEF Touches
  <2> QED BY <2>1, <2>2 DEF Touches
<1>3. /\ Len(n) \in Nat /\ n \in Seq(Records)
      /\ \A i \in 1..Len(n) : n[i].id \in 1..m
      /\ \A i, j \in 1..Len(n) : i < j => n[i].id < n[j].id
  BY DEF Ordered
<1>4. IdsOf(n, ps) = F
  BY <1>3, StrongsFrom
<1>5. ps \subseteq 1..Len(n)
  BY DEF Inside, Pools, Positions
<1> HIDE DEF F, X, g
<1>6. CASE ps = {}
  <2>1. F = {}
    BY <1>4, <1>6 DEF IdsOf
  <2>2. l = g
    BY <1>6 DEF PopPools
  <2> QED BY <1>1, <1>2, <2>1, <2>2 DEF F
<1>7. CASE ps # {}
  <2>1. Smallest(ps) \in ps /\ \A q \in ps : Smallest(ps) <= q
    BY <1>3, <1>5, <1>7, SmallestExists
  <2>2. x \in F
    BY <1>4, <2>1 DEF IdsOf
  <2>3. \A z \in F : x <= z
    <3>1. \A q \in ps : x <= n[q].id
      <4> SUFFICES ASSUME NEW q \in ps PROVE x <= n[q].id
        OBVIOUS
      <4>1. q \in 1..Len(n) /\ Smallest(ps) \in 1..Len(n)
        BY <1>5, <2>1
      <4>2. Smallest(ps) = q \/ Smallest(ps) < q
        BY <1>3, <2>1, <4>1
      <4>3. n[q].id \in 1..m
        BY <1>3, <4>1
      <4>4. Smallest(ps) < q => x < n[q].id
        BY <1>3, <4>1
      <4>5. x \in 1..m
        BY <1>3, <4>1
      <4> HIDE DEF x
      <4>6. Smallest(ps) = q => x = n[q].id
        BY DEF x
      <4> QED BY <4>2, <4>3, <4>4, <4>5, <4>6
    <3> HIDE DEF x, ps
    <3> QED BY <1>4, <3>1 DEF IdsOf
  <2> HIDE DEF ps
  <2>4. l = Fault(PopPool(g, x), "pop", ~(IdsOf(n, ps) \subseteq ToSet(g.pools)))
    BY <1>7 DEF PopPools
  <2> HIDE DEF x, l
  <2>5. Has(g.pools, x) /\ Rising(Older(g.pools, x)) /\ ToSet(Older(g.pools, x)) = K
    <3>1. Tops(g.pools, K, F, x)
      BY <1>2, <2>2, <2>3 DEF F, Tops
    <3> QED BY <3>1, Popped
  <2>6. /\ Touches(g, PopPool(g, x), {"pools"}, {})
        /\ PopPool(g, x).pools = Older(g.pools, x)
    BY <1>2, <2>5, PopPoolDoes
  <2> DEFINE o == PopPool(g, x)
  <2>7. Framed(o) /\ o.faults \subseteq g.faults
    BY <2>6 DEF Touches
  <2>8. ~ ~(IdsOf(n, ps) \subseteq ToSet(g.pools))
    BY <1>2, <1>4 DEF F
  <2> HIDE DEF o
  <2>9. l = Fault(o, "pop", ~(IdsOf(n, ps) \subseteq ToSet(g.pools)))
    BY <2>4 DEF o
  <2>10. Touches(o, l, {}, {})
    BY <2>7, <2>8, <2>9, FaultDoes
  <2>11. l["pools"] = o["pools"] /\ l.faults \subseteq o.faults
    BY <2>10 DEF Touches
  <2> QED BY <1>1, <1>2, <2>5, <2>6, <2>7, <2>11 DEF o
<1> QED BY <1>6, <1>7

PoolsKept == {"pool", "return"}

PoolsHeld == /\ Framed(rt) /\ Rising(rt.pools) /\ ToSet(rt.pools) = Now("pool")
             /\ "pop" \notin rt.faults

LEMMA PoolsAlike ==
    ASSUME PoolsHeld, Now("pool")' = Now("pool"),
           Touches(rt, rt', {"caught", "held", "stack"},
                   {"release", "unlock", "end_catch", "overwrite"})
    PROVE  PoolsHeld'
<1>1. Framed(rt') /\ rt'["pools"] = rt["pools"]
      /\ rt'.faults \subseteq rt.faults \cup {"release", "unlock", "end_catch", "overwrite"}
  BY DEF Touches
<1> QED BY <1>1 DEF PoolsHeld

LEMMA PoolPopped ==
    ASSUME PoolsHeld, NEW x, GivesUp("pool", {x}), x \in Nat, rt' = PopPool(rt, x)
    PROVE  PoolsHeld'
<1>1. Tops(rt.pools, Now("pool")', {x}, x)
  <2>1. x <= x
    OBVIOUS
  <2> QED BY <2>1 DEF PoolsHeld, GivesUp, Tops
<1>2. Has(rt.pools, x) /\ Rising(Older(rt.pools, x)) /\ ToSet(Older(rt.pools, x)) = Now("pool")'
  BY <1>1, Popped
<1>3. /\ Touches(rt, rt', {"pools"}, {}) /\ rt'.pools = Older(rt.pools, x)
  BY <1>2, PopPoolDoes DEF PoolsHeld
<1>4. Framed(rt') /\ rt'.faults \subseteq rt.faults
  BY <1>3 DEF Touches
<1> QED BY <1>2, <1>3, <1>4 DEF PoolsHeld

PoolsInv == SInv(PoolsKept) /\ PoolsHeld

(* The inductive step: no action disturbs the pools. *)
LEMMA PoolsStep ==
    ASSUME PoolsInv, Plain(PoolsKept), Next
    PROVE  PoolsInv'
<1> DEFINE V == PoolsKept
<1>1. /\ V \in Watches /\ "pool" \in V /\ SInv(V) /\ Plain(V) /\ PoolsHeld /\ Framed(rt)
  BY DEF PoolsKept, Watches, PoolsInv, PoolsHeld
<1>2. SUFFICES SInv(V)' /\ PoolsHeld'
  BY DEF PoolsInv
<1> HIDE DEF V
<1>3. Len(nest) \in Nat /\ made \in Nat /\ Ordered(nest, made)
      /\ \A p \in 1..Len(nest) : nest[p].id \in Nat
  <2>1. made \in Nat
    BY <1>1, SoundState
  <2>2. \A i \in 1..made : i \in Nat
    BY <2>1
  <2> QED BY <1>1, <2>1, <2>2, SoundState
<1>4. ASSUME GivesUp("pool", {}) PROVE Now("pool")' = Now("pool")
  BY <1>4 DEF GivesUp
<1>5. ASSUME rt' = rt, Now("pool")' = Now("pool") PROVE PoolsHeld'
  BY <1>1, <1>5 DEF PoolsHeld
<1>6. CASE EnterLoop \/ EnterSwitch \/ EnterScope \/ EnterPool \/ EnterSync \/ EnterTry
  <2>1. SInv(V)' /\ Entered(V)
    BY <1>1, <1>6, EnterStep
  <2>2. CASE rt' = [rt EXCEPT !.pools = Append(@, made')] /\ Now("pool")' = Now("pool") \cup {made'}
    <3>1. made' \in Nat /\ \A y \in ToSet(rt.pools) : y < made'
      <4>1. Now("pool") \subseteq 1..made /\ made < made' /\ made' \in Nat
        BY <1>1, <2>1, NowOld DEF Entered
      <4> QED BY <1>1, <1>3, <4>1 DEF PoolsHeld
    <3>2. /\ Rising(Append(rt.pools, made'))
          /\ ToSet(Append(rt.pools, made')) = ToSet(rt.pools) \cup {made'}
      BY <1>1, <3>1, Pushed DEF PoolsHeld
    <3>3. rt'.pools = Append(rt.pools, made') /\ Framed(rt') /\ rt'.faults = rt.faults
      BY <1>1, <2>2 DEF Framed
    <3> QED BY <1>1, <2>1, <2>2, <3>2, <3>3 DEF PoolsHeld
  <2>3. CASE rt' = [rt EXCEPT !.locks = @ \cup {made'}] /\ Now("pool")' = Now("pool")
    <3>1. Touches(rt, rt', {"caught", "held", "stack"},
                   {"release", "unlock", "end_catch", "overwrite"})
      BY <1>1, <2>3 DEF Framed, Touches
    <3> QED BY <1>1, <2>1, <2>3, <3>1, PoolsAlike
  <2> QED BY <1>1, <1>5, <2>1, <2>2, <2>3 DEF Entered
<1>7. CASE DeclareStrong \/ DeclareInSwitch \/ DeclareArray
  <2>1. SInv(V)' /\ (DeclaresLocal(V) \/ DeclaresArray(V))
    BY <1>1, <1>7, DeclareStep
  <2>2. Now("pool")' = Now("pool")
    BY <1>1, <2>1 DEF DeclaresLocal, DeclaresArray
  <2>3. Touches(rt, rt', {"caught", "held", "stack"},
                   {"release", "unlock", "end_catch", "overwrite"})
    <3>1. CASE DeclaresArray(V)
      BY <1>1, <3>1 DEF DeclaresArray, Framed, Touches
    <3>2. CASE DeclaresLocal(V)
      <4>1. PICK x : \/ rt' = [rt EXCEPT !.held = @ \cup {x}]
                     \/ rt' = Fault([rt EXCEPT !.held = @ \cup {x}], "overwrite", x \in rt.held)
        BY <3>2 DEF DeclaresLocal
      <4> DEFINE g == [rt EXCEPT !.held = @ \cup {x}]  bad == x \in rt.held
      <4>2. Framed(g) /\ Touches(rt, g, {"held"}, {})
        BY <1>1 DEF Framed, Touches
      <4>3. rt' = g \/ rt' = Fault(g, "overwrite", bad)
        BY <4>1
      <4> HIDE DEF g, bad
      <4>4. Touches(g, Fault(g, "overwrite", bad), {}, {"overwrite"})
        BY <4>2, FaultDoes
      <4> QED BY <4>2, <4>3, <4>4 DEF Touches
    <3> QED BY <2>1, <3>1, <3>2
  <2> QED BY <1>1, <2>1, <2>2, <2>3, PoolsAlike
<1>8. ASSUME NEW k \in {"loop", "switch", "scope", "sync"}, InnermostIs(k), NEW h, EndsInto(h),
             Touches(rt, h, {"caught", "held", "stack"},
                     {"release", "unlock", "end_catch", "overwrite"})
      PROVE  SInv(V)' /\ PoolsHeld'
  <2>1. SInv(V)' /\ \A w \in V : GivesUp(w, Own(Innermost, w))
    BY <1>1, <1>8, EndStep
  <2>2. Own(Innermost, "pool") = {}
    BY <1>8 DEF Own, Owns, InnermostIs
  <2>3. Now("pool")' = Now("pool") /\ rt' = h
    BY <1>1, <1>4, <1>8, <2>1, <2>2 DEF EndsInto
  <2> QED BY <1>1, <1>8, <2>1, <2>3, PoolsAlike
<1>9. Touches(rt, rt, {"caught", "held", "stack"},
              {"release", "unlock", "end_catch", "overwrite"})
  BY <1>1 DEF Touches
<1>10. CASE EndLoop \/ EndSwitch
  BY <1>8, <1>9, <1>10 DEF EndLoop, EndSwitch
<1>11. CASE EndScope
  <2> DEFINE g == IF Innermost.vla THEN RestoreStack(rt, Innermost.id) ELSE rt
             X == IF Innermost.local THEN {Innermost.id} ELSE {}
  <2>1. InnermostIs("scope") /\ EndsInto(Release(g, X))
    BY <1>11 DEF EndScope
  <2>2. Touches(rt, g, {"stack"}, {})
    BY <1>1, <1>9, RestoreStackDoes DEF Touches
  <2> HIDE DEF g, X
  <2>3. Touches(g, Release(g, X), {"held"}, {"release"})
    BY <2>2, ReleaseDoes DEF Touches
  <2>4. Touches(rt, Release(g, X), {"caught", "held", "stack"},
                {"release", "unlock", "end_catch", "overwrite"})
    BY <2>2, <2>3 DEF Touches
  <2> QED BY <1>8, <2>1, <2>4
<1>12. CASE EndSync
  <2>1. Touches(rt, Unlock(rt, Innermost.id), {}, {"unlock"})
    BY <1>1, UnlockDoes
  <2>2. Touches(rt, Unlock(rt, Innermost.id), {"caught", "held", "stack"},
                {"release", "unlock", "end_catch", "overwrite"})
    BY <2>1 DEF Touches
  <2> QED BY <1>8, <1>12, <2>2 DEF EndSync
<1>13. CASE EndPool
  <2>1. InnermostIs("pool") /\ EndsInto(PopPool(rt, Innermost.id))
    BY <1>13 DEF EndPool
  <2>2. SInv(V)' /\ \A w \in V : GivesUp(w, Own(Innermost, w))
    BY <1>1, <2>1, EndStep
  <2>3. Own(Innermost, "pool") = {Innermost.id} /\ Innermost.id \in Nat
    <3>1. Depth \in 1..Len(nest) /\ Innermost = nest[Depth]
      BY <1>1, <2>1, InnermostFacts
    <3> QED BY <1>3, <2>1, <3>1 DEF Own, Owns, InnermostIs
  <2> QED BY <1>1, <2>1, <2>2, <2>3, PoolPopped DEF EndsInto
<1>14. CASE EndTry \/ EndCatchBody
  <2>1. PICK k \in {"try", "catch"}, h \in {rt, EndCatch(rt)} :
            InnermostIs(k) /\ LeaveTry(Depth, h) /\ UNCHANGED <<status, rethrow, made>>
    BY <1>14 DEF EndTry, EndCatchBody
  <2>2. SInv(V)' /\ \A w \in V : GivesUp(w, Own(Innermost, w))
    BY <1>1, <2>1, LeaveTryStep
  <2>3. Own(Innermost, "pool") = {}
    BY <2>1 DEF Own, Owns, InnermostIs
  <2>4. rt' = rt \/ rt' = EndCatch(rt)
    BY <2>1 DEF LeaveTry
  <2>5. Touches(rt, EndCatch(rt), {"caught"}, {"end_catch"})
    BY <1>1, EndCatchDoes
  <2>6. Touches(rt, rt', {"caught", "held", "stack"},
                {"release", "unlock", "end_catch", "overwrite"})
    BY <1>9, <2>4, <2>5 DEF Touches
  <2> QED BY <1>1, <1>4, <2>2, <2>3, <2>6, PoolsAlike
<1>15. CASE EndFinallyRethrow
  <2>1. SInv(V)' /\ GivesUp("pool", {})
    BY <1>1, <1>15, RethrowStep
  <2>2. rt' = EndCatch(rt) /\ Touches(rt, EndCatch(rt), {"caught"}, {"end_catch"})
    BY <1>1, <1>15, EndCatchDoes DEF EndFinallyRethrow
  <2>3. Touches(rt, rt', {"caught", "held", "stack"},
                {"release", "unlock", "end_catch", "overwrite"})
    BY <2>2 DEF Touches
  <2> QED BY <1>1, <1>4, <2>1, <2>3, PoolsAlike
<1>16. CASE EndFinally \/ ReturnStmt
  <2>1. SInv(V)' /\ (GoesOn(V) \/ LetsGo(V))
    BY <1>1, <1>16, FinallyStep, ReturnStep
  <2>2. CASE GoesOn(V)
    BY <1>1, <1>5, <2>1, <2>2 DEF GoesOn
  <2>3. CASE LetsGo(V)
    <3>1. PICK o : /\ rt' = [LeaveScopes(rt, o, 0) EXCEPT !.stack = <<>>]
                   /\ Now("pool")' = {} /\ Ordered(o, made)
                   /\ Now("pool") = Of(o, "pool", rethrow, dest)
      BY <1>1, <2>3 DEF LetsGo
    <3> DEFINE h == LeaveScopes(rt, o, 0)
    <3>2. Of(o, "pool", rethrow, dest) = From(o, 0, "pool", rethrow, dest)
      BY DEF Of, From
    <3>3. 0 \in 0..Len(o)
      BY <3>1 DEF Ordered
    <3>4. ToSet(rt.pools) = {} \cup From(o, 0, "pool", rethrow, dest)
      BY <1>1, <3>1, <3>2 DEF PoolsHeld
    <3>5. Rising(h.pools) /\ ToSet(h.pools) = {} /\ h.faults \subseteq rt.faults \cup {"release"}
      BY <1>1, <1>3, <3>1, <3>3, <3>4, PoolsLeft DEF PoolsHeld
    <3>6. Framed(h)
      BY <1>1, LeaveScopesDoes DEF Touches
    <3>7. rt' = [h EXCEPT !.stack = <<>>]
      BY <3>1
    <3> HIDE DEF h
    <3>8. Framed(rt') /\ rt'.pools = h.pools /\ rt'.faults = h.faults
      BY <3>6, <3>7 DEF Framed
    <3>9. "pop" \notin rt.faults
      BY <1>1 DEF PoolsHeld
    <3>10. Rising(rt'.pools) /\ ToSet(rt'.pools) = Now("pool")' /\ "pop" \notin rt'.faults
      <4>1. rt'.pools = h.pools /\ rt'.faults = h.faults
        BY <3>8
      <4>2. Rising(rt'.pools) /\ ToSet(rt'.pools) = {}
        BY <3>5, <4>1
      <4>3. "pop" \notin rt'.faults
        BY <3>5, <3>9, <4>1
      <4> QED BY <3>1, <4>2, <4>3
    <3> QED BY <2>1, <3>8, <3>10 DEF PoolsHeld
  <2> QED BY <2>1, <2>2, <2>3
<1>17. CASE Break \/ Continue
  <2>1. SInv(V)' /\ Leaves(V)
    BY <1>1, <1>17, LeaveStep
  <2>2. PICK p \in 0..Len(nest) :
            /\ rt' = LeaveScopes(rt, nest, p)
            /\ GivesUp("pool", From(nest, p, "pool", rethrow, dest))
    BY <1>1, <2>1 DEF Leaves
  <2>3. /\ Now("pool") = Now("pool")' \cup From(nest, p, "pool", rethrow, dest)
        /\ \A y \in Now("pool")', z \in From(nest, p, "pool", rethrow, dest) : y < z
    BY <2>2 DEF GivesUp
  <2> DEFINE K == Now("pool")'
  <2>4. /\ ToSet(rt.pools) = K \cup From(nest, p, "pool", rethrow, dest)
        /\ \A y \in K, z \in From(nest, p, "pool", rethrow, dest) : y < z
    BY <1>1, <2>3 DEF PoolsHeld
  <2> HIDE DEF K
  <2>5. /\ Rising(rt'.pools) /\ ToSet(rt'.pools) = K
        /\ rt'.faults \subseteq rt.faults \cup {"release"}
    <3>1. Rising(rt.pools) /\ Framed(rt)
      BY <1>1 DEF PoolsHeld
    <3>2. /\ Rising(LeaveScopes(rt, nest, p).pools) /\ ToSet(LeaveScopes(rt, nest, p).pools) = K
          /\ LeaveScopes(rt, nest, p).faults \subseteq rt.faults \cup {"release"}
      BY <1>3, <2>4, <3>1, PoolsLeft
    <3> QED BY <2>2, <3>2
  <2>6. Framed(rt')
    BY <1>1, <2>2, LeaveScopesDoes DEF Touches
  <2> QED BY <1>1, <2>1, <2>5, <2>6 DEF PoolsHeld, K
<1>18. CASE Throw
  BY <1>1, <1>5, <1>18, ThrowStep
<1>19. ASSUME Unwinding, Handlers(nest) # {}, nest[Pad].kind # "pool", NEW h, Escape(h),
              Touches(rt, h, {"caught", "held", "stack"},
                      {"release", "unlock", "end_catch", "overwrite"})
       PROVE  SInv(V)' /\ PoolsHeld'
  <2>1. SInv(V)' /\ GivesUp("pool", Own(nest[Pad], "pool"))
    BY <1>1, <1>19, EscapeStep
  <2>2. Own(nest[Pad], "pool") = {}
    BY <1>19 DEF Own, Owns
  <2>3. rt' = h
    BY <1>19 DEF Escape
  <2> QED BY <1>1, <1>4, <1>19, <2>1, <2>2, <2>3, PoolsAlike
<1>20. CASE EscapeSync
  <2>1. Touches(rt, Unlock(rt, nest[Pad].id), {}, {"unlock"})
    BY <1>1, UnlockDoes
  <2>2. Touches(rt, Unlock(rt, nest[Pad].id), {"caught", "held", "stack"},
                {"release", "unlock", "end_catch", "overwrite"})
    BY <2>1 DEF Touches
  <2> QED BY <1>19, <1>20, <2>2 DEF EscapeSync, PadIs
<1>21. CASE EscapeCatch \/ EscapeFinally
  <2>1. Touches(rt, EndCatch(rt), {"caught"}, {"end_catch"})
    BY <1>1, EndCatchDoes
  <2>2. Touches(rt, EndCatch(rt), {"caught", "held", "stack"},
                {"release", "unlock", "end_catch", "overwrite"})
    BY <2>1 DEF Touches
  <2> QED BY <1>9, <1>19, <1>21, <2>2 DEF EscapeCatch, EscapeFinally, PadIs
<1>22. CASE EscapePool
  <2>1. /\ Unwinding /\ Handlers(nest) # {} /\ nest[Pad].kind = "pool"
        /\ Escape(PopPool(rt, nest[Pad].id))
    BY <1>22 DEF EscapePool, PadIs
  <2>2. SInv(V)' /\ GivesUp("pool", Own(nest[Pad], "pool"))
    BY <1>1, <2>1, EscapeStep
  <2>3. Pad \in 1..Len(nest)
    BY <1>1, <2>1, PadFacts
  <2>4. Own(nest[Pad], "pool") = {nest[Pad].id} /\ nest[Pad].id \in Nat
    BY <1>3, <2>1, <2>3 DEF Own, Owns
  <2> QED BY <1>1, <2>1, <2>2, <2>4, PoolPopped DEF Escape
<1>23. CASE CatchArm \/ FinallyArm
  <2>1. SInv(V)' /\ rt' = BeginCatch(rt) /\ Now("pool")' = Now("pool")
    BY <1>1, <1>23, ArmStep
  <2>2. Touches(rt, BeginCatch(rt), {"caught"}, {})
    BY <1>1, BeginCatchDoes
  <2>3. Touches(rt, rt', {"caught", "held", "stack"},
                {"release", "unlock", "end_catch", "overwrite"})
    BY <2>1, <2>2 DEF Touches
  <2> QED BY <1>1, <2>1, <2>3, PoolsAlike
<1>24. CASE StepPast
  <2>1. SInv(V)' /\ rt' = [rt EXCEPT !.stack = <<>>] /\ Now("pool")' = {} /\ Now("pool") = {}
    BY <1>1, <1>24, PastStep
  <2>2. Touches(rt, rt', {"caught", "held", "stack"},
                {"release", "unlock", "end_catch", "overwrite"})
    BY <1>1, <2>1 DEF Framed, Touches
  <2> QED BY <1>1, <2>1, <2>2, PoolsAlike
<1> QED BY <1>6, <1>7, <1>10, <1>11, <1>12, <1>13, <1>14, <1>15, <1>16, <1>17, <1>18, <1>20,
           <1>21, <1>22, <1>23, <1>24 DEF Next

-----------------------------------------------------------------------------
(* The first state, and one that does not change. *)
LEMMA StartSound ==
    ASSUME NEW V, Init
    PROVE  /\ SInv(V) /\ \A w : Now(w) = {}
           /\ Framed(rt) /\ rt = Holding /\ leaked = {} /\ nest = <<>>
<1>1. /\ nest = <<>> /\ status = "running" /\ rt = Holding /\ leaked = {} /\ made = 0
      /\ dest = [i \in Ids |-> At(<<>>)] /\ rethrow = [i \in Ids |-> FALSE]
  BY DEF Init
<1>2. dest = [i \in Ids |-> dest[i]] /\ rethrow = [i \in Ids |-> rethrow[i]]
  BY <1>1
<1>3. nest \in Seq(Records) /\ \A p \in 1..Len(nest) : FALSE
  BY <1>1
<1>4. Sound(nest, rethrow, dest, made, V)
  BY <1>3 DEF Sound, NestOK, Ordered, Cleared, Awaited, Claimed
<1>5. made \in 0..MaxConstructs
  BY <1>1, ExitsAssumption
<1>6. SInv(V)
  BY <1>1, <1>2, <1>4, <1>5 DEF SInv, Left
<1>7. \A w : Now(w) = {}
  BY <1>1, NothingHeld DEF Now
<1>8. Framed(rt)
  BY <1>1 DEF Framed, Holding
<1> QED BY <1>1, <1>6, <1>7, <1>8

LEMMA StaysSound ==
    ASSUME NEW V, SInv(V), UNCHANGED vars
    PROVE  SInv(V)' /\ \A w : Now(w)' = Now(w)
BY DEF SInv, Left, Now, vars

(* With no return waiting, what is held is what the constructs around own. *)
LEMMA NoneWaits ==
    ASSUME NEW w, ~ReturnPending
    PROVE  Now(w) = Of(nest, w, rethrow, dest)
<1>1. NoneIn(nest, "return", rethrow, dest)
  BY DEF ReturnPending, NoneIn, Owns, Positions
<1> QED BY <1>1, NoReturns

(* The sets the properties compare, as what the constructs around own. *)
LEMMA OfAround ==
    /\ IdsOf(nest, Pools(nest)) = Of(nest, "pool", rethrow, dest)
    /\ IdsOf(nest, Strongs(nest)) = Of(nest, "local", rethrow, dest)
    /\ IdsOf(nest, Arrays(nest)) = Of(nest, "array", rethrow, dest)
    /\ \A w : Of(nest, w, rethrow, dest) \subseteq Now(w)
<1>1. Pools(nest) = {q \in 1..Len(nest) : Owns(nest[q], "pool", rethrow, dest)}
  BY DEF Pools, Positions, Owns
<1>2. Strongs(nest) = {q \in 1..Len(nest) : Owns(nest[q], "local", rethrow, dest)}
  BY DEF Strongs, Positions, Owns
<1>3. Arrays(nest) = {q \in 1..Len(nest) : Owns(nest[q], "array", rethrow, dest)}
  BY DEF Arrays, Positions, Owns
<1>4. \A w : Of(nest, w, rethrow, dest) \subseteq Now(w)
  BY HeldMember DEF Now
<1> QED BY <1>1, <1>2, <1>3, <1>4 DEF IdsOf, Of

-----------------------------------------------------------------------------
(* The shapes of exit that leave a pool pushed or pop one twice: a @finally around
   another, a return or a throw over one that waits, a jump out of a pool that is
   outside a @try with a @finally, and an exception no clause takes. *)
PoolShapes == {"two finallys", "override return", "owner outside finally", "no claim"}

(* A pool is popped on every path out of it, and once, the ways through one @finally
   and through unwinding included. *)
THEOREM PoolsPopped ==
    ASSUME Shapes \cap PoolShapes = {}
    PROVE  Spec => []PoolsOwned
<1>1. Plain(PoolsKept)
  <2>1. Single /\ Unoverridden /\ OwnersInside /\ AllClaimed
    BY DEF PoolShapes, Single, Unoverridden, OwnersInside, AllClaimed
  <2>2. "local" \notin PoolsKept /\ "catch" \notin PoolsKept
    BY DEF PoolsKept
  <2> QED BY <2>1, <2>2 DEF Plain
<1>2. Init => PoolsInv
  <2> SUFFICES ASSUME Init PROVE PoolsInv
    OBVIOUS
  <2>1. SInv(PoolsKept) /\ Now("pool") = {} /\ Framed(rt) /\ rt = Holding
    BY StartSound
  <2>2. rt.pools = <<>> /\ rt.faults = {}
    BY <2>1 DEF Holding
  <2> QED BY <2>1, <2>2, EmptyRises DEF PoolsInv, PoolsHeld
<1>3. PoolsInv /\ [Next]_vars => PoolsInv'
  <2>1. ASSUME PoolsInv, Next PROVE PoolsInv'
    BY <1>1, <2>1, PoolsStep
  <2>2. ASSUME PoolsInv, UNCHANGED vars PROVE PoolsInv'
    <3>1. SInv(PoolsKept)' /\ Now("pool")' = Now("pool") /\ rt' = rt
      BY <2>2, StaysSound DEF PoolsInv, vars
    <3> QED BY <2>2, <3>1 DEF PoolsInv, PoolsHeld
  <2> QED BY <2>1, <2>2
<1>4. PoolsInv => PoolsOwned
  <2> SUFFICES ASSUME PoolsInv PROVE PoolsOwned
    OBVIOUS
  <2>1. ToSet(rt.pools) = Now("pool") /\ Rising(rt.pools) /\ "pop" \notin rt.faults
    BY DEF PoolsInv, PoolsHeld
  <2>2. ~ReturnPending => Now("pool") = IdsOf(nest, Pools(nest))
    BY NoneWaits, OfAround
  <2>3. IdsOf(nest, Pools(nest)) \subseteq Now("pool")
    BY OfAround
  <2>4. Left => rt.pools = <<>>
    <3>1. Left => Now("pool") = {}
      BY NothingHeld DEF PoolsInv, SInv, Now
    <3> QED BY <2>1, <3>1, NothingPushed
  <2> QED BY <2>1, <2>2, <2>3, <2>4 DEF PoolsOwned
<1> QED BY <1>2, <1>3, <1>4, PTL DEF Spec

-----------------------------------------------------------------------------
(* The catches: as many are begun and not ended as are owned. *)
CatchesKept == {"catch"}

CatchesHeld == /\ Framed(rt) /\ rt.caught = Cardinality(Now("catch"))
               /\ "end_catch" \notin rt.faults

CatchesInv == SInv(CatchesKept) /\ CatchesHeld

(* The catches are finitely many, and can be counted. *)
LEMMA CatchesFinite ==
    ASSUME SInv(CatchesKept)
    PROVE  /\ IsFiniteSet(Now("catch")) /\ Now("catch") \subseteq Nat
           /\ Cardinality(Now("catch")) \in Nat
<1>1. CatchesKept \in Watches /\ "catch" \in CatchesKept
  BY DEF CatchesKept, Watches
<1>2. Now("catch") \subseteq 1..made /\ made \in Nat
  BY <1>1, NowOld, SoundState
<1> DEFINE S == Now("catch")
<1>3. S \subseteq 1..made
  BY <1>2
<1> HIDE DEF S
<1>4. IsFiniteSet(1..made)
  <2>1. 1 \in Int /\ made \in Int
    BY <1>2
  <2> QED BY <2>1, FS_Interval
<1>5. IsFiniteSet(S) /\ S \subseteq Nat
  <2>1. S \in SUBSET (1..made)
    BY <1>3
  <2>2. IsFiniteSet(S)
    BY <1>4, <2>1, FS_Subset
  <2>3. \A x \in 1..made : x \in Nat
    BY <1>2
  <2> QED BY <1>3, <2>2, <2>3
<1>6. Cardinality(S) \in Nat
  BY <1>5, FS_CardinalityType
<1> QED BY <1>5, <1>6 DEF S

LEMMA CatchesAlike ==
    ASSUME CatchesHeld, Now("catch")' = Now("catch"),
           Touches(rt, rt', {"pools", "held", "stack"}, {"release", "unlock", "pop", "overwrite"})
    PROVE  CatchesHeld'
<1>1. Framed(rt') /\ rt'["caught"] = rt["caught"]
      /\ rt'.faults \subseteq rt.faults \cup {"release", "unlock", "pop", "overwrite"}
  BY DEF Touches
<1>2. Cardinality(Now("catch"))' = Cardinality(Now("catch"))
  BY DEF CatchesHeld
<1> QED BY <1>1, <1>2 DEF CatchesHeld

(* An end_catch for the catch that is left. *)
LEMMA CatchEnded ==
    ASSUME CatchesHeld, SInv(CatchesKept), SInv(CatchesKept)', NEW x, GivesUp("catch", {x}),
           rt' = EndCatch(rt)
    PROVE  CatchesHeld'
<1> DEFINE S == Now("catch")  T == Now("catch")'
<1>1. S = T \cup {x} /\ \A y \in T : y < x
  BY DEF GivesUp
<1>2. S \subseteq Nat /\ Cardinality(S) \in Nat
  BY CatchesFinite
<1>3. IsFiniteSet(Now("catch"))' /\ (Cardinality(Now("catch")) \in Nat)'
  BY CatchesFinite, PTL
<1>4. IsFiniteSet(T) /\ Cardinality(T) \in Nat
  BY <1>3
<1>5. rt.caught = Cardinality(S) /\ Framed(rt) /\ "end_catch" \notin rt.faults
  BY DEF CatchesHeld
<1>6. (rt'.caught = Cardinality(T) /\ Framed(rt') /\ "end_catch" \notin rt'.faults) => CatchesHeld'
  BY DEF CatchesHeld
<1> HIDE DEF S, T
<1>7. x \notin T
  BY <1>1, <1>2
<1>8. Cardinality(S) = Cardinality(T) + 1
  BY <1>1, <1>4, <1>7, FS_AddElement
<1>9. rt.caught # 0 /\ rt.caught - 1 = Cardinality(T)
  BY <1>4, <1>5, <1>8
<1>10. Touches(rt, rt', {"caught"}, {}) /\ rt'.caught = rt.caught - 1
  BY <1>5, <1>9, EndCatchDoes
<1> QED BY <1>5, <1>6, <1>9, <1>10 DEF Touches

(* What the steps that neither begin nor end a catch may do to the frame. *)
CatchesApart(h) ==
    Touches(rt, h, {"pools", "held", "stack"}, {"release", "unlock", "pop", "overwrite"})

(* A begin_catch for the one that is entered. *)
LEMMA CatchesBegun ==
    ASSUME CatchesHeld, SInv(CatchesKept), NEW x, x \notin Now("catch"),
           Now("catch")' = Now("catch") \cup {x}, rt' = BeginCatch(rt)
    PROVE  CatchesHeld'
<1> DEFINE S == Now("catch")
<1>1. IsFiniteSet(S) /\ Cardinality(S) \in Nat
  BY CatchesFinite
<1>2. rt.caught = Cardinality(S) /\ Framed(rt) /\ "end_catch" \notin rt.faults
  BY DEF CatchesHeld
<1>3. Touches(rt, rt', {"caught"}, {}) /\ rt'.caught = rt.caught + 1
  BY <1>2, BeginCatchDoes
<1>4. x \notin S /\ Now("catch")' = S \cup {x}
  OBVIOUS
<1> HIDE DEF S
<1>5. Cardinality(S \cup {x}) = Cardinality(S) + 1
  BY <1>1, <1>4, FS_AddElement
<1>6. rt'.caught = Cardinality(Now("catch")')
  BY <1>2, <1>3, <1>4, <1>5
<1>7. Framed(rt') /\ "end_catch" \notin rt'.faults
  BY <1>2, <1>3 DEF Touches
<1> QED BY <1>6, <1>7 DEF CatchesHeld

(* The inductive step: no action disturbs the count of the catches. *)
LEMMA CatchesStep ==
    ASSUME CatchesInv, Plain(CatchesKept), Next
    PROVE  CatchesInv'
<1> DEFINE V == CatchesKept
<1>1. /\ V \in Watches /\ "catch" \in V /\ "pool" \notin V /\ "local" \notin V
      /\ "array" \notin V /\ SInv(V) /\ Plain(V) /\ CatchesHeld /\ Framed(rt)
  BY DEF CatchesKept, Watches, CatchesInv, CatchesHeld
<1>2. SUFFICES SInv(V)' /\ CatchesHeld'
  BY DEF CatchesInv
<1>3. V = CatchesKept
  OBVIOUS
<1> HIDE DEF V
<1>4. ASSUME GivesUp("catch", {}) PROVE Now("catch")' = Now("catch")
  BY <1>4 DEF GivesUp
<1>5. CatchesApart(rt)
  BY <1>1 DEF CatchesApart, Touches
<1>6. ASSUME NEW h, CatchesApart(h), rt' = h, Now("catch")' = Now("catch") PROVE CatchesHeld'
  BY <1>1, <1>6, CatchesAlike DEF CatchesApart
<1>7. CASE EnterLoop \/ EnterSwitch \/ EnterScope \/ EnterPool \/ EnterSync \/ EnterTry
  <2>1. SInv(V)' /\ Entered(V)
    BY <1>1, <1>7, EnterStep
  <2>2. Now("catch")' = Now("catch")
    BY <1>1, <2>1 DEF Entered
  <2>3. \/ rt' = rt \/ rt' = [rt EXCEPT !.pools = Append(@, made')]
        \/ rt' = [rt EXCEPT !.locks = @ \cup {made'}]
    BY <2>1 DEF Entered
  <2>4. CatchesApart(rt')
    BY <1>1, <1>5, <2>3 DEF CatchesApart, Framed, Touches
  <2> QED BY <1>6, <2>1, <2>2, <2>4
<1>8. CASE DeclareStrong \/ DeclareInSwitch \/ DeclareArray
  <2>1. SInv(V)' /\ (DeclaresLocal(V) \/ DeclaresArray(V))
    BY <1>1, <1>8, DeclareStep
  <2>2. Now("catch")' = Now("catch")
    BY <1>1, <2>1 DEF DeclaresLocal, DeclaresArray
  <2>3. CatchesApart(rt')
    <3>1. CASE DeclaresArray(V)
      BY <1>1, <3>1 DEF DeclaresArray, CatchesApart, Framed, Touches
    <3>2. CASE DeclaresLocal(V)
      <4>1. PICK x : \/ rt' = [rt EXCEPT !.held = @ \cup {x}]
                     \/ rt' = Fault([rt EXCEPT !.held = @ \cup {x}], "overwrite", x \in rt.held)
        BY <3>2 DEF DeclaresLocal
      <4> DEFINE g == [rt EXCEPT !.held = @ \cup {x}]  bad == x \in rt.held
      <4>2. Framed(g) /\ Touches(rt, g, {"held"}, {})
        BY <1>1 DEF Framed, Touches
      <4>3. rt' = g \/ rt' = Fault(g, "overwrite", bad)
        BY <4>1
      <4> HIDE DEF g, bad
      <4>4. Touches(g, Fault(g, "overwrite", bad), {}, {"overwrite"})
        BY <4>2, FaultDoes
      <4> QED BY <4>2, <4>3, <4>4 DEF CatchesApart, Touches
    <3> QED BY <2>1, <3>1, <3>2
  <2> QED BY <1>6, <2>1, <2>2, <2>3
<1>9. ASSUME NEW k \in {"loop", "switch", "scope", "pool", "sync"}, InnermostIs(k), NEW h,
             EndsInto(h), CatchesApart(h)
      PROVE  SInv(V)' /\ CatchesHeld'
  <2>1. SInv(V)' /\ \A w \in V : GivesUp(w, Own(Innermost, w))
    BY <1>1, <1>9, EndStep
  <2>2. Own(Innermost, "catch") = {}
    BY <1>9 DEF Own, Owns, InnermostIs
  <2>3. Now("catch")' = Now("catch") /\ rt' = h
    BY <1>1, <1>4, <1>9, <2>1, <2>2 DEF EndsInto
  <2> QED BY <1>6, <1>9, <2>1, <2>3
<1>10. CASE EndLoop \/ EndSwitch
  BY <1>5, <1>9, <1>10 DEF EndLoop, EndSwitch
<1>11. CASE EndScope
  <2> DEFINE g == IF Innermost.vla THEN RestoreStack(rt, Innermost.id) ELSE rt
             X == IF Innermost.local THEN {Innermost.id} ELSE {}
  <2>1. InnermostIs("scope") /\ EndsInto(Release(g, X))
    BY <1>11 DEF EndScope
  <2>2. Touches(rt, g, {"stack"}, {})
    BY <1>1, RestoreStackDoes DEF Touches
  <2> HIDE DEF g, X
  <2>3. Touches(g, Release(g, X), {"held"}, {"release"})
    BY <2>2, ReleaseDoes DEF Touches
  <2>4. CatchesApart(Release(g, X))
    BY <2>2, <2>3 DEF CatchesApart, Touches
  <2> QED BY <1>9, <2>1, <2>4
<1>12. CASE EndSync
  <2>1. Touches(rt, Unlock(rt, Innermost.id), {}, {"unlock"})
    BY <1>1, UnlockDoes
  <2>2. CatchesApart(Unlock(rt, Innermost.id))
    BY <2>1 DEF CatchesApart, Touches
  <2> QED BY <1>9, <1>12, <2>2 DEF EndSync
<1>13. CASE EndPool
  <2>1. Touches(rt, PopPool(rt, Innermost.id), {"pools"}, {"pop"})
    BY <1>1, PopPoolDoes
  <2>2. CatchesApart(PopPool(rt, Innermost.id))
    BY <2>1 DEF CatchesApart, Touches
  <2> QED BY <1>9, <1>13, <2>2 DEF EndPool
<1>14. CASE EndTry
  <2>1. InnermostIs("try") /\ LeaveTry(Depth, rt) /\ UNCHANGED <<status, rethrow, made>>
    BY <1>14 DEF EndTry
  <2>2. SInv(V)' /\ \A w \in V : GivesUp(w, Own(Innermost, w))
    BY <1>1, <2>1, LeaveTryStep
  <2>3. Own(Innermost, "catch") = {} /\ rt' = rt
    BY <2>1 DEF Own, Owns, InnermostIs, LeaveTry
  <2> QED BY <1>1, <1>4, <1>5, <1>6, <2>2, <2>3
<1>15. CASE EndCatchBody
  <2>1. /\ InnermostIs("catch") /\ LeaveTry(Depth, EndCatch(rt))
        /\ UNCHANGED <<status, rethrow, made>>
    BY <1>15 DEF EndCatchBody
  <2>2. SInv(V)' /\ \A w \in V : GivesUp(w, Own(Innermost, w))
    BY <1>1, <2>1, LeaveTryStep
  <2>3. Own(Innermost, "catch") = {Innermost.id} /\ rt' = EndCatch(rt)
    BY <2>1 DEF Own, Owns, InnermostIs, LeaveTry
  <2>4. GivesUp("catch", {Innermost.id})
    BY <1>1, <2>2, <2>3
  <2> QED BY <1>1, <1>3, <2>2, <2>3, <2>4, CatchEnded
<1>16. CASE EndFinallyRethrow
  <2>1. SInv(V)' /\ GivesUp("catch", {Innermost.id})
    BY <1>1, <1>16, RethrowStep
  <2>2. rt' = EndCatch(rt)
    BY <1>16 DEF EndFinallyRethrow
  <2> QED BY <1>1, <1>3, <2>1, <2>2, CatchEnded
<1>17. CASE EndFinally \/ ReturnStmt
  <2>1. SInv(V)' /\ (GoesOn(V) \/ LetsGo(V))
    BY <1>1, <1>17, FinallyStep, ReturnStep
  <2>2. CASE GoesOn(V)
    <3>1. rt' = rt /\ Now("catch")' = Now("catch")
      BY <1>1, <2>2 DEF GoesOn
    <3> QED BY <1>5, <1>6, <2>1, <3>1
  <2>3. CASE LetsGo(V)
    <3>1. PICK o : /\ rt' = [LeaveScopes(rt, o, 0) EXCEPT !.stack = <<>>]
                   /\ Now("catch")' = {} /\ Now("catch") = {}
      BY <1>1, <2>3 DEF LetsGo
    <3> DEFINE h == LeaveScopes(rt, o, 0)
    <3>2. Touches(rt, h, {"pools", "held"}, {"pop", "release"})
      BY <1>1, LeaveScopesDoes
    <3>3. rt' = [h EXCEPT !.stack = <<>>]
      BY <3>1
    <3> HIDE DEF h
    <3>4. CatchesApart(rt')
      BY <3>2, <3>3 DEF CatchesApart, Framed, Touches
    <3> QED BY <1>6, <2>1, <3>1, <3>4
  <2> QED BY <2>1, <2>2, <2>3
<1>18. CASE Break \/ Continue
  <2>1. SInv(V)' /\ Leaves(V)
    BY <1>1, <1>18, LeaveStep
  <2>2. PICK p \in 0..Len(nest) :
            /\ rt' = LeaveScopes(rt, nest, p)
            /\ GivesUp("catch", From(nest, p, "catch", rethrow, dest))
            /\ From(nest, p, "catch", rethrow, dest) = {}
    BY <1>1, <2>1 DEF Leaves
  <2>3. Touches(rt, rt', {"pools", "held"}, {"pop", "release"})
    BY <1>1, <2>2, LeaveScopesDoes
  <2>4. CatchesApart(rt')
    BY <2>3 DEF CatchesApart, Touches
  <2> QED BY <1>4, <1>6, <2>1, <2>2, <2>4
<1>19. CASE Throw
  BY <1>1, <1>5, <1>6, <1>19, ThrowStep
<1>20. ASSUME Unwinding, Handlers(nest) # {}, nest[Pad].kind # "catch",
              ~(nest[Pad].kind = "finally" /\ rethrow[nest[Pad].id]),
              NEW h, Escape(h), CatchesApart(h)
       PROVE  SInv(V)' /\ CatchesHeld'
  <2>1. SInv(V)' /\ GivesUp("catch", Own(nest[Pad], "catch"))
    BY <1>1, <1>20, EscapeStep
  <2>2. Own(nest[Pad], "catch") = {}
    BY <1>20 DEF Own, Owns
  <2>3. rt' = h
    BY <1>20 DEF Escape
  <2> QED BY <1>1, <1>4, <1>6, <1>20, <2>1, <2>2, <2>3
<1>21. ASSUME Unwinding, Handlers(nest) # {}, Escape(EndCatch(rt)),
              nest[Pad].kind = "catch" \/ (nest[Pad].kind = "finally" /\ rethrow[nest[Pad].id])
       PROVE  SInv(V)' /\ CatchesHeld'
  <2>1. SInv(V)' /\ GivesUp("catch", Own(nest[Pad], "catch"))
    BY <1>1, <1>21, EscapeStep
  <2>2. Own(nest[Pad], "catch") = {nest[Pad].id}
    BY <1>21 DEF Own, Owns
  <2>3. rt' = EndCatch(rt) /\ GivesUp("catch", {nest[Pad].id})
    BY <1>21, <2>1, <2>2 DEF Escape
  <2> QED BY <1>1, <1>3, <2>1, <2>3, CatchEnded
<1>22. CASE EscapeSync
  <2>1. Touches(rt, Unlock(rt, nest[Pad].id), {}, {"unlock"})
    BY <1>1, UnlockDoes
  <2>2. CatchesApart(Unlock(rt, nest[Pad].id))
    BY <2>1 DEF CatchesApart, Touches
  <2> QED BY <1>20, <1>22, <2>2 DEF EscapeSync, PadIs
<1>23. CASE EscapePool
  <2>1. Touches(rt, PopPool(rt, nest[Pad].id), {"pools"}, {"pop"})
    BY <1>1, PopPoolDoes
  <2>2. CatchesApart(PopPool(rt, nest[Pad].id))
    BY <2>1 DEF CatchesApart, Touches
  <2> QED BY <1>20, <1>23, <2>2 DEF EscapePool, PadIs
<1>24. CASE EscapeCatch
  BY <1>21, <1>24 DEF EscapeCatch, PadIs
<1>25. CASE EscapeFinally
  <2>1. CASE rethrow[nest[Pad].id]
    BY <1>21, <1>25, <2>1 DEF EscapeFinally, PadIs
  <2>2. CASE ~rethrow[nest[Pad].id]
    BY <1>5, <1>20, <1>25, <2>2 DEF EscapeFinally, PadIs
  <2> QED BY <2>1, <2>2
<1>26. CASE CatchArm \/ FinallyArm
  <2>1. /\ SInv(V)' /\ rt' = BeginCatch(rt) /\ Now("catch")' = Now("catch") \cup {nest[Pad].id}
        /\ nest[Pad].id \notin Now("catch")
    BY <1>1, <1>26, ArmStep
  <2> QED BY <1>1, <1>3, <2>1, CatchesBegun
<1>27. CASE StepPast
  <2>1. SInv(V)' /\ rt' = [rt EXCEPT !.stack = <<>>] /\ Now("catch")' = {} /\ Now("catch") = {}
    BY <1>1, <1>27, PastStep
  <2>2. CatchesApart(rt')
    BY <1>1, <2>1 DEF CatchesApart, Framed, Touches
  <2> QED BY <1>6, <2>1, <2>2
<1> QED BY <1>7, <1>8, <1>10, <1>11, <1>12, <1>13, <1>14, <1>15, <1>16, <1>17, <1>18, <1>19,
           <1>22, <1>23, <1>24, <1>25, <1>26, <1>27 DEF Next

-----------------------------------------------------------------------------
(* Constructs have each their own number: as many numbers as positions. *)
LEMMA IdsCounted ==
    ASSUME NEW n, NEW m \in Nat, Ordered(n, m), NEW ps, ps \subseteq 1..Len(n)
    PROVE  IsFiniteSet(ps) /\ Cardinality(ps) \in Nat
           /\ Cardinality(IdsOf(n, ps)) = Cardinality(ps)
<1> DEFINE X == IdsOf(n, ps)  f == [p \in ps |-> n[p].id]
<1>1. /\ Len(n) \in Nat /\ \A p \in 1..Len(n) : n[p].id \in 1..m
      /\ \A p, q \in 1..Len(n) : p < q => n[p].id < n[q].id
  BY DEF Ordered
<1>2. IsFiniteSet(ps)
  <2>1. 1 \in Int /\ Len(n) \in Int
    BY <1>1
  <2>2. IsFiniteSet(1..Len(n))
    BY <2>1, FS_Interval
  <2>3. ps \in SUBSET (1..Len(n))
    OBVIOUS
  <2> QED BY <2>2, <2>3, FS_Subset
<1>3. \A p, q \in ps : n[p].id = n[q].id => p = q
  <2> SUFFICES ASSUME NEW p \in ps, NEW q \in ps, n[p].id = n[q].id PROVE p = q
    OBVIOUS
  <2>1. p \in 1..Len(n) /\ q \in 1..Len(n)
    OBVIOUS
  <2>2. n[p].id \in Nat /\ n[q].id \in Nat /\ p \in Nat /\ q \in Nat
    BY <1>1, <2>1
  <2>3. ~(p < q) /\ ~(q < p)
    BY <1>1, <2>1, <2>2
  <2> QED BY <2>2, <2>3
<1>4. f \in [ps -> X] /\ \A x \in X : \E p \in ps : f[p] = x
  BY DEF IdsOf
<1>5. \A p, q \in ps : f[p] = f[q] => p = q
  BY <1>3
<1> HIDE DEF f, X
<1>6. f \in Injection(ps, X)
  BY <1>4, <1>5 DEF Injection, IsInjective
<1>7. f \in Surjection(ps, X)
  BY <1>4 DEF Surjection
<1>8. ExistsBijection(ps, X)
  BY <1>6, <1>7 DEF Bijection, ExistsBijection
<1>9. Cardinality(X) = Cardinality(ps)
  BY <1>2, <1>8, FS_Bijection
<1>10. Cardinality(ps) \in Nat
  BY <1>2, FS_CardinalityType
<1> QED BY <1>2, <1>9, <1>10 DEF X

(* What Now("catch") counts is what CatchesOwned adds up. *)
LEMMA CatchesCounted ==
    ASSUME SInv(CatchesKept)
    PROVE  Cardinality(Now("catch")) = Cardinality(Positions(nest, {"catch"}))
             + Cardinality({p \in Positions(nest, {"finally"}) : rethrow[nest[p].id]})
<1> DEFINE A == Positions(nest, {"catch"})
           B == {p \in Positions(nest, {"finally"}) : rethrow[nest[p].id]}
<1>1. Ordered(nest, made) /\ made \in Nat
  BY SoundState
<1>2. A \subseteq 1..Len(nest) /\ B \subseteq 1..Len(nest) /\ A \cap B = {}
  BY DEF Positions
<1>3. A \cup B = {q \in 1..Len(nest) : Owns(nest[q], "catch", rethrow, dest)}
  BY DEF Positions, Owns
<1>4. Of(nest, "catch", rethrow, dest) = IdsOf(nest, A \cup B)
  BY <1>3 DEF Of, IdsOf
<1>5. Now("catch") = Of(nest, "catch", rethrow, dest)
  <2>1. ~("catch" \in {"local", "pool"})
    OBVIOUS
  <2>2. \A x : x \in Held(nest, "catch", rethrow, dest) <=> x \in Of(nest, "catch", rethrow, dest)
    BY <2>1, HeldMember
  <2> QED BY <2>2 DEF Now
<1> HIDE DEF A, B
<1>6. /\ IsFiniteSet(A) /\ Cardinality(A) \in Nat /\ IsFiniteSet(B) /\ Cardinality(B) \in Nat
      /\ Cardinality(IdsOf(nest, A \cup B)) = Cardinality(A \cup B)
  <2>1. A \cup B \subseteq 1..Len(nest)
    BY <1>2
  <2>2. IsFiniteSet(A) /\ Cardinality(A) \in Nat
    BY <1>1, <1>2, IdsCounted
  <2>3. IsFiniteSet(B) /\ Cardinality(B) \in Nat
    BY <1>1, <1>2, IdsCounted
  <2>4. Cardinality(IdsOf(nest, A \cup B)) = Cardinality(A \cup B)
    BY <1>1, <2>1, IdsCounted
  <2> QED BY <2>2, <2>3, <2>4
<1>7. Cardinality(A \cup B) = Cardinality(A) + Cardinality(B)
  <2>1. Cardinality(A \cup B) = Cardinality(A) + Cardinality(B) - Cardinality(A \cap B)
    BY <1>6, FS_Union
  <2>2. Cardinality(A \cap B) = 0
    BY <1>2, FS_EmptySet
  <2> QED BY <1>6, <2>1, <2>2
<1> QED BY <1>4, <1>5, <1>6, <1>7 DEF A, B

(* The shapes of exit that leave a catch begun, a jump or a return out of a @catch or
   of a @finally an exception entered, and an exception no clause takes; and a
   @finally around another, which the argument leaves out. *)
CatchShapes == {"two finallys", "leave catch", "leave unwound finally", "no claim"}

(* Every catch that is begun is ended, once, when control leaves the @catch or the
   @finally an exception entered, whatever leaves it. *)
THEOREM CatchesEnded ==
    ASSUME Shapes \cap CatchShapes = {}
    PROVE  Spec => []CatchesOwned
<1>1. Plain(CatchesKept)
  <2>1. Single /\ CatchesStay /\ AllClaimed
    BY DEF CatchShapes, Single, CatchesStay, AllClaimed
  <2>2. "local" \notin CatchesKept /\ "return" \notin CatchesKept
    BY DEF CatchesKept
  <2> QED BY <2>1, <2>2 DEF Plain
<1>2. Init => CatchesInv
  <2> SUFFICES ASSUME Init PROVE CatchesInv
    OBVIOUS
  <2>1. SInv(CatchesKept) /\ Now("catch") = {} /\ Framed(rt) /\ rt = Holding
    BY StartSound
  <2>2. rt.caught = 0 /\ rt.faults = {}
    BY <2>1 DEF Holding
  <2> QED BY <2>1, <2>2, FS_EmptySet DEF CatchesInv, CatchesHeld
<1>3. CatchesInv /\ [Next]_vars => CatchesInv'
  <2>1. ASSUME CatchesInv, Next PROVE CatchesInv'
    BY <1>1, <2>1, CatchesStep
  <2>2. ASSUME CatchesInv, UNCHANGED vars PROVE CatchesInv'
    <3>1. SInv(CatchesKept)' /\ Now("catch")' = Now("catch") /\ rt' = rt
      BY <2>2, StaysSound DEF CatchesInv, vars
    <3> QED BY <2>2, <3>1 DEF CatchesInv, CatchesHeld
  <2> QED BY <2>1, <2>2
<1>4. CatchesInv => CatchesOwned
  <2> SUFFICES ASSUME CatchesInv PROVE CatchesOwned
    OBVIOUS
  <2>1. rt.caught = Cardinality(Now("catch")) /\ "end_catch" \notin rt.faults
    BY DEF CatchesInv, CatchesHeld
  <2>2. Left => Now("catch") = {}
    BY NothingHeld DEF CatchesInv, SInv, Now
  <2>3. Left => rt.caught = 0
    BY <2>1, <2>2, FS_EmptySet
  <2> QED BY <2>1, <2>3, CatchesCounted DEF CatchesInv, CatchesOwned
<1> QED BY <1>2, <1>3, <1>4, PTL DEF Spec

-----------------------------------------------------------------------------
(* The locals and the arrays.  What an exception passed over stays held, and is of
   constructs that are not around control any more. *)
LocalsKept == {"local", "array", "return"}

StackHeld == Rising(rt.stack) /\ ToSet(rt.stack) = Now("array")

NeitherFault(h) == "release" \notin h.faults /\ "overwrite" \notin h.faults

LocalsHeld == /\ Framed(rt) /\ StackHeld /\ NeitherFault(rt)
              /\ rt.held = Now("local") \cup leaked
              /\ leaked \subseteq 1..made
              /\ \A x \in leaked : x \notin Around(nest) /\ x \notin Now("local")

LocalsInv == SInv(LocalsKept) /\ LocalsHeld

(* What the steps that touch neither may do to the frame. *)
LocalsApart(h) == Touches(rt, h, {"pools", "caught"}, {"pop", "unlock", "end_catch"})

LEMMA LocalsWatched == LocalsKept \in Watches /\ "local" \in LocalsKept /\ "array" \in LocalsKept
                       /\ "return" \in LocalsKept /\ "pool" \notin LocalsKept
                       /\ "catch" \notin LocalsKept
BY DEF LocalsKept, Watches

LEMMA StackAlike ==
    ASSUME StackHeld, Now("array")' = Now("array"), rt'.stack = rt.stack
    PROVE  StackHeld'
BY DEF StackHeld

(* Some of what is held is given up: released, or left to what has leaked. *)
LEMMA LocalsGiven ==
    ASSUME LocalsHeld, SInv(LocalsKept), NEW X, GivesUp("local", X),
           Framed(rt'), NeitherFault(rt'), StackHeld', made' = made,
           \/ rt'.held = rt.held \ X /\ leaked' = leaked
           \/ rt'.held = rt.held /\ leaked' = leaked \cup X,
           \A x \in Around(nest') : x \in Around(nest),
           leaked' = leaked \/ \A x \in X : x \notin Around(nest')
    PROVE  LocalsHeld'
<1> DEFINE N == Now("local")  M == Now("local")'  A == Around(nest)  B == Around(nest')
<1>1. N \subseteq 1..made /\ made \in Nat
  BY LocalsWatched, NowOld, SoundState
<1>2. /\ rt.held = N \cup leaked /\ leaked \subseteq 1..made
      /\ \A x \in leaked : x \notin A /\ x \notin N
  BY DEF LocalsHeld
<1>3. N = M \cup X /\ \A x \in M, y \in X : x < y
  BY DEF GivesUp
<1>4. Framed(rt') /\ NeitherFault(rt') /\ StackHeld' /\ made' = made
  OBVIOUS
<1>5. \A x \in B : x \in A
  OBVIOUS
<1>6. leaked' = leaked \/ \A x \in X : x \notin B
  OBVIOUS
<1>7. /\ rt'.held = M \cup leaked' /\ leaked' \subseteq 1..made'
      /\ \A x \in leaked' : x \notin B /\ x \notin M
      => LocalsHeld'
  BY <1>4 DEF LocalsHeld
<1> HIDE DEF N, M, A, B
<1>8. \A x \in X : x \notin M /\ x \notin leaked
  <2> SUFFICES ASSUME NEW x \in X PROVE x \notin M /\ x \notin leaked
    OBVIOUS
  <2>1. x \in N /\ x \in Nat
    BY <1>1, <1>3
  <2>2. ~(x < x)
    BY <2>1
  <2> QED BY <1>2, <1>3, <2>1, <2>2
<1>9. CASE rt'.held = rt.held \ X /\ leaked' = leaked
  BY <1>2, <1>3, <1>4, <1>5, <1>7, <1>8, <1>9
<1>10. CASE rt'.held = rt.held /\ leaked' = leaked \cup X
  <2>1. \A x \in X : x \notin B \/ x \in leaked
    BY <1>6, <1>10
  <2> QED BY <1>1, <1>2, <1>3, <1>4, <1>5, <1>7, <1>8, <1>10, <2>1
<1> QED BY <1>9, <1>10

(* Nothing changes but what is around control, and that by nothing old. *)
LEMMA LocalsAlike ==
    ASSUME LocalsHeld, Now("local")' = Now("local"), Now("array")' = Now("array"),
           LocalsApart(rt'), leaked' = leaked, made' \in Nat, made <= made', made \in Nat,
           \A x \in Around(nest') : x \in Around(nest) \/ made < x
    PROVE  LocalsHeld'
<1>1. /\ Framed(rt') /\ rt'["stack"] = rt["stack"] /\ rt'["held"] = rt["held"]
      /\ rt'.faults \subseteq rt.faults \cup {"pop", "unlock", "end_catch"}
  BY DEF LocalsApart, Touches
<1>2. /\ StackHeld /\ rt.held = Now("local") \cup leaked /\ leaked \subseteq 1..made
      /\ \A x \in leaked : x \notin Around(nest) /\ x \notin Now("local")
      /\ NeitherFault(rt)
  BY DEF LocalsHeld
<1>3. StackHeld' /\ NeitherFault(rt')
  BY <1>1, <1>2, StackAlike DEF NeitherFault
<1>4. leaked' \subseteq 1..made'
  BY <1>2
<1>5. \A x \in leaked : x \in Nat /\ ~(made < x)
  BY <1>2
<1>6. rt'.held = Now("local")' \cup leaked'
  BY <1>1, <1>2
<1>7. \A x \in leaked' : x \notin Around(nest')
  BY <1>2, <1>5
<1>8. \A x \in leaked' : x \notin Now("local")'
  BY <1>2
<1> QED BY <1>1, <1>3, <1>4, <1>6, <1>7, <1>8 DEF LocalsHeld

LEMMA DeclareDoes ==
    ASSUME NEW h, Framed(h), NEW x, x \notin h.held, NEW g,
           \/ g = [h EXCEPT !.held = @ \cup {x}]
           \/ g = Fault([h EXCEPT !.held = @ \cup {x}], "overwrite", x \in h.held)
    PROVE  Touches(h, g, {"held"}, {}) /\ g.held = h.held \cup {x}
<1>1. CASE g = [h EXCEPT !.held = @ \cup {x}]
  BY <1>1 DEF Framed, Touches
<1>2. CASE g = Fault([h EXCEPT !.held = @ \cup {x}], "overwrite", x \in h.held)
  <2> DEFINE k == [h EXCEPT !.held = @ \cup {x}]
  <2>1. Framed(k) /\ k.held = h.held \cup {x} /\ Touches(h, k, {"held"}, {})
    BY DEF Framed, Touches
  <2>2. g = [k EXCEPT !.faults = @]
    BY <1>2 DEF Fault
  <2> HIDE DEF k
  <2> QED BY <2>1, <2>2 DEF Framed, Touches
<1> QED BY <1>1, <1>2

(* A local is declared: what is released or passed over is of another construct. *)
LEMMA LocalDeclared ==
    ASSUME LocalsHeld, made \in Nat, NEW x \in Around(nest), x \notin Now("local"),
           Now("local")' = Now("local") \cup {x}, Now("array")' = Now("array"),
           \/ rt' = [rt EXCEPT !.held = @ \cup {x}]
           \/ rt' = Fault([rt EXCEPT !.held = @ \cup {x}], "overwrite", x \in rt.held),
           leaked' = leaked, made' = made, Around(nest') = Around(nest)
    PROVE  LocalsHeld'
<1>1. /\ StackHeld /\ rt.held = Now("local") \cup leaked /\ leaked \subseteq 1..made
      /\ \A y \in leaked : y \notin Around(nest) /\ y \notin Now("local")
      /\ NeitherFault(rt) /\ Framed(rt)
  BY DEF LocalsHeld
<1>2. x \notin rt.held
  BY <1>1
<1>3. Touches(rt, rt', {"held"}, {}) /\ rt'.held = rt.held \cup {x}
  BY <1>1, <1>2, DeclareDoes
<1>4. Framed(rt') /\ rt'["stack"] = rt["stack"] /\ rt'.faults \subseteq rt.faults
  BY <1>3 DEF Touches
<1>5. StackHeld' /\ NeitherFault(rt')
  BY <1>1, <1>4, StackAlike DEF NeitherFault
<1>6. rt'.held = Now("local")' \cup leaked'
  BY <1>1, <1>3
<1>7. \A y \in leaked' : y \notin Around(nest') /\ y \notin Now("local")'
  BY <1>1
<1> QED BY <1>1, <1>4, <1>5, <1>6, <1>7 DEF LocalsHeld

LEMMA ArrayDeclared ==
    ASSUME LocalsHeld, SInv(LocalsKept), NEW x \in Around(nest), \A y \in Now("array") : y < x,
           Now("array")' = Now("array") \cup {x}, Now("local")' = Now("local"),
           rt' = [rt EXCEPT !.stack = Append(@, x)],
           leaked' = leaked, made' = made, Around(nest') = Around(nest)
    PROVE  LocalsHeld'
<1>1. /\ StackHeld /\ rt.held = Now("local") \cup leaked /\ leaked \subseteq 1..made
      /\ \A y \in leaked : y \notin Around(nest) /\ y \notin Now("local")
      /\ NeitherFault(rt) /\ Framed(rt)
  BY DEF LocalsHeld
<1>2. x \in Nat
  <2>1. PICK p \in 1..Len(nest) : nest[p].id = x
    BY AroundMember
  <2> QED BY <2>1, SoundState
<1>3. Rising(rt.stack) /\ \A y \in ToSet(rt.stack) : y < x
  BY <1>1 DEF StackHeld
<1>4. Rising(Append(rt.stack, x)) /\ ToSet(Append(rt.stack, x)) = ToSet(rt.stack) \cup {x}
  BY <1>2, <1>3, Pushed
<1>5. rt'.stack = Append(rt.stack, x) /\ rt'.held = rt.held /\ Framed(rt') /\ rt'.faults = rt.faults
  BY <1>1 DEF Framed
<1>6. StackHeld'
  BY <1>1, <1>4, <1>5 DEF StackHeld
<1> QED BY <1>1, <1>5, <1>6 DEF LocalsHeld, NeitherFault

-----------------------------------------------------------------------------
(* The inductive step: no action disturbs the locals and the arrays. *)
LEMMA LocalsStep ==
    ASSUME LocalsInv, Plain(LocalsKept), Next
    PROVE  LocalsInv'
<1> DEFINE V == LocalsKept
<1>1. /\ V \in Watches /\ "local" \in V /\ "array" \in V /\ "return" \in V /\ "pool" \notin V
      /\ "catch" \notin V /\ SInv(V) /\ Plain(V) /\ LocalsHeld /\ Framed(rt) /\ made \in Nat
  <2>1. SInv(V) /\ LocalsHeld /\ Framed(rt)
    BY DEF LocalsInv, LocalsHeld
  <2> QED BY <2>1, LocalsWatched, SoundState
<1>2. SUFFICES SInv(V)' /\ LocalsHeld'
  BY DEF LocalsInv
<1>3. V = LocalsKept
  OBVIOUS
<1> HIDE DEF V
<1>4. \A w : GivesUp(w, {}) => Now(w)' = Now(w)
  BY DEF GivesUp
<1>5. /\ StackHeld /\ NeitherFault(rt) /\ rt.held = Now("local") \cup leaked
      /\ leaked \subseteq 1..made
  BY <1>1 DEF LocalsHeld
<1>6. LocalsApart(rt)
  BY <1>1 DEF LocalsApart, Touches
<1>7. ASSUME NEW h, LocalsApart(h), rt' = h, Now("local")' = Now("local"),
             Now("array")' = Now("array"), leaked' = leaked, made' = made,
             Around(nest') \subseteq Around(nest)
      PROVE  LocalsHeld'
  <2>1. made' \in Nat /\ made <= made' /\ \A x \in Around(nest') : x \in Around(nest) \/ made < x
    BY <1>1, <1>7
  <2>2. LocalsApart(rt')
    BY <1>7
  <2> QED BY <1>1, <1>7, <2>1, <2>2, LocalsAlike
<1>8. ASSUME \/ EndLoop \/ EndSwitch \/ EndScope \/ EndPool \/ EndSync \/ EndTry \/ EndCatchBody
             \/ EndFinallyRethrow \/ EndFinally \/ Break \/ Continue \/ ReturnStmt
      PROVE  Around(nest') \subseteq Around(nest) /\ made' = made
  BY <1>1, <1>8, Dwindles
<1>9. CASE EnterLoop \/ EnterSwitch \/ EnterScope \/ EnterPool \/ EnterSync \/ EnterTry
  <2>1. SInv(V)' /\ Entered(V)
    BY <1>1, <1>9, EnterStep
  <2>2. /\ Now("local")' = Now("local") /\ Now("array")' = Now("array") /\ leaked' = leaked
        /\ made < made' /\ made' \in Nat /\ Around(nest') = Around(nest) \cup {made'}
    BY <1>1, <2>1 DEF Entered
  <2>3. \/ rt' = rt \/ rt' = [rt EXCEPT !.pools = Append(@, made')]
        \/ rt' = [rt EXCEPT !.locks = @ \cup {made'}]
    BY <2>1 DEF Entered
  <2>4. LocalsApart(rt')
    BY <1>1, <1>6, <2>3 DEF LocalsApart, Framed, Touches
  <2>5. made <= made' /\ \A x \in Around(nest') : x \in Around(nest) \/ made < x
    BY <1>1, <2>2
  <2> QED BY <1>1, <2>1, <2>2, <2>4, <2>5, LocalsAlike
<1>10. CASE DeclareStrong \/ DeclareInSwitch \/ DeclareArray
  <2>1. /\ SInv(V)' /\ (DeclaresLocal(V) \/ DeclaresArray(V)) /\ leaked' = leaked /\ made' = made
        /\ Around(nest') = Around(nest)
    BY <1>1, <1>10, DeclareStep
  <2>2. CASE DeclaresLocal(V)
    <3>1. PICK x \in Around(nest) :
              /\ \/ rt' = [rt EXCEPT !.held = @ \cup {x}]
                 \/ rt' = Fault([rt EXCEPT !.held = @ \cup {x}], "overwrite", x \in rt.held)
              /\ Now("array")' = Now("array")
              /\ x \notin Now("local") /\ Now("local")' = Now("local") \cup {x}
      BY <1>1, <2>2 DEF DeclaresLocal
    <3> QED BY <1>1, <2>1, <3>1, LocalDeclared
  <2>3. CASE DeclaresArray(V)
    <3>1. PICK x \in Around(nest) :
              /\ rt' = [rt EXCEPT !.stack = Append(@, x)]
              /\ Now("local")' = Now("local")
              /\ \A y \in Now("array") : y < x
              /\ Now("array")' = Now("array") \cup {x}
      BY <1>1, <2>3 DEF DeclaresArray
    <3> QED BY <1>1, <1>3, <2>1, <3>1, ArrayDeclared
  <2> QED BY <2>1, <2>2, <2>3
<1>11. ASSUME NEW k \in {"loop", "switch", "pool", "sync"}, InnermostIs(k), NEW h, EndsInto(h),
              LocalsApart(h), Around(nest') \subseteq Around(nest)
       PROVE  SInv(V)' /\ LocalsHeld'
  <2>1. SInv(V)' /\ \A w \in V : GivesUp(w, Own(Innermost, w))
    BY <1>1, <1>11, EndStep
  <2>2. Own(Innermost, "local") = {} /\ Own(Innermost, "array") = {}
    BY <1>11 DEF Own, Owns, InnermostIs
  <2>3. Now("local")' = Now("local") /\ Now("array")' = Now("array")
    BY <1>1, <1>4, <2>1, <2>2
  <2>4. rt' = h /\ leaked' = leaked /\ made' = made
    BY <1>11 DEF EndsInto
  <2> QED BY <1>7, <1>11, <2>1, <2>3, <2>4
<1>12. CASE EndLoop \/ EndSwitch
  BY <1>6, <1>8, <1>11, <1>12 DEF EndLoop, EndSwitch
<1>13. CASE EndSync
  <2>1. Touches(rt, Unlock(rt, Innermost.id), {}, {"unlock"})
    BY <1>1, UnlockDoes
  <2>2. LocalsApart(Unlock(rt, Innermost.id))
    BY <2>1 DEF LocalsApart, Touches
  <2> QED BY <1>8, <1>11, <1>13, <2>2 DEF EndSync
<1>14. CASE EndPool
  <2>1. Touches(rt, PopPool(rt, Innermost.id), {"pools"}, {"pop"})
    BY <1>1, PopPoolDoes
  <2>2. LocalsApart(PopPool(rt, Innermost.id))
    BY <2>1 DEF LocalsApart, Touches
  <2> QED BY <1>8, <1>11, <1>14, <2>2 DEF EndPool
<1>15. CASE EndScope
  <2> DEFINE g == IF Innermost.vla THEN RestoreStack(rt, Innermost.id) ELSE rt
             X == IF Innermost.local THEN {Innermost.id} ELSE {}
  <2>1. InnermostIs("scope") /\ EndsInto(Release(g, X))
    BY <1>15 DEF EndScope
  <2>2. SInv(V)' /\ \A w \in V : GivesUp(w, Own(Innermost, w))
    BY <1>1, <2>1, EndStep
  <2>3. Own(Innermost, "local") = X
    BY <2>1 DEF Own, Owns, InnermostIs
  <2>4. Own(Innermost, "array") = IF Innermost.vla THEN {Innermost.id} ELSE {}
    BY <2>1 DEF Own, Owns, InnermostIs
  <2>5. GivesUp("local", X)
    BY <1>1, <2>2, <2>3
  <2>6. /\ Touches(rt, g, {"stack"}, {}) /\ Rising(g.stack) /\ ToSet(g.stack) = Now("array")'
    <3>1. CASE Innermost.vla
      <4>1. GivesUp("array", {Innermost.id})
        BY <1>1, <2>2, <2>4, <3>1
      <4>2. Tops(rt.stack, Now("array")', {Innermost.id}, Innermost.id)
        <5>1. Innermost.id <= Innermost.id
          <6>1. Depth \in 1..Len(nest) /\ Innermost = nest[Depth]
            BY <1>1, <2>1, InnermostFacts
          <6>2. Innermost.id \in Nat
            BY <1>1, <6>1, SoundState
          <6> QED BY <6>2
        <5> QED BY <1>5, <4>1, <5>1 DEF StackHeld, GivesUp, Tops
      <4>3. /\ Has(rt.stack, Innermost.id) /\ Rising(Older(rt.stack, Innermost.id))
            /\ ToSet(Older(rt.stack, Innermost.id)) = Now("array")'
        BY <4>2, Popped
      <4>4. g = RestoreStack(rt, Innermost.id)
        BY <3>1
      <4> HIDE DEF g, X
      <4>5. Touches(rt, g, {"stack"}, {}) /\ g.stack = Older(rt.stack, Innermost.id)
        BY <1>1, <4>3, <4>4, RestoreStackDoes
      <4> QED BY <4>3, <4>5
    <3>2. CASE ~Innermost.vla
      <4>1. GivesUp("array", {})
        BY <1>1, <2>2, <2>4, <3>2
      <4>2. g = rt /\ Now("array")' = Now("array")
        BY <1>4, <3>2, <4>1
      <4> QED BY <1>1, <1>5, <4>2 DEF StackHeld, Touches
    <3> QED BY <3>1, <3>2
  <2> HIDE DEF g, X
  <2>7. Framed(g) /\ g["held"] = rt["held"] /\ g.faults \subseteq rt.faults
    BY <2>6 DEF Touches
  <2>8. X \subseteq g.held
    BY <1>5, <2>5, <2>7 DEF GivesUp
  <2>9. Touches(g, Release(g, X), {"held"}, {}) /\ Release(g, X).held = g.held \ X
    BY <2>7, <2>8, ReleaseDoes
  <2>10. rt' = Release(g, X) /\ leaked' = leaked /\ made' = made
    BY <2>1 DEF EndsInto
  <2>11. /\ Framed(rt') /\ rt'["stack"] = g["stack"] /\ rt'.faults \subseteq rt.faults
         /\ rt'.held = rt.held \ X
    BY <2>7, <2>9, <2>10 DEF Touches
  <2>12. StackHeld' /\ NeitherFault(rt')
    <3>1. rt'.stack = g.stack
      BY <2>11
    <3>2. Rising(rt'.stack) /\ ToSet(rt'.stack) = Now("array")'
      BY <2>6, <3>1
    <3> QED BY <1>5, <2>11, <3>2 DEF StackHeld, NeitherFault
  <2>13. \A x \in Around(nest') : x \in Around(nest)
    BY <1>8, <1>15
  <2>14. LocalsHeld'
    BY <1>1, <1>3, <2>5, <2>10, <2>11, <2>12, <2>13, LocalsGiven
  <2> QED BY <2>2, <2>14
<1>16. CASE EndTry \/ EndCatchBody
  <2>1. PICK k \in {"try", "catch"}, h \in {rt, EndCatch(rt)} :
            /\ InnermostIs(k) /\ LeaveTry(Depth, h)
            /\ UNCHANGED <<status, rethrow, leaked, made>>
    BY <1>16 DEF EndTry, EndCatchBody
  <2>2. SInv(V)' /\ \A w \in V : GivesUp(w, Own(Innermost, w))
    BY <1>1, <2>1, LeaveTryStep
  <2>3. Own(Innermost, "local") = {} /\ Own(Innermost, "array") = {}
    BY <2>1 DEF Own, Owns, InnermostIs
  <2>4. Now("local")' = Now("local") /\ Now("array")' = Now("array")
    BY <1>1, <1>4, <2>2, <2>3
  <2>5. rt' = h
    BY <2>1 DEF LeaveTry
  <2>6. Touches(rt, EndCatch(rt), {"caught"}, {"end_catch"})
    BY <1>1, EndCatchDoes
  <2>7. LocalsApart(h)
    BY <1>6, <2>1, <2>6 DEF LocalsApart, Touches
  <2> QED BY <1>7, <1>8, <1>16, <2>1, <2>2, <2>4, <2>5, <2>7
<1>17. CASE EndFinallyRethrow
  <2>1. SInv(V)' /\ GivesUp("local", {}) /\ GivesUp("array", {})
    BY <1>1, <1>17, RethrowStep
  <2>2. rt' = EndCatch(rt) /\ leaked' = leaked
    BY <1>17 DEF EndFinallyRethrow
  <2>3. Touches(rt, EndCatch(rt), {"caught"}, {"end_catch"})
    BY <1>1, EndCatchDoes
  <2>4. LocalsApart(EndCatch(rt))
    BY <2>3 DEF LocalsApart, Touches
  <2> QED BY <1>4, <1>7, <1>8, <1>17, <2>1, <2>2, <2>4
<1>18. CASE EndFinally \/ ReturnStmt
  <2>1. SInv(V)' /\ leaked' = leaked /\ (GoesOn(V) \/ LetsGo(V))
    BY <1>1, <1>18, FinallyStep, ReturnStep
  <2>2. Around(nest') \subseteq Around(nest) /\ made' = made
    BY <1>8, <1>18
  <2>3. CASE GoesOn(V)
    <3>1. rt' = rt /\ Now("local")' = Now("local") /\ Now("array")' = Now("array")
      BY <1>1, <2>3 DEF GoesOn
    <3> QED BY <1>6, <1>7, <2>1, <2>2, <3>1
  <2>4. CASE LetsGo(V)
    <3>1. PICK o : /\ rt' = [LeaveScopes(rt, o, 0) EXCEPT !.stack = <<>>]
                   /\ Now("local")' = {} /\ Now("array")' = {} /\ Ordered(o, made)
                   /\ Now("local") = Of(o, "local", rethrow, dest)
      BY <1>1, <2>4 DEF LetsGo
    <3> DEFINE h == LeaveScopes(rt, o, 0)  X == Now("local")
    <3>2. 0 \in 0..Len(o) /\ Len(o) \in Nat
      BY <3>1 DEF Ordered
    <3>3. IdsOf(o, Inside(Strongs(o), 0)) = X
      <4>1. IdsOf(o, Inside(Strongs(o), 0)) = From(o, 0, "local", rethrow, dest)
        BY <3>2, StrongsFrom
      <4>2. Of(o, "local", rethrow, dest) = From(o, 0, "local", rethrow, dest)
        BY DEF Of, From
      <4> QED BY <3>1, <4>1, <4>2
    <3>4. X \subseteq rt.held
      BY <1>5
    <3>5. rt' = [h EXCEPT !.stack = <<>>]
      BY <3>1
    <3>6. GivesUp("local", X)
      BY <3>1 DEF GivesUp
    <3> HIDE DEF X
    <3>7. Touches(rt, h, {"pools", "held"}, {"pop"}) /\ h.held = rt.held \ X
      BY <1>1, <3>3, <3>4, LeaveScopesDoes
    <3> HIDE DEF h
    <3>8. /\ Framed(rt') /\ rt'.stack = <<>> /\ rt'.held = rt.held \ X /\ NeitherFault(rt')
      BY <1>5, <3>5, <3>7 DEF Touches, Framed, NeitherFault
    <3>9. StackHeld'
      BY <3>1, <3>8, EmptyRises DEF StackHeld
    <3>10. \A x \in Around(nest') : x \in Around(nest)
      BY <2>2
    <3>11. LocalsHeld'
      BY <1>1, <1>3, <2>1, <2>2, <3>6, <3>8, <3>9, <3>10, LocalsGiven
    <3> QED BY <2>1, <3>11
  <2> QED BY <2>1, <2>3, <2>4
<1>19. CASE Break \/ Continue
  <2>1. SInv(V)' /\ leaked' = leaked /\ Leaves(V)
    BY <1>1, <1>19, LeaveStep
  <2>2. PICK p \in 0..Len(nest) :
            /\ rt' = LeaveScopes(rt, nest, p)
            /\ GivesUp("local", From(nest, p, "local", rethrow, dest))
            /\ GivesUp("array", From(nest, p, "array", rethrow, dest))
            /\ From(nest, p, "array", rethrow, dest) = {}
    BY <1>1, <2>1 DEF Leaves
  <2> DEFINE X == From(nest, p, "local", rethrow, dest)
  <2>3. Len(nest) \in Nat
    BY <1>1, SoundState
  <2>4. IdsOf(nest, Inside(Strongs(nest), p)) = X
    BY <2>3, StrongsFrom
  <2>5. X \subseteq rt.held
    BY <1>5, <2>2 DEF GivesUp
  <2>6. GivesUp("local", X) /\ Now("array")' = Now("array")
    BY <1>4, <2>2
  <2> HIDE DEF X
  <2>7. Touches(rt, rt', {"pools", "held"}, {"pop"}) /\ rt'.held = rt.held \ X
    BY <1>1, <2>2, <2>4, <2>5, LeaveScopesDoes
  <2>8. Framed(rt') /\ rt'["stack"] = rt["stack"] /\ rt'.faults \subseteq rt.faults \cup {"pop"}
    BY <2>7 DEF Touches
  <2>9. StackHeld' /\ NeitherFault(rt')
    BY <1>5, <2>6, <2>8, StackAlike DEF NeitherFault
  <2>10. made' = made /\ \A x \in Around(nest') : x \in Around(nest)
    BY <1>8, <1>19
  <2>11. LocalsHeld'
    BY <1>1, <1>3, <2>1, <2>6, <2>7, <2>8, <2>9, <2>10, LocalsGiven
  <2> QED BY <2>1, <2>11
<1>20. CASE Throw
  <2>1. /\ SInv(V)' /\ UNCHANGED <<nest, rt, leaked, made>>
        /\ Now("local")' = Now("local") /\ Now("array")' = Now("array")
    BY <1>1, <1>20, ThrowStep
  <2>2. Around(nest') \subseteq Around(nest)
    BY <2>1
  <2> QED BY <1>6, <1>7, <2>1, <2>2
<1>21. ASSUME NEW X, GivesUp("local", X), Now("array")' = Now("array"), leaked' = leaked \cup X,
              NEW h, LocalsApart(h), rt' = h, made' = made,
              \A x \in Around(nest') : x \in Around(nest) /\ x \notin X
       PROVE  LocalsHeld'
  <2>1. /\ Framed(rt') /\ rt'["held"] = rt["held"] /\ rt'["stack"] = rt["stack"]
        /\ rt'.faults \subseteq rt.faults \cup {"pop", "unlock", "end_catch"}
    BY <1>21 DEF LocalsApart, Touches
  <2>2. StackHeld' /\ NeitherFault(rt')
    BY <1>5, <1>21, <2>1, StackAlike DEF NeitherFault
  <2>3. /\ \A x \in Around(nest') : x \in Around(nest)
        /\ \A x \in X : x \notin Around(nest')
    BY <1>21
  <2> QED BY <1>1, <1>3, <1>21, <2>1, <2>2, <2>3, LocalsGiven
<1>22. ASSUME Unwinding, Handlers(nest) # {}, NEW h, Escape(h), LocalsApart(h)
       PROVE  SInv(V)' /\ LocalsHeld'
  <2> DEFINE X == From(nest, Pad, "local", rethrow, dest)
  <2>1. /\ SInv(V)' /\ leaked' = leaked \cup X /\ GivesUp("local", X)
        /\ GivesUp("array", Own(nest[Pad], "array"))
    BY <1>1, <1>22, EscapeStep
  <2>2. nest[Pad].kind \in HandlerKinds
    BY <1>1, <1>22, PadFacts
  <2>3. Own(nest[Pad], "array") = {}
    BY <2>2 DEF HandlerKinds, Own, Owns
  <2>4. Now("array")' = Now("array") /\ rt' = h /\ nest' = Outside(nest, Pad) /\ made' = made
    BY <1>4, <1>22, <2>1, <2>3 DEF Escape
  <2>5. \A x \in Around(nest') : x \in Around(nest) /\ x \notin X
    BY <1>1, <1>22, <2>4, PassedOver
  <2> HIDE DEF X
  <2>6. LocalsHeld'
    BY <1>21, <1>22, <2>1, <2>4, <2>5
  <2> QED BY <2>1, <2>6
<1>23. CASE EscapeSync
  <2>1. Touches(rt, Unlock(rt, nest[Pad].id), {}, {"unlock"})
    BY <1>1, UnlockDoes
  <2>2. LocalsApart(Unlock(rt, nest[Pad].id))
    BY <2>1 DEF LocalsApart, Touches
  <2> QED BY <1>22, <1>23, <2>2 DEF EscapeSync, PadIs
<1>24. CASE EscapePool
  <2>1. Touches(rt, PopPool(rt, nest[Pad].id), {"pools"}, {"pop"})
    BY <1>1, PopPoolDoes
  <2>2. LocalsApart(PopPool(rt, nest[Pad].id))
    BY <2>1 DEF LocalsApart, Touches
  <2> QED BY <1>22, <1>24, <2>2 DEF EscapePool, PadIs
<1>25. CASE EscapeCatch \/ EscapeFinally
  <2>1. Touches(rt, EndCatch(rt), {"caught"}, {"end_catch"})
    BY <1>1, EndCatchDoes
  <2>2. LocalsApart(EndCatch(rt))
    BY <2>1 DEF LocalsApart, Touches
  <2> QED BY <1>6, <1>22, <1>25, <2>2 DEF EscapeCatch, EscapeFinally, PadIs
<1>26. CASE CatchArm \/ FinallyArm
  <2> DEFINE X == From(nest, Pad, "local", rethrow, dest)
  <2>1. /\ SInv(V)' /\ rt' = BeginCatch(rt) /\ leaked' = leaked \cup X /\ GivesUp("local", X)
        /\ Now("array")' = Now("array")
    BY <1>1, <1>26, ArmStep
  <2>2. Touches(rt, BeginCatch(rt), {"caught"}, {})
    BY <1>1, BeginCatchDoes
  <2>3. LocalsApart(BeginCatch(rt))
    BY <2>2 DEF LocalsApart, Touches
  <2>4. Unwinding /\ Handlers(nest) # {} /\ made' = made
    BY <1>26 DEF CatchArm, FinallyArm, PadIs
  <2>5. PICK K \in {"catch", "finally"} :
            nest' = Append(Outside(nest, Pad), [nest[Pad] EXCEPT !.kind = K])
    BY <1>26 DEF CatchArm, FinallyArm, LeaveTry, EnterFinally
  <2>6. \A x \in Around(nest') : x \in Around(nest) /\ x \notin X
    BY <1>1, <2>4, <2>5, PassedOver
  <2> HIDE DEF X
  <2>7. LocalsHeld'
    BY <1>21, <2>1, <2>3, <2>4, <2>6
  <2> QED BY <2>1, <2>7
<1>27. CASE StepPast
  <2> DEFINE X == From(nest, 0, "local", rethrow, dest)
  <2>1. /\ SInv(V)' /\ rt' = [rt EXCEPT !.stack = <<>>] /\ leaked' = leaked \cup X
        /\ Now("local")' = {} /\ Now("array")' = {} /\ Now("local") = X
    BY <1>1, <1>27, PastStep
  <2>2. GivesUp("local", X)
    BY <2>1 DEF GivesUp
  <2> HIDE DEF X
  <2>3. nest' = <<>> /\ made' = made
    BY <1>27 DEF StepPast
  <2>4. /\ \A x \in Around(nest') : x \in Around(nest)
        /\ \A x \in X : x \notin Around(nest')
    BY <2>3, AroundNothing
  <2>5. Framed(rt') /\ rt'.stack = <<>> /\ rt'.held = rt.held /\ NeitherFault(rt')
    BY <1>1, <1>5, <2>1 DEF Framed, NeitherFault
  <2>6. StackHeld'
    BY <2>1, <2>5, EmptyRises DEF StackHeld
  <2>7. LocalsHeld'
    BY <1>1, <1>3, <2>1, <2>2, <2>3, <2>4, <2>5, <2>6, LocalsGiven
  <2> QED BY <2>1, <2>7
<1> QED BY <1>9, <1>10, <1>12, <1>13, <1>14, <1>15, <1>16, <1>17, <1>18, <1>19, <1>20,
           <1>23, <1>24, <1>25, <1>26, <1>27 DEF Next

(* The shapes of exit that lose a local or an array: a @finally around another, a
   return or a throw over one that waits, a jump out of a scope that is outside a
   @try with a @finally, a way out past an array, and a declaration in the body of a
   switch that a label jumps past or that runs again. *)
LocalShapes == {"two finallys", "override return", "owner outside finally", "leave vla",
                "case past a declaration", "declaration in a looped switch"}

(* A strong local is held wherever it can be named and released once on every way out
   of its scope but an exception's, which leaks it; and the stack is given back. *)
THEOREM LocalsReleased ==
    ASSUME Shapes \cap LocalShapes = {}
    PROVE  Spec => []LocalsOwned
<1>1. Plain(LocalsKept)
  <2>1. Single /\ Unoverridden /\ OwnersInside /\ ArraysStay /\ LabelsPlain /\ SwitchesOnce
    BY DEF LocalShapes, Single, Unoverridden, OwnersInside, ArraysStay, LabelsPlain, SwitchesOnce
  <2> QED BY <2>1, LocalsWatched DEF Plain
<1>2. Init => LocalsInv
  <2> SUFFICES ASSUME Init PROVE LocalsInv
    OBVIOUS
  <2>1. /\ SInv(LocalsKept) /\ Now("local") = {} /\ Now("array") = {} /\ Framed(rt)
        /\ rt = Holding /\ leaked = {}
    BY StartSound
  <2>2. rt.held = {} /\ rt.stack = <<>> /\ rt.faults = {}
    BY <2>1 DEF Holding
  <2>3. StackHeld /\ NeitherFault(rt)
    BY <2>1, <2>2, EmptyRises DEF StackHeld, NeitherFault
  <2> QED BY <2>1, <2>2, <2>3 DEF LocalsInv, LocalsHeld
<1>3. LocalsInv /\ [Next]_vars => LocalsInv'
  <2>1. ASSUME LocalsInv, Next PROVE LocalsInv'
    BY <1>1, <2>1, LocalsStep
  <2>2. ASSUME LocalsInv, UNCHANGED vars PROVE LocalsInv'
    <3>1. /\ SInv(LocalsKept)' /\ Now("local")' = Now("local") /\ Now("array")' = Now("array")
          /\ rt' = rt /\ leaked' = leaked /\ made' = made /\ nest' = nest
      BY <2>2, StaysSound DEF LocalsInv, vars
    <3>2. LocalsHeld /\ Around(nest') = Around(nest)
      BY <2>2, <3>1 DEF LocalsInv
    <3>3. LocalsHeld'
      BY <3>1, <3>2 DEF LocalsHeld, StackHeld, NeitherFault
    <3> QED BY <3>1, <3>3 DEF LocalsInv
  <2> QED BY <2>1, <2>2
<1>4. LocalsInv => LocalsOwned
  <2> SUFFICES ASSUME LocalsInv PROVE LocalsOwned
    OBVIOUS
  <2>1. /\ rt.held = Now("local") \cup leaked /\ ToSet(rt.stack) = Now("array")
        /\ "release" \notin rt.faults /\ "overwrite" \notin rt.faults
    BY DEF LocalsInv, LocalsHeld, StackHeld, NeitherFault
  <2>2. ToSet(rt.stack) = IdsOf(nest, Arrays(nest))
    <3>1. ~("array" \in {"local", "pool"})
      OBVIOUS
    <3>2. \A x : x \in Held(nest, "array", rethrow, dest)
                    <=> x \in Of(nest, "array", rethrow, dest)
      BY <3>1, HeldMember
    <3>3. Now("array") = Of(nest, "array", rethrow, dest)
      BY <3>2 DEF Now
    <3>4. IdsOf(nest, Arrays(nest)) = Of(nest, "array", rethrow, dest)
      BY OfAround
    <3> QED BY <2>1, <3>3, <3>4
  <2>3. ~ReturnPending => Now("local") = IdsOf(nest, Strongs(nest))
    BY NoneWaits, OfAround
  <2>4. IdsOf(nest, Strongs(nest)) \subseteq Now("local")
    BY OfAround
  <2>5. Left => Now("local") = {}
    BY NothingHeld DEF LocalsInv, SInv, Now
  <2>6. rt.faults \cap {"release", "overwrite"} = {}
    BY <2>1
  <2>7. /\ IdsOf(nest, Strongs(nest)) \subseteq rt.held
        /\ ReturnPending \/ rt.held = IdsOf(nest, Strongs(nest)) \cup leaked
    BY <2>1, <2>3, <2>4
  <2>8. Left => rt.held \subseteq leaked
    BY <2>1, <2>5
  <2> QED BY <2>2, <2>6, <2>7, <2>8 DEF LocalsOwned
<1> QED BY <1>2, <1>3, <1>4, PTL DEF Spec
=============================================================================
