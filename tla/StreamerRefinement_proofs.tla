---------------------- MODULE StreamerRefinement_proofs ---------------------
(***************************************************************************)
(* The streamer implements the durable log, for any number of clients,     *)
(* producers and crashes, both durability modes, and a store that may      *)
(* refuse batches and fail lookups.  To what Streamer_proofs knows of the  *)
(* records, this adds what closing a stream does to what follows and, for  *)
(* a store whose lookups succeed, how producers and Stream-Seq order them. *)
(***************************************************************************)
EXTENDS StreamerRefinement, Streamer_proofs

\* Below its tail, store state s has every record that t has.
Complete(s, t) == \A q \in DOMAIN t.recs : q < s.tail => q \in DOMAIN s.recs

\* A closed store state is final.
Sealed(s, t) == s.closed => t.closed /\ t.tail = s.tail

Frozen ==
  \A k, l \in 1..Len(hist) : k <= l => Complete(hist[k], hist[l]) /\ Sealed(hist[k], hist[l])

\* A burst planned for a closed stream is empty, one that closes it says so.
PlanClosing ==
  pc = "plan" => /\ pend.metaChanged => pend.closed
                 /\ pend.closed => w.closed \/ pend.metaChanged
                 /\ w.closed => pend.closed /\ NothingPlanned(pend)

\* The burst that closes the stream is the last in the queue, and nothing is queued
\* behind a closed store.
QueueClosing ==
  /\ \A i \in 1..Len(pending) : pending[i].p.metaChanged =>
       pending[i].p.closed /\ i = Len(pending) /\ w.closed
  /\ mem.closed => pending = << >>

\* The writer knows of a closed store, except inside a sync commit.
ViewClosing ==
  /\ resident /\ pc # "sync" /\ mem.closed => w.closed
  /\ pc = "sync" => /\ waiters[1].p.metaChanged => waiters[1].p.closed
                    /\ mem.closed => w.closed \/ waiters[1].p.metaChanged

\* With IInv, the inductive invariant behind the refinement.
RInv == Frozen /\ PlanClosing /\ QueueClosing /\ ViewClosing

-----------------------------------------------------------------------------
(* What a commit does to the store. *)

\* Batch p is written over the open store, at or above its tail.
Lands(p) ==
  /\ p \in Pends
  /\ p.tail = p.base + Len(p.recs)
  /\ mem.tail <= p.base
  /\ ~mem.closed
  /\ p.metaChanged => p.closed
  /\ hist' = Append(hist, applyOps(mem, p))
  /\ UNCHANGED <<dur, acked>>

\* A refused or absorbed append changes nothing, and a closed stream accepts none.
LEMMA ClosedRefuses ==
  ASSUME NEW p, NEW r, NEW ps, NEW ws, p.closed
  PROVE  planVerdict(p, r, ps, ws).acc = FALSE
BY DEF planVerdict, planAppendClosed, Verdict

\* Both committers write a batch planned for the store they find.
LEMMA AsyncLands ==
  ASSUME IInv, RInv, CommitAsync
  PROVE  Lands(pending[1].p)
<1>i. TypeOK /\ Queued /\ QueueClosing
  BY DEF IInv, RInv
<1>1. /\ Head(pending) = pending[1] /\ pending[1] \in Jobs
      /\ Len(pending) \in Nat \ {0}
  BY <1>i, QueueType, HeadTail, Zenon DEF CommitAsync
<1>2. 1 \in 1..Len(pending)
  BY <1>1
<1>3. pending[1].p \in Pends
  BY <1>1 DEF Jobs
<1>4. /\ pending[1].p.tail = pending[1].p.base + Len(pending[1].p.recs)
      /\ mem.tail <= pending[1].p.base
  BY <1>i, <1>2, Zenon DEF Queued, JobOK
<1>5. ~mem.closed /\ (pending[1].p.metaChanged => pending[1].p.closed)
  BY <1>i, <1>2, Zenon DEF QueueClosing, CommitAsync
<1> QED BY <1>1, <1>3, <1>4, <1>5, Zenon DEF CommitAsync, Lands

LEMMA SyncLands ==
  ASSUME IInv, RInv, CommitSync
  PROVE  Lands(pend) /\ ~w.closed
<1>i. TypeOK /\ Planning /\ Views /\ PlanClosing /\ ViewClosing
  BY DEF IInv, RInv
<1>1. resident /\ pc = "plan" /\ pend \in Pends
  BY <1>i DEF CommitSync, BurstReady, TypeOK
<1>2. pend.base = w.tail /\ pend.tail = pend.base + Len(pend.recs) /\ mem.tail <= w.tail
  BY <1>i, <1>1 DEF Planning, JobOK, Views
<1>3. ~w.closed /\ ~mem.closed /\ (pend.metaChanged => pend.closed)
  BY <1>i, <1>1, Zenon DEF PlanClosing, ViewClosing, CommitSync
<1> QED BY <1>1, <1>2, <1>3, Zenon DEF CommitSync, Lands

\* The new state follows all the others, without filling what they left out.
LEMMA LandsFrozen ==
  ASSUME TypeOK, Growing, Frozen, NEW p, Lands(p)
  PROVE  /\ Extends(mem, mem') /\ Complete(mem, mem') /\ mem' \in Stores
         /\ mem'.closed = (p.metaChanged /\ p.closed)
         /\ DOMAIN mem'.recs = DOMAIN mem.recs \cup p.base..(p.tail - 1)
         /\ mem'.tail = p.tail
         /\ Len(hist') = Len(hist) + 1 /\ hist'[dur] = hist[dur]
         /\ Frozen'
<1>1. /\ hist \in Seq(Stores) /\ mem \in Stores /\ Len(hist) \in Nat
      /\ dur \in 1..Len(hist) /\ Len(hist) \in 1..Len(hist)
      /\ \A k \in 1..Len(hist) : hist[k] \in Stores /\ hist[k].tail \in Nat
  BY Basics
<1>p. /\ p \in Pends /\ p.tail = p.base + Len(p.recs) /\ mem.tail <= p.base /\ ~mem.closed
      /\ hist' = Append(hist, applyOps(mem, p))
  BY DEF Lands
<1> DEFINE n == Len(hist) + 1
           s == applyOps(mem, p)
<1>2. s \in Stores
  BY <1>1, <1>p, ApplyType
<1>3. DOMAIN mem.recs \subseteq 0..(mem.tail - 1)
  BY <1>1 DEF Growing, mem
<1>4. Extends(mem, s) /\ s.tail = p.tail
  BY <1>1, <1>3, <1>p, ApplyExtends
<1>5. DOMAIN s.recs = DOMAIN mem.recs \cup p.base..(p.tail - 1)
  BY DEF applyOps
<1>6. s.closed = (p.metaChanged /\ p.closed)
  BY <1>1, <1>p, ZenonT(30) DEF applyOps, Pends, Stores
<1> HIDE DEF s
<1>7. hist' \in Seq(Stores) /\ Len(hist') = n /\ hist'[n] = s
      /\ \A k \in 1..Len(hist) : hist'[k] = hist[k]
  BY <1>1, <1>2, <1>p, AppendAt, SMTT(60) DEF s
<1>8. mem' = s
  BY <1>7 DEF mem
<1>9. ASSUME NEW k \in 1..Len(hist)
      PROVE  Complete(hist[k], s) /\ Sealed(hist[k], s)
  <2>1. Complete(hist[k], mem) /\ Sealed(hist[k], mem) /\ Extends(hist[k], mem)
    BY <1>1 DEF Frozen, Growing, mem
  <2>2. ~hist[k].closed
    BY <1>p, <2>1 DEF Sealed
  <2>3. hist[k].tail <= p.base /\ hist[k].tail \in Nat
    <3>1. hist[k].tail <= mem.tail
      BY <2>1 DEF Extends
    <3>2. hist[k].tail \in Nat /\ mem.tail \in Nat /\ p.base \in Nat
      BY <1>p, Basics, Zenon DEF Pends
    <3> QED BY <1>p, <3>1, <3>2
  <2>4. p.base \in Nat /\ p.tail \in Nat
    BY <1>p DEF Pends
  <2>5. \A q \in p.base..(p.tail - 1) : ~(q < hist[k].tail)
    BY <2>3, <2>4
  <2>6. Complete(hist[k], s)
    BY <1>5, <2>1, <2>5, Zenon DEF Complete
  <2> QED BY <2>2, <2>6 DEF Sealed
<1>10. Complete(s, s) /\ Sealed(s, s)
  BY DEF Complete, Sealed
<1>11. \A k \in 1..Len(hist') : k = n \/ k \in 1..Len(hist)
  BY <1>1, <1>7
<1>12. ASSUME NEW k \in 1..Len(hist'), NEW l \in 1..Len(hist'), k <= l
       PROVE  Complete(hist'[k], hist'[l]) /\ Sealed(hist'[k], hist'[l])
  <2>1. CASE l = n
    BY <1>7, <1>9, <1>10, <1>11, <2>1, Zenon
  <2>2. CASE l \in 1..Len(hist)
    <3>1. k \in 1..Len(hist)
      BY <1>1, <1>11, <1>12, <2>2
    <3> QED BY <1>7, <1>12, <2>2, <3>1, Zenon DEF Frozen
  <2> QED BY <1>11, <2>1, <2>2
<1>13. Frozen'
  BY <1>12, Zenon DEF Frozen
<1>14. Complete(mem, s)
  BY <1>1, <1>9 DEF mem
<1> QED BY <1>1, <1>2, <1>4, <1>5, <1>6, <1>7, <1>8, <1>13, <1>14

-----------------------------------------------------------------------------
(* Every step keeps the invariant. *)

\* A step that appends no batch and loses none leaves the history alone.
LEMMA FrozenStep == IInv /\ RInv /\ [Next]_vars => Frozen'
<1> SUFFICES ASSUME IInv, RInv, [Next]_vars PROVE Frozen'
  OBVIOUS
<1>i. TypeOK /\ Growing /\ Frozen
  BY DEF IInv, RInv
<1>1. CASE UNCHANGED hist
  BY <1>1, <1>i, Zenon DEF Frozen
<1>2. CASE CommitAsync
  BY <1>2, <1>i, AsyncLands, LandsFrozen, Zenon
<1>3. CASE CommitSync
  BY <1>3, <1>i, SyncLands, LandsFrozen, Zenon
<1>4. CASE Crash
  <2>1. hist \in Seq(Stores) /\ Len(hist) \in Nat /\ dur \in 1..Len(hist)
    BY <1>i, Basics
  <2>2. PICK k \in dur..Len(hist) : hist' = SubSeq(hist, 1, k)
    BY <1>4 DEF Crash
  <2>3. /\ \A i \in 1..Len(hist') : i \in 1..Len(hist) /\ hist'[i] = hist[i]
    BY <2>1, <2>2
  <2> QED BY <1>i, <2>3, Zenon DEF Frozen
<1> QED BY <1>1, <1>2, <1>3, <1>4, Zenon
        DEF Next, vars, Spawn, Submit, Plan, AnswerBurst, CommitNotifier, CommitAsyncFails,
            Fire, CommitSyncDone, CommitSyncFails, Retire, Persist

\* Planning keeps a closed stream's burst empty.
LEMMA PlanClosingStep == IInv /\ RInv /\ [Next]_vars => PlanClosing'
<1> SUFFICES ASSUME IInv, RInv, [Next]_vars, pc' = "plan" 
             PROVE  /\ pend'.metaChanged => pend'.closed
                    /\ pend'.closed => w'.closed \/ pend'.metaChanged
                    /\ w'.closed => pend'.closed /\ NothingPlanned(pend')
  BY DEF PlanClosing, NothingPlanned
<1>i. TypeOK /\ Control /\ PlanClosing
  BY DEF IInv, RInv
<1>1. CASE UNCHANGED <<pc, pend, w>>
  BY <1>1, <1>i, Zenon DEF PlanClosing
<1>2. CASE Plan
  <2> DEFINE r == Head(reqs).req
             p == IF pc = "idle" THEN newPend ELSE pend
  <2>1. PICK ps \in effProducer(p, r), ws \in effWriterSeq(p) :
          /\ pend' = IF planVerdict(p, r, ps, ws).acc THEN planEffects(p, r) ELSE p
          /\ w'.closed = w.closed
    BY <1>2, <1>i, ZenonT(30) DEF Plan, TypeOK
  <2>2. pc = "idle" \/ pc = "plan"
    BY <1>2 DEF Plan
  <2>3. /\ newPend.metaChanged = FALSE /\ newPend.closed = w.closed
        /\ NothingPlanned(newPend)
    BY DEF newPend, NothingPlanned
  <2>4. /\ p.metaChanged => p.closed
        /\ p.closed => w.closed \/ p.metaChanged
        /\ w.closed => p.closed /\ NothingPlanned(p)
    BY <1>i, <2>2, <2>3, Zenon DEF PlanClosing
  <2> HIDE DEF p, r
  <2>5. CASE p.closed
    <3>1. pend' = p
      BY <2>1, <2>5, ClosedRefuses, Zenon
    <3> QED BY <2>1, <2>4, <3>1, Zenon
  <2>6. CASE ~p.closed
    <3>1. ~p.metaChanged /\ ~w.closed
      BY <2>4, <2>6
    <3>2. planEffects(p, r).closed = (p.closed \/ r.close)
          /\ planEffects(p, r).metaChanged = (p.metaChanged \/ r.close)
      BY DEF planEffects
    <3>3. pend' = p \/ pend' = planEffects(p, r)
      BY <2>1
    <3>4. CASE pend' = p
      BY <2>1, <2>4, <3>4, Zenon
    <3>5. CASE pend' = planEffects(p, r)
      BY <2>1, <2>6, <3>1, <3>2, <3>5, Zenon
    <3> QED BY <3>3, <3>4, <3>5
  <2> QED BY <2>5, <2>6, ZenonT(30)
<1>3. CASE Spawn
  BY <1>3, <1>i DEF Spawn, Control
<1>4. CASE Retire
  BY <1>4 DEF Retire
<1> QED BY <1>1, <1>2, <1>3, <1>4, Zenon
        DEF Next, vars, Submit, AnswerBurst, CommitNotifier, CommitAsync, CommitAsyncFails,
            Fire, CommitSync, CommitSyncDone, CommitSyncFails, Persist, Crash

LEMMA HeadOfOne == \A s \in Seq(Waiters) : Len(s) = 1 => Head(s) = s[1]
OBVIOUS

\* A queue of one is empty after it is served.
LEMMA LastOut == \A s \in Seq(Jobs) : Len(s) = 1 => Tail(s) = << >>
<1> SUFFICES ASSUME NEW s \in Seq(Jobs), Len(s) = 1 PROVE Tail(s) = << >>
  OBVIOUS
<1>1. s # << >>
  OBVIOUS
<1>2. Tail(s) \in Seq(Jobs) /\ Len(Tail(s)) = Len(s) - 1
  BY <1>1, HeadTail, Zenon
<1>3. \A t \in Seq(Jobs) : Len(t) = 0 => t = << >>
  OBVIOUS
<1>4. \A n : n = 1 => n - 1 = 0
  OBVIOUS
<1> QED BY <1>2, <1>3, <1>4, Zenon

\* Only the burst that closes the stream is queued with the writer's view closed.
LEMMA QueueClosingStep == IInv /\ RInv /\ [Next]_vars => QueueClosing'
<1> SUFFICES ASSUME IInv, RInv, [Next]_vars PROVE QueueClosing'
  OBVIOUS
<1>i. TypeOK /\ Control /\ Growing /\ Frozen /\ PlanClosing /\ QueueClosing /\ ViewClosing
  BY DEF IInv, RInv
<1>j. pending \in Seq(Jobs) /\ Len(pending) \in Nat
  BY <1>i, QueueType
<1>n. Len(<< >>) = 0 /\ 1..0 = {}
  BY SMTT(30)
<1>1. CASE UNCHANGED <<hist, pending>> /\ (pending = << >> \/ w'.closed = w.closed)
  <2>1. mem' = mem /\ pending' = pending
    BY <1>1 DEF mem
  <2> QED BY <1>1, <1>i, <1>n, <2>1, Zenon DEF QueueClosing
<1>2. CASE CommitNotifier
  <2>1. /\ resident /\ pc = "plan" /\ hist' = hist /\ ~NothingPlanned(pend)
        /\ pending' = Append(pending, [p |-> pend, batch |-> batch])
        /\ w'.closed = IF pend.metaChanged THEN pend.closed ELSE w.closed
    BY <1>2 DEF CommitNotifier, BurstReady, applyWriter
  <2>2. ~w.closed /\ (pend.metaChanged => pend.closed) /\ ~mem.closed
    BY <1>i, <2>1, Zenon DEF PlanClosing, ViewClosing
  <2>3. mem' = mem
    BY <2>1 DEF mem
  <2>4. \A i \in 1..Len(pending) : ~pending[i].p.metaChanged
    BY <1>i, <2>2, Zenon DEF QueueClosing
  <2> DEFINE x == [p |-> pend, batch |-> batch]
  <2>5. x \in Jobs /\ pending' = Append(pending, x)
    BY <1>i, <2>1, Zenon DEF TypeOK, Jobs
  <2>7. x.p = pend
    OBVIOUS
  <2> HIDE DEF x
  <2>6. /\ Len(pending') = Len(pending) + 1 /\ pending'[Len(pending) + 1] = x
        /\ \A i \in 1..Len(pending) : pending'[i] = pending[i]
    BY <1>j, <2>5, AppendAt
  <2>8. ASSUME NEW i \in 1..Len(pending'), pending'[i].p.metaChanged
        PROVE  pending'[i].p.closed /\ i = Len(pending') /\ w'.closed
    <3>1. i \in 1..Len(pending) \/ i = Len(pending) + 1
      BY <1>j, <2>6
    <3>2. i = Len(pending) + 1
      BY <2>4, <2>6, <2>8, <3>1, Zenon
    <3>3. pending'[i].p = pend
      BY <2>6, <2>7, <3>2, ZenonT(30)
    <3> QED BY <2>1, <2>2, <2>6, <2>8, <3>2, <3>3, Zenon
  <2> QED BY <2>2, <2>3, <2>8, Zenon DEF QueueClosing
<1>3. ASSUME pending # << >>, pending' = Tail(pending), w' = w,
             mem'.closed => mem.closed \/ pending[1].p.metaChanged
      PROVE  QueueClosing'
  <2>1. /\ Len(pending) \in Nat \ {0} /\ Tail(pending) \in Seq(Jobs)
        /\ Len(Tail(pending)) = Len(pending) - 1
        /\ \A i \in 1..Len(Tail(pending)) : Tail(pending)[i] = pending[i + 1]
    BY <1>3, <1>j, HeadTail, Zenon
  <2>2. 1 \in 1..Len(pending)
    BY <2>1
  <2>3. ASSUME NEW i \in 1..Len(pending'), pending'[i].p.metaChanged
        PROVE  pending'[i].p.closed /\ i = Len(pending') /\ w'.closed
    <3>1. i + 1 \in 1..Len(pending) /\ i \in Nat /\ pending'[i] = pending[i + 1]
      BY <1>3, <2>1
    <3>2. pending[i + 1].p.closed /\ i + 1 = Len(pending) /\ w.closed
      BY <1>i, <2>3, <3>1, Zenon DEF QueueClosing
    <3>3. i = Len(pending')
      <4>1. \A a \in Nat, b \in Nat \ {0} : a + 1 = b => a = b - 1
        OBVIOUS
      <4> QED BY <1>3, <2>1, <3>1, <3>2, <4>1, Zenon
    <3> QED BY <1>3, <3>1, <3>2, <3>3, Zenon
  <2>4. ASSUME mem'.closed PROVE pending' = << >>
    <3>1. pending[1].p.metaChanged
      BY <1>3, <1>i, <2>4, Zenon DEF QueueClosing
    <3>2. 1 = Len(pending)
      BY <1>i, <2>2, <3>1, Zenon DEF QueueClosing
    <3> QED BY <1>3, <1>j, <3>2, LastOut, Zenon
  <2> QED BY <2>3, <2>4, Zenon DEF QueueClosing
<1>4. CASE CommitAsync
  <2>1. mem'.closed => pending[1].p.metaChanged
    BY <1>4, <1>i, AsyncLands, LandsFrozen, Zenon
  <2> QED BY <1>3, <1>4, <2>1, Zenon DEF CommitAsync
<1>5. CASE CommitAsyncFails
  <2>1. mem' = mem
    BY <1>5 DEF CommitAsyncFails, mem
  <2> QED BY <1>3, <1>5, <2>1, Zenon DEF CommitAsyncFails
<1>6. CASE CommitSync \/ Crash
  <2>1. pending' = << >>
    BY <1>6, <1>i, Zenon DEF CommitSync, Crash, Control
  <2> QED BY <1>n, <2>1, Zenon DEF QueueClosing
<1>7. CASE Plan
  <2>1. w'.closed = w.closed
    BY <1>7, <1>i, ZenonT(30) DEF Plan, TypeOK
  <2> QED BY <1>1, <1>7, <2>1 DEF Plan
<1>8. CASE Spawn \/ Retire \/ CommitSyncDone
  BY <1>1, <1>8, <1>i DEF Spawn, Retire, CommitSyncDone, Control
<1> QED BY <1>1, <1>2, <1>4, <1>5, <1>6, <1>7, <1>8, Zenon
        DEF Next, vars, Submit, AnswerBurst, Fire, CommitSyncFails, Persist

\* The writer's view is told of a closure no later than the store.
LEMMA ViewClosingStep == IInv /\ RInv /\ [Next]_vars => ViewClosing'
<1> SUFFICES ASSUME IInv, RInv, [Next]_vars PROVE ViewClosing'
  OBVIOUS
<1>i. TypeOK /\ Control /\ Growing /\ Frozen /\ PlanClosing /\ QueueClosing /\ ViewClosing
  BY DEF IInv, RInv
<1>s. pending # << >> \/ Mode = "notifier" => pc # "sync"
  BY <1>i, Zenon DEF Control
<1>1. CASE UNCHANGED <<hist, resident, pc, w, waiters>>
  BY <1>1, <1>i DEF ViewClosing, mem
<1>2. ASSUME UNCHANGED <<hist, resident>>, pc # "sync", pc' # "sync", w.closed => w'.closed
      PROVE  ViewClosing'
  <2>1. mem' = mem /\ resident' = resident
    BY <1>2 DEF mem
  <2> QED BY <1>2, <1>i, <2>1 DEF ViewClosing
<1>3. CASE Spawn
  <2>1. pc' = "idle" /\ mem' = mem /\ w'.closed = mem.closed
    BY <1>3, <1>i DEF Spawn, Control, mem
  <2> QED BY <2>1, Zenon DEF ViewClosing
<1>4. CASE Plan
  <2>1. w'.closed = w.closed /\ pc # "sync" /\ pc' # "sync" /\ UNCHANGED <<hist, resident>>
    BY <1>4, <1>i, ZenonT(30) DEF Plan, TypeOK
  <2> QED BY <1>2, <2>1, ZenonT(30)
<1>5. CASE AnswerBurst \/ CommitSyncFails
  <2>1. w' = w /\ pc # "sync" /\ pc' # "sync" /\ UNCHANGED <<hist, resident>>
    BY <1>5 DEF AnswerBurst, CommitSyncFails, BurstReady
  <2> QED BY <1>2, <2>1, Zenon
<1>6. CASE CommitNotifier
  <2>1. /\ w'.closed = IF pend.metaChanged THEN pend.closed ELSE w.closed
        /\ pc = "plan" /\ pc' = "idle" /\ UNCHANGED <<hist, resident>>
    BY <1>6 DEF CommitNotifier, BurstReady, applyWriter
  <2>2. w.closed => w'.closed
    BY <1>i, <2>1, Zenon DEF PlanClosing
  <2> QED BY <1>2, <2>1, <2>2
<1>7. CASE CommitAsync
  <2>1. mem'.closed => pending[1].p.metaChanged
    BY <1>7, <1>i, AsyncLands, LandsFrozen, Zenon
  <2>2. Len(pending) \in Nat \ {0}
    BY <1>7, <1>i, QueueType, HeadTail, Zenon DEF CommitAsync
  <2>3. 1 \in 1..Len(pending)
    BY <2>2
  <2>4. mem'.closed => w.closed
    BY <1>i, <2>1, <2>3, Zenon DEF QueueClosing
  <2>5. pc' # "sync" /\ w' = w
    BY <1>7, <1>s DEF CommitAsync
  <2> QED BY <2>4, <2>5, Zenon DEF ViewClosing
<1>8. CASE CommitAsyncFails \/ Fire
  <2>1. w' = w /\ pc # "sync" /\ pc' # "sync" /\ UNCHANGED <<hist, resident>>
    BY <1>8, <1>s DEF CommitAsyncFails, Fire
  <2> QED BY <1>2, <2>1, Zenon
<1>9. CASE CommitSync
  <2>1. (mem'.closed => pend.metaChanged) /\ (pend.metaChanged => pend.closed)
    BY <1>9, <1>i, SyncLands, LandsFrozen, Zenon DEF Lands
  <2>2. pc' = "sync" /\ waiters'[1].p = pend
    BY <1>9 DEF CommitSync
  <2> QED BY <2>1, <2>2, Zenon DEF ViewClosing
<1>10. CASE CommitSyncDone
  <2>0. pc = "sync" /\ Len(waiters) = 1 /\ Len(<< >>) = 0 /\ waiters \in Seq(Waiters)
    BY <1>10, <1>i, QueueType DEF CommitSyncDone, Control
  <2>1. Head(waiters) = waiters[1]
    BY <2>0, HeadOfOne, ZenonT(30)
  <2>2. /\ w'.closed = IF waiters[1].p.metaChanged THEN waiters[1].p.closed ELSE w.closed
        /\ pc' = "idle" /\ UNCHANGED <<hist, resident>>
    BY <1>10, <2>1 DEF CommitSyncDone, applyWriter
  <2>3. mem' = mem
    BY <2>2 DEF mem
  <2> QED BY <1>i, <2>0, <2>2, <2>3, Zenon DEF ViewClosing
<1>11. CASE Retire \/ Crash
  <2>1. ~resident' /\ pc' = "idle"
    BY <1>11 DEF Retire, Crash
  <2> QED BY <2>1, Zenon DEF ViewClosing
<1> QED BY <1>1, <1>3, <1>4, <1>5, <1>6, <1>7, <1>8, <1>9, <1>10, <1>11, Zenon
        DEF Next, vars, Submit, Persist

LEMMA InitRInv == Init => RInv
<1> SUFFICES ASSUME Init PROVE RInv
  OBVIOUS
<1>1. Len(hist) = 1 /\ ~mem.closed /\ ~resident /\ pc = "idle" /\ pending = << >>
  BY DEF Init, mem, EmptyStore
<1>2. Len(pending) = 0 /\ \A k, l \in 1..1 : k = l
  BY <1>1
<1>3. Frozen
  <2>1. \A s : Complete(s, s) /\ Sealed(s, s)
    BY DEF Complete, Sealed
  <2>2. \A k, l \in 1..Len(hist) : hist[k] = hist[l]
    BY <1>1
  <2>3. ASSUME NEW k \in 1..Len(hist), NEW l \in 1..Len(hist)
        PROVE  Complete(hist[k], hist[l]) /\ Sealed(hist[k], hist[l])
    BY <2>1, <2>2
  <2> QED BY <2>3 DEF Frozen
<1>4. 1..0 = {}
  OBVIOUS
<1> QED BY <1>1, <1>2, <1>3, <1>4, Zenon DEF RInv, PlanClosing, QueueClosing, ViewClosing

LEMMA RInductive == Spec => [](IInv /\ RInv)
<1>1. IInv /\ RInv /\ [Next]_vars => RInv'
  BY FrozenStep, PlanClosingStep, QueueClosingStep, ViewClosingStep DEF RInv
<1> QED BY <1>1, InitRInv, Inductive, PTL DEF Spec

-----------------------------------------------------------------------------
(* Theorems. *)

\* How a step changes the store: not at all, by a batch, by a flush that covers more
\* of it, or by a crash that keeps a prefix.
LEMMA StoreSteps ==
  ASSUME IInv, RInv, [Next]_vars
  PROVE  \/ UNCHANGED <<hist, dur>> /\ acked \subseteq acked'
         \/ \E p : Lands(p)
         \/ dur' \in dur..Len(hist) /\ UNCHANGED <<hist, acked>>
         \/ \E k \in dur..Len(hist) : hist' = SubSeq(hist, 1, k) /\ dur' = k /\ acked' = acked
<1>i. Len(hist) \in Nat /\ dur \in 1..Len(hist)
  BY Basics DEF IInv
<1>1. CASE UNCHANGED <<hist, dur>> /\ acked \subseteq acked'
  BY <1>1
<1>2. CASE CommitAsync
  BY <1>2, AsyncLands, Zenon
<1>3. CASE CommitSync
  BY <1>3, SyncLands, Zenon
<1>4. CASE Persist
  BY <1>4, <1>i DEF Persist
<1>5. CASE Crash
  <2>1. acked' = acked
    BY <1>5 DEF Crash
  <2>2. PICK k \in dur..Len(hist) : hist' = SubSeq(hist, 1, k) /\ dur' = k
    BY <1>5, Zenon DEF Crash
  <2> QED BY <2>1, <2>2, Zenon
<1>6. CASE AnswerBurst \/ CommitAsyncFails \/ Fire \/ CommitSyncDone \/ CommitSyncFails
  BY <1>6, Zenon DEF AnswerBurst, CommitAsyncFails, Fire, CommitSyncDone, CommitSyncFails, replyAll
<1> QED BY <1>1, <1>2, <1>3, <1>4, <1>5, <1>6, Zenon
        DEF Next, vars, Spawn, Submit, Plan, CommitNotifier, Retire

\* Nothing durable is lost, overwritten or reordered, and a durably closed stream
\* stays closed at its tail, whatever is refused and whenever the process crashes
\* (meta.go Closed, streamer.go planAppendClosed).
THEOREM DurableStays == Spec => DurableIsFinal
<1>1. ASSUME IInv, RInv, [Next]_vars
      PROVE  Extends(durable, durable') /\ Sealed(durable, durable')
  <2>i. TypeOK /\ Growing /\ Frozen
    BY <1>1 DEF IInv, RInv
  <2>b. Len(hist) \in Nat /\ dur \in 1..Len(hist) /\ hist \in Seq(Stores)
    BY <2>i, Basics
  <2>1. ASSUME NEW k \in dur..Len(hist), dur' = k, hist'[k] = hist[k]
        PROVE  Extends(durable, durable') /\ Sealed(durable, durable')
    <3>1. k \in 1..Len(hist) /\ dur <= k
      BY <2>1, <2>b
    <3>2. Extends(hist[dur], hist[k]) /\ Sealed(hist[dur], hist[k])
      BY <2>b, <2>i, <3>1, Zenon DEF Growing, Frozen
    <3> QED BY <2>1, <3>2 DEF durable
  <2>2. dur \in dur..Len(hist)
    BY <2>b
  <2>3. CASE UNCHANGED <<hist, dur>>
    BY <2>1, <2>2, <2>3
  <2>4. CASE \E p : Lands(p)
    BY <2>1, <2>2, <2>4, <2>i, LandsFrozen, Zenon DEF Lands
  <2>5. CASE dur' \in dur..Len(hist) /\ hist' = hist
    BY <2>1, <2>5, Zenon
  <2>6. CASE \E k \in dur..Len(hist) : hist' = SubSeq(hist, 1, k) /\ dur' = k
    <3>1. PICK k \in dur..Len(hist) : hist' = SubSeq(hist, 1, k) /\ dur' = k
      BY <2>6
    <3>2. hist'[k] = hist[k]
      BY <2>b, <3>1
    <3> QED BY <2>1, <3>1, <3>2, Zenon
  <2> QED BY <1>1, <2>3, <2>4, <2>5, <2>6, StoreSteps, Zenon
<1>2. ASSUME IInv, RInv, [Next]_vars
      PROVE  /\ \A i \in DOMAIN durable.recs :
                  i \in DOMAIN durable'.recs /\ durable'.recs[i] = durable.recs[i]
             /\ durable.tail <= durable'.tail
             /\ durable.closed => durable'.closed /\ durable'.tail = durable.tail
  BY <1>1, <1>2, Zenon DEF Extends, Sealed
<1> QED BY <1>2, RInductive, PTL DEF Spec, DurableIsFinal

-----------------------------------------------------------------------------
(* The refinement. *)

LEMMA PrefixIs ==
  ASSUME NEW S, NEW a \in Seq(S), NEW b \in Seq(S), Len(a) <= Len(b),
         \A i \in 1..Len(a) : b[i] = a[i]
  PROVE  SubSeq(b, 1, Len(a)) = a
OBVIOUS

\* The log of a store has an entry below the tail for each offset.
LEMMA LogType ==
  ASSUME NEW s \in Stores
  PROVE  /\ LogOf(s) \in Seq(Records \cup {None})
         /\ Len(LogOf(s)) = s.tail /\ s.tail \in Nat
         /\ \A i \in 1..s.tail :
              LogOf(s)[i] = IF i - 1 \in DOMAIN s.recs THEN s.recs[i - 1] ELSE None
<1>1. s.tail \in Nat
  BY Zenon DEF Stores
<1>2. \A i \in DOMAIN s.recs : s.recs[i] \in Records
  <2>1. s.recs \in UNION {[D -> Records] : D \in SUBSET Nat}
    BY Zenon DEF Stores
  <2>2. PICK D \in SUBSET Nat : s.recs \in [D -> Records]
    BY <2>1, Zenon
  <2> QED BY <2>2, Zenon
<1>3. LogOf(s) \in [1..s.tail -> Records \cup {None}]
  BY <1>2, Zenon DEF LogOf
<1>4. \A i \in 1..s.tail : LogOf(s)[i] = IF i - 1 \in DOMAIN s.recs THEN s.recs[i - 1] ELSE None
  BY Zenon DEF LogOf
<1> QED BY <1>1, <1>3, <1>4

\* A later store state has the log of an earlier one as a prefix.
LEMMA LogPrefix ==
  ASSUME NEW s \in Stores, NEW t \in Stores, Extends(s, t), Complete(s, t)
  PROVE  SubSeq(LogOf(t), 1, Len(LogOf(s))) = LogOf(s) /\ Len(LogOf(s)) <= Len(LogOf(t))
<1>1. /\ LogOf(s) \in Seq(Records \cup {None}) /\ Len(LogOf(s)) = s.tail /\ s.tail \in Nat
      /\ LogOf(t) \in Seq(Records \cup {None}) /\ Len(LogOf(t)) = t.tail /\ t.tail \in Nat
  BY LogType, Zenon
<1>2. s.tail <= t.tail
  BY DEF Extends
<1>3. ASSUME NEW i \in 1..s.tail PROVE LogOf(t)[i] = LogOf(s)[i]
  <2>1. i \in 1..t.tail /\ i - 1 < s.tail
    BY <1>1, <1>2
  <2>2. LogOf(s)[i] = IF i - 1 \in DOMAIN s.recs THEN s.recs[i - 1] ELSE None
    BY LogType, Zenon
  <2>3. LogOf(t)[i] = IF i - 1 \in DOMAIN t.recs THEN t.recs[i - 1] ELSE None
    BY <2>1, LogType, Zenon
  <2> QED BY <2>1, <2>2, <2>3, Zenon DEF Extends, Complete
<1> QED BY <1>1, <1>2, <1>3, PrefixIs, Zenon

\* What is acknowledged: the offsets after the accepted appends that were answered.
Acks == {a.next : a \in {x \in acked : x.acc}}

\* The streamer implements the durable log: bursts, pipelining, refused batches,
\* retirement, respawn and crashes amount to appending, flushing, acknowledging
\* inside the durable prefix, and losing what was not durable (streamer.go,
\* commit.go, durability.go together).
THEOREM RefinesDurableLog == Spec => ImplementsDurableLog
<1>1. Init => DL!Init
  <2> SUFFICES ASSUME Init PROVE DL!Init
    OBVIOUS
  <2>1. mem = EmptyStore /\ durable = EmptyStore /\ acked = {}
    BY DEF Init, mem, durable
  <2>2. EmptyStore.tail = 0 /\ EmptyStore.closed = FALSE /\ EmptyStore \in Stores
    BY EmptyTypes DEF EmptyStore
  <2>3. LogOf(EmptyStore) = << >>
    <3>1. LogOf(EmptyStore) \in Seq(Records \cup {None}) /\ Len(LogOf(EmptyStore)) = 0
      BY <2>2, LogType
    <3> QED BY <3>1
  <2> QED BY <2>1, <2>2, <2>3, Zenon DEF DL!Init
<1>2. ASSUME IInv, RInv, [Next]_vars, IInv'
      PROVE  [DL!Next]_(DL!dlvars)
  <2>i. TypeOK /\ Growing /\ Frozen /\ (TypeOK /\ Growing /\ Acked)'
    BY <1>2 DEF IInv, RInv
  <2>b. /\ Len(hist) \in Nat /\ dur \in 1..Len(hist) /\ hist \in Seq(Stores)
        /\ \A k \in 1..Len(hist) : hist[k] \in Stores /\ hist[k].tail \in Nat
        /\ mem = hist[Len(hist)] /\ Len(hist) \in 1..Len(hist) /\ durable = hist[dur]
    BY <2>i, Basics DEF mem, durable
  <2>m. Len(LogOf(mem)) = mem.tail /\ mem.tail \in Nat /\ mem \in Stores
    BY <2>b, LogType, Zenon
  <2>t. \A s \in Stores : s.closed \in BOOLEAN
    BY Zenon DEF Stores
  <2>1. CASE UNCHANGED <<hist, dur>> /\ acked \subseteq acked'
    <3>1. mem' = mem /\ durable' = durable /\ durable.tail \in Nat
      BY <2>1, <2>b DEF mem, durable
    <3>2. Acks \subseteq Acks'
      BY <2>1, Zenon DEF Acks
    <3>3. \A n \in Acks' : n \in 0..durable.tail
      <4> SUFFICES ASSUME NEW a \in acked', a.acc PROVE a.next \in 0..durable.tail
        BY Zenon DEF Acks
      <4>1. a.next <= durable'.tail
        BY <2>i, Zenon DEF Acked, Holds, durable
      <4>2. a.next \in Nat
        BY <2>i DEF TypeOK
      <4> QED BY <3>1, <4>1, <4>2
    <3>4. DL!Ack
      BY <3>1, <3>2, <3>3, Zenon DEF DL!Ack, Acks
    <3> QED BY <3>4 DEF DL!Next
  <2>2. CASE \E p : Lands(p)
    <3>1. PICK p : Lands(p)
      BY <2>2
    <3>2. /\ Extends(mem, mem') /\ Complete(mem, mem') /\ mem' \in Stores
          /\ hist'[dur] = hist[dur]
      BY <2>i, <3>1, LandsFrozen, Zenon
    <3>3. ~mem.closed /\ dur' = dur /\ acked' = acked
      BY <3>1 DEF Lands
    <3>4. durable' = durable
      BY <3>2, <3>3 DEF durable
    <3>5. /\ SubSeq(LogOf(mem'), 1, Len(LogOf(mem))) = LogOf(mem)
          /\ Len(LogOf(mem)) <= Len(LogOf(mem'))
      BY <2>m, <3>2, LogPrefix, Zenon
    <3>6. mem'.closed \in BOOLEAN
      BY <2>t, <3>2
    <3>7. LogOf(mem)' = LogOf(mem')
      BY DEF LogOf
    <3>8. DL!Write
      BY <3>3, <3>4, <3>5, <3>6, <3>7 DEF DL!Write
    <3> QED BY <3>8 DEF DL!Next
  <2>3. CASE dur' \in dur..Len(hist) /\ UNCHANGED <<hist, acked>>
    <3>1. mem' = mem /\ durable' = hist[dur']
      BY <2>3 DEF mem, durable
    <3>2. dur' \in 1..Len(hist) /\ dur <= dur' /\ dur' <= Len(hist)
      BY <2>3, <2>b
    <3>3. /\ Extends(durable, durable') /\ Sealed(durable, durable')
          /\ Extends(durable', mem) /\ Sealed(durable', mem) /\ durable' \in Stores
      BY <2>b, <2>i, <3>1, <3>2, Zenon DEF Growing, Frozen
    <3>4. durable'.tail \in durable.tail..Len(LogOf(mem))
      <4>1. durable.tail <= durable'.tail /\ durable'.tail <= mem.tail
        BY <3>3 DEF Extends
      <4>2. durable.tail \in Nat /\ durable'.tail \in Nat
        BY <2>b, <3>1, <3>2
      <4> QED BY <2>m, <4>1, <4>2
    <3>5. durable'.closed \in BOOLEAN
      BY <2>t, <3>3
    <3>6. (durable.closed => durable'.closed)
          /\ (durable'.closed => mem.closed /\ durable'.tail = Len(LogOf(mem)))
      BY <2>m, <3>3, Zenon DEF Sealed
    <3>7. DL!Flush
      BY <2>3, <3>1, <3>4, <3>5, <3>6 DEF DL!Flush
    <3> QED BY <3>7 DEF DL!Next
  <2>4. CASE \E k \in dur..Len(hist) : hist' = SubSeq(hist, 1, k) /\ dur' = k /\ acked' = acked
    <3>1. PICK k \in dur..Len(hist) : hist' = SubSeq(hist, 1, k) /\ dur' = k /\ acked' = acked
      BY <2>4
    <3>2. k \in 1..Len(hist) /\ dur <= k /\ k <= Len(hist)
      BY <2>b, <3>1
    <3>3. Len(hist') = k /\ hist'[k] = hist[k]
      BY <2>b, <3>1, <3>2
    <3>4. mem' = hist[k] /\ durable' = hist[k] /\ mem' \in Stores
      BY <2>b, <3>1, <3>2, <3>3 DEF mem, durable
    <3>5. /\ Extends(durable, mem') /\ Sealed(durable, mem')
          /\ Extends(mem', mem) /\ Complete(mem', mem) /\ Sealed(mem', mem)
      BY <2>b, <2>i, <3>2, <3>4, Zenon DEF Growing, Frozen
    <3>6. LogOf(mem)' = LogOf(mem')
      BY DEF LogOf
    <3>7. /\ SubSeq(LogOf(mem), 1, Len(LogOf(mem'))) = LogOf(mem')
          /\ Len(LogOf(mem')) <= Len(LogOf(mem))
      BY <2>m, <3>4, <3>5, LogPrefix, Zenon
    <3>8. Len(LogOf(mem')) = mem'.tail /\ mem'.tail \in Nat
      BY <3>4, LogType, Zenon
    <3>9. Len(LogOf(mem')) \in durable.tail..Len(LogOf(mem))
      <4>1. durable.tail <= mem'.tail /\ durable.tail \in Nat
        BY <2>b, <3>5 DEF Extends
      <4> QED BY <2>m, <3>7, <3>8, <4>1
    <3>10. mem'.closed \in BOOLEAN /\ (durable.closed => mem'.closed)
      BY <2>t, <3>4, <3>5, Zenon DEF Sealed
    <3>11. ASSUME mem'.closed PROVE mem.closed /\ LogOf(mem') = LogOf(mem)
      <4>1. mem.closed /\ mem.tail = mem'.tail
        BY <3>5, <3>11 DEF Sealed
      <4>2. LogOf(mem) \in Seq(Records \cup {None})
        BY <2>m, LogType, Zenon
      <4>3. \A s \in Seq(Records \cup {None}) : SubSeq(s, 1, Len(s)) = s
        OBVIOUS
      <4> QED BY <2>m, <3>7, <3>8, <4>1, <4>2, <4>3, Zenon
    <3>12. DL!Lose
      BY <3>1, <3>4, <3>6, <3>7, <3>8, <3>9, <3>10, <3>11, Zenon DEF DL!Lose
    <3> QED BY <3>12 DEF DL!Next
  <2> QED BY <1>2, <2>1, <2>2, <2>3, <2>4, StoreSteps, Zenon
<1> QED BY <1>1, <1>2, RInductive, PTL DEF Spec, ImplementsDurableLog, DL!Spec

-----------------------------------------------------------------------------
(* The log has no holes where no burst is refused behind the writer's back. *)

NoRefusedJob == Mode = "sync" \/ ~CommitMayFail

\* Store, queued bursts and writer's view follow one another without a gap.
Linked ==
  /\ \A k \in 1..Len(hist) : 0..(hist[k].tail - 1) \subseteq DOMAIN hist[k].recs
  /\ pending # << >> => /\ pending[1].p.base = mem.tail
                        /\ pending[Len(pending)].p.tail = w.tail
  /\ \A i \in 1..(Len(pending) - 1) : pending[i + 1].p.base = pending[i].p.tail
  /\ resident /\ pc # "sync" /\ pending = << >> => mem.tail = w.tail

\* A batch that starts at the tail leaves no offset out.
LEMMA LandsDense ==
  ASSUME TypeOK, Growing, Frozen, NEW p, Lands(p), p.base = mem.tail,
         \A k \in 1..Len(hist) : 0..(hist[k].tail - 1) \subseteq DOMAIN hist[k].recs
  PROVE  \A k \in 1..Len(hist') : 0..(hist'[k].tail - 1) \subseteq DOMAIN hist'[k].recs
<1>1. /\ hist \in Seq(Stores) /\ mem = hist[Len(hist)] /\ Len(hist) \in Nat
      /\ Len(hist) \in 1..Len(hist) /\ mem.tail \in Nat
  BY Basics DEF mem
<1>2. /\ Len(hist') = Len(hist) + 1 /\ mem'.tail = p.tail
      /\ DOMAIN mem'.recs = DOMAIN mem.recs \cup p.base..(p.tail - 1)
  BY LandsFrozen, Zenon
<1>3. p.base \in Nat /\ p.tail \in Nat
  BY DEF Lands, Pends
<1>4. 0..(mem.tail - 1) \subseteq DOMAIN mem.recs
  BY <1>1, Zenon
<1>5. \A q \in 0..(p.tail - 1) : q \in 0..(mem.tail - 1) \/ q \in p.base..(p.tail - 1)
  BY <1>1, <1>3
<1>6. 0..(mem'.tail - 1) \subseteq DOMAIN mem'.recs
  BY <1>2, <1>4, <1>5, Zenon
<1>7. mem' = hist'[Len(hist')]
  BY DEF mem
<1>8. \A k \in 1..Len(hist) : hist'[k] = hist[k]
  BY CommitGrows DEF Lands
<1>9. \A k \in 1..Len(hist') : k = Len(hist') \/ k \in 1..Len(hist)
  BY <1>1, <1>2
<1> QED BY <1>6, <1>7, <1>8, <1>9, Zenon

LEMMA LinkedStep == NoRefusedJob /\ IInv /\ RInv /\ Linked /\ [Next]_vars => Linked'
<1> SUFFICES ASSUME NoRefusedJob, IInv, RInv, Linked, [Next]_vars PROVE Linked'
  OBVIOUS
<1>i. /\ TypeOK /\ Control /\ Planning /\ Views /\ Growing /\ Frozen
  BY DEF IInv, RInv
<1>b. /\ hist \in Seq(Stores) /\ Len(hist) \in Nat /\ dur \in 1..Len(hist)
      /\ mem.tail \in Nat /\ w.tail \in Nat
  BY <1>i, Basics
<1>j. pending \in Seq(Jobs) /\ Len(pending) \in Nat
  BY <1>i, QueueType
<1>n. Len(<< >>) = 0 /\ 1..0 = {} /\ 1..(Len(<< >>) - 1) = {}
  BY SMTT(30)
<1>1. ASSUME UNCHANGED <<hist, pending>>, w'.tail = w.tail,
             resident' /\ pc' # "sync" => resident /\ pc # "sync"
      PROVE  Linked'
  <2>1. mem' = mem /\ pending' = pending /\ hist' = hist
    BY <1>1 DEF mem
  <2> QED BY <1>1, <2>1, Zenon DEF Linked
<1>2. ASSUME pending' = << >>, hist' = hist,
             resident' /\ pc' # "sync" => mem.tail = w'.tail
      PROVE  Linked'
  <2>1. mem' = mem
    BY <1>2 DEF mem
  <2> QED BY <1>2, <1>n, <2>1, Zenon DEF Linked
<1>3. CASE Spawn
  BY <1>2, <1>3, <1>i DEF Spawn, Control
<1>4. CASE Plan
  <2>1. w'.tail = w.tail
    BY <1>4, <1>i DEF Plan, TypeOK
  <2> QED BY <1>1, <1>4, <2>1 DEF Plan
<1>5. CASE AnswerBurst \/ CommitSyncFails
  BY <1>1, <1>5 DEF AnswerBurst, CommitSyncFails, BurstReady
<1>6. CASE CommitNotifier
  <2> DEFINE x == [p |-> pend, batch |-> batch]
  <2>1. /\ resident /\ pc = "plan" /\ hist' = hist /\ w'.tail = pend.tail
        /\ pending' = Append(pending, x)
    BY <1>6 DEF CommitNotifier, BurstReady, applyWriter
  <2>2. x \in Jobs
    BY <1>i, Zenon DEF TypeOK, Jobs
  <2>3. x.p = pend
    OBVIOUS
  <2> HIDE DEF x
  <2>4. /\ Len(pending') = Len(pending) + 1 /\ pending'[Len(pending) + 1] = x
        /\ \A i \in 1..Len(pending) : pending'[i] = pending[i]
    BY <1>j, <2>1, <2>2, AppendAt
  <2>5. mem' = mem /\ pend.base = w.tail
    BY <1>i, <2>1 DEF mem, Planning
  <2>6. pending'[1].p.base = mem.tail
    <3>1. CASE pending = << >>
      <4>1. mem.tail = w.tail
        BY <2>1, <3>1, Zenon DEF Linked
      <4>2. pending'[1] = x
        BY <1>n, <2>4, <3>1
      <4> QED BY <2>3, <2>5, <4>1, <4>2, Zenon
    <3>2. CASE pending # << >>
      <4>1. 1 \in 1..Len(pending)
        BY <1>j, <3>2
      <4> QED BY <2>4, <3>2, <4>1, Zenon DEF Linked
    <3> QED BY <3>1, <3>2
  <2>7. ASSUME NEW i \in 1..(Len(pending') - 1)
        PROVE  pending'[i + 1].p.base = pending'[i].p.tail
    <3>1. i \in 1..Len(pending)
      BY <1>j, <2>4
    <3>2. CASE i \in 1..(Len(pending) - 1)
      <4>1. i + 1 \in 1..Len(pending)
        BY <1>j, <3>2
      <4> QED BY <2>4, <3>1, <3>2, <4>1, Zenon DEF Linked
    <3>3. CASE i = Len(pending)
      <4>1. pending # << >>
        BY <1>n, <3>1
      <4>2. pending[i].p.tail = w.tail
        BY <3>3, <4>1, Zenon DEF Linked
      <4> QED BY <2>3, <2>4, <2>5, <3>1, <3>3, <4>2, Zenon
    <3> QED BY <1>j, <3>1, <3>2, <3>3
  <2>8. pending'[Len(pending')].p.tail = w'.tail /\ pending' # << >>
    <3>1. pending'[Len(pending')].p.tail = w'.tail
      BY <2>1, <2>3, <2>4, ZenonT(30)
    <3> QED BY <1>j, <1>n, <2>4, <3>1
  <2> QED BY <2>1, <2>5, <2>6, <2>7, <2>8, Zenon DEF Linked
<1>7. CASE CommitAsync
  <2>0. /\ pending # << >> /\ pending' = Tail(pending) /\ w' = w
        /\ Lands(pending[1].p)
    BY <1>7, AsyncLands DEF CommitAsync
  <2>1. /\ Len(pending) \in Nat \ {0} /\ Len(Tail(pending)) = Len(pending) - 1
        /\ \A i \in 1..Len(Tail(pending)) : Tail(pending)[i] = pending[i + 1]
    BY <1>j, <2>0, HeadTail, Zenon
  <2>2. pending[1].p.base = mem.tail
    BY <2>0, Zenon DEF Linked
  <2>3. \A k \in 1..Len(hist') : 0..(hist'[k].tail - 1) \subseteq DOMAIN hist'[k].recs
    BY <1>i, <2>0, <2>2, LandsDense, Zenon DEF Linked
  <2>4. mem'.tail = pending[1].p.tail
    BY <1>i, <2>0, LandsFrozen, Zenon
  <2>5. ASSUME NEW i \in 1..(Len(pending') - 1)
        PROVE  pending'[i + 1].p.base = pending'[i].p.tail
    <3>1. /\ i \in 1..Len(Tail(pending)) /\ i + 1 \in 1..Len(Tail(pending))
          /\ i + 1 \in 1..(Len(pending) - 1)
      BY <2>0, <2>1
    <3> QED BY <2>0, <2>1, <3>1, Zenon DEF Linked
  <2>6. CASE Len(pending) = 1
    <3>1. pending' = << >>
      BY <1>j, <2>0, <2>6, LastOut, Zenon
    <3>2. mem'.tail = w'.tail
      BY <2>0, <2>4, <2>6, Zenon DEF Linked
    <3> QED BY <2>3, <2>5, <3>1, <3>2, Zenon DEF Linked
  <2>7. CASE Len(pending) # 1
    <3>1. /\ 1 \in 1..Len(Tail(pending)) /\ Len(Tail(pending)) \in 1..Len(Tail(pending))
          /\ 1 \in 1..(Len(pending) - 1) /\ Len(Tail(pending)) + 1 = Len(pending)
      BY <2>1, <2>7
    <3>2. Tail(pending) # << >>
      BY <1>n, <3>1
    <3>3. pending'[1] = pending[1 + 1] /\ pending'[Len(pending')] = pending[Len(pending)]
      BY <2>0, <2>1, <3>1, Zenon
    <3>4. pending'[1].p.base = mem'.tail
      BY <2>4, <3>1, <3>3, Zenon DEF Linked
    <3>5. pending'[Len(pending')].p.tail = w'.tail
      BY <2>0, <3>3, Zenon DEF Linked
    <3> QED BY <2>0, <2>3, <2>5, <3>2, <3>4, <3>5, Zenon DEF Linked
  <2> QED BY <2>6, <2>7
<1>8. CASE CommitAsyncFails
  BY <1>8, <1>i, Zenon DEF CommitAsyncFails, NoRefusedJob, Control
<1>9. CASE CommitSync
  <2>1. Lands(pend) /\ resident /\ pc = "plan" /\ pc' = "sync" /\ pending' = pending
        /\ pending = << >>
    BY <1>9, <1>i, SyncLands DEF CommitSync, BurstReady, Control
  <2>2. pend.base = mem.tail
    BY <1>i, <2>1, Zenon DEF Linked, Planning
  <2>3. \A k \in 1..Len(hist') : 0..(hist'[k].tail - 1) \subseteq DOMAIN hist'[k].recs
    BY <1>i, <2>1, <2>2, LandsDense, Zenon DEF Linked
  <2> QED BY <1>n, <2>1, <2>3, Zenon DEF Linked
<1>10. CASE CommitSyncDone
  <2>0. pc = "sync" /\ Len(waiters) = 1 /\ waiters \in Seq(Waiters) /\ pending = << >>
    BY <1>10, <1>i, QueueType DEF CommitSyncDone, Control
  <2>1. Head(waiters) = waiters[1]
    BY <2>0, HeadOfOne, ZenonT(30)
  <2>2. w'.tail = waiters[1].p.tail /\ hist' = hist /\ pending' = pending
    BY <1>10, <2>1 DEF CommitSyncDone, applyWriter
  <2>3. mem.tail = w'.tail
    BY <1>i, <2>0, <2>2 DEF Views
  <2> QED BY <1>2, <2>0, <2>2, <2>3, Zenon
<1>11. CASE Retire
  BY <1>2, <1>11 DEF Retire
<1>12. CASE Crash
  <2>1. pending' = << >> /\ ~resident'
    BY <1>12 DEF Crash
  <2>2. PICK k \in dur..Len(hist) : hist' = SubSeq(hist, 1, k)
    BY <1>12 DEF Crash
  <2>3. \A i \in 1..Len(hist') : i \in 1..Len(hist) /\ hist'[i] = hist[i]
    BY <1>b, <2>2
  <2> QED BY <1>n, <2>1, <2>3, Zenon DEF Linked
<1>13. CASE Fire \/ Persist \/ UNCHANGED vars \/ \E c \in Clients, r \in Requests : Submit(c, r)
  <2>1. UNCHANGED <<hist, pending, w, resident, pc>>
    BY <1>13, Zenon DEF Fire, Persist, vars, Submit
  <2> QED BY <1>1, <2>1
<1> QED BY <1>3, <1>4, <1>5, <1>6, <1>7, <1>8, <1>9, <1>10, <1>11, <1>12, <1>13, Zenon DEF Next

\* Every offset below a store's tail holds a record: in sync mode whatever the store
\* refuses, in notifier mode as long as it refuses nothing (commit.go failJob leaves
\* the writer's view ahead of a refused burst).
THEOREM LogHasNoHoles ==
  ASSUME NoRefusedJob
  PROVE  Spec => []DenseLog
<1>1. Init => Linked
  <2> SUFFICES ASSUME Init PROVE Linked
    OBVIOUS
  <2>1. Len(hist) = 1 /\ hist[1] = EmptyStore /\ ~resident /\ pending = << >>
    BY DEF Init
  <2>2. EmptyStore.tail = 0 /\ 0..(0 - 1) = {} /\ 1..(Len(<< >>) - 1) = {}
    BY DEF EmptyStore
  <2>3. \A k \in 1..1 : k = 1
    OBVIOUS
  <2> QED BY <2>1, <2>2, <2>3, Zenon DEF Linked
<1>2. IInv /\ Linked => DenseLog
  <2> SUFFICES ASSUME IInv, Linked, NEW k \in 1..Len(hist)
               PROVE  DOMAIN hist[k].recs = 0..(hist[k].tail - 1)
    BY DEF DenseLog
  <2>1. DOMAIN hist[k].recs \subseteq 0..(hist[k].tail - 1)
    BY Zenon DEF IInv, Growing
  <2>2. 0..(hist[k].tail - 1) \subseteq DOMAIN hist[k].recs
    BY Zenon DEF Linked
  <2> QED BY <2>1, <2>2, Zenon
<1>3. IInv /\ RInv /\ Linked /\ [Next]_vars => Linked'
  BY LinkedStep
<1> QED BY <1>1, <1>2, <1>3, RInductive, PTL DEF Spec

-----------------------------------------------------------------------------
(* Producers' headers and Stream-Seq order the log. *)

\* Both are positions an append claims in a session of its own: a producer's, or
\* the one of Stream-Seq.
Labels == ({"producer"} \X Pids) \cup ({"seq"} \X {None})

\* Request r claims a position under label l, and which.
HasMark(r, l) == IF l[1] = "seq" THEN r.sseq # None ELSE r.prod # None /\ r.prod.id = l[2]
Mark(r, l) == IF l[1] = "seq" THEN <<r.sseq, 0>> ELSE <<r.prod.epoch, r.prod.seq>>

\* The position a store, a pending burst or the writer's view has reached; the
\* latter two may have none.
HasState(x, l) == IF l[1] = "seq" THEN x.wseq # None ELSE x.prods[l[2]] # None
StateMark(ps) == IF ps.exists THEN <<ps.epoch, ps.lastSeq>> ELSE <<-1, 0>>
MarkOf(x, l) == IF l[1] = "seq" THEN <<x.wseq, 0>> ELSE StateMark(x.prods[l[2]])

Less(a, b) == a[1] < b[1] \/ (a[1] = b[1] /\ a[2] < b[2])
AtMost(a, b) == a = b \/ Less(a, b)

\* Of two records that claim a position the later claims the larger one, or they
\* belong to one append.
Ascending(f, l) ==
  \A i, j \in DOMAIN f :
    i < j /\ HasMark(f[i][1], l) /\ HasMark(f[j][1], l) =>
      \/ Less(Mark(f[i][1], l), Mark(f[j][1], l))
      \/ f[i][1] = f[j][1] /\ f[i][2] < f[j][2]

\* x has reached every position its records claim.
Reached(x, l) ==
  \A i \in DOMAIN x.recs : HasMark(x.recs[i][1], l) =>
    HasState(x, l) /\ AtMost(Mark(x.recs[i][1], l), MarkOf(x, l))

Sorted(x) == \A l \in Labels : Ascending(x.recs, l) /\ Reached(x, l)

\* Burst p moves on from position m.
Follows(p, m, l) ==
  /\ Less(m, MarkOf(p, l))
  /\ \A i \in DOMAIN p.recs : HasMark(p.recs[i][1], l) => Less(m, Mark(p.recs[i][1], l))

SortedStore == \A k \in 1..Len(hist) : Sorted(hist[k])

\* Queued bursts move on from the store and from one another, up to the writer's view.
SortedQueue ==
  /\ \A i \in 1..Len(pending) :
       /\ Sorted(pending[i].p)
       /\ \A l \in Labels : HasState(pending[i].p, l) =>
            /\ Follows(pending[i].p, MarkOf(mem, l), l)
            /\ HasState(w, l) /\ AtMost(MarkOf(pending[i].p, l), MarkOf(w, l))
  /\ \A i, j \in 1..Len(pending) : i < j =>
       \A l \in Labels : HasState(pending[i].p, l) /\ HasState(pending[j].p, l) =>
         Follows(pending[j].p, MarkOf(pending[i].p, l), l)

\* What the writer's view knows is not behind the store, and a burst being planned
\* moves on from it.
SortedView ==
  /\ resident /\ pc # "sync" =>
       \A l \in Labels : HasState(w, l) => AtMost(MarkOf(mem, l), MarkOf(w, l))
  /\ pc = "plan" =>
       /\ Sorted(pend)
       /\ \A l \in Labels : HasState(pend, l) => HasState(w, l) /\ Follows(pend, MarkOf(w, l), l)
  /\ pc = "sync" =>
       \A l \in Labels :
         IF HasState(waiters[1].p, l)
           THEN MarkOf(mem, l) = MarkOf(waiters[1].p, l)
           ELSE HasState(w, l) => AtMost(MarkOf(mem, l), MarkOf(w, l))

OInv == SortedStore /\ SortedQueue /\ SortedView

Pairs == Int \X Int

LEMMA OnlyOne == \A k \in 1..1 : k = 1
  OBVIOUS

LEMMA LessDiffers == \A a, b \in Int : a < b => a # b /\ b # a
  OBVIOUS

LEMMA LessTrans ==
  ASSUME NEW a \in Pairs, NEW b \in Pairs, NEW c \in Pairs
  PROVE  /\ ~Less(a, a)
         /\ Less(a, b) /\ Less(b, c) => Less(a, c)
         /\ AtMost(a, b) /\ Less(b, c) => Less(a, c)
         /\ Less(a, b) /\ AtMost(b, c) => Less(a, c)
         /\ AtMost(a, b) /\ AtMost(b, c) => AtMost(a, c)
BY DEF Pairs, Less, AtMost

LEMMA LabelKinds ==
  ASSUME NEW l \in Labels
  PROVE  \/ l[1] = "seq"
         \/ l[1] = "producer" /\ l[1] # "seq" /\ l[2] \in Pids
BY DEF Labels

\* Positions are pairs of integers.
LEMMA RequestMark ==
  ASSUME NEW r \in Requests, NEW l \in Labels, HasMark(r, l)
  PROVE  Mark(r, l) \in Pairs
BY RequestType, LabelKinds DEF HasMark, Mark, Pairs, U

LEMMA StateMarkType ==
  ASSUME NEW ps \in ProducerStates
  PROVE  StateMark(ps) \in Pairs
BY MaxUAssumption DEF StateMark, ProducerStates, Pairs, U

\* The numbers of a producer state and of a request.
LEMMA StateInts == \A ps \in ProducerStates : ps.epoch \in Int /\ ps.lastSeq \in Int
BY MaxUAssumption DEF ProducerStates, U

LEMMA UInts == \A u \in U : u \in Int /\ u >= 0
BY MaxUAssumption DEF U

Overlays == [Pids -> ProducerStates \cup {None}]

LEMMA OverlayMark ==
  ASSUME NEW x, x.prods \in Overlays, x.wseq \in Nat \cup {None}, NEW l \in Labels,
         HasState(x, l)
  PROVE  MarkOf(x, l) \in Pairs
<1>1. CASE l[1] = "seq"
  BY <1>1 DEF HasState, MarkOf, Pairs
<1>2. CASE l[1] # "seq"
  <2>1. x.prods[l[2]] \in ProducerStates
    BY <1>2, LabelKinds DEF HasState, Overlays
  <2> QED BY <1>2, <2>1, StateMarkType DEF MarkOf
<1> QED BY <1>1, <1>2

\* A store has a position under every label.
LEMMA StoreMark ==
  ASSUME NEW s \in Stores, NEW l \in Labels
  PROVE  HasState(s, l) /\ MarkOf(s, l) \in Pairs
<1>0. s.prods \in [Pids -> ProducerStates] /\ s.wseq \in Nat
  BY Zenon DEF Stores
<1>1. CASE l[1] = "seq"
  BY <1>0, <1>1, NoneAssumption DEF HasState, MarkOf, Pairs
<1>2. CASE l[1] # "seq"
  <2>1. s.prods[l[2]] \in ProducerStates
    BY <1>0, <1>2, LabelKinds, Zenon
  <2> QED BY <1>2, <2>1, StateMarkType, NoneAssumption DEF MarkOf, HasState
<1> QED BY <1>1, <1>2

\* An accepted append moves on from the position it was checked against.
LEMMA AcceptMoves ==
  ASSUME NEW p, NEW r \in Requests, NEW ps \in ProducerStates, NEW ws \in Nat,
         planVerdict(p, r, ps, ws).acc
  PROVE  /\ r.prod # None => /\ validateProducer(ps, r.prod) = "accept"
                             /\ Less(StateMark(ps), <<r.prod.epoch, r.prod.seq>>)
         /\ r.sseq # None => Less(<<ws, 0>>, <<r.sseq, 0>>)
         /\ ~p.closed /\ (r.n = 0 \/ r.ctOk)
<1>0. r.n \in Nat /\ (r.sseq # None => r.sseq \in Nat)
      /\ (r.prod # None => r.prod.epoch \in U /\ r.prod.seq \in U)
  BY RequestType, ZenonT(30)
<1>1. /\ ~p.closed /\ ~(r.n > 0 /\ ~r.ctOk)
      /\ ~(r.prod # None /\ validateProducer(ps, r.prod) # "accept")
      /\ ~(r.sseq # None /\ r.sseq <= ws)
  BY DEF planVerdict, planAppendClosed, Verdict
<1>2. ASSUME r.prod # None PROVE Less(StateMark(ps), <<r.prod.epoch, r.prod.seq>>)
  <2>1. validateProducer(ps, r.prod) = "accept"
    BY <1>1, <1>2, Zenon
  <2>2. ps.exists => \/ r.prod.epoch > ps.epoch
                     \/ ~(r.prod.epoch < ps.epoch) /\ ~(r.prod.epoch > ps.epoch)
                        /\ ~(r.prod.seq <= ps.lastSeq)
    BY <2>1 DEF validateProducer
  <2>3. ps.epoch \in Int /\ ps.lastSeq \in Int /\ r.prod.epoch \in Int /\ r.prod.seq \in Int
        /\ r.prod.epoch >= 0
    <3>1. r.prod.epoch \in U /\ r.prod.seq \in U
      BY <1>0, <1>2, Zenon
    <3>2. ps.epoch \in Int /\ ps.lastSeq \in Int
      BY StateInts, Zenon
    <3> QED BY <3>1, <3>2, UInts, Zenon
  <2> QED BY <2>2, <2>3 DEF StateMark, Less
<1>3. r.sseq # None => Less(<<ws, 0>>, <<r.sseq, 0>>)
  BY <1>0, <1>1 DEF Less
<1> QED BY <1>0, <1>1, <1>2, <1>3

\* Claims and positions under the two kinds of label.
LEMMA SeqLabel ==
  ASSUME NEW l, l[1] = "seq"
  PROVE  /\ \A r : (HasMark(r, l) <=> r.sseq # None) /\ Mark(r, l) = <<r.sseq, 0>>
         /\ \A x : (HasState(x, l) <=> x.wseq # None) /\ MarkOf(x, l) = <<x.wseq, 0>>
BY Zenon DEF HasMark, Mark, HasState, MarkOf

LEMMA ProducerLabel ==
  ASSUME NEW l, l[1] # "seq"
  PROVE  /\ \A r : /\ HasMark(r, l) <=> r.prod # None /\ r.prod.id = l[2]
                   /\ Mark(r, l) = <<r.prod.epoch, r.prod.seq>>
         /\ \A x : /\ HasState(x, l) <=> x.prods[l[2]] # None
                   /\ MarkOf(x, l) = StateMark(x.prods[l[2]])
<1>1. \A r : HasMark(r, l) <=> r.prod # None /\ r.prod.id = l[2]
  BY Zenon DEF HasMark
<1>2. \A r : Mark(r, l) = <<r.prod.epoch, r.prod.seq>>
  BY Zenon DEF Mark
<1>3. \A x : HasState(x, l) <=> x.prods[l[2]] # None
  BY Zenon DEF HasState
<1>4. \A x : MarkOf(x, l) = StateMark(x.prods[l[2]])
  BY Zenon DEF MarkOf
<1> QED BY <1>1, <1>2, <1>3, <1>4, Zenon

\* The parts of a burst after an append, and of a store after a batch.
LEMMA EffectsFields ==
  ASSUME NEW p, NEW r
  PROVE  LET n == planEffects(p, r) IN
         /\ n.wseq = IF r.sseq # None THEN r.sseq ELSE p.wseq
         /\ \A q \in Pids : n.prods[q] = IF r.prod # None /\ r.prod.id = q THEN newState(r.prod)
                                                                        ELSE p.prods[q]
         /\ n.metaChanged = (p.metaChanged \/ r.close)
         /\ n.recs = p.recs \o Payloads(r)
<1>1. planEffects(p, r).wseq = IF r.sseq # None THEN r.sseq ELSE p.wseq
  BY ZenonT(30) DEF planEffects
<1>2. \A q \in Pids : planEffects(p, r).prods[q] =
                       IF r.prod # None /\ r.prod.id = q THEN newState(r.prod) ELSE p.prods[q]
  BY ZenonT(30) DEF planEffects
<1>3. planEffects(p, r).metaChanged = (p.metaChanged \/ r.close)
  BY ZenonT(30) DEF planEffects
<1>4. planEffects(p, r).recs = p.recs \o Payloads(r)
  BY ZenonT(30) DEF planEffects
<1> QED BY <1>1, <1>2, <1>3, <1>4, Zenon

LEMMA ApplyFields ==
  ASSUME NEW s, NEW p
  PROVE  LET t == applyOps(s, p) IN
         /\ DOMAIN t.recs = DOMAIN s.recs \cup p.base..(p.tail - 1)
         /\ \A q \in p.base..(p.tail - 1) : t.recs[q] = p.recs[q - p.base + 1]
         /\ \A q \in DOMAIN s.recs : q \notin p.base..(p.tail - 1) => t.recs[q] = s.recs[q]
         /\ t.wseq = IF p.wseq = None THEN s.wseq ELSE p.wseq
         /\ \A q \in Pids : t.prods[q] = IF p.prods[q] = None THEN s.prods[q] ELSE p.prods[q]
BY ZenonT(30) DEF applyOps

\* The positions a burst has reached after an append: the append's own, and the
\* others as before.
LEMMA EffectsMarks ==
  ASSUME NEW p \in Pends, NEW r \in Requests, NEW l \in Labels
  PROVE  LET n == planEffects(p, r) IN
         /\ HasMark(r, l) => HasState(n, l) /\ MarkOf(n, l) = Mark(r, l)
         /\ ~HasMark(r, l) => (HasState(n, l) <=> HasState(p, l)) /\ MarkOf(n, l) = MarkOf(p, l)
<1> DEFINE n == planEffects(p, r)
<1>1. n.wseq = IF r.sseq # None THEN r.sseq ELSE p.wseq
  BY EffectsFields, ZenonT(30)
<1>2. \A q \in Pids : n.prods[q] = IF r.prod # None /\ r.prod.id = q THEN newState(r.prod)
                                                                  ELSE p.prods[q]
  BY EffectsFields
<1>3. r.prod # None => newState(r.prod) \in ProducerStates
                       /\ StateMark(newState(r.prod)) = <<r.prod.epoch, r.prod.seq>>
  BY RequestType DEF newState, State, ProducerStates, StateMark
<1> HIDE DEF n
<1>4. CASE l[1] = "seq"
  <2>1. /\ HasMark(r, l) => n.wseq = r.sseq /\ r.sseq # None
        /\ ~HasMark(r, l) => n.wseq = p.wseq
    BY <1>1, <1>4, SeqLabel, Zenon
  <2> QED BY <1>4, <2>1, SeqLabel, Zenon DEF n
<1>5. CASE l[1] # "seq"
  <2>1. l[2] \in Pids
    BY <1>5, LabelKinds
  <2>2. CASE HasMark(r, l)
    <3>1. n.prods[l[2]] = newState(r.prod) /\ r.prod # None
      BY <1>2, <1>5, <2>1, <2>2, ProducerLabel, Zenon
    <3>2. newState(r.prod) # None
      BY <1>3, <3>1, NoneAssumption, Zenon
    <3> QED BY <1>3, <1>5, <2>2, <3>1, <3>2, ProducerLabel, Zenon DEF n
  <2>3. CASE ~HasMark(r, l)
    <3>1. n.prods[l[2]] = p.prods[l[2]]
      BY <1>2, <1>5, <2>1, <2>3, ProducerLabel, Zenon
    <3> QED BY <1>5, <2>3, <3>1, ProducerLabel, Zenon DEF n
  <2> QED BY <2>2, <2>3
<1> QED BY <1>4, <1>5, Zenon DEF n

LEMMA PendMark ==
  ASSUME NEW p \in Pends, NEW l \in Labels, HasState(p, l)
  PROVE  MarkOf(p, l) \in Pairs
<1>1. p.prods \in Overlays /\ p.wseq \in Nat \cup {None}
  BY Zenon DEF Pends, Overlays
<1> QED BY <1>1, OverlayMark, Zenon

\* The records of a burst, before and after an append.
LEMMA EffectsRecs ==
  ASSUME NEW p \in Pends, NEW r \in Requests
  PROVE  LET n == planEffects(p, r) IN
         /\ DOMAIN p.recs = 1..Len(p.recs) /\ Len(p.recs) \in Nat /\ r.n \in Nat
         /\ DOMAIN n.recs = 1..(Len(p.recs) + r.n)
         /\ \A i \in 1..Len(p.recs) : n.recs[i] = p.recs[i]
         /\ \A i \in 1..r.n : n.recs[Len(p.recs) + i] = <<r, i>>
<1>1. p.recs \in Seq(Records) /\ Payloads(r) \in Seq(Records) /\ Len(Payloads(r)) = r.n
      /\ (\A i \in 1..r.n : Payloads(r)[i] = <<r, i>>) /\ r.n \in Nat
  BY PayloadType, RequestType, Zenon DEF Pends
<1>2. planEffects(p, r).recs = p.recs \o Payloads(r)
  BY EffectsFields
<1>3. \A a, b \in Seq(Records) : /\ DOMAIN a = 1..Len(a) /\ Len(a) \in Nat
                                 /\ DOMAIN (a \o b) = 1..(Len(a) + Len(b))
                                 /\ \A i \in 1..Len(a) : (a \o b)[i] = a[i]
                                 /\ \A i \in 1..Len(b) : (a \o b)[Len(a) + i] = b[i]
  OBVIOUS
<1>4. /\ DOMAIN p.recs = 1..Len(p.recs) /\ Len(p.recs) \in Nat
      /\ DOMAIN (p.recs \o Payloads(r)) = 1..(Len(p.recs) + Len(Payloads(r)))
      /\ \A i \in 1..Len(p.recs) : (p.recs \o Payloads(r))[i] = p.recs[i]
      /\ \A i \in 1..Len(Payloads(r)) :
           (p.recs \o Payloads(r))[Len(p.recs) + i] = Payloads(r)[i]
  BY <1>1, <1>3, Zenon
<1> QED BY <1>1, <1>2, <1>4, Zenon

\* Records f put behind those of x, at positions beyond the ones x has reached.
LEMMA JoinSorted ==
  ASSUME NEW x, NEW z, NEW f, NEW off \in Int, NEW l \in Labels,
         DOMAIN x.recs \subseteq Int, DOMAIN z.recs \subseteq Int, DOMAIN f \subseteq Int,
         \A i \in DOMAIN x.recs : x.recs[i][1] \in Requests,
         \A i \in DOMAIN f : f[i][1] \in Requests,
         HasState(x, l) => MarkOf(x, l) \in Pairs,
         HasState(z, l) => MarkOf(z, l) \in Pairs,
         Ascending(x.recs, l), Reached(x, l), Ascending(f, l),
         \A i \in DOMAIN z.recs :
           \/ i \in DOMAIN x.recs /\ i <= off /\ z.recs[i] = x.recs[i]
           \/ off < i /\ i - off \in DOMAIN f /\ z.recs[i] = f[i - off],
         HasState(x, l) => HasState(z, l) /\ AtMost(MarkOf(x, l), MarkOf(z, l)),
         \A m \in DOMAIN f : HasMark(f[m][1], l) =>
           /\ HasState(z, l) /\ AtMost(Mark(f[m][1], l), MarkOf(z, l))
           /\ HasState(x, l) => Less(MarkOf(x, l), Mark(f[m][1], l))
  PROVE  Ascending(z.recs, l) /\ Reached(z, l)
<1> DEFINE Old(i) == i \in DOMAIN x.recs /\ i <= off /\ z.recs[i] = x.recs[i]
           New(i) == off < i /\ i - off \in DOMAIN f /\ z.recs[i] = f[i - off]
<1>1. \A i \in DOMAIN z.recs : Old(i) \/ New(i)
  OBVIOUS
<1>2. ASSUME NEW i \in DOMAIN z.recs, Old(i), HasMark(z.recs[i][1], l)
      PROVE  /\ HasState(x, l) /\ AtMost(Mark(z.recs[i][1], l), MarkOf(x, l))
             /\ Mark(z.recs[i][1], l) \in Pairs
  BY <1>2, RequestMark, Zenon DEF Reached
<1>3. ASSUME NEW i \in DOMAIN z.recs, New(i), HasMark(z.recs[i][1], l)
      PROVE  /\ HasState(z, l) /\ AtMost(Mark(z.recs[i][1], l), MarkOf(z, l))
             /\ HasState(x, l) => Less(MarkOf(x, l), Mark(z.recs[i][1], l))
             /\ Mark(z.recs[i][1], l) \in Pairs
  BY <1>3, RequestMark, Zenon
<1>4. ASSUME NEW i \in DOMAIN z.recs, HasMark(z.recs[i][1], l)
      PROVE  HasState(z, l) /\ AtMost(Mark(z.recs[i][1], l), MarkOf(z, l))
  <2>1. CASE Old(i)
    <3>1. /\ HasState(x, l) /\ AtMost(Mark(z.recs[i][1], l), MarkOf(x, l))
          /\ Mark(z.recs[i][1], l) \in Pairs
      BY <1>2, <1>4, <2>1, Zenon
    <3> QED BY <3>1, LessTrans, Zenon
  <2>2. CASE New(i)
    BY <1>3, <1>4, <2>2, Zenon
  <2> QED BY <1>1, <2>1, <2>2, Zenon
<1>5. ASSUME NEW i \in DOMAIN z.recs, NEW j \in DOMAIN z.recs, i < j,
             HasMark(z.recs[i][1], l), HasMark(z.recs[j][1], l)
      PROVE  \/ Less(Mark(z.recs[i][1], l), Mark(z.recs[j][1], l))
             \/ z.recs[i][1] = z.recs[j][1] /\ z.recs[i][2] < z.recs[j][2]
  <2>0. i \in Int /\ j \in Int
    OBVIOUS
  <2>1. CASE Old(i) /\ Old(j)
    <3>1. /\ i \in DOMAIN x.recs /\ z.recs[i] = x.recs[i]
          /\ j \in DOMAIN x.recs /\ z.recs[j] = x.recs[j]
      BY <2>1, Zenon
    <3>2. HasMark(x.recs[i][1], l) /\ HasMark(x.recs[j][1], l)
      BY <1>5, <3>1, Zenon
    <3>3. \/ Less(Mark(x.recs[i][1], l), Mark(x.recs[j][1], l))
          \/ x.recs[i][1] = x.recs[j][1] /\ x.recs[i][2] < x.recs[j][2]
      BY <1>5, <3>1, <3>2, Zenon DEF Ascending
    <3> QED BY <3>1, <3>3, Zenon
  <2>2. CASE Old(i) /\ New(j)
    <3>1. /\ HasState(x, l) /\ AtMost(Mark(z.recs[i][1], l), MarkOf(x, l))
          /\ Mark(z.recs[i][1], l) \in Pairs
      BY <1>2, <1>5, <2>2, Zenon
    <3>2. Less(MarkOf(x, l), Mark(z.recs[j][1], l)) /\ Mark(z.recs[j][1], l) \in Pairs
      BY <1>3, <1>5, <2>2, <3>1, Zenon
    <3> QED BY <3>1, <3>2, LessTrans, Zenon
  <2>3. CASE New(i) /\ New(j)
    <3> DEFINE a == i - off
               b == j - off
    <3>1. a < b
      BY <1>5, <2>0, NotBetween, Zenon
    <3>2. /\ a \in DOMAIN f /\ z.recs[i] = f[a]
          /\ b \in DOMAIN f /\ z.recs[j] = f[b]
      BY <2>3, Zenon
    <3> HIDE DEF a, b
    <3>3. HasMark(f[a][1], l) /\ HasMark(f[b][1], l)
      BY <1>5, <3>2, Zenon
    <3>4. \/ Less(Mark(f[a][1], l), Mark(f[b][1], l))
          \/ f[a][1] = f[b][1] /\ f[a][2] < f[b][2]
      BY <3>1, <3>2, <3>3, Zenon DEF Ascending
    <3> QED BY <3>2, <3>4, ZenonT(30)
  <2>4. ~(New(i) /\ Old(j))
    <3>1. ~(off < i /\ j <= off)
      BY <1>5, <2>0, NotBetween, Zenon
    <3> QED BY <3>1, ZenonT(30)
  <2> QED BY <1>1, <2>1, <2>2, <2>3, <2>4, ZenonT(30)
<1>6. Ascending(z.recs, l)
  BY <1>5, Zenon DEF Ascending
<1>7. Reached(z, l)
  BY <1>4, Zenon DEF Reached
<1> QED BY <1>6, <1>7, ZenonT(30)

\* The records of a burst carry requests.
LEMMA BurstRecords ==
  ASSUME NEW p \in Pends
  PROVE  /\ DOMAIN p.recs = 1..Len(p.recs) /\ Len(p.recs) \in Nat /\ DOMAIN p.recs \subseteq Int
         /\ \A i \in DOMAIN p.recs : p.recs[i][1] \in Requests
<1>1. p.recs \in Seq(Records)
  BY Zenon DEF Pends
<1>2. \A f \in Seq(Records) : /\ DOMAIN f = 1..Len(f) /\ Len(f) \in Nat /\ DOMAIN f \subseteq Int
                              /\ \A i \in DOMAIN f : f[i] \in Records
  OBVIOUS
<1>3. \A x \in Records : x[1] \in Requests
  BY DEF Records
<1> QED BY <1>1, <1>2, <1>3, Zenon

LEMMA StoreRecords ==
  ASSUME NEW s \in Stores
  PROVE  /\ DOMAIN s.recs \subseteq Int
         /\ \A i \in DOMAIN s.recs : s.recs[i][1] \in Requests /\ s.recs[i][2] \in Int
<1>1. s.recs \in UNION {[D -> Records] : D \in SUBSET Nat}
  BY Zenon DEF Stores
<1>2. PICK D \in SUBSET Nat : s.recs \in [D -> Records]
  BY <1>1, Zenon
<1>3. \A x \in Records : x[1] \in Requests /\ x[2] \in Int
  BY DEF Records
<1>4. DOMAIN s.recs \subseteq Nat /\ \A i \in DOMAIN s.recs : s.recs[i] \in Records
  BY <1>2, Zenon
<1> QED BY <1>3, <1>4

\* An append that moves on keeps its burst in order.
LEMMA PlanSorted ==
  ASSUME NEW p \in Pends, NEW r \in Requests, Sorted(p),
         \A l \in Labels : HasMark(r, l) /\ HasState(p, l) => Less(MarkOf(p, l), Mark(r, l))
  PROVE  Sorted(planEffects(p, r))
<1> DEFINE n == planEffects(p, r)
           f == [i \in 1..r.n |-> <<r, i>>]
<1> SUFFICES ASSUME NEW l \in Labels PROVE Ascending(n.recs, l) /\ Reached(n, l)
  BY Zenon DEF Sorted
<1>1. n \in Pends
  BY EffectsType
<1>2. /\ DOMAIN p.recs = 1..Len(p.recs) /\ Len(p.recs) \in Nat /\ r.n \in Nat
      /\ DOMAIN n.recs = 1..(Len(p.recs) + r.n)
      /\ \A i \in 1..Len(p.recs) : n.recs[i] = p.recs[i]
      /\ \A i \in 1..r.n : n.recs[Len(p.recs) + i] = <<r, i>>
  BY EffectsRecs, Zenon
<1>3. /\ HasMark(r, l) => HasState(n, l) /\ MarkOf(n, l) = Mark(r, l)
      /\ ~HasMark(r, l) => (HasState(n, l) <=> HasState(p, l)) /\ MarkOf(n, l) = MarkOf(p, l)
  BY EffectsMarks, Zenon
<1>4. DOMAIN f = 1..r.n /\ \A i \in DOMAIN f : f[i] = <<r, i>> /\ f[i][1] = r /\ f[i][2] = i
  OBVIOUS
<1>5. /\ DOMAIN p.recs \subseteq Int /\ DOMAIN n.recs \subseteq Int
      /\ \A i \in DOMAIN p.recs : p.recs[i][1] \in Requests
  BY <1>1, BurstRecords, Zenon
<1>6. /\ HasState(p, l) => MarkOf(p, l) \in Pairs
      /\ HasState(n, l) => MarkOf(n, l) \in Pairs
  BY <1>1, PendMark, ZenonT(30)
<1> HIDE DEF n, f
<1>7. DOMAIN f \subseteq Int /\ \A i \in DOMAIN f : f[i][1] \in Requests
  BY <1>2, <1>4
<1>8. Ascending(f, l)
  <2>1. ASSUME NEW i \in DOMAIN f, NEW j \in DOMAIN f, i < j
        PROVE  f[i][1] = f[j][1] /\ f[i][2] < f[j][2]
    <3>1. f[i][1] = r /\ f[i][2] = i /\ f[j][1] = r /\ f[j][2] = j
      BY <1>4, Zenon
    <3> QED BY <2>1, <3>1, Zenon
  <2> QED BY <2>1, Zenon DEF Ascending
<1>9. \A i \in DOMAIN n.recs :
        \/ i \in DOMAIN p.recs /\ i <= Len(p.recs) /\ n.recs[i] = p.recs[i]
        \/ Len(p.recs) < i /\ i - Len(p.recs) \in DOMAIN f /\ n.recs[i] = f[i - Len(p.recs)]
  <2> SUFFICES ASSUME NEW i \in 1..(Len(p.recs) + r.n), ~(i \in 1..Len(p.recs))
               PROVE  /\ Len(p.recs) < i /\ i - Len(p.recs) \in DOMAIN f
                      /\ n.recs[i] = f[i - Len(p.recs)]
    BY <1>2
  <2>1. Len(p.recs) < i /\ i - Len(p.recs) \in 1..r.n /\ Len(p.recs) + (i - Len(p.recs)) = i
    BY <1>2, InSecondPart, Zenon
  <2>2. n.recs[Len(p.recs) + (i - Len(p.recs))] = <<r, i - Len(p.recs)>>
    BY <1>2, <2>1, Zenon
  <2> QED BY <1>4, <2>1, <2>2, ZenonT(30)
<1>10. HasState(p, l) => HasState(n, l) /\ AtMost(MarkOf(p, l), MarkOf(n, l))
  BY <1>3, Zenon DEF AtMost
<1>11. \A m \in DOMAIN f : HasMark(f[m][1], l) =>
         /\ HasState(n, l) /\ AtMost(Mark(f[m][1], l), MarkOf(n, l))
         /\ HasState(p, l) => Less(MarkOf(p, l), Mark(f[m][1], l))
  BY <1>3, <1>4, ZenonT(30) DEF AtMost
<1>12. Ascending(p.recs, l) /\ Reached(p, l) /\ Len(p.recs) \in Int
  BY <1>2 DEF Sorted
<1> QED BY <1>5, <1>6, <1>7, <1>8, <1>9, <1>10, <1>11, <1>12, JoinSorted, Zenon

\* The positions of the store after a batch: the batch's own, and the others as before.
LEMMA ApplyMarks ==
  ASSUME NEW s \in Stores, NEW p, NEW l \in Labels
  PROVE  MarkOf(applyOps(s, p), l) = IF HasState(p, l) THEN MarkOf(p, l) ELSE MarkOf(s, l)
<1>1. CASE l[1] = "seq"
  <2>1. applyOps(s, p).wseq = IF p.wseq = None THEN s.wseq ELSE p.wseq
    BY ApplyFields
  <2> QED BY <1>1, <2>1, SeqLabel, Zenon
<1>2. CASE l[1] # "seq"
  <2>1. l[2] \in Pids
    BY <1>2, LabelKinds, Zenon
  <2>2. applyOps(s, p).prods[l[2]] = IF p.prods[l[2]] = None THEN s.prods[l[2]] ELSE p.prods[l[2]]
    BY <2>1, ApplyFields
  <2> QED BY <1>2, <2>2, ProducerLabel, Zenon
<1> QED BY <1>1, <1>2

\* A batch that moves on from the store keeps the log in order.
LEMMA ApplySorted ==
  ASSUME NEW s \in Stores, Sorted(s), DOMAIN s.recs \subseteq 0..(s.tail - 1),
         NEW p \in Pends, Sorted(p), p.tail = p.base + Len(p.recs), s.tail <= p.base,
         \A l \in Labels : HasState(p, l) => Follows(p, MarkOf(s, l), l)
  PROVE  Sorted(applyOps(s, p))
<1> DEFINE t == applyOps(s, p)
<1> SUFFICES ASSUME NEW l \in Labels PROVE Ascending(t.recs, l) /\ Reached(t, l)
  BY Zenon DEF Sorted
<1>1. t \in Stores
  BY ApplyType, ZenonT(30)
<1>2. /\ DOMAIN t.recs = DOMAIN s.recs \cup p.base..(p.tail - 1)
      /\ \A q \in p.base..(p.tail - 1) : t.recs[q] = p.recs[q - p.base + 1]
      /\ \A q \in DOMAIN s.recs : q \notin p.base..(p.tail - 1) => t.recs[q] = s.recs[q]
  BY ApplyFields
<1>3. MarkOf(t, l) = IF HasState(p, l) THEN MarkOf(p, l) ELSE MarkOf(s, l)
  BY ApplyMarks, Zenon
<1> HIDE DEF t
<1>4. HasState(s, l) /\ MarkOf(s, l) \in Pairs /\ HasState(t, l) /\ MarkOf(t, l) \in Pairs
  BY <1>1, StoreMark, Zenon
<1>5. /\ DOMAIN s.recs \subseteq Int /\ DOMAIN t.recs \subseteq Int
      /\ \A i \in DOMAIN s.recs : s.recs[i][1] \in Requests
  BY <1>1, StoreRecords, Zenon
<1>6. /\ DOMAIN p.recs = 1..Len(p.recs) /\ Len(p.recs) \in Nat /\ DOMAIN p.recs \subseteq Int
      /\ \A i \in DOMAIN p.recs : p.recs[i][1] \in Requests
  BY BurstRecords, Zenon
<1>7. p.base \in Nat /\ p.tail \in Nat /\ s.tail \in Nat
  BY Zenon DEF Pends, Stores
<1>8. \A i \in DOMAIN t.recs :
        \/ i \in DOMAIN s.recs /\ i <= p.base - 1 /\ t.recs[i] = s.recs[i]
        \/ /\ p.base - 1 < i /\ i - (p.base - 1) \in DOMAIN p.recs
           /\ t.recs[i] = p.recs[i - (p.base - 1)]
  <2>1. ASSUME NEW i \in DOMAIN s.recs PROVE i <= p.base - 1 /\ t.recs[i] = s.recs[i]
    <3>1. i \in 0..(s.tail - 1)
      BY <2>1, ZenonT(30)
    <3>2. i <= p.base - 1 /\ i \notin p.base..(p.tail - 1)
      BY <1>7, <3>1, BelowBurst, Zenon
    <3> QED BY <1>2, <2>1, <3>2, Zenon
  <2>2. ASSUME NEW i \in p.base..(p.tail - 1)
        PROVE  /\ p.base - 1 < i /\ i - (p.base - 1) \in DOMAIN p.recs
               /\ t.recs[i] = p.recs[i - (p.base - 1)]
    <3>0. Len(p.recs) \in Nat
      BY <1>6, Zenon
    <3>1. p.base - 1 < i /\ i - (p.base - 1) \in 1..Len(p.recs) /\ i - (p.base - 1) = i - p.base + 1
      BY <1>7, <3>0, IntoBurst, ZenonT(30)
    <3> QED BY <1>2, <1>6, <3>1, ZenonT(30)
  <2> QED BY <1>2, <2>1, <2>2, Zenon
<1>9. AtMost(MarkOf(s, l), MarkOf(t, l))
  BY <1>3, Zenon DEF AtMost, Follows
<1>10. ASSUME NEW m \in DOMAIN p.recs, HasMark(p.recs[m][1], l)
       PROVE  /\ AtMost(Mark(p.recs[m][1], l), MarkOf(t, l))
              /\ Less(MarkOf(s, l), Mark(p.recs[m][1], l))
  <2>1. HasState(p, l) /\ AtMost(Mark(p.recs[m][1], l), MarkOf(p, l))
    BY <1>10, Zenon DEF Sorted, Reached
  <2>2. Follows(p, MarkOf(s, l), l)
    BY <2>1, ZenonT(30)
  <2> QED BY <1>3, <1>10, <2>1, <2>2, Zenon DEF Follows
<1>11. Ascending(s.recs, l) /\ Reached(s, l) /\ Ascending(p.recs, l) /\ p.base - 1 \in Int
  BY <1>7 DEF Sorted
<1> QED BY <1>4, <1>5, <1>6, <1>8, <1>9, <1>10, <1>11, JoinSorted, ZenonT(30)

\* A burst that moves on from b moves on from what is below.
LEMMA FollowsFrom ==
  ASSUME NEW a \in Pairs, NEW b \in Pairs, AtMost(a, b), NEW p \in Pends, NEW l \in Labels,
         HasState(p, l), Follows(p, b, l)
  PROVE  Follows(p, a, l)
<1>1. MarkOf(p, l) \in Pairs /\ Less(b, MarkOf(p, l))
  BY PendMark, Zenon DEF Follows
<1>2. ASSUME NEW i \in DOMAIN p.recs, HasMark(p.recs[i][1], l) PROVE Less(a, Mark(p.recs[i][1], l))
  <2>1. Mark(p.recs[i][1], l) \in Pairs /\ Less(b, Mark(p.recs[i][1], l))
    BY <1>2, BurstRecords, RequestMark, Zenon DEF Follows
  <2> QED BY <2>1, LessTrans, Zenon
<1>3. Less(a, MarkOf(p, l))
  BY <1>1, LessTrans, Zenon
<1> QED BY <1>2, <1>3, Zenon DEF Follows

\* The writer's view after a burst is published to it.
LEMMA WriterMarks ==
  ASSUME NEW p, applyWriter(p), NEW l \in Labels
  PROVE  /\ HasState(w', l) <=> HasState(w, l) \/ HasState(p, l)
         /\ MarkOf(w', l) = IF HasState(p, l) THEN MarkOf(p, l) ELSE MarkOf(w, l)
<1>0. /\ w'.wseq = IF p.wseq = None THEN w.wseq ELSE p.wseq
      /\ \A q \in Pids : w'.prods[q] = IF p.prods[q] = None THEN w.prods[q] ELSE p.prods[q]
  BY DEF applyWriter
<1>1. CASE l[1] = "seq"
  <2>1. /\ p.wseq = None => w'.wseq = w.wseq
        /\ p.wseq # None => w'.wseq = p.wseq
    BY <1>0, Zenon
  <2> QED BY <1>1, <2>1, SeqLabel, Zenon
<1>2. CASE l[1] # "seq"
  <2>1. l[2] \in Pids
    BY <1>2, LabelKinds, Zenon
  <2>2. /\ p.prods[l[2]] = None => w'.prods[l[2]] = w.prods[l[2]]
        /\ p.prods[l[2]] # None => w'.prods[l[2]] = p.prods[l[2]]
    BY <1>0, <2>1, Zenon
  <2> QED BY <1>2, <2>2, ProducerLabel, Zenon
<1> QED BY <1>1, <1>2, ZenonT(30)

\* Positions of the writer's view.
LEMMA ViewMark ==
  ASSUME TypeOK, NEW l \in Labels, HasState(w, l)
  PROVE  MarkOf(w, l) \in Pairs
<1>1. w.prods \in Overlays /\ w.wseq \in Nat \cup {None}
  BY Zenon DEF TypeOK, Overlays
<1> QED BY <1>1, OverlayMark, Zenon

\* What planning r behind burst p caches in the writer's view.
Loads(p, r, ps, ws) ==
  /\ \A q \in Pids : w'.prods[q] = IF ConsultsProducer(p, r) /\ r.prod.id = q
                                     THEN ps ELSE w.prods[q]
  /\ w'.wseq = IF ConsultsWriterSeq(p, r, ps) THEN ws ELSE w.wseq

\* Planning keeps what the writer's view knows, and adds to it what the store holds.
LEMMA ViewLoads ==
  ASSUME ~GetMayFail, NEW p, NEW r,
         NEW ps \in effProducer(p, r), NEW ws \in effWriterSeq(p), Loads(p, r, ps, ws),
         NEW l \in Labels
  PROVE  /\ HasState(w, l) => HasState(w', l) /\ MarkOf(w', l) = MarkOf(w, l)
         /\ HasState(w', l) /\ ~HasState(w, l) => MarkOf(w', l) = MarkOf(mem, l)
<1>1. CASE l[1] = "seq"
  <2>1. ConsultsWriterSeq(p, r, ps) => p.wseq = None
    BY DEF ConsultsWriterSeq
  <2>2. p.wseq = None => ws = IF w.wseq # None THEN w.wseq ELSE mem.wseq
    BY DEF effWriterSeq
  <2>3. w'.wseq = w.wseq \/ (w.wseq = None /\ w'.wseq = mem.wseq)
    BY <2>1, <2>2, Zenon DEF Loads
  <2> QED BY <1>1, <2>3, SeqLabel, ZenonT(30)
<1>2. CASE l[1] # "seq"
  <2>1. l[2] \in Pids
    BY <1>2, LabelKinds, ZenonT(30)
  <2>2. ConsultsProducer(p, r) =>
          ps = IF w.prods[r.prod.id] # None THEN w.prods[r.prod.id] ELSE mem.prods[r.prod.id]
    BY DEF ConsultsProducer, effProducer, loadProducer
  <2>3. \/ w'.prods[l[2]] = w.prods[l[2]]
        \/ w.prods[l[2]] = None /\ w'.prods[l[2]] = mem.prods[l[2]]
    BY <2>1, <2>2, Zenon DEF Loads
  <2> QED BY <1>2, <2>3, ProducerLabel, Zenon
<1> QED BY <1>1, <1>2

\* An accepted append moves on from its burst or, where the burst has no position
\* yet, from the writer's view.
LEMMA PlanMoves ==
  ASSUME TypeOK, NEW p \in Pends, NEW r \in Requests,
         NEW ps \in effProducer(p, r), NEW ws \in effWriterSeq(p), Loads(p, r, ps, ws),
         planVerdict(p, r, ps, ws).acc,
         NEW l \in Labels, HasMark(r, l)
  PROVE  /\ HasState(p, l) => Less(MarkOf(p, l), Mark(r, l))
         /\ ~HasState(p, l) => HasState(w', l) /\ Less(MarkOf(w', l), Mark(r, l))
<1>1. ps \in ProducerStates /\ ws \in Nat
  BY LoadType, Zenon
<1>2. /\ r.prod # None => /\ validateProducer(ps, r.prod) = "accept"
                          /\ Less(StateMark(ps), <<r.prod.epoch, r.prod.seq>>)
      /\ r.sseq # None => Less(<<ws, 0>>, <<r.sseq, 0>>)
      /\ ~p.closed /\ (r.n = 0 \/ r.ctOk)
  BY <1>1, AcceptMoves, Zenon
<1>3. ps # None /\ ws # None
  BY <1>1, NoneAssumption, ZenonT(30)
<1>4. CASE l[1] = "seq"
  <2>1. r.sseq # None /\ Mark(r, l) = <<r.sseq, 0>>
    BY <1>4, SeqLabel, Zenon
  <2>2. CASE p.wseq # None
    <3>1. ws = p.wseq
      BY <2>2 DEF effWriterSeq
    <3> QED BY <1>2, <1>4, <2>1, <2>2, <3>1, SeqLabel, ZenonT(30)
  <2>3. CASE p.wseq = None
    <3>1. ConsultsWriterSeq(p, r, ps)
      BY <1>2, <2>1, <2>3, Zenon DEF ConsultsWriterSeq
    <3>2. w'.wseq = ws
      BY <3>1, Zenon DEF Loads
    <3> QED BY <1>2, <1>3, <1>4, <2>1, <2>3, <3>2, SeqLabel, Zenon
  <2> QED BY <2>2, <2>3
<1>5. CASE l[1] # "seq"
  <2>1. r.prod # None /\ Mark(r, l) = <<r.prod.epoch, r.prod.seq>> /\ r.prod.id = l[2]
    BY <1>5, ProducerLabel, Zenon
  <2>2. CASE p.prods[l[2]] # None
    <3>1. ps = p.prods[l[2]]
      BY <2>1, <2>2 DEF effProducer
    <3> QED BY <1>2, <1>5, <2>1, <2>2, <3>1, ProducerLabel, ZenonT(30)
  <2>3. CASE p.prods[l[2]] = None
    <3>1. ConsultsProducer(p, r)
      BY <1>2, <2>1, <2>3, Zenon DEF ConsultsProducer
    <3>2. l[2] \in Pids
      BY <1>5, LabelKinds, Zenon
    <3>3. w'.prods[l[2]] = ps
      BY <2>1, <3>1, <3>2, Zenon DEF Loads
    <3> QED BY <1>2, <1>3, <1>5, <2>1, <2>3, <3>3, ProducerLabel, Zenon
  <2> QED BY <2>2, <2>3, ZenonT(30)
<1> QED BY <1>4, <1>5, Zenon

\* Planning one append, spelt out.
LEMMA PlanShape ==
  ASSUME TypeOK, Plan
  PROVE  \E p \in Pends, r \in Requests :
           /\ p = IF pc = "idle" THEN newPend ELSE pend
           /\ \E ps \in effProducer(p, r), ws \in effWriterSeq(p) :
                /\ pend' = IF planVerdict(p, r, ps, ws).acc THEN planEffects(p, r) ELSE p
                /\ Loads(p, r, ps, ws)
<1> DEFINE r == Head(reqs).req
           p == IF pc = "idle" THEN newPend ELSE pend
<1>1. reqs # << >> /\ reqs \in Seq([c : Clients, req : Requests])
  BY Zenon DEF Plan, TypeOK
<1>2. r \in Requests
  <2>1. Head(reqs) \in [c : Clients, req : Requests]
    BY <1>1, HeadTail, Zenon
  <2> QED BY <2>1
<1>3. p \in Pends
  BY NewPendType, Zenon DEF TypeOK
<1>4. \E ps \in effProducer(p, r), ws \in effWriterSeq(p) :
        /\ pend' = IF planVerdict(p, r, ps, ws).acc THEN planEffects(p, r) ELSE p
        /\ w' = [w EXCEPT !.prods = [q \in Pids |-> IF ConsultsProducer(p, r) /\ r.prod.id = q
                                                      THEN ps ELSE w.prods[q]],
                          !.wseq = IF ConsultsWriterSeq(p, r, ps) THEN ws ELSE w.wseq]
  BY Zenon DEF Plan
<1> HIDE DEF r, p
<1>5. PICK ps \in effProducer(p, r), ws \in effWriterSeq(p) :
        /\ pend' = IF planVerdict(p, r, ps, ws).acc THEN planEffects(p, r) ELSE p
        /\ w' = [w EXCEPT !.prods = [q \in Pids |-> IF ConsultsProducer(p, r) /\ r.prod.id = q
                                                      THEN ps ELSE w.prods[q]],
                          !.wseq = IF ConsultsWriterSeq(p, r, ps) THEN ws ELSE w.wseq]
  BY <1>4, Zenon
<1>6. Loads(p, r, ps, ws)
  <2> DEFINE F == [q \in Pids |-> IF ConsultsProducer(p, r) /\ r.prod.id = q
                                    THEN ps ELSE w.prods[q]]
             G == IF ConsultsWriterSeq(p, r, ps) THEN ws ELSE w.wseq
  <2>1. w' = [w EXCEPT !.prods = F, !.wseq = G]
    BY <1>5, Zenon
  <2>2. \A q \in Pids : F[q] = IF ConsultsProducer(p, r) /\ r.prod.id = q
                                 THEN ps ELSE w.prods[q]
    BY Zenon
  <2> HIDE DEF F, G
  <2>3. w'.prods = F /\ w'.wseq = G
    BY <2>1 DEF TypeOK
  <2> QED BY <2>2, <2>3, Zenon DEF Loads, G
<1>7. p = IF pc = "idle" THEN newPend ELSE pend
  BY DEF p
<1>8. \E a \in effProducer(p, r), b \in effWriterSeq(p) :
        /\ pend' = IF planVerdict(p, r, a, b).acc THEN planEffects(p, r) ELSE p
        /\ Loads(p, r, a, b)
  BY <1>5, <1>6, Zenon
<1> QED BY <1>2, <1>3, <1>7, <1>8, ZenonT(30)

\* An append that moves on from m, planned behind a burst that does, keeps it so.
LEMMA PlanFollows ==
  ASSUME NEW p \in Pends, NEW r \in Requests, NEW l \in Labels, NEW m, Sorted(p),
         HasState(p, l) => Follows(p, m, l),
         HasMark(r, l) => Less(m, Mark(r, l)),
         HasState(planEffects(p, r), l)
  PROVE  Follows(planEffects(p, r), m, l)
<1> DEFINE n == planEffects(p, r)
<1>1. /\ DOMAIN p.recs = 1..Len(p.recs) /\ Len(p.recs) \in Nat /\ r.n \in Nat
      /\ DOMAIN n.recs = 1..(Len(p.recs) + r.n)
      /\ \A i \in 1..Len(p.recs) : n.recs[i] = p.recs[i]
      /\ \A i \in 1..r.n : n.recs[Len(p.recs) + i] = <<r, i>>
  BY EffectsRecs, Zenon
<1>2. /\ HasMark(r, l) => HasState(n, l) /\ MarkOf(n, l) = Mark(r, l)
      /\ ~HasMark(r, l) => (HasState(n, l) <=> HasState(p, l)) /\ MarkOf(n, l) = MarkOf(p, l)
  BY EffectsMarks, Zenon
<1>3. HasState(n, l)
  OBVIOUS
<1> HIDE DEF n
<1>4. Less(m, MarkOf(n, l))
  BY <1>2, <1>3, ZenonT(30) DEF Follows
<1>5. ASSUME NEW i \in DOMAIN n.recs, HasMark(n.recs[i][1], l)
      PROVE  Less(m, Mark(n.recs[i][1], l))
  <2>1. CASE i \in 1..Len(p.recs)
    <3>1. n.recs[i] = p.recs[i] /\ i \in DOMAIN p.recs
      BY <1>1, <2>1, Zenon
    <3>2. HasState(p, l)
      BY <1>5, <3>1, Zenon DEF Sorted, Reached
    <3> QED BY <1>5, <3>1, <3>2, Zenon DEF Follows
  <2>2. CASE i \notin 1..Len(p.recs)
    <3>1. i - Len(p.recs) \in 1..r.n /\ Len(p.recs) + (i - Len(p.recs)) = i
      BY <1>1, <2>2
    <3>2. n.recs[i] = <<r, i - Len(p.recs)>>
      BY <1>1, <3>1, ZenonT(30)
    <3>3. n.recs[i][1] = r
      BY <3>2
    <3> QED BY <1>5, <3>3, ZenonT(30)
  <2> QED BY <2>1, <2>2
<1> QED BY <1>4, <1>5, Zenon DEF Follows, n

LEMMA PlanOrdered ==
  ASSUME ~GetMayFail, IInv, OInv, Plan, TypeOK'
  PROVE  OInv'
<1>i. TypeOK /\ SortedStore /\ SortedQueue /\ SortedView
  BY DEF IInv, OInv
<1>u. /\ resident /\ pc \in {"idle", "plan"} /\ pc' = "plan"
      /\ UNCHANGED <<resident, hist, pending, waiters>>
  BY Zenon DEF Plan
<1>m. mem' = mem
  BY <1>u DEF mem
<1>1. PICK p \in Pends, r \in Requests :
           /\ p = IF pc = "idle" THEN newPend ELSE pend
           /\ \E ps \in effProducer(p, r), ws \in effWriterSeq(p) :
                /\ pend' = IF planVerdict(p, r, ps, ws).acc THEN planEffects(p, r) ELSE p
                /\ Loads(p, r, ps, ws)
  BY <1>i, PlanShape, Zenon
<1>2. PICK ps \in effProducer(p, r), ws \in effWriterSeq(p) :
                /\ pend' = IF planVerdict(p, r, ps, ws).acc THEN planEffects(p, r) ELSE p
                /\ Loads(p, r, ps, ws)
  BY <1>1, Zenon
<1>3. /\ Sorted(p)
      /\ \A l \in Labels : HasState(p, l) => HasState(w, l) /\ Follows(p, MarkOf(w, l), l)
  <2>1. CASE pc = "idle"
    <3>1. p = newPend
      BY <1>1, <2>1, Zenon
    <3>2. \A l \in Labels : ~HasState(newPend, l)
      BY LabelKinds DEF newPend, HasState
    <3>3. DOMAIN newPend.recs = {}
      BY DEF newPend
    <3> QED BY <3>1, <3>2, <3>3, Zenon DEF Sorted, Ascending, Reached
  <2>2. CASE pc = "plan"
    <3>1. p = pend
      BY <1>1, <2>2
    <3> QED BY <1>i, <2>2, <3>1, Zenon DEF SortedView
  <2> QED BY <1>u, <2>1, <2>2, Zenon
<1>4. \A l \in Labels :
        /\ HasState(w, l) => HasState(w', l) /\ MarkOf(w', l) = MarkOf(w, l)
        /\ HasState(w', l) /\ ~HasState(w, l) => MarkOf(w', l) = MarkOf(mem, l)
  BY <1>i, <1>2, ViewLoads, Zenon
<1>5. SortedQueue'
  BY <1>i, <1>u, <1>m, <1>4, Zenon DEF SortedQueue
<1>6. SortedStore'
  BY <1>i, <1>u, Zenon DEF SortedStore
<1>7. \A l \in Labels : HasState(w', l) => AtMost(MarkOf(mem', l), MarkOf(w', l))
  <2>1. \A l \in Labels : HasState(w, l) => AtMost(MarkOf(mem, l), MarkOf(w, l))
    BY <1>i, <1>u, ZenonT(30) DEF SortedView
  <2> QED BY <1>m, <1>4, <2>1, Zenon DEF AtMost
<1>8. /\ Sorted(pend')
      /\ \A l \in Labels : HasState(pend', l) => HasState(w', l) /\ Follows(pend', MarkOf(w', l), l)
  <2>1. CASE ~planVerdict(p, r, ps, ws).acc
    <3>1. pend' = p
      BY <1>2, <2>1, Zenon
    <3> QED BY <1>3, <1>4, <3>1, Zenon
  <2>2. CASE planVerdict(p, r, ps, ws).acc
    <3>1. pend' = planEffects(p, r)
      BY <1>2, <2>2, Zenon
    <3>2. \A l \in Labels : HasMark(r, l) =>
            /\ HasState(p, l) => Less(MarkOf(p, l), Mark(r, l))
            /\ ~HasState(p, l) => HasState(w', l) /\ Less(MarkOf(w', l), Mark(r, l))
      BY <1>i, <1>2, <2>2, PlanMoves, Zenon
    <3>3. Sorted(planEffects(p, r))
      BY <1>3, <3>2, PlanSorted, Zenon
    <3>4. ASSUME NEW l \in Labels, HasState(planEffects(p, r), l)
          PROVE  HasState(w', l) /\ Follows(planEffects(p, r), MarkOf(w', l), l)
      <4>1. /\ HasMark(r, l) => MarkOf(planEffects(p, r), l) = Mark(r, l)
            /\ ~HasMark(r, l) => (HasState(planEffects(p, r), l) <=> HasState(p, l))
        BY EffectsMarks, Zenon
      <4>2. HasState(w', l)
        BY <1>3, <1>4, <3>2, <3>4, <4>1, Zenon
      <4>3. HasState(p, l) => Follows(p, MarkOf(w', l), l)
        BY <1>3, <1>4, Zenon
      <4>4. HasMark(r, l) => Less(MarkOf(w', l), Mark(r, l))
        <5>1. CASE HasMark(r, l) /\ HasState(p, l)
          <6>1. Less(MarkOf(w', l), MarkOf(p, l)) /\ Less(MarkOf(p, l), Mark(r, l))
            BY <3>2, <4>3, <5>1, Zenon DEF Follows
          <6>2. MarkOf(w', l) \in Pairs
            <7>1. w'.prods \in Overlays /\ w'.wseq \in Nat \cup {None}
              BY Zenon DEF TypeOK, Overlays
            <7> QED BY <4>2, <7>1, OverlayMark, Zenon
          <6>3. MarkOf(p, l) \in Pairs /\ Mark(r, l) \in Pairs
            BY <5>1, PendMark, RequestMark, Zenon
          <6> QED BY <6>1, <6>2, <6>3, LessTrans, Zenon
        <5> QED BY <3>2, <5>1, Zenon
      <4> QED BY <1>3, <3>4, <4>2, <4>3, <4>4, PlanFollows, Zenon
    <3> QED BY <3>1, <3>3, <3>4, Zenon
  <2> QED BY <2>1, <2>2
<1>9. SortedView'
  BY <1>u, <1>7, <1>8, Zenon DEF SortedView
<1> QED BY <1>5, <1>6, <1>9 DEF OInv

\* A batch that moves on from the store lands in order.
LEMMA LandsSorted ==
  ASSUME TypeOK, Growing, SortedStore, NEW p, Lands(p), Sorted(p),
         \A l \in Labels : HasState(p, l) => Follows(p, MarkOf(mem, l), l)
  PROVE  /\ SortedStore'
         /\ \A l \in Labels : MarkOf(mem', l) = IF HasState(p, l) THEN MarkOf(p, l) ELSE MarkOf(mem, l)
<1>1. /\ hist \in Seq(Stores) /\ mem \in Stores /\ Len(hist) \in Nat /\ Len(hist) \in 1..Len(hist)
  BY Basics
<1>2. /\ p \in Pends /\ p.tail = p.base + Len(p.recs) /\ mem.tail <= p.base
      /\ hist' = Append(hist, applyOps(mem, p))
  BY DEF Lands
<1> DEFINE s == applyOps(mem, p)
<1>3. s \in Stores
  BY <1>1, <1>2, ApplyType
<1>4. \A l \in Labels : MarkOf(s, l) = IF HasState(p, l) THEN MarkOf(p, l) ELSE MarkOf(mem, l)
  BY <1>1, ApplyMarks, Zenon
<1>5. DOMAIN mem.recs \subseteq 0..(mem.tail - 1)
  BY <1>1, Zenon DEF Growing, mem
<1>6. Sorted(mem)
  BY <1>1, Zenon DEF SortedStore, mem
<1>7. Sorted(s)
  BY <1>1, <1>2, <1>5, <1>6, ApplySorted, Zenon
<1>8. hist' = Append(hist, s)
  BY <1>2, Zenon
<1> HIDE DEF s
<1>9. /\ Len(hist') = Len(hist) + 1 /\ hist'[Len(hist) + 1] = s
      /\ \A k \in 1..Len(hist) : hist'[k] = hist[k]
  BY <1>1, <1>3, <1>8, AppendAt
<1>10. mem' = s
  BY <1>9, Zenon DEF mem
<1>11. \A k \in 1..Len(hist') : k = Len(hist) + 1 \/ k \in 1..Len(hist)
  BY <1>1, <1>9
<1>12. SortedStore'
  BY <1>7, <1>9, <1>11, Zenon DEF SortedStore
<1> QED BY <1>4, <1>10, <1>12, ZenonT(30)

\* The job at the head of the queue is taken.
LEMMA TakenOrdered ==
  ASSUME TypeOK, SortedQueue, pending # << >>, pending' = Tail(pending), w' = w,
         \A i \in 1..Len(pending), l \in Labels : 1 < i /\ HasState(pending[i].p, l) =>
           Follows(pending[i].p, MarkOf(mem', l), l)
  PROVE  SortedQueue'
<1>1. /\ Len(pending) \in Nat \ {0} /\ Len(Tail(pending)) = Len(pending) - 1
      /\ \A i \in 1..Len(Tail(pending)) : Tail(pending)[i] = pending[i + 1]
  BY QueueType, HeadTail, Zenon
<1>2. \A i \in 1..Len(pending') : /\ i + 1 \in 1..Len(pending) /\ 1 < i + 1 /\ i \in Int
                                  /\ i \in 1..Len(Tail(pending))
  BY <1>1
<1>3. \A i \in 1..Len(pending') : pending'[i] = pending[i + 1]
  BY <1>1, <1>2, Zenon
<1>4. \A i, j \in 1..Len(pending') : i < j => i + 1 < j + 1
  BY <1>2
<1>5. ASSUME NEW i \in 1..Len(pending')
      PROVE  /\ Sorted(pending'[i].p)
             /\ \A l \in Labels : HasState(pending'[i].p, l) =>
                  /\ Follows(pending'[i].p, MarkOf(mem', l), l)
                  /\ HasState(w', l) /\ AtMost(MarkOf(pending'[i].p, l), MarkOf(w', l))
  <2>1. pending'[i] = pending[i + 1] /\ i + 1 \in 1..Len(pending) /\ 1 < i + 1
    BY <1>2, <1>3, Zenon
  <2> QED BY <2>1, Zenon DEF SortedQueue
<1>6. ASSUME NEW i \in 1..Len(pending'), NEW j \in 1..Len(pending'), i < j, NEW l \in Labels,
             HasState(pending'[i].p, l), HasState(pending'[j].p, l)
      PROVE  Follows(pending'[j].p, MarkOf(pending'[i].p, l), l)
  <2>1. /\ pending'[i] = pending[i + 1] /\ i + 1 \in 1..Len(pending)
        /\ pending'[j] = pending[j + 1] /\ j + 1 \in 1..Len(pending) /\ i + 1 < j + 1
    BY <1>2, <1>3, <1>4, <1>6, Zenon
  <2> QED BY <1>6, <2>1, Zenon DEF SortedQueue
<1> QED BY <1>5, <1>6, Zenon DEF SortedQueue

LEMMA AsyncOrdered ==
  ASSUME IInv, RInv, OInv, CommitAsync
  PROVE  OInv'
<1>i. /\ TypeOK /\ Control /\ Growing /\ Frozen
      /\ SortedStore /\ SortedQueue /\ SortedView
  BY DEF IInv, RInv, OInv
<1>1. /\ pending # << >> /\ pending' = Tail(pending) /\ Lands(pending[1].p)
      /\ UNCHANGED <<resident, pc, pend, w>>
  BY AsyncLands, Zenon DEF CommitAsync
<1>2. resident /\ pc # "sync"
  BY <1>i, <1>1, ZenonT(30) DEF Control
<1>3. 1 \in 1..Len(pending)
  BY <1>i, <1>1, QueueType
<1> DEFINE p == pending[1].p
<1>4. /\ Sorted(p)
      /\ \A l \in Labels : HasState(p, l) =>
           /\ Follows(p, MarkOf(mem, l), l)
           /\ HasState(w, l) /\ AtMost(MarkOf(p, l), MarkOf(w, l))
  BY <1>i, <1>3, Zenon DEF SortedQueue
<1>5. /\ SortedStore'
      /\ \A l \in Labels : MarkOf(mem', l) = IF HasState(p, l) THEN MarkOf(p, l) ELSE MarkOf(mem, l)
  BY <1>i, <1>1, <1>4, LandsSorted, Zenon
<1>6. ASSUME NEW i \in 1..Len(pending), NEW l \in Labels, 1 < i, HasState(pending[i].p, l)
      PROVE  Follows(pending[i].p, MarkOf(mem', l), l)
  <2>1. CASE HasState(p, l)
    BY <1>i, <1>3, <1>5, <1>6, <2>1, Zenon DEF SortedQueue
  <2>2. CASE ~HasState(p, l)
    BY <1>i, <1>5, <1>6, <2>2, Zenon DEF SortedQueue
  <2> QED BY <2>1, <2>2
<1>7. SortedQueue'
  BY <1>i, <1>1, <1>6, TakenOrdered, Zenon
<1>8. \A l \in Labels : HasState(w, l) => AtMost(MarkOf(mem', l), MarkOf(w, l))
  BY <1>i, <1>2, <1>4, <1>5, Zenon DEF SortedView
<1>9. SortedView'
  BY <1>i, <1>1, <1>2, <1>8, Zenon DEF SortedView
<1> QED BY <1>5, <1>7, <1>9, ZenonT(30) DEF OInv

LEMMA AsyncFailsOrdered ==
  ASSUME IInv, OInv, CommitAsyncFails
  PROVE  OInv'
<1>i. TypeOK /\ Control /\ SortedStore /\ SortedQueue /\ SortedView
  BY DEF IInv, OInv
<1>1. /\ pending # << >> /\ pending' = Tail(pending)
      /\ UNCHANGED <<hist, resident, pc, pend, w, waiters>>
  BY Zenon DEF CommitAsyncFails
<1>2. mem' = mem
  BY <1>1 DEF mem
<1>3. \A i \in 1..Len(pending), l \in Labels : 1 < i /\ HasState(pending[i].p, l) =>
           Follows(pending[i].p, MarkOf(mem', l), l)
  BY <1>i, <1>2, Zenon DEF SortedQueue
<1>4. SortedQueue'
  BY <1>i, <1>1, <1>3, TakenOrdered, Zenon
<1>5. SortedStore' /\ SortedView'
  BY <1>i, <1>1, <1>2, Zenon DEF SortedStore, SortedView
<1> QED BY <1>4, <1>5 DEF OInv

LEMMA NotifierOrdered ==
  ASSUME IInv, OInv, CommitNotifier
  PROVE  OInv'
<1>i. TypeOK /\ Control /\ SortedStore /\ SortedQueue /\ SortedView
  BY DEF IInv, OInv
<1> DEFINE x == [p |-> pend, batch |-> batch]
<1>1. /\ resident /\ pc = "plan" /\ pc' = "idle" /\ hist' = hist /\ applyWriter(pend)
      /\ pending' = Append(pending, x)
  BY DEF CommitNotifier, BurstReady
<1>2. x \in Jobs /\ pend \in Pends /\ pending \in Seq(Jobs) /\ mem \in Stores
  BY <1>i, QueueType, HistType, ZenonT(30) DEF TypeOK, Jobs
<1>3. x.p = pend
  BY ZenonT(30)
<1> HIDE DEF x
<1>4. /\ Len(pending) \in Nat /\ Len(pending') = Len(pending) + 1
      /\ pending'[Len(pending) + 1] = x
      /\ \A i \in 1..Len(pending) : pending'[i] = pending[i]
  BY <1>1, <1>2, AppendAt
<1>5. mem' = mem
  BY <1>1 DEF mem
<1>6. /\ Sorted(pend)
      /\ \A l \in Labels : HasState(pend, l) => HasState(w, l) /\ Follows(pend, MarkOf(w, l), l)
      /\ \A l \in Labels : HasState(w, l) => AtMost(MarkOf(mem, l), MarkOf(w, l))
  BY <1>i, <1>1, Zenon DEF SortedView
<1>7. \A l \in Labels :
        /\ HasState(w', l) <=> HasState(w, l)
        /\ MarkOf(w', l) = IF HasState(pend, l) THEN MarkOf(pend, l) ELSE MarkOf(w, l)
  BY <1>1, <1>6, WriterMarks, Zenon
<1>8. \A l \in Labels : HasState(w, l) => MarkOf(w, l) \in Pairs
  BY <1>i, ViewMark, Zenon
<1>9. \A l \in Labels : /\ HasState(pend, l) => MarkOf(pend, l) \in Pairs
                        /\ MarkOf(mem, l) \in Pairs
  BY <1>2, PendMark, StoreMark, Zenon
<1>10. \A l \in Labels : HasState(w, l) => AtMost(MarkOf(w, l), MarkOf(w', l))
  BY <1>6, <1>7, Zenon DEF AtMost, Follows
<1>11. \A l \in Labels : HasState(w, l) => MarkOf(w', l) \in Pairs
  BY <1>7, <1>8, <1>9, Zenon
<1>12. \A i \in 1..Len(pending) : pending[i].p \in Pends
  <2>1. \A q \in Seq(Jobs) : \A i \in 1..Len(q) : q[i] \in Jobs
    OBVIOUS
  <2> QED BY <1>2, <2>1, Zenon DEF Jobs
<1>13. \A i \in 1..Len(pending') : i = Len(pending) + 1 \/ i \in 1..Len(pending)
  BY <1>4
<1>14. ASSUME NEW i \in 1..Len(pending')
       PROVE  /\ Sorted(pending'[i].p)
              /\ \A l \in Labels : HasState(pending'[i].p, l) =>
                   /\ Follows(pending'[i].p, MarkOf(mem', l), l)
                   /\ HasState(w', l) /\ AtMost(MarkOf(pending'[i].p, l), MarkOf(w', l))
  <2>1. CASE i = Len(pending) + 1
    <3>1. pending'[i].p = pend
      BY <1>3, <1>4, <2>1, Zenon
    <3>2. \A l \in Labels : HasState(pend, l) => Follows(pend, MarkOf(mem, l), l)
      BY <1>2, <1>6, <1>8, <1>9, FollowsFrom, ZenonT(30)
    <3> QED BY <1>5, <1>6, <1>7, <3>1, <3>2, Zenon DEF AtMost
  <2>2. CASE i \in 1..Len(pending)
    <3>1. pending'[i] = pending[i]
      BY <1>4, <2>2, Zenon
    <3>2. ASSUME NEW l \in Labels, HasState(pending[i].p, l)
          PROVE  HasState(w', l) /\ AtMost(MarkOf(pending[i].p, l), MarkOf(w', l))
      <4>1. HasState(w, l) /\ AtMost(MarkOf(pending[i].p, l), MarkOf(w, l))
        BY <1>i, <2>2, <3>2, Zenon DEF SortedQueue
      <4>2. MarkOf(pending[i].p, l) \in Pairs
        BY <1>12, <2>2, <3>2, PendMark, ZenonT(30)
      <4> QED BY <1>7, <1>8, <1>10, <1>11, <4>1, <4>2, LessTrans, ZenonT(30)
    <3> QED BY <1>i, <1>5, <2>2, <3>1, <3>2, ZenonT(30) DEF SortedQueue
  <2> QED BY <1>13, <2>1, <2>2, Zenon
<1>15. ASSUME NEW i \in 1..Len(pending'), NEW j \in 1..Len(pending'), i < j, NEW l \in Labels,
              HasState(pending'[i].p, l), HasState(pending'[j].p, l)
       PROVE  Follows(pending'[j].p, MarkOf(pending'[i].p, l), l)
  <2>0. i \in 1..Len(pending)
    BY <1>4, <1>15
  <2>1. pending'[i] = pending[i]
    BY <1>4, <2>0, Zenon
  <2>2. CASE j = Len(pending) + 1
    <3>1. pending'[j].p = pend
      BY <1>3, <1>4, <2>2, Zenon
    <3>2. HasState(w, l) /\ AtMost(MarkOf(pending[i].p, l), MarkOf(w, l))
      BY <1>i, <1>15, <2>0, <2>1, Zenon DEF SortedQueue
    <3>3. MarkOf(pending[i].p, l) \in Pairs
      BY <1>12, <1>15, <2>0, <2>1, PendMark, ZenonT(30)
    <3>4. HasState(pend, l) /\ Follows(pend, MarkOf(w, l), l)
      BY <1>6, <1>15, <3>1, Zenon
    <3>5. Follows(pend, MarkOf(pending[i].p, l), l)
      BY <1>2, <1>8, <3>2, <3>3, <3>4, FollowsFrom, ZenonT(30)
    <3> QED BY <2>1, <3>1, <3>5, Zenon
  <2>3. CASE j \in 1..Len(pending)
    <3>1. pending'[j] = pending[j]
      BY <1>4, <2>3, Zenon
    <3> QED BY <1>i, <1>15, <2>0, <2>1, <2>3, <3>1, ZenonT(30) DEF SortedQueue
  <2> QED BY <1>13, <2>2, <2>3, ZenonT(30)
<1>16. SortedQueue'
  BY <1>14, <1>15, Zenon DEF SortedQueue
<1>17. \A l \in Labels : HasState(w', l) => AtMost(MarkOf(mem', l), MarkOf(w', l))
  BY <1>5, <1>6, <1>7, <1>8, <1>9, <1>10, <1>11, LessTrans, ZenonT(30)
<1>18. SortedView' /\ SortedStore'
  BY <1>i, <1>1, <1>17, Zenon DEF SortedView, SortedStore
<1> QED BY <1>16, <1>18, ZenonT(30) DEF OInv

LEMMA SyncOrdered ==
  ASSUME IInv, RInv, OInv, CommitSync
  PROVE  OInv'
<1>i. /\ TypeOK /\ Control /\ Growing /\ Frozen
      /\ SortedStore /\ SortedQueue /\ SortedView
  BY DEF IInv, RInv, OInv
<1>1. /\ resident /\ pc = "plan" /\ pc' = "sync" /\ Lands(pend) /\ w' = w
      /\ pending = << >> /\ pending' = << >>
  BY <1>i, SyncLands, ZenonT(30) DEF CommitSync, BurstReady, Control
<1>2. waiters'[1].p = pend
  BY DEF CommitSync
<1>3. mem \in Stores /\ pend \in Pends
  BY <1>i, HistType, ZenonT(30) DEF TypeOK
<1>4. /\ Sorted(pend)
      /\ \A l \in Labels : HasState(pend, l) => HasState(w, l) /\ Follows(pend, MarkOf(w, l), l)
      /\ \A l \in Labels : HasState(w, l) => AtMost(MarkOf(mem, l), MarkOf(w, l))
  BY <1>i, <1>1, ZenonT(30) DEF SortedView
<1>5. \A l \in Labels : HasState(pend, l) => Follows(pend, MarkOf(mem, l), l)
  <2>1. \A l \in Labels : HasState(w, l) => MarkOf(w, l) \in Pairs
    BY <1>i, ViewMark, Zenon
  <2>2. \A l \in Labels : MarkOf(mem, l) \in Pairs
    BY <1>3, StoreMark, Zenon
  <2> QED BY <1>3, <1>4, <2>1, <2>2, FollowsFrom, ZenonT(30)
<1>6. /\ SortedStore'
      /\ \A l \in Labels :
           MarkOf(mem', l) = IF HasState(pend, l) THEN MarkOf(pend, l) ELSE MarkOf(mem, l)
  BY <1>i, <1>1, <1>4, <1>5, LandsSorted, ZenonT(30)
<1>7. 1..Len(<< >>) = {}
  OBVIOUS
<1>8. SortedQueue'
  BY <1>1, <1>7, Zenon DEF SortedQueue
<1>9. SortedView'
  BY <1>1, <1>2, <1>4, <1>6, ZenonT(30) DEF SortedView
<1> QED BY <1>6, <1>8, <1>9, ZenonT(30) DEF OInv

LEMMA SyncDoneOrdered ==
  ASSUME IInv, OInv, CommitSyncDone
  PROVE  OInv'
<1>i. TypeOK /\ Control /\ SortedStore /\ SortedQueue /\ SortedView
  BY DEF IInv, OInv
<1>1. /\ pc = "sync" /\ Len(waiters) = 1 /\ waiters \in Seq(Waiters)
      /\ pending = << >> /\ pending' = << >> /\ pc' = "idle" /\ hist' = hist
  BY <1>i, QueueType DEF CommitSyncDone, Control
<1>2. Head(waiters) = waiters[1]
  BY <1>1, HeadOfOne, ZenonT(30)
<1>3. applyWriter(waiters[1].p) /\ mem' = mem
  BY <1>1, <1>2 DEF CommitSyncDone, mem
<1>4. \A l \in Labels :
        /\ HasState(w', l) <=> HasState(w, l) \/ HasState(waiters[1].p, l)
        /\ MarkOf(w', l) = IF HasState(waiters[1].p, l) THEN MarkOf(waiters[1].p, l)
                                                        ELSE MarkOf(w, l)
  BY <1>3, WriterMarks, Zenon
<1>5. \A l \in Labels : HasState(w', l) => AtMost(MarkOf(mem', l), MarkOf(w', l))
  BY <1>i, <1>1, <1>3, <1>4, Zenon DEF SortedView, AtMost
<1>6. 1..Len(<< >>) = {}
  OBVIOUS
<1>7. SortedQueue'
  BY <1>1, <1>6, Zenon DEF SortedQueue
<1>8. SortedView' /\ SortedStore'
  BY <1>i, <1>1, <1>5, Zenon DEF SortedView, SortedStore
<1> QED BY <1>7, <1>8, ZenonT(30) DEF OInv

\* Every step keeps the positions in order, as long as no lookup fails.
LEMMA OrderedStep ==
  ASSUME ~GetMayFail
  PROVE  IInv /\ RInv /\ OInv /\ [Next]_vars => OInv'
<1> SUFFICES ASSUME IInv, RInv, OInv, [Next]_vars PROVE OInv'
  OBVIOUS
<1>i. TypeOK /\ Control /\ SortedStore /\ SortedQueue /\ SortedView
  BY DEF IInv, OInv
<1>t. TypeOK'
  BY TypeStep
<1>n. 1..Len(<< >>) = {}
  OBVIOUS
<1>1. ASSUME UNCHANGED <<hist, pending, w, resident>>,
             \/ pc' = "idle" /\ pc # "sync"
             \/ pc' = pc /\ pend' = pend /\ (waiters' = waiters \/ pc # "sync")
      PROVE  OInv'
  <2>1. mem' = mem
    BY <1>1 DEF mem
  <2>2. SortedStore' /\ SortedQueue'
    BY <1>1, <1>i, <2>1, Zenon DEF SortedStore, SortedQueue
  <2>3. SortedView'
    BY <1>1, <1>i, <2>1, ZenonT(30) DEF SortedView
  <2> QED BY <2>2, <2>3 DEF OInv
<1>2. ASSUME pending' = << >>, pc' = "idle",
             \A k \in 1..Len(hist') : k \in 1..Len(hist) /\ hist'[k] = hist[k],
             resident' => \A l \in Labels : ~HasState(w', l)
      PROVE  OInv'
  <2>1. SortedQueue'
    BY <1>n, <1>2, Zenon DEF SortedQueue
  <2>2. SortedStore'
    BY <1>i, <1>2, Zenon DEF SortedStore
  <2>3. SortedView'
    BY <1>2, Zenon DEF SortedView
  <2> QED BY <2>1, <2>2, <2>3 DEF OInv
<1>3. CASE Spawn
  <2>1. \A l \in Labels : ~HasState(w', l)
    BY <1>3, LabelKinds, ZenonT(30) DEF Spawn, HasState
  <2>2. pending' = << >> /\ pc' = "idle" /\ hist' = hist
    BY <1>3, <1>i DEF Spawn, Control
  <2> QED BY <1>2, <2>1, <2>2, Zenon
<1>4. CASE Plan
  BY <1>4, <1>t, PlanOrdered
<1>5. CASE AnswerBurst \/ CommitSyncFails
  <2>1. UNCHANGED <<hist, pending, w, resident>> /\ pc' = "idle" /\ pc # "sync"
    BY <1>5 DEF AnswerBurst, CommitSyncFails, BurstReady
  <2> QED BY <1>1, <2>1, Zenon
<1>6. CASE CommitNotifier
  BY <1>6, NotifierOrdered
<1>7. CASE CommitAsync
  BY <1>7, AsyncOrdered, ZenonT(30)
<1>8. CASE CommitAsyncFails
  BY <1>8, AsyncFailsOrdered
<1>9. CASE CommitSync
  BY <1>9, SyncOrdered, ZenonT(30)
<1>10. CASE CommitSyncDone
  BY <1>10, SyncDoneOrdered
<1>11. CASE Retire
  <2>1. pending' = << >> /\ pc' = "idle" /\ hist' = hist /\ ~resident'
    BY <1>11 DEF Retire
  <2> QED BY <1>2, <2>1, Zenon
<1>12. CASE Crash
  <2>1. pending' = << >> /\ pc' = "idle" /\ ~resident'
    BY <1>12 DEF Crash
  <2>2. PICK k \in dur..Len(hist) : hist' = SubSeq(hist, 1, k)
    BY <1>12 DEF Crash
  <2>3. hist \in Seq(Stores) /\ Len(hist) \in Nat /\ dur \in 1..Len(hist)
    BY <1>i, Basics
  <2>4. \A i \in 1..Len(hist') : i \in 1..Len(hist) /\ hist'[i] = hist[i]
    BY <2>2, <2>3
  <2> QED BY <1>2, <2>1, <2>4, Zenon
<1>13. CASE Fire
  <2>1. UNCHANGED <<hist, pending, w, resident, pc, pend>> /\ pc # "sync"
    BY <1>13, <1>i DEF Fire, Control
  <2> QED BY <1>1, <2>1, Zenon
<1>14. CASE Persist \/ UNCHANGED vars \/ \E c \in Clients, r \in Requests : Submit(c, r)
  <2>1. UNCHANGED <<hist, pending, w, resident, pc, pend, waiters>>
    BY <1>14, Zenon DEF Persist, vars, Submit
  <2> QED BY <1>1, <2>1, Zenon
<1> QED BY <1>3, <1>4, <1>5, <1>6, <1>7, <1>8, <1>9, <1>10, <1>11, <1>12, <1>13, <1>14, ZenonT(30) DEF Next

LEMMA OrderInductive ==
  ASSUME ~GetMayFail
  PROVE  Spec => [](IInv /\ RInv /\ OInv)
<1>1. Init => OInv
  <2> SUFFICES ASSUME Init PROVE OInv
    OBVIOUS
  <2>1. Len(hist) = 1 /\ hist[1] = EmptyStore /\ ~resident /\ pending = << >> /\ pc = "idle"
    BY DEF Init
  <2>2. \A k \in 1..1 : k = 1
    BY OnlyOne, Zenon
  <2>3. 1..Len(<< >>) = {} /\ DOMAIN EmptyStore.recs = {}
    BY DEF EmptyStore
  <2>4. Sorted(EmptyStore)
    BY <2>3, Zenon DEF Sorted, Ascending, Reached
  <2> QED BY <2>1, <2>2, <2>3, <2>4, Zenon DEF OInv, SortedStore, SortedQueue, SortedView
<1>2. IInv /\ RInv /\ OInv /\ [Next]_vars => OInv'
  BY OrderedStep
<1> QED BY <1>1, <1>2, RInductive, PTL DEF Spec

\* Stream-Seq orders the log across bursts, refused commits, respawns and crashes, as
\* long as no lookup fails (streamer.go effWriterSeq, planAppend).
THEOREM SeqOrdersLog ==
  ASSUME ~GetMayFail
  PROVE  Spec => []WriterSeqOrdered
<1>1. IInv /\ RInv /\ OInv => WriterSeqOrdered
  <2> SUFFICES ASSUME IInv, OInv, NEW i \in DOMAIN mem.recs, NEW j \in DOMAIN mem.recs,
                      i < j, mem.recs[i][1].sseq # None, mem.recs[j][1].sseq # None
               PROVE  \/ mem.recs[i][1].sseq < mem.recs[j][1].sseq
                      \/ mem.recs[i][1] = mem.recs[j][1] /\ mem.recs[i][2] < mem.recs[j][2]
    BY Zenon DEF WriterSeqOrdered
  <2> DEFINE l == <<"seq", None>>
  <2>1. l \in Labels /\ l[1] = "seq"
    BY ZenonT(30) DEF Labels
  <2>2. \A r : /\ HasMark(r, l) <=> r.sseq # None
               /\ Mark(r, l) = <<r.sseq, 0>>
    BY <2>1 DEF HasMark, Mark
  <2> HIDE DEF l
  <2>3. Ascending(mem.recs, l)
    <3>1. Len(hist) \in 1..Len(hist)
      BY Basics, ZenonT(30) DEF IInv
    <3> QED BY <2>1, <3>1, Zenon DEF OInv, SortedStore, Sorted, mem
  <2>4. \/ Less(Mark(mem.recs[i][1], l), Mark(mem.recs[j][1], l))
        \/ mem.recs[i][1] = mem.recs[j][1] /\ mem.recs[i][2] < mem.recs[j][2]
    BY <2>2, <2>3, Zenon DEF Ascending
  <2>5. \A a, b : Less(<<a, 0>>, <<b, 0>>) => a < b
    BY DEF Less
  <2> QED BY <2>2, <2>4, <2>5, ZenonT(30)
<1> QED BY <1>1, OrderInductive, PTL

\* An append a producer retries is stored once, across bursts, respawns and crashes, as
\* long as no lookup fails (producer.go validateProducer, streamer.go loadProducer).
THEOREM StoredOnce ==
  ASSUME ~GetMayFail
  PROVE  Spec => []ExactlyOnce
<1>1. IInv /\ RInv /\ OInv => ExactlyOnce
  <2>1. SUFFICES ASSUME IInv, OInv, NEW i \in DOMAIN mem.recs, NEW j \in DOMAIN mem.recs,
                        i # j, mem.recs[i][1].prod # None,
                        mem.recs[i][1].prod = mem.recs[j][1].prod
                 PROVE  mem.recs[i][1] = mem.recs[j][1] /\ mem.recs[i][2] # mem.recs[j][2]
    BY Zenon DEF ExactlyOnce
  <2> DEFINE l == <<"producer", mem.recs[i][1].prod.id>>
  <2>0. TypeOK
    BY <2>1 DEF IInv
  <2>2. mem \in Stores /\ Len(hist) \in 1..Len(hist)
    BY <2>0, Basics, Zenon
  <2>3. /\ i \in Int /\ j \in Int /\ mem.recs[i][1] \in Requests /\ mem.recs[j][1] \in Requests
        /\ mem.recs[i][2] \in Int /\ mem.recs[j][2] \in Int
    BY <2>2, StoreRecords, Zenon
  <2>4. l \in Labels /\ l[1] # "seq" /\ l[2] = mem.recs[i][1].prod.id
    <3>1. mem.recs[i][1].prod.id \in Pids
      BY <2>1, <2>3, RequestType, Zenon
    <3> QED BY <3>1 DEF Labels
  <2>5. /\ HasMark(mem.recs[i][1], l) /\ HasMark(mem.recs[j][1], l)
        /\ Mark(mem.recs[i][1], l) = Mark(mem.recs[j][1], l)
    BY <2>1, <2>4, Zenon DEF HasMark, Mark
  <2> HIDE DEF l
  <2>6. Mark(mem.recs[i][1], l) \in Pairs
    BY <2>3, <2>4, <2>5, RequestMark, Zenon
  <2>7. Ascending(mem.recs, l)
    <3>1. Sorted(mem)
      BY <2>1, <2>2, Zenon DEF OInv, SortedStore, mem
    <3> QED BY <2>4, <3>1, Zenon DEF Sorted
  <2>8. i < j \/ j < i
    BY <2>1, <2>3
  <2>9. \/ mem.recs[i][1] = mem.recs[j][1] /\ mem.recs[i][2] < mem.recs[j][2]
        \/ mem.recs[j][1] = mem.recs[i][1] /\ mem.recs[j][2] < mem.recs[i][2]
    BY <2>5, <2>6, <2>7, <2>8, LessTrans, Zenon DEF Ascending
  <2>10. \A a, b \in Int : a < b => a # b /\ b # a
    BY LessDiffers, Zenon
  <2> QED BY <2>3, <2>9, <2>10, Zenon
<1> QED BY <1>1, OrderInductive, PTL

-----------------------------------------------------------------------------
(* Producer state rides the batch of the records it stands for. *)

\* The records f hold the append that left producer q in state ps.
Match(f, ps, q) ==
  \E i \in DOMAIN f : LET h == f[i][1].prod
                      IN  h # None /\ h.id = q /\ h.epoch = ps.epoch /\ h.seq = ps.lastSeq

\* A burst touches a producer with a record of its own, or closes the stream.
Backed(p) ==
  \A q \in Pids : p.prods[q] # None =>
    p.prods[q].exists /\ (p.metaChanged \/ Match(p.recs, p.prods[q], q))

BackedStore ==
  \A k \in 1..Len(hist), q \in Pids :
    hist[k].prods[q].exists /\ ~hist[k].closed => Match(hist[k].recs, hist[k].prods[q], q)

BInv ==
  /\ BackedStore
  /\ pc = "plan" => Backed(pend)
  /\ \A i \in 1..Len(pending) : Backed(pending[i].p)

LEMMA PlanBacked ==
  ASSUME NEW p \in Pends, NEW r \in Requests, Backed(p)
  PROVE  Backed(planEffects(p, r))
<1> DEFINE n == planEffects(p, r)
<1>1. /\ DOMAIN p.recs = 1..Len(p.recs) /\ Len(p.recs) \in Nat /\ r.n \in Nat
      /\ DOMAIN n.recs = 1..(Len(p.recs) + r.n)
      /\ \A i \in 1..Len(p.recs) : n.recs[i] = p.recs[i]
      /\ \A i \in 1..r.n : n.recs[Len(p.recs) + i] = <<r, i>>
  BY EffectsRecs, Zenon
<1>2. \A q \in Pids : n.prods[q] = IF r.prod # None /\ r.prod.id = q THEN newState(r.prod)
                                                                  ELSE p.prods[q]
  BY EffectsFields
<1>3. /\ newState(r.prod).exists /\ newState(r.prod).epoch = r.prod.epoch
      /\ newState(r.prod).lastSeq = r.prod.seq
  BY DEF newState, State
<1>4. n.metaChanged = (p.metaChanged \/ r.close) /\ (r.n = 0 => r.close)
  <2>1. n.metaChanged = (p.metaChanged \/ r.close)
    BY EffectsFields
  <2>2. r.n = 0 => r.close
    BY RequestType, Zenon
  <2> QED BY <2>1, <2>2, ZenonT(30)
<1> HIDE DEF n
<1>5. SUFFICES ASSUME NEW q \in Pids, n.prods[q] # None
               PROVE  n.prods[q].exists /\ (n.metaChanged \/ Match(n.recs, n.prods[q], q))
  BY Zenon DEF Backed, n
<1>6. CASE r.prod # None /\ r.prod.id = q
  <2>1. n.prods[q] = newState(r.prod)
    BY <1>2, <1>6, Zenon
  <2>2. ASSUME r.n # 0 PROVE Match(n.recs, n.prods[q], q)
    <3>1. 1 \in 1..r.n /\ Len(p.recs) + 1 \in DOMAIN n.recs
      BY <1>1, <2>2
    <3>2. n.recs[Len(p.recs) + 1] = <<r, 1>>
      BY <1>1, <3>1, Zenon
    <3>3. n.recs[Len(p.recs) + 1][1].prod = r.prod
      BY <3>2
    <3> QED BY <1>3, <1>6, <2>1, <3>1, <3>3, Zenon DEF Match
  <2> QED BY <1>3, <1>4, <2>1, <2>2, Zenon
<1>7. CASE ~(r.prod # None /\ r.prod.id = q)
  <2>1. n.prods[q] = p.prods[q]
    BY <1>2, <1>7, Zenon
  <2>2. p.prods[q].exists /\ (p.metaChanged \/ Match(p.recs, p.prods[q], q))
    BY <1>5, <2>1, Zenon DEF Backed
  <2>3. \A i \in DOMAIN p.recs : i \in DOMAIN n.recs /\ n.recs[i] = p.recs[i]
    BY <1>1
  <2>4. Match(p.recs, p.prods[q], q) => Match(n.recs, p.prods[q], q)
    BY <2>3, Zenon DEF Match
  <2> QED BY <1>4, <2>1, <2>2, <2>4, Zenon
<1> QED BY <1>6, <1>7

\* A batch takes the record of every producer it touches to the store.
LEMMA LandsBacked ==
  ASSUME TypeOK, Growing, Frozen, BackedStore, NEW p, Lands(p), Backed(p)
  PROVE  BackedStore'
<1>1. /\ hist \in Seq(Stores) /\ mem \in Stores /\ Len(hist) \in Nat /\ Len(hist) \in 1..Len(hist)
  BY Basics, ZenonT(30)
<1>2. /\ p \in Pends /\ p.tail = p.base + Len(p.recs) /\ mem.tail <= p.base /\ ~mem.closed
      /\ (p.metaChanged => p.closed) /\ hist' = Append(hist, applyOps(mem, p))
  BY DEF Lands
<1>3. /\ Extends(mem, mem') /\ mem'.closed = (p.metaChanged /\ p.closed)
      /\ DOMAIN mem'.recs = DOMAIN mem.recs \cup p.base..(p.tail - 1)
      /\ Len(hist') = Len(hist) + 1
  BY LandsFrozen, Zenon
<1>4. mem' = applyOps(mem, p) /\ \A k \in 1..Len(hist) : hist'[k] = hist[k]
  <2> DEFINE s == applyOps(mem, p)
  <2>1. s \in Stores
    BY <1>1, <1>2, ApplyType, ZenonT(30)
  <2>2. hist' = Append(hist, s)
    BY <1>2, ZenonT(30)
  <2> HIDE DEF s
  <2>3. /\ Len(hist') = Len(hist) + 1 /\ hist'[Len(hist) + 1] = s
        /\ \A k \in 1..Len(hist) : hist'[k] = hist[k]
    BY <1>1, <2>1, <2>2, AppendAt
  <2>4. mem' = s
    BY <2>3, ZenonT(30) DEF mem
  <2> QED BY <2>3, <2>4, ZenonT(30) DEF s
<1>5. /\ \A q \in Pids : mem'.prods[q] = IF p.prods[q] = None THEN mem.prods[q] ELSE p.prods[q]
      /\ \A i \in p.base..(p.tail - 1) : mem'.recs[i] = p.recs[i - p.base + 1]
  BY <1>4, ApplyFields
<1>6. /\ DOMAIN p.recs = 1..Len(p.recs) /\ Len(p.recs) \in Nat /\ p.base \in Nat
  BY <1>2, BurstRecords, ZenonT(30) DEF Pends
<1>7. ASSUME NEW q \in Pids, mem'.prods[q].exists, ~mem'.closed
      PROVE  Match(mem'.recs, mem'.prods[q], q)
  <2>1. ~p.metaChanged
    BY <1>2, <1>3, <1>7, Zenon
  <2>2. CASE p.prods[q] = None
    <3>1. mem'.prods[q] = mem.prods[q]
      BY <1>5, <2>2, Zenon
    <3>2. Match(mem.recs, mem.prods[q], q)
      BY <1>1, <1>2, <1>7, <3>1, Zenon DEF BackedStore, mem
    <3> QED BY <1>3, <3>1, <3>2, Zenon DEF Match, Extends
  <2>3. CASE p.prods[q] # None
    <3>1. mem'.prods[q] = p.prods[q] /\ Match(p.recs, p.prods[q], q)
      BY <1>5, <2>1, <2>3, Zenon DEF Backed
    <3>2. ASSUME NEW i \in DOMAIN p.recs
          PROVE  i + p.base - 1 \in DOMAIN mem'.recs /\ mem'.recs[i + p.base - 1] = p.recs[i]
      <4> DEFINE m == i + p.base - 1
      <4>1. m \in p.base..(p.tail - 1) /\ m - p.base + 1 = i
        BY <1>2, <1>6
      <4> HIDE DEF m
      <4>2. m \in DOMAIN mem'.recs /\ mem'.recs[m] = p.recs[m - p.base + 1]
        BY <1>3, <1>5, <4>1, Zenon
      <4> QED BY <4>1, <4>2, Zenon DEF m
    <3> QED BY <3>1, <3>2, Zenon DEF Match
  <2> QED BY <2>2, <2>3
<1>8. mem' = hist'[Len(hist')]
  BY ZenonT(30) DEF mem
<1>9. \A k \in 1..Len(hist') : k = Len(hist') \/ k \in 1..Len(hist)
  BY <1>1, <1>3
<1>10. ASSUME NEW k \in 1..Len(hist'), NEW q \in Pids,
              hist'[k].prods[q].exists, ~hist'[k].closed
       PROVE  Match(hist'[k].recs, hist'[k].prods[q], q)
  <2>1. CASE k = Len(hist')
    BY <1>7, <1>8, <1>10, <2>1, Zenon
  <2>2. CASE k \in 1..Len(hist)
    BY <1>4, <1>10, <2>2, Zenon DEF BackedStore
  <2> QED BY <1>9, <2>1, <2>2, Zenon
<1> QED BY <1>10, Zenon DEF BackedStore

LEMMA BackedStep == IInv /\ RInv /\ BInv /\ [Next]_vars => BInv'
<1> SUFFICES ASSUME IInv, RInv, BInv, [Next]_vars PROVE BInv'
  BY ZenonT(30)
<1>i. TypeOK /\ Control /\ Growing /\ Frozen /\ BackedStore
  BY DEF IInv, RInv, BInv
<1>j. pending \in Seq(Jobs) /\ Len(pending) \in Nat
  BY <1>i, QueueType
<1>n. 1..Len(<< >>) = {}
  OBVIOUS
<1>1. ASSUME UNCHANGED <<hist, pending>>, pc' # "plan" \/ (pc' = pc /\ pend' = pend)
      PROVE  BInv'
  BY <1>1, Zenon DEF BInv, BackedStore
<1>2. ASSUME pending' = << >>, pc' = "idle",
             \A k \in 1..Len(hist') : k \in 1..Len(hist) /\ hist'[k] = hist[k]
      PROVE  BInv'
  BY <1>i, <1>n, <1>2, Zenon DEF BInv, BackedStore
<1>3. ASSUME pending # << >>, pending' = Tail(pending)
      PROVE  \A i \in 1..Len(pending') : Backed(pending'[i].p)
  <2>1. /\ Len(pending) \in Nat \ {0} /\ Len(Tail(pending)) = Len(pending) - 1
        /\ \A i \in 1..Len(Tail(pending)) : Tail(pending)[i] = pending[i + 1]
    BY <1>3, <1>j, HeadTail, Zenon
  <2>2. \A i \in 1..Len(Tail(pending)) : i + 1 \in 1..Len(pending)
    BY <2>1
  <2> QED BY <1>3, <2>1, <2>2, Zenon DEF BInv
<1>4. CASE Plan
  <2>0. pc' = "plan" /\ pc \in {"idle", "plan"} /\ UNCHANGED <<hist, pending>>
    BY <1>4, Zenon DEF Plan
  <2>1. PICK p \in Pends, r \in Requests :
           /\ p = IF pc = "idle" THEN newPend ELSE pend
           /\ pend' = planEffects(p, r) \/ pend' = p
    BY <1>4, <1>i, PlanShape, Zenon
  <2>2. Backed(p)
    <3>1. CASE pc = "idle"
      <4>1. p = newPend /\ \A q \in Pids : newPend.prods[q] = None
        BY <2>1, <3>1, ZenonT(30) DEF newPend
      <4> QED BY <4>1, Zenon DEF Backed
    <3>2. CASE pc = "plan"
      <4>1. p = pend
        BY <2>1, <3>2, ZenonT(30)
      <4> QED BY <3>2, <4>1, Zenon DEF BInv
    <3> QED BY <2>0, <3>1, <3>2, Zenon
  <2>3. Backed(pend')
    BY <2>1, <2>2, PlanBacked, Zenon
  <2> QED BY <2>0, <2>3, Zenon DEF BInv, BackedStore
<1>5. CASE CommitNotifier
  <2> DEFINE x == [p |-> pend, batch |-> batch]
  <2>1. pc = "plan" /\ pc' = "idle" /\ hist' = hist /\ pending' = Append(pending, x)
    BY <1>5, ZenonT(30) DEF CommitNotifier, BurstReady
  <2>2. x \in Jobs
    BY <1>i, Zenon DEF TypeOK, Jobs
  <2>3. x.p = pend
    OBVIOUS
  <2> HIDE DEF x
  <2>4. /\ Len(pending') = Len(pending) + 1 /\ pending'[Len(pending) + 1] = x
        /\ \A i \in 1..Len(pending) : pending'[i] = pending[i]
    BY <1>j, <2>1, <2>2, AppendAt, ZenonT(30)
  <2>5. \A i \in 1..Len(pending') : i = Len(pending) + 1 \/ i \in 1..Len(pending)
    BY <1>j, <2>4
  <2>6. \A i \in 1..Len(pending') : Backed(pending'[i].p)
    BY <2>1, <2>3, <2>4, <2>5, Zenon DEF BInv
  <2> QED BY <1>i, <2>1, <2>6, Zenon DEF BInv, BackedStore
<1>6. CASE CommitAsync
  <2>1. /\ pending # << >> /\ pending' = Tail(pending) /\ Lands(pending[1].p)
        /\ UNCHANGED <<pc, pend>>
    BY <1>6, AsyncLands, Zenon DEF CommitAsync
  <2>2. 1 \in 1..Len(pending)
    BY <1>j, <2>1
  <2>3. BackedStore'
    BY <1>i, <2>1, <2>2, LandsBacked, Zenon DEF BInv
  <2> QED BY <1>3, <2>1, <2>3, Zenon DEF BInv
<1>7. CASE CommitAsyncFails
  <2>1. pending # << >> /\ pending' = Tail(pending) /\ UNCHANGED <<hist, pc, pend>>
    BY <1>7, Zenon DEF CommitAsyncFails
  <2> QED BY <1>3, <2>1, Zenon DEF BInv, BackedStore
<1>8. CASE CommitSync
  <2>1. pc = "plan" /\ pc' = "sync" /\ Lands(pend) /\ pending' = pending
    BY <1>8, SyncLands, Zenon DEF CommitSync, BurstReady
  <2>2. BackedStore'
    BY <1>i, <2>1, LandsBacked, Zenon DEF BInv
  <2> QED BY <2>1, <2>2, Zenon DEF BInv
<1>9. CASE Spawn
  <2>1. UNCHANGED <<hist, pending, pc, pend>>
    BY <1>9 DEF Spawn
  <2> QED BY <1>1, <2>1, ZenonT(30)
<1>10. CASE AnswerBurst \/ CommitSyncFails \/ CommitSyncDone \/ Retire
  <2>1. UNCHANGED <<hist, pending>> /\ pc' # "plan"
    BY <1>10 DEF AnswerBurst, CommitSyncFails, CommitSyncDone, Retire
  <2> QED BY <1>1, <2>1, ZenonT(30)
<1>11. CASE Crash
  <2>1. pending' = << >> /\ pc' = "idle"
    BY <1>11, ZenonT(30) DEF Crash
  <2>2. PICK k \in dur..Len(hist) : hist' = SubSeq(hist, 1, k)
    BY <1>11, ZenonT(30) DEF Crash
  <2>3. hist \in Seq(Stores) /\ Len(hist) \in Nat /\ dur \in 1..Len(hist)
    BY <1>i, Basics, ZenonT(30)
  <2>4. \A i \in 1..Len(hist') : i \in 1..Len(hist) /\ hist'[i] = hist[i]
    BY <2>2, <2>3
  <2> QED BY <1>2, <2>1, <2>4, Zenon
<1>12. CASE Fire \/ Persist \/ UNCHANGED vars \/ \E c \in Clients, r \in Requests : Submit(c, r)
  <2>1. UNCHANGED <<hist, pending, pc, pend>>
    BY <1>12, Zenon DEF Fire, Persist, vars, Submit
  <2> QED BY <1>1, <2>1
<1> QED BY <1>4, <1>5, <1>6, <1>7, <1>8, <1>9, <1>10, <1>11, <1>12, ZenonT(30) DEF Next

\* A producer's state that is not behind an append.
LEMMA StateReaches ==
  ASSUME NEW ps \in ProducerStates, NEW e \in U, NEW q \in U, AtMost(<<e, q>>, StateMark(ps))
  PROVE  ps.exists /\ (e < ps.epoch \/ (e = ps.epoch /\ q <= ps.lastSeq))
<1>1. e \in Int /\ q \in Int /\ 0 <= e /\ ps.epoch \in Int /\ ps.lastSeq \in Int
  BY MaxUAssumption DEF U, ProducerStates
<1>2. CASE ps.exists
  BY <1>1, <1>2 DEF AtMost, Less, StateMark
<1>3. CASE ~ps.exists
  BY <1>1, <1>3 DEF AtMost, Less, StateMark
<1> QED BY <1>2, <1>3, ZenonT(30)

\* In every state of the store the producer's state is the position of its last record,
\* a close-only append apart: the two ride one batch (streamer.go processBurst, producer
\* keys in the burst's WriteBatch), as long as no lookup fails.
THEOREM ProducersMatchLog ==
  ASSUME ~GetMayFail
  PROVE  Spec => []ProducerMatchesLog
<1>1. Init => BInv
  <2> SUFFICES ASSUME Init PROVE BInv
    OBVIOUS
  <2>1. Len(hist) = 1 /\ hist[1] = EmptyStore /\ pending = << >> /\ pc = "idle"
    BY ZenonT(30) DEF Init
  <2>2. \A k \in 1..1 : k = 1
    BY OnlyOne, Zenon
  <2>3. 1..Len(<< >>) = {} /\ \A q \in Pids : ~EmptyStore.prods[q].exists
    BY DEF EmptyStore, Absent
  <2> QED BY <2>1, <2>2, <2>3, Zenon DEF BInv, BackedStore
<1>2. IInv /\ RInv /\ BInv /\ [Next]_vars => BInv'
  BY BackedStep
<1>3. IInv /\ OInv /\ BInv => ProducerMatchesLog
  <2> SUFFICES ASSUME IInv, OInv, BInv, NEW k \in 1..Len(hist), NEW q \in Pids
               PROVE  LET s == hist[k]
                          heads == {s.recs[i][1].prod : i \in DOMAIN s.recs} \ {None}
                          mine == {h \in heads : h.id = q}
                      IN  /\ \A h \in mine :
                               /\ s.prods[q].exists
                               /\ \/ h.epoch < s.prods[q].epoch
                                  \/ h.epoch = s.prods[q].epoch /\ h.seq <= s.prods[q].lastSeq
                          /\ s.prods[q].exists /\ ~s.closed =>
                               \E h \in mine : h.epoch = s.prods[q].epoch /\ h.seq = s.prods[q].lastSeq
    BY Zenon DEF ProducerMatchesLog
  <2> DEFINE s == hist[k]
             mine == {h \in {s.recs[i][1].prod : i \in DOMAIN s.recs} \ {None} : h.id = q}
             l == <<"producer", q>>
  <2>1. s \in Stores
    BY Basics DEF IInv
  <2>2. l \in Labels /\ l[1] # "seq" /\ l[2] = q
    BY DEF Labels
  <2>3. Reached(s, l)
    BY <2>2, Zenon DEF OInv, SortedStore, Sorted
  <2>4. s.prods[q].exists /\ ~s.closed => Match(s.recs, s.prods[q], q)
    BY Zenon DEF BInv, BackedStore
  <2>5. s.prods[q] \in ProducerStates
    BY <2>1 DEF Stores
  <2> HIDE DEF s, l
  <2>6. ASSUME NEW i \in DOMAIN s.recs, s.recs[i][1].prod # None, s.recs[i][1].prod.id = q
        PROVE  LET h == s.recs[i][1].prod
               IN  /\ s.prods[q].exists
                   /\ \/ h.epoch < s.prods[q].epoch
                      \/ h.epoch = s.prods[q].epoch /\ h.seq <= s.prods[q].lastSeq
    <3> DEFINE h == s.recs[i][1].prod
    <3>1. s.recs[i][1] \in Requests
      BY <2>1, StoreRecords, Zenon
    <3>2. h.epoch \in U /\ h.seq \in U
      BY <2>6, <3>1, RequestType, Zenon
    <3>3. HasMark(s.recs[i][1], l) /\ Mark(s.recs[i][1], l) = <<h.epoch, h.seq>>
      BY <2>2, <2>6, Zenon DEF HasMark, Mark
    <3>4. MarkOf(s, l) = StateMark(s.prods[q])
      BY <2>2, Zenon DEF MarkOf
    <3>5. AtMost(<<h.epoch, h.seq>>, StateMark(s.prods[q]))
      BY <2>3, <3>3, <3>4, Zenon DEF Reached
    <3> HIDE DEF h
    <3>6. /\ s.prods[q].exists
          /\ \/ h.epoch < s.prods[q].epoch
             \/ h.epoch = s.prods[q].epoch /\ h.seq <= s.prods[q].lastSeq
      BY <2>5, <3>2, <3>5, StateReaches, Zenon
    <3> QED BY <3>6, Zenon DEF h
  <2>7. \A h \in mine : /\ s.prods[q].exists
                        /\ \/ h.epoch < s.prods[q].epoch
                           \/ h.epoch = s.prods[q].epoch /\ h.seq <= s.prods[q].lastSeq
    <3> SUFFICES ASSUME NEW h \in mine
                 PROVE  /\ s.prods[q].exists
                        /\ \/ h.epoch < s.prods[q].epoch
                           \/ h.epoch = s.prods[q].epoch /\ h.seq <= s.prods[q].lastSeq
      BY ZenonT(30)
    <3>1. PICK i \in DOMAIN s.recs : h = s.recs[i][1].prod /\ h # None /\ h.id = q
      OBVIOUS
    <3> QED BY <2>6, <3>1, Zenon
  <2>8. Match(s.recs, s.prods[q], q) =>
          \E h \in mine : h.epoch = s.prods[q].epoch /\ h.seq = s.prods[q].lastSeq
    BY Zenon DEF Match
  <2> QED BY <2>4, <2>7, <2>8, Zenon DEF s
<1> QED BY <1>1, <1>2, <1>3, OrderInductive, PTL DEF Spec

=============================================================================
