-------------------------- MODULE Committer_proofs --------------------------
(***************************************************************************)
(* Proofs about the shared commit queue and the durability notifier: the   *)
(* order in which bursts reach the store, fire and are published, and that *)
(* each is answered once, for any number of streams, bursts and any batch  *)
(* size, through store errors and shutdown.                                *)
(***************************************************************************)
EXTENDS Committer, FiniteSetTheorems, WellFoundedInduction, TLAPS

\* The waiting callbacks' jobs, front first.
Waiting == [i \in 1..Len(waiters) |-> waiters[i].job]

\* Of one stream, burst a comes before burst b.
Older(a, b) == a[1] = b[1] => a[2] < b[2]

\* The bursts of each stream appear in the order it committed them.
Ordered(q) == \A i, k \in DOMAIN q : i < k => Older(q[i], q[k])

\* Of one stream, the bursts of A come before those of B.
Before(A, B) == \A a \in A, b \in B : Older(a, b)

\* The five places a burst can be while it is on its way.
Held == Range(poller.cbs) \cup Range(Waiting) \cup Range(flush.jobs)
          \cup Range(pending) \cup Range(stray)

\* What the goroutines' control says about the queues they hold.
Control ==
  /\ closed <=> closer # "open"
  /\ closed => pending = << >>
  /\ stray # << >> => closer = "stray"
  /\ closer \in {"shutdown", "closed"} => flush.pc = "none"
  /\ flush.pc \in {"none", "loop"} => flush.jobs = << >>
  /\ flushing <=> flush.pc # "none"
  /\ poller.pc \notin {"fire", "last"} => poller.cbs = << >> /\ poller.ok
  /\ poller.pc = "last" => ~poller.ok
  /\ poller.seq <= durable

\* Each place is in order, and they are in order among themselves.
Queues ==
  /\ Ordered(poller.cbs) /\ Ordered(Waiting) /\ Ordered(flush.jobs)
  /\ Ordered(pending) /\ Ordered(stray)
  /\ Before(Range(poller.cbs), Range(Waiting))
  /\ Before(Range(poller.cbs), Range(flush.jobs))
  /\ Before(Range(poller.cbs), Range(pending) \cup Range(stray))
  /\ Before(Range(Waiting), Range(flush.jobs))
  /\ Before(Range(Waiting), Range(pending) \cup Range(stray))
  /\ Before(Range(flush.jobs), Range(pending) \cup Range(stray))

\* A burst is held, or answered once; one not committed yet is neither.
Answers ==
  \A j \in JobIds :
    /\ j \in Held => answers[j] = << >> /\ published[j[1]] < j[2] /\ j[2] <= next[j[1]]
    /\ j \notin Held /\ j[2] <= next[j[1]] => Len(answers[j]) = 1
    /\ next[j[1]] < j[2] => answers[j] = << >>

\* The jobs of the first n batches.
Written(n) == UNION {Range(applied[b]) : b \in 1..n}

\* Where a burst's batch is in the store, by how far the burst has come.
Stored ==
  /\ flush.pc = "subscribe" => /\ flush.seq = Len(applied) /\ flush.seq > 0
                               /\ Range(flush.jobs) \subseteq Range(applied[flush.seq])
  /\ \A i \in 1..Len(waiters) : /\ waiters[i].target \in 1..Len(applied)
                                /\ waiters[i].job \in Range(applied[waiters[i].target])
  /\ poller.ok => Range(poller.cbs) \subseteq Written(durable)
  /\ \A j \in JobIds : answers[j] = <<"ok">> => j \in Written(durable) /\ j[2] <= published[j[1]]

\* What is written is older than what is still to be written.
WriteOrder ==
  /\ \A b1, b2 \in 1..Len(applied) : b1 < b2 => Before(Range(applied[b1]), Range(applied[b2]))
  /\ flush.pc = "commit" => Before(Written(Len(applied)), Range(flush.jobs))
  /\ Before(Written(Len(applied)), Range(pending))
  /\ \A j \in Written(Len(applied)) : j[2] <= next[j[1]]

\* Nothing is published that was not committed.
Published == \A s \in Streams : published[s] <= next[s]

IInv == TypeOK /\ Control /\ Queues /\ Answers /\ Stored /\ WriteOrder /\ Published

-----------------------------------------------------------------------------
(* Sequences of jobs. *)

\* The empty sequence has no elements.
LEMMA EmptyRange == Range(<< >>) = {}
BY DEF Range

\* 1..n has n members.
LEMMA SizeOfInterval ==
  \A n \in Nat : Cardinality(1..n) = n
BY FS_Interval

\* A sequence is the function of its entries.
LEMMA SeqIsFunction ==
  ASSUME NEW T, NEW q \in Seq(T), NEW n, Len(q) = n
  PROVE q = [i \in 1..n |-> q[i]]
OBVIOUS

\* The entries of a sequence.
LEMMA Entries ==
  ASSUME NEW T, NEW q \in Seq(T)
  PROVE /\ Len(q) \in Nat /\ DOMAIN q = 1..Len(q) /\ \A i \in 1..Len(q) : q[i] \in T
OBVIOUS

\* A burst is a stream and a number, and the next number of a stream names a burst.
LEMMA JobFields ==
  /\ \A j \in JobIds : j[1] \in Streams /\ j[2] \in Nat
  /\ \A f \in [Streams -> 0..MaxJobs], s \in Streams :
       /\ f[s] \in Nat
       /\ f[s] < MaxJobs => <<s, f[s] + 1>> \in JobIds
BY CommitterAssumption DEF JobIds

\* The entries of a sequence.
LEMMA RangeOfSeq ==
  ASSUME NEW T, NEW q \in Seq(T)
  PROVE /\ Range(q) = {q[i] : i \in 1..Len(q)} /\ Range(q) \subseteq T
        /\ (q = << >>) => Range(q) = {}
BY DEF Range

\* Appending adds one entry, and keeps the order when it is the youngest.
LEMMA RangeOfAppend ==
  ASSUME NEW q \in Seq(JobIds), NEW j \in JobIds
  PROVE /\ Append(q, j) \in Seq(JobIds)
        /\ Range(Append(q, j)) = Range(q) \cup {j}
        /\ Ordered(q) /\ Before(Range(q), {j}) => Ordered(Append(q, j))
<1> DEFINE r == Append(q, j)
<1>1. r \in Seq(JobIds) /\ Len(r) = Len(q) + 1 /\ r[Len(q) + 1] = j
      /\ \A i \in 1..Len(q) : r[i] = q[i]
  OBVIOUS
<1> HIDE DEF r
<1>2. Range(r) = {r[i] : i \in 1..Len(r)} /\ Range(q) = {q[i] : i \in 1..Len(q)}
  BY <1>1 DEF Range
<1>3. Range(r) = Range(q) \cup {j}
  <2>1. \A i \in 1..Len(r) : i \in 1..Len(q) \/ i = Len(q) + 1
    BY <1>1
  <2>2. \A i \in 1..Len(q) : i \in 1..Len(r)
    BY <1>1
  <2>3. Len(q) + 1 \in 1..Len(r)
    BY <1>1
  <2> QED BY <1>1, <1>2, <2>1, <2>2, <2>3, Zenon
<1>4. ASSUME Ordered(q), Before(Range(q), {j}) PROVE Ordered(r)
  <2> SUFFICES ASSUME NEW i \in 1..Len(r), NEW k \in 1..Len(r), i < k
               PROVE Older(r[i], r[k])
    BY <1>1 DEF Ordered
  <2>1. i \in 1..Len(q)
    BY <1>1
  <2>2. CASE k \in 1..Len(q)
    BY <1>1, <1>4, <2>1, <2>2 DEF Ordered
  <2>3. CASE k = Len(q) + 1
    BY <1>1, <1>2, <1>4, <2>1, <2>3 DEF Before
  <2> QED BY <1>1, <2>2, <2>3
<1> QED BY <1>1, <1>3, <1>4 DEF r

\* q is a followed by b.
Splits(q, a, b) ==
  /\ q \in Seq(JobIds) /\ a \in Seq(JobIds) /\ b \in Seq(JobIds)
  /\ Len(q) = Len(a) + Len(b)
  /\ \A i \in 1..Len(a) : a[i] = q[i]
  /\ \A i \in 1..Len(b) : b[i] = q[Len(a) + i]

\* Cutting a sequence in two: nothing is lost, and the front is the older part.
LEMMA Cut ==
  ASSUME NEW q, NEW a, NEW b, Splits(q, a, b)
  PROVE /\ Range(q) = Range(a) \cup Range(b)
        /\ Ordered(q) => Ordered(a) /\ Ordered(b) /\ Before(Range(a), Range(b))
<1> USE DEF Splits
<1>1. /\ DOMAIN q = 1..Len(q) /\ DOMAIN a = 1..Len(a) /\ DOMAIN b = 1..Len(b)
      /\ Len(q) \in Nat /\ Len(a) \in Nat /\ Len(b) \in Nat
  OBVIOUS
<1>2. \A i \in 1..Len(a) : i \in 1..Len(q)
  BY <1>1
<1>3. \A i \in 1..Len(b) : Len(a) + i \in 1..Len(q)
  BY <1>1
<1>4. Range(a) \subseteq Range(q)
  BY <1>1, <1>2, Zenon DEF Range
<1>5. Range(b) \subseteq Range(q)
  <2>1. \A i \in 1..Len(b) : b[i] \in Range(q)
    <3> TAKE i \in 1..Len(b)
    <3>1. b[i] = q[Len(a) + i] /\ Len(a) + i \in DOMAIN q
      BY <1>1, <1>3, Zenon
    <3> QED BY <3>1, Zenon DEF Range
  <2> QED BY <1>1, <2>1, Zenon DEF Range
<1>6. ASSUME NEW i \in 1..Len(q) PROVE q[i] \in Range(a) \cup Range(b)
  <2>1. CASE i \in 1..Len(a)
    BY <1>1, <2>1, Zenon DEF Range
  <2>2. CASE i \notin 1..Len(a)
    <3> DEFINE k == i - Len(a)
    <3>1. k \in 1..Len(b) /\ i = Len(a) + k
      BY <1>1, <2>2
    <3> HIDE DEF k
    <3> QED BY <1>1, <3>1, Zenon DEF Range
  <2> QED BY <2>1, <2>2
<1>7. Range(q) = Range(a) \cup Range(b)
  BY <1>1, <1>4, <1>5, <1>6, Zenon DEF Range
<1>8. ASSUME Ordered(q) PROVE Ordered(a)
  <2>1. \A i, k \in 1..Len(a) : i < k => Older(q[i], q[k])
    BY <1>1, <1>2, <1>8, Zenon DEF Ordered
  <2> QED BY <1>1, <2>1, Zenon DEF Ordered
<1>9. \A i, k \in 1..Len(b) : i < k => Len(a) + i < Len(a) + k
  BY <1>1
<1>10. ASSUME Ordered(q) PROVE Ordered(b)
  <2>1. \A i, k \in 1..Len(b) : i < k => Older(q[Len(a) + i], q[Len(a) + k])
    BY <1>1, <1>3, <1>9, <1>10, Zenon DEF Ordered
  <2> QED BY <1>1, <2>1, Zenon DEF Ordered
<1>11. \A i \in 1..Len(a), k \in 1..Len(b) : i < Len(a) + k
  BY <1>1
<1>12. ASSUME Ordered(q) PROVE Before(Range(a), Range(b))
  <2>1. \A i \in 1..Len(a), k \in 1..Len(b) : Older(q[i], q[Len(a) + k])
    BY <1>1, <1>2, <1>3, <1>11, <1>12, Zenon DEF Ordered
  <2>2. \A i \in 1..Len(a), k \in 1..Len(b) : Older(a[i], b[k])
    BY <2>1, Zenon
  <2> QED BY <1>1, <2>2, Zenon DEF Before, Range
<1> QED BY <1>7, <1>8, <1>10, <1>12

\* The head is the oldest entry.
LEMMA HeadAndTail ==
  ASSUME NEW q \in Seq(JobIds), q # << >>
  PROVE /\ Head(q) \in JobIds /\ Tail(q) \in Seq(JobIds)
        /\ Range(q) = {Head(q)} \cup Range(Tail(q))
        /\ Ordered(q) => Ordered(Tail(q)) /\ Before({Head(q)}, Range(Tail(q)))
<1> DEFINE h == <<Head(q)>> 
           t == Tail(q)
<1>1. /\ Head(q) \in JobIds /\ h \in Seq(JobIds) /\ t \in Seq(JobIds)
      /\ Len(q) = Len(h) + Len(t)
      /\ \A i \in 1..Len(h) : h[i] = q[i]
      /\ \A i \in 1..Len(t) : t[i] = q[Len(h) + i]
  OBVIOUS
<1>2. Range(h) = {Head(q)}
  BY DEF Range
<1> HIDE DEF h, t
<1>3. /\ Range(q) = Range(h) \cup Range(t)
      /\ Ordered(q) => Ordered(h) /\ Ordered(t) /\ Before(Range(h), Range(t))
  <2>1. Splits(q, h, t)
    BY <1>1 DEF Splits
  <2> QED BY <2>1, Cut, Zenon
<1> QED BY <1>1, <1>2, <1>3 DEF t

\* takeBatchLocked loses nothing and keeps the order.
LEMMA Batch ==
  ASSUME NEW q \in Seq(JobIds)
  PROVE /\ TakeBatch(q) \in Seq(JobIds) /\ LeaveQueued(q) \in Seq(JobIds)
        /\ Range(q) = Range(TakeBatch(q)) \cup Range(LeaveQueued(q))
        /\ Ordered(q) => /\ Ordered(TakeBatch(q)) /\ Ordered(LeaveQueued(q))
                         /\ Before(Range(TakeBatch(q)), Range(LeaveQueued(q)))
<1> DEFINE a == TakeBatch(q)
           b == LeaveQueued(q)
<1>1. /\ a \in Seq(JobIds) /\ b \in Seq(JobIds) /\ Len(q) = Len(a) + Len(b)
      /\ \A i \in 1..Len(a) : a[i] = q[i]
      /\ \A i \in 1..Len(b) : b[i] = q[Len(a) + i]
  <2>1. BatchMax \in Nat \ {0} /\ Len(q) \in Nat
    BY CommitterAssumption
  <2>2. CASE Len(q) <= BatchMax
    <3>1. a = SubSeq(q, 1, Len(q)) /\ b = << >>
      BY <2>2 DEF TakeBatch, LeaveQueued
    <3> HIDE DEF a, b
    <3> QED BY <2>1, <3>1
  <2>3. CASE ~(Len(q) <= BatchMax)
    <3>1. a = SubSeq(q, 1, BatchMax) /\ b = SubSeq(q, BatchMax + 1, Len(q))
      BY <2>3, Zenon DEF TakeBatch, LeaveQueued
    <3> HIDE DEF a, b
    <3>2. /\ a \in Seq(JobIds) /\ Len(a) = BatchMax
          /\ \A i \in 1..BatchMax : a[i] = q[i]
      BY <2>1, <2>3, <3>1
    <3>3. /\ b \in Seq(JobIds) /\ Len(b) = Len(q) - BatchMax
          /\ \A i \in 1..(Len(q) - BatchMax) : b[i] = q[BatchMax + i]
      BY <2>1, <2>3, <3>1
    <3> QED BY <2>1, <2>3, <3>2, <3>3
  <2> QED BY <2>2, <2>3
<1> HIDE DEF a, b
<1>2. /\ Range(q) = Range(a) \cup Range(b)
      /\ Ordered(q) => Ordered(a) /\ Ordered(b) /\ Before(Range(a), Range(b))
  <2>1. Splits(q, a, b)
    BY <1>1 DEF Splits
  <2> QED BY <2>1, Cut, Zenon
<1> QED BY <1>1, <1>2 DEF a, b
-----------------------------------------------------------------------------
(* The waiting list. *)

\* The jobs waiting, as a sequence.
LEMMA WaitingType ==
  ASSUME waiters \in Seq(Waiter)
  PROVE /\ Waiting \in Seq(JobIds) /\ Len(Waiting) = Len(waiters)
        /\ \A i \in 1..Len(waiters) : Waiting[i] = waiters[i].job
<1>1. \A i \in 1..Len(waiters) : waiters[i] \in Waiter
  OBVIOUS
<1>2. \A w \in Waiter : w.job \in JobIds
  BY DEF Waiter
<1>3. \A i \in 1..Len(waiters) : waiters[i].job \in JobIds
  BY <1>1, <1>2
<1> QED BY <1>3 DEF Waiting

\* A set of naturals has a smallest element.
LEMMA Smallest ==
  ASSUME NEW S, S \subseteq Nat, S # {}
  PROVE \E n \in S : \A m \in S : n <= m
<1> DEFINE R == {ss \in Nat \X Nat : ss[1] < ss[2]}
<1>1. OpToRel(<, Nat) = R
  BY Zenon DEF OpToRel
<1>2. IsWellFoundedOn(R, Nat)
  BY <1>1, NatLessThanWellFounded, Zenon
<1> HIDE DEF R
<1>3. \E n \in S : \A m \in S : <<m, n>> \notin R
  BY <1>2, WFMin, Zenon
<1>4. \A m, n \in Nat : <<m, n>> \notin R => n <= m
  BY DEF R
<1> QED BY <1>3, <1>4, Zenon

\* A set of indices that holds every index before its own is 1..its size.
LEMMA PrefixSet ==
  ASSUME NEW n \in Nat, NEW S \in SUBSET (1..n), \A k \in S : \A m \in 1..k : m \in S
  PROVE Cardinality(S) \in 0..n /\ S = 1..Cardinality(S)
<1>1. \E c \in 0..n : S = 1..c
  <2> DEFINE U == {x \in 1..n : x \notin S}
  <2>1. U \subseteq Nat
    OBVIOUS
  <2>2. CASE U = {}
    <3>1. S = 1..n
      BY <2>2, Zenon
    <3> QED BY <3>1
  <2>3. CASE U # {}
    <3> HIDE DEF U
    <3>1. PICK m \in U : \A x \in U : m <= x
      BY <2>1, <2>3, Smallest, Zenon
    <3>2. m \in 1..n /\ m \notin S
      BY DEF U
    <3>3. \A k \in S : k \in 1..(m - 1)
      <4> TAKE k \in S
      <4>1. k \in 1..n /\ m \notin 1..k
        BY <3>2
      <4> QED BY <3>2, <4>1
    <3>4. \A k \in 1..(m - 1) : k \in S
      BY <3>1, <3>2 DEF U
    <3>5. S = 1..(m - 1)
      BY <3>3, <3>4, Zenon
    <3> QED BY <3>2, <3>5
  <2> QED BY <2>2, <2>3
<1>2. PICK c \in 0..n : S = 1..c
  BY <1>1, Zenon
<1>3. Cardinality(1..c) = c
  BY <1>2, SizeOfInterval, SMTT(30)
<1> QED BY <1>2, <1>3

\* subscribe inserts behind everybody: no waiter has a larger target.
LEMMA SubscribeAppends ==
  ASSUME waiters \in Seq(Waiter), NEW t \in Nat, NEW wtr \in Waiter,
         \A i \in 1..Len(waiters) : waiters[i].target <= t
  PROVE SubSeq(waiters, 1, Position(t)) \o <<wtr>>
          \o SubSeq(waiters, Position(t) + 1, Len(waiters)) = Append(waiters, wtr)
<1>1. {i \in 1..Len(waiters) : waiters[i].target <= t} = 1..Len(waiters)
  OBVIOUS
<1>2. Len(waiters) \in Nat
  OBVIOUS
<1>3. Position(t) = Len(waiters)
  <2>1. Cardinality(1..Len(waiters)) = Len(waiters)
    BY <1>2, SizeOfInterval, Zenon
  <2> QED BY <1>1, <2>1, Zenon DEF Position
<1>4. SubSeq(waiters, 1, Len(waiters)) = waiters
      /\ SubSeq(waiters, Len(waiters) + 1, Len(waiters)) = << >>
  OBVIOUS
<1>5. waiters \o <<wtr>> \o << >> = Append(waiters, wtr)
  OBVIOUS
<1> QED BY <1>3, <1>4, <1>5, Zenon
-----------------------------------------------------------------------------
(* The goroutines' local state. *)

Flushes == [pc : {"none", "commit", "subscribe", "loop"}, jobs : Seq(JobIds), seq : Nat]
Pollers == [pc : {"select", "durableSeq", "covered", "fire", "last", "exited"},
            seq : Nat, cbs : Seq(JobIds), ok : BOOLEAN]

\* The flush goroutine's state, field by field.
LEMMA FlushFields ==
  /\ flush \in Flushes =>
       /\ flush = [pc |-> flush.pc, jobs |-> flush.jobs, seq |-> flush.seq]
       /\ flush.pc \in {"none", "commit", "subscribe", "loop"}
       /\ flush.jobs \in Seq(JobIds) /\ flush.seq \in Nat
  /\ \A pc \in {"none", "commit", "subscribe", "loop"}, q \in Seq(JobIds), n \in Nat :
       [pc |-> pc, jobs |-> q, seq |-> n] \in Flushes
BY DEF Flushes

\* The poller's state, field by field.
LEMMA PollerFields ==
  /\ poller \in Pollers =>
       /\ poller = [pc |-> poller.pc, seq |-> poller.seq, cbs |-> poller.cbs, ok |-> poller.ok]
       /\ poller.pc \in {"select", "durableSeq", "covered", "fire", "last", "exited"}
       /\ poller.seq \in Nat /\ poller.cbs \in Seq(JobIds) /\ poller.ok \in BOOLEAN
  /\ \A pc \in {"select", "durableSeq", "covered", "fire", "last", "exited"},
        n \in Nat, q \in Seq(JobIds), ok \in BOOLEAN :
       [pc |-> pc, seq |-> n, cbs |-> q, ok |-> ok] \in Pollers
BY DEF Pollers

-----------------------------------------------------------------------------
(* The inductive invariant. *)

\* The initial state satisfies the invariant.
LEMMA InitInv == Init => IInv
<1> SUFFICES ASSUME Init PROVE IInv
  OBVIOUS
<1>1. poller.cbs = << >> /\ poller.ok /\ poller.pc = "select" /\ poller.seq = 0
      /\ flush.jobs = << >> /\ flush.pc = "none"
  BY DEF Init, Idle, Polling
<1>2. Waiting = << >>
  BY DEF Init, Waiting
<1>3. Range(<< >>) = {} /\ Ordered(<< >>)
  BY DEF Range, Ordered
<1>4. TypeOK
  <2>1. flush \in [pc : {"none", "commit", "subscribe", "loop"}, jobs : Seq(JobIds), seq : Nat]
    BY DEF Init, Idle
  <2>2. poller \in [pc : {"select", "durableSeq", "covered", "fire", "last", "exited"},
                    seq : Nat, cbs : Seq(JobIds), ok : BOOLEAN]
    BY DEF Init, Polling
  <2>3. answers \in [JobIds -> Seq({"ok", "error"})]
    BY DEF Init
  <2>4. next \in [Streams -> 0..MaxJobs] /\ published \in [Streams -> 0..MaxJobs]
    BY CommitterAssumption DEF Init
  <2>5. /\ pending \in Seq(JobIds) /\ stray \in Seq(JobIds) /\ waiters \in Seq(Waiter)
        /\ applied \in Seq(Seq(JobIds)) /\ durable \in 0..Len(applied)
    BY DEF Init
  <2>6. /\ flushing \in BOOLEAN /\ closed \in BOOLEAN /\ nclosed \in BOOLEAN
        /\ stop \in BOOLEAN /\ closer = "open"
    BY Zenon DEF Init
  <2> QED BY <2>1, <2>2, <2>3, <2>4, <2>5, <2>6, Zenon DEF TypeOK
<1>5. Control
  BY <1>1 DEF Init, Control
<1>6. Queues
  BY <1>1, <1>2, <1>3 DEF Init, Queues, Before
<1>7. Held = {}
  BY <1>1, <1>2, <1>3 DEF Init, Held
<1>8. Answers
  <2>1. \A j \in JobIds : j[1] \in Streams /\ j[2] \in 1..MaxJobs
    BY DEF JobIds
  <2> QED BY <1>7, <2>1, CommitterAssumption DEF Init, Answers
<1>9. Written(0) = {} /\ Len(applied) = 0
  BY DEF Init, Written
<1>10. Stored
  BY <1>1, <1>3, <1>9 DEF Init, Stored
<1>11. WriteOrder
  BY <1>1, <1>3, <1>9 DEF Init, WriteOrder, Before
<1>12. Published
  BY DEF Init, Published
<1> QED BY <1>4, <1>5, <1>6, <1>8, <1>10, <1>11, <1>12 DEF IInv

\* A step that leaves the five places, the answers and what is published alone.
LEMMA SamePlaces ==
  ASSUME Queues, Answers, Published, poller'.cbs = poller.cbs, waiters' = waiters,
         flush'.jobs = flush.jobs, pending' = pending, stray' = stray,
         next' = next, published' = published, answers' = answers
  PROVE Queues' /\ Answers' /\ Published'
<1>1. Waiting' = Waiting
  BY DEF Waiting
<1>2. Held' = Held
  BY <1>1 DEF Held
<1>3. Queues'
  BY <1>1, Zenon DEF Queues
<1>4. Answers'
  BY <1>2 DEF Answers
<1> QED BY <1>3, <1>4 DEF Published

\* A step that writes nothing and moves nothing.
LEMMA SameStore ==
  ASSUME Stored, WriteOrder, poller'.cbs = poller.cbs, waiters' = waiters,
         flush' = flush, pending' = pending, next' = next, published' = published,
         answers' = answers, applied' = applied, durable' = durable,
         poller'.ok = poller.ok \/ poller.cbs = << >>
  PROVE Stored' /\ WriteOrder'
<1>1. \A n : Written(n)' = Written(n)
  BY DEF Written
<1>2. Range(<< >>) = {}
  BY DEF Range
<1>3. Stored'
  BY <1>1, <1>2 DEF Stored
<1>4. WriteOrder'
  BY <1>1 DEF WriteOrder
<1> QED BY <1>3, <1>4

\* The poller's and the closer's own steps.
LEMMA QuietSteps ==
  ASSUME IInv, Poll \/ DurableSeq \/ CallbacksDone \/ CloseShutdown \/ CloseStore
  PROVE IInv'
<1> USE DEF IInv
<1>0. /\ poller.seq \in Nat /\ durable \in Nat
      /\ poller = [pc |-> poller.pc, seq |-> poller.seq, cbs |-> poller.cbs, ok |-> poller.ok]
  BY DEF TypeOK
<1>1. CASE Poll
  <2>1. poller' = [poller EXCEPT !.pc = "durableSeq"] /\ poller.pc = "select"
        /\ UNCHANGED <<next, queue, flush, notifier, closer, stray, store, published, answers>>
    BY <1>1 DEF Poll
  <2>2. TypeOK'
    BY <2>1, Zenon DEF TypeOK, queue, notifier, store
  <2>3. Control'
    BY <1>0, <2>1 DEF TypeOK, Control, queue, notifier, store
  <2>4. poller'.cbs = poller.cbs /\ poller'.ok = poller.ok
    BY <1>0, <2>1
  <2> QED BY <2>1, <2>2, <2>3, <2>4, SamePlaces, SameStore DEF queue, notifier, store
<1>2. CASE DurableSeq
  <2>1. poller' = [poller EXCEPT !.pc = "covered", !.seq = durable] /\ poller.pc = "durableSeq"
        /\ UNCHANGED <<next, queue, flush, notifier, closer, stray, store, published, answers>>
    BY <1>2 DEF DurableSeq
  <2>2. TypeOK'
    BY <2>1, <1>0, Zenon DEF TypeOK, queue, notifier, store
  <2>3. Control'
    BY <1>0, <2>1 DEF TypeOK, Control, queue, notifier, store
  <2>4. poller'.cbs = poller.cbs /\ poller'.ok = poller.ok
    BY <1>0, <2>1
  <2> QED BY <2>1, <2>2, <2>3, <2>4, SamePlaces, SameStore, ZenonT(30) DEF queue, notifier, store
<1>3. CASE CallbacksDone
  <2>1. /\ poller' = [poller EXCEPT !.pc = IF @ = "last" THEN "exited" ELSE "select",
                                    !.seq = 0, !.ok = TRUE]
        /\ poller.cbs = << >>
        /\ UNCHANGED <<next, queue, flush, notifier, closer, stray, store, published, answers>>
    BY <1>3 DEF CallbacksDone
  <2>2. TypeOK'
    BY <2>1, <1>0, Zenon DEF TypeOK, queue, notifier, store
  <2>3. Control'
    BY <1>0, <2>1 DEF TypeOK, Control, queue, notifier, store
  <2>4. poller'.cbs = poller.cbs
    BY <1>0, <2>1
  <2> QED BY <2>1, <2>2, <2>3, <2>4, SamePlaces, SameStore DEF queue, notifier, store
<1>4. CASE CloseShutdown
  <2>1. closer = "wait" /\ flush.pc = "none" /\ stop' = TRUE /\ closer' = "shutdown"
        /\ UNCHANGED <<next, queue, flush, waiters, nclosed, poller, stray, store, published, answers>>
    BY <1>4 DEF CloseShutdown
  <2>2. TypeOK' /\ Control'
    BY <2>1 DEF TypeOK, Control, queue, store
  <2> QED BY <2>1, <2>2, SamePlaces, SameStore DEF queue, store
<1>5. CASE CloseStore
  <2>1. closer = "shutdown" /\ closer' = "closed"
        /\ UNCHANGED <<next, queue, flush, notifier, poller, stray, store, published, answers>>
    BY <1>5 DEF CloseStore
  <2>2. TypeOK' /\ Control'
    BY <2>1 DEF TypeOK, Control, queue, notifier, store
  <2> QED BY <2>1, <2>2, SamePlaces, SameStore DEF queue, notifier, store
<1> QED BY <1>1, <1>2, <1>3, <1>4, <1>5
\* More of the store becomes durable.
LEMMA PersistStep ==
  ASSUME IInv, Persist
  PROVE IInv'
<1> USE DEF IInv
<1>1. /\ durable \in Nat /\ Len(applied) \in Nat
      /\ durable' \in (durable + 1)..Len(applied)
      /\ UNCHANGED <<next, queue, flush, notifier, poller, closer, stray, applied,
                     published, answers>>
  BY DEF TypeOK, Persist
<1>2. TypeOK'
  BY <1>1 DEF TypeOK, queue, notifier
<1>3. Control'
  BY <1>1 DEF TypeOK, Control, queue, notifier
<1>4. Queues' /\ Answers' /\ Published'
  BY <1>1, SamePlaces DEF queue, notifier
<1>5. \A n : Written(n)' = Written(n)
  BY <1>1 DEF Written
<1>6. Written(durable) \subseteq Written(durable')
  <2>1. 1..durable \subseteq 1..durable'
    BY <1>1
  <2> QED BY <2>1, Zenon DEF Written
<1>7. Stored'
  BY <1>1, <1>5, <1>6 DEF Stored, queue, notifier
<1>8. WriteOrder'
  BY <1>1, <1>5, ZenonT(30) DEF WriteOrder, queue
<1> QED BY <1>2, <1>3, <1>4, <1>7, <1>8

\* A batch goes to the store behind everything written.
LEMMA FlushCommitStep ==
  ASSUME IInv, FlushCommit
  PROVE IInv'
<1> USE DEF IInv
<1> DEFINE n == Len(applied)
           F == Range(flush.jobs)
<1>1. /\ flush.pc = "commit" /\ applied' = Append(applied, flush.jobs)
      /\ flush' = [flush EXCEPT !.pc = "subscribe", !.seq = n + 1]
      /\ UNCHANGED <<next, queue, notifier, poller, closer, stray, durable, published, answers>>
  BY DEF FlushCommit
<1>2. /\ n \in Nat /\ durable \in 0..n /\ flush.jobs \in Seq(JobIds)
      /\ applied \in Seq(Seq(JobIds))
      /\ flush = [pc |-> flush.pc, jobs |-> flush.jobs, seq |-> flush.seq]
  BY DEF TypeOK
<1>3. /\ applied' \in Seq(Seq(JobIds)) /\ Len(applied') = n + 1
      /\ applied'[n + 1] = flush.jobs
      /\ \A b \in 1..n : applied'[b] = applied[b]
  BY <1>1, <1>2
<1>4. flush'.pc = "subscribe" /\ flush'.jobs = flush.jobs /\ flush'.seq = n + 1
  BY <1>1, <1>2
<1>5. TypeOK'
  <2>1. flush' \in Flushes
    <3>1. flush' = [pc |-> "subscribe", jobs |-> flush.jobs, seq |-> n + 1]
      BY <1>1, <1>2, Zenon
    <3>2. n + 1 \in Nat
      BY <1>2
    <3> QED BY <1>2, <3>1, <3>2, FlushFields
  <2>2. durable' \in 0..Len(applied')
    BY <1>1, <1>2, <1>3
  <2> QED BY <1>1, <1>3, <2>1, <2>2, ZenonT(30) DEF TypeOK, Flushes, queue, notifier
<1>6. Control'
  BY <1>1, <1>4 DEF Control, queue, notifier
<1>7. Queues' /\ Answers' /\ Published'
  BY <1>1, <1>4, SamePlaces DEF queue, notifier
<1>8. Written(durable)' = Written(durable)
  <2>1. \A b \in 1..durable : applied'[b] = applied[b]
    BY <1>2, <1>3
  <2>2. durable' = durable
    BY <1>1
  <2> QED BY <2>1, <2>2 DEF Written
<1>9. Written(Len(applied))' = Written(n) \cup F
  <2>1. Written(Len(applied))' = UNION {Range(applied'[b]) : b \in 1..(n + 1)}
    BY <1>3 DEF Written
  <2>2. \A b \in 1..(n + 1) : b \in 1..n \/ b = n + 1
    BY <1>2
  <2>3. \A b \in 1..n : b \in 1..(n + 1)
    BY <1>2
  <2>4. n + 1 \in 1..(n + 1)
    BY <1>2
  <2> QED BY <1>3, <2>1, <2>2, <2>3, <2>4, Zenon DEF Written
<1>10. Stored'
  <2>1. \A i \in 1..Len(waiters) : waiters[i].target \in 1..n /\ waiters[i].target \in 1..(n + 1)
    <3>1. \A x \in 1..n : x \in 1..(n + 1)
      BY <1>2
    <3> QED BY <3>1, Zenon DEF Stored
  <2>2. \A i \in 1..Len(waiters) : applied'[waiters[i].target] = applied[waiters[i].target]
    BY <1>3, <2>1, Zenon
  <2>3. waiters' = waiters /\ poller' = poller /\ answers' = answers /\ published' = published
    BY <1>1 DEF notifier
  <2>4. flush'.seq = Len(applied') /\ flush'.seq > 0
    BY <1>2, <1>3, <1>4
  <2>5. Range(flush'.jobs) \subseteq Range(applied'[flush'.seq])
    BY <1>3, <1>4
  <2>6. \A i \in 1..Len(waiters) : /\ waiters[i].target \in 1..Len(applied')
                                   /\ waiters[i].job \in Range(applied'[waiters[i].target])
    BY <1>3, <2>1, <2>2, ZenonT(30) DEF Stored
  <2> QED BY <1>8, <2>3, <2>4, <2>5, <2>6 DEF Stored
<1>11. WriteOrder'
  <2>1. Before(Written(n), F) /\ Before(Written(n), Range(pending)) /\ Before(F, Range(pending))
    BY <1>1 DEF WriteOrder, Queues, Before
  <2>2. \A b \in 1..n : Range(applied[b]) \subseteq Written(n)
    BY DEF Written
  <2>3. \A b1, b2 \in 1..Len(applied') : b1 < b2 => Before(Range(applied'[b1]), Range(applied'[b2]))
    <3> SUFFICES ASSUME NEW b1 \in 1..(n + 1), NEW b2 \in 1..(n + 1), b1 < b2
                 PROVE Before(Range(applied'[b1]), Range(applied'[b2]))
      BY <1>3
    <3>1. b1 \in 1..n
      BY <1>2
    <3>2. CASE b2 \in 1..n
      BY <1>3, <3>1, <3>2 DEF WriteOrder
    <3>3. CASE b2 = n + 1
      <4>1. Before(Range(applied[b1]), F)
        BY <2>1, <2>2, <3>1, Zenon DEF Before
      <4> QED BY <1>3, <3>1, <3>3, <4>1
    <3> QED BY <1>2, <3>2, <3>3
  <2>4. pending' = pending /\ next' = next
    BY <1>1 DEF queue
  <2>5. Before(Written(n) \cup F, Range(pending))
    BY <2>1, Zenon DEF Before
  <2>6. \A j \in Written(n) \cup F : j[2] <= next[j[1]]
    <3>1. F \subseteq JobIds /\ F \subseteq Held
      BY <1>2, RangeOfSeq DEF Held
    <3> QED BY <3>1 DEF Answers, WriteOrder
  <2> QED BY <1>4, <1>9, <2>3, <2>4, <2>5, <2>6 DEF WriteOrder
<1> QED BY <1>5, <1>6, <1>7, <1>10, <1>11
-----------------------------------------------------------------------------
(* Steps that move or answer bursts. *)

\* No burst comes before itself: places in order among themselves do not overlap.
LEMMA Apart ==
  ASSUME NEW A \in SUBSET JobIds, NEW B, Before(A, B)
  PROVE \A j \in A : j \notin B
<1>1. \A j \in JobIds : ~Older(j, j)
  BY DEF JobIds, Older
<1> QED BY <1>1 DEF Before

\* The places hold jobs.
LEMMA HeldTypes ==
  ASSUME TypeOK
  PROVE /\ poller.cbs \in Seq(JobIds) /\ flush.jobs \in Seq(JobIds)
        /\ pending \in Seq(JobIds) /\ stray \in Seq(JobIds) /\ Waiting \in Seq(JobIds)
        /\ Range(poller.cbs) \subseteq JobIds /\ Range(Waiting) \subseteq JobIds
        /\ Range(flush.jobs) \subseteq JobIds /\ Range(pending) \subseteq JobIds
        /\ Range(stray) \subseteq JobIds
<1>1. /\ poller.cbs \in Seq(JobIds) /\ flush.jobs \in Seq(JobIds)
      /\ pending \in Seq(JobIds) /\ stray \in Seq(JobIds)
  BY DEF TypeOK
<1>2. Waiting \in Seq(JobIds)
  BY WaitingType DEF TypeOK
<1>3. ASSUME NEW q \in Seq(JobIds) PROVE Range(q) \subseteq JobIds
  BY DEF Range
<1> QED BY <1>1, <1>2, <1>3

\* replyAll adds the outcome to the answered jobs.
LEMMA AnswerFacts ==
  ASSUME TypeOK, NEW js, NEW o \in {"ok", "error"}, Answer(js, o)
  PROVE /\ answers' \in [JobIds -> Seq({"ok", "error"})]
        /\ \A j \in JobIds : answers'[j] = IF j \in Range(js) THEN Append(answers[j], o)
                                                             ELSE answers[j]
        /\ o = "error" => \A j \in JobIds : answers'[j] = <<"ok">> => answers[j] = <<"ok">>
<1>1. answers \in [JobIds -> Seq({"ok", "error"})]
  BY DEF TypeOK
<1>2. \A j \in JobIds : answers[j] \in Seq({"ok", "error"})
                        /\ Append(answers[j], o) \in Seq({"ok", "error"})
  BY <1>1
<1>3. answers' = [j \in JobIds |-> IF j \in Range(js) THEN Append(answers[j], o) ELSE answers[j]]
  BY DEF Answer
<1>4. \A q \in Seq({"ok", "error"}) : Append(q, "error") # <<"ok">>
  <2> TAKE q \in Seq({"ok", "error"})
  <2>1. Append(q, "error")[Len(q) + 1] = "error" /\ Len(Append(q, "error")) = Len(q) + 1
    OBVIOUS
  <2>2. <<"ok">>[1] = "ok" /\ Len(<<"ok">>) = 1
    OBVIOUS
  <2>3. Len(q) + 1 = 1 => <<"ok">>[Len(q) + 1] = "ok"
    BY <2>2
  <2> QED BY <2>1, <2>2, <2>3, Zenon
<1> HIDE <1>1
<1> QED BY <1>2, <1>3, <1>4

\* A step that answers the held bursts K and lets go of them.
LEMMA AnswersKept ==
  ASSUME TypeOK, Answers, NEW K \in SUBSET Held, NEW o, Held' = Held \ K, next' = next,
         \A j \in JobIds : answers'[j] = IF j \in K THEN Append(answers[j], o) ELSE answers[j],
         \A j \in JobIds : j \in Held \ K => published'[j[1]] < j[2]
  PROVE Answers'
<1> SUFFICES ASSUME NEW j \in JobIds
             PROVE /\ j \in Held' => /\ answers'[j] = << >> /\ published'[j[1]] < j[2]
                                     /\ j[2] <= next'[j[1]]
                   /\ j \notin Held' /\ j[2] <= next'[j[1]] => Len(answers'[j]) = 1
                   /\ next'[j[1]] < j[2] => answers'[j] = << >>
  BY DEF Answers
<1>1. /\ j[1] \in Streams /\ j[2] \in Nat /\ next[j[1]] \in Nat
  <2>1. next \in [Streams -> 0..MaxJobs]
    BY Zenon DEF TypeOK
  <2> QED BY <2>1, JobFields, Zenon
<1>2. CASE j \in K
  <2>1. j \in Held /\ answers[j] = << >> /\ j[2] <= next[j[1]]
    BY <1>2 DEF Answers
  <2>2. answers'[j] = Append(<< >>, o)
    BY <1>2, <2>1, Zenon
  <2>3. Len(Append(<< >>, o)) = 1
    OBVIOUS
  <2> QED BY <1>1, <1>2, <2>1, <2>2, <2>3
<1>3. CASE j \notin K
  BY <1>1, <1>3 DEF Answers
<1> QED BY <1>2, <1>3

\* CommitAsync failed: the batch is answered and dropped.
LEMMA FlushFailsStep ==
  ASSUME IInv, FlushFails
  PROVE IInv'
<1> USE DEF IInv
<1> DEFINE F == Range(flush.jobs)
<1>1. /\ flush.pc = "commit" /\ Answer(flush.jobs, "error")
      /\ flush' = [flush EXCEPT !.pc = "loop", !.jobs = << >>]
      /\ UNCHANGED <<next, queue, notifier, poller, closer, stray, store, published>>
  BY DEF FlushFails
<1>2. /\ flush = [pc |-> flush.pc, jobs |-> flush.jobs, seq |-> flush.seq]
      /\ flush.seq \in Nat /\ << >> \in Seq(JobIds)
  BY DEF TypeOK
<1>3. flush' = [pc |-> "loop", jobs |-> << >>, seq |-> flush.seq] /\ flush' \in Flushes
  <2>1. flush' = [pc |-> "loop", jobs |-> << >>, seq |-> flush.seq]
    BY <1>1, <1>2, Zenon
  <2> QED BY <1>2, <2>1, FlushFields, Zenon
<1>4. /\ answers' \in [JobIds -> Seq({"ok", "error"})]
      /\ \A j \in JobIds : answers'[j] = IF j \in F THEN Append(answers[j], "error") ELSE answers[j]
      /\ \A j \in JobIds : answers'[j] = <<"ok">> => answers[j] = <<"ok">>
  BY <1>1, AnswerFacts
<1>5. TypeOK'
  BY <1>1, <1>3, <1>4 DEF TypeOK, Flushes, queue, notifier, store
<1>6. Control'
  BY <1>1, <1>3 DEF Control, queue, notifier, store
<1>7. Range(<< >>) = {} /\ Ordered(<< >>) /\ Waiting' = Waiting
  BY <1>1 DEF Range, Ordered, Waiting, notifier
<1>8. Queues'
  BY <1>1, <1>3, <1>7 DEF Queues, Before, queue
<1>9. Held' = Held \ F
  <2>1. F \in SUBSET JobIds /\ Range(poller.cbs) \in SUBSET JobIds /\ Range(Waiting) \in SUBSET JobIds
    BY HeldTypes
  <2>2. /\ \A j \in Range(poller.cbs) : j \notin F
        /\ \A j \in Range(Waiting) : j \notin F
        /\ \A j \in F : j \notin Range(pending) \cup Range(stray)
    BY <2>1, Apart DEF Queues
  <2> QED BY <1>1, <1>3, <1>7, <2>2 DEF Held, queue
<1>10. Answers'
  <2>1. F \in SUBSET Held
    BY DEF Held
  <2>2. \A j \in JobIds : j \in Held \ F => published'[j[1]] < j[2]
    BY <1>1 DEF Answers
  <2>3. next' = next
    BY <1>1
  <2> HIDE DEF F
  <2> QED BY <1>4, <1>9, <2>1, <2>2, <2>3, AnswersKept, Zenon
<1>11. \A n : Written(n)' = Written(n)
  BY <1>1 DEF Written, store
<1>12. Stored'
  BY <1>1, <1>3, <1>4, <1>11 DEF Stored, notifier, store
<1>13. WriteOrder'
  BY <1>1, <1>3, <1>11 DEF WriteOrder, queue, store
<1>14. Published'
  BY <1>1 DEF Published
<1> QED BY <1>5, <1>6, <1>8, <1>10, <1>12, <1>13, <1>14
\* A callback is registered, or failed when the notifier is closed.
LEMMA SubscribeStep ==
  ASSUME IInv, Subscribe
  PROVE IInv'
<1> USE DEF IInv
<1> DEFINE job == Head(flush.jobs)
           rest == Tail(flush.jobs)
           wtr == [target |-> flush.seq, job |-> job]
<1>1. /\ flush.pc = "subscribe" /\ flush.jobs # << >>
      /\ \/ nclosed /\ Answer(<<job>>, "error") /\ UNCHANGED waiters
         \/ /\ ~nclosed
            /\ waiters' = SubSeq(waiters, 1, Position(flush.seq)) \o <<wtr>>
                            \o SubSeq(waiters, Position(flush.seq) + 1, Len(waiters))
            /\ UNCHANGED answers
      /\ flush' = [flush EXCEPT !.jobs = rest]
      /\ UNCHANGED <<next, queue, nclosed, stop, poller, closer, stray, store, published>>
  BY Zenon DEF Subscribe
<1>2. /\ flush = [pc |-> flush.pc, jobs |-> flush.jobs, seq |-> flush.seq]
      /\ flush.seq \in Nat /\ flush.jobs \in Seq(JobIds)
  BY DEF TypeOK
<1>3. /\ job \in JobIds /\ rest \in Seq(JobIds)
      /\ Range(flush.jobs) = {job} \cup Range(rest)
      /\ Ordered(rest) /\ Before({job}, Range(rest))
  BY <1>1, <1>2, HeadAndTail, Zenon DEF Queues
<1>4. flush' = [pc |-> "subscribe", jobs |-> rest, seq |-> flush.seq] /\ flush' \in Flushes
  <2>1. flush' = [pc |-> "subscribe", jobs |-> rest, seq |-> flush.seq]
    BY <1>1, <1>2, Zenon
  <2> HIDE DEF rest
  <2> QED BY <1>2, <1>3, <2>1, FlushFields
<1> HIDE DEF job, rest
<1>5. Control'
  BY <1>1, <1>4 DEF Control, queue, store
<1>6. \A n : Written(n)' = Written(n)
  BY <1>1 DEF Written, store
<1>7. WriteOrder'
  BY <1>1, <1>4, <1>6 DEF WriteOrder, queue, store
<1>8. Published'
  BY <1>1 DEF Published
<1>9. /\ Before({job}, Range(pending) \cup Range(stray)) /\ Before(Range(Waiting), {job})
      /\ Before(Range(poller.cbs), {job}) /\ job \in Held
  BY <1>3 DEF Queues, Before, Held
<1>10. CASE nclosed /\ Answer(<<job>>, "error") /\ UNCHANGED waiters
  <2>1. /\ answers' \in [JobIds -> Seq({"ok", "error"})]
        /\ \A j \in JobIds : answers'[j] = IF j \in Range(<<job>>) THEN Append(answers[j], "error")
                                                                  ELSE answers[j]
        /\ \A j \in JobIds : answers'[j] = <<"ok">> => answers[j] = <<"ok">>
    BY <1>10, AnswerFacts
  <2>2. Range(<<job>>) = {job}
    BY DEF Range
  <2>3. TypeOK'
    BY <1>1, <1>4, <1>10, <2>1, ZenonT(30) DEF TypeOK, Flushes, queue, store
  <2>4. Waiting' = Waiting
    BY <1>10 DEF Waiting
  <2>5. Queues'
    BY <1>1, <1>3, <1>4, <2>4 DEF Queues, Before, queue
  <2>6. Held' = Held \ {job}
    <3>1. Range(poller.cbs) \in SUBSET JobIds /\ Range(Waiting) \in SUBSET JobIds
          /\ {job} \in SUBSET JobIds
      BY <1>3, HeldTypes
    <3>2. /\ job \notin Range(poller.cbs) /\ job \notin Range(Waiting) /\ job \notin Range(rest)
          /\ job \notin Range(pending) \cup Range(stray)
      <4>1. job \notin Range(poller.cbs) /\ job \notin Range(Waiting)
        BY <1>9, <3>1, Apart, Zenon
      <4>2. job \notin Range(rest) /\ job \notin Range(pending) \cup Range(stray)
        BY <1>3, <1>9, <3>1, Apart, Zenon
      <4> QED BY <4>1, <4>2
    <3> QED BY <1>1, <1>3, <1>4, <2>4, <3>2, ZenonT(30) DEF Held, queue
  <2>7. Answers'
    <3>1. {job} \in SUBSET Held
      BY <1>9
    <3>2. \A j \in JobIds : j \in Held \ {job} => published'[j[1]] < j[2]
      BY <1>1 DEF Answers
    <3>3. next' = next
      BY <1>1
    <3> QED BY <2>1, <2>2, <2>6, <3>1, <3>2, <3>3, AnswersKept, ZenonT(30)
  <2>8. Stored'
    BY <1>1, <1>3, <1>4, <1>6, <1>10, <2>1, Zenon DEF Stored, store
  <2> QED BY <1>5, <1>7, <1>8, <2>3, <2>5, <2>7, <2>8, ZenonT(30)
<1>11. CASE /\ waiters' = SubSeq(waiters, 1, Position(flush.seq)) \o <<wtr>>
                            \o SubSeq(waiters, Position(flush.seq) + 1, Len(waiters))
            /\ UNCHANGED answers
  <2>1. wtr \in Waiter /\ wtr.job = job /\ wtr.target = flush.seq
    BY <1>2, <1>3 DEF Waiter
  <2> HIDE DEF wtr
  <2>2. waiters \in Seq(Waiter)
    BY DEF TypeOK
  <2>3. flush.seq = Len(applied) /\ flush.seq > 0 /\ job \in Range(applied[flush.seq])
        /\ \A i \in 1..Len(waiters) : waiters[i].target \in 1..flush.seq
    BY <1>1, <1>3 DEF Stored
  <2>4. \A i \in 1..Len(waiters) : waiters[i].target <= flush.seq
    BY <1>2, <2>3, SMTT(30)
  <2>5. waiters' = Append(waiters, wtr)
    BY <1>2, <1>11, <2>1, <2>2, <2>4, SubscribeAppends, Zenon
  <2>6. /\ waiters' \in Seq(Waiter) /\ Len(waiters') = Len(waiters) + 1
        /\ waiters'[Len(waiters) + 1] = wtr
        /\ \A i \in 1..Len(waiters) : waiters'[i] = waiters[i]
    BY <2>1, <2>2, <2>5
  <2>7. Waiting' = Append(Waiting, job)
    <3>1. Waiting \in Seq(JobIds) /\ Len(Waiting) = Len(waiters)
          /\ \A i \in 1..Len(waiters) : Waiting[i] = waiters[i].job
      BY <2>2, WaitingType
    <3>2. /\ Append(Waiting, job) \in Seq(JobIds) /\ Len(Append(Waiting, job)) = Len(waiters) + 1
          /\ Append(Waiting, job)[Len(waiters) + 1] = job
          /\ \A i \in 1..Len(waiters) : Append(Waiting, job)[i] = waiters[i].job
      <4>1. Waiting \in Seq(JobIds)
        BY <3>1
      <4>2. /\ Append(Waiting, job) \in Seq(JobIds)
            /\ Len(Append(Waiting, job)) = Len(Waiting) + 1
            /\ Append(Waiting, job)[Len(Waiting) + 1] = job
            /\ \A i \in 1..Len(Waiting) : Append(Waiting, job)[i] = Waiting[i]
        BY <1>3, <4>1
      <4> QED BY <3>1, <4>2, Zenon
    <3>3. Append(Waiting, job) = [i \in 1..(Len(waiters) + 1) |-> Append(Waiting, job)[i]]
      BY <3>2, SeqIsFunction, Zenon
    <3>4. \A i \in 1..(Len(waiters) + 1) : waiters'[i].job = Append(Waiting, job)[i]
      <4>1. \A i \in 1..(Len(waiters) + 1) : i \in 1..Len(waiters) \/ i = Len(waiters) + 1
        BY <2>2
      <4> QED BY <2>1, <2>6, <3>2, <4>1, Zenon
    <3>5. Waiting' = [i \in 1..(Len(waiters) + 1) |-> waiters'[i].job]
      BY <2>6 DEF Waiting
    <3> QED BY <3>3, <3>4, <3>5, Zenon
  <2>8. /\ Range(Append(Waiting, job)) = Range(Waiting) \cup {job}
        /\ Ordered(Append(Waiting, job))
    <3>1. Waiting \in Seq(JobIds)
      BY HeldTypes, Zenon
    <3>2. Ordered(Waiting)
      BY Zenon DEF Queues
    <3> QED BY <1>3, <1>9, <3>1, <3>2, RangeOfAppend, Zenon
  <2>9. TypeOK'
    BY <1>1, <1>4, <1>11, <2>6, ZenonT(30) DEF TypeOK, Flushes, queue, store
  <2>10. Queues'
    BY <1>1, <1>3, <1>4, <1>9, <2>7, <2>8 DEF Queues, Before, queue
  <2>11. Held' = Held
    BY <1>1, <1>3, <1>4, <2>7, <2>8, ZenonT(30) DEF Held, queue
  <2>12. Answers'
    BY <1>1, <1>11, <2>11 DEF Answers
  <2>13. \A i \in 1..Len(waiters') : /\ waiters'[i].target \in 1..Len(applied')
                                     /\ waiters'[i].job \in Range(applied'[waiters'[i].target])
    <3>1. applied' = applied
      BY <1>1 DEF store
    <3>2. \A i \in 1..Len(waiters') : i \in 1..Len(waiters) \/ i = Len(waiters) + 1
      BY <2>2, <2>6
    <3>3. flush.seq \in 1..Len(applied)
      BY <1>2, <2>3, SMTT(30)
    <3> QED BY <2>1, <2>3, <2>6, <3>1, <3>2, <3>3, Zenon DEF Stored
  <2>14. Stored'
    <3>1. /\ answers' = answers /\ poller' = poller /\ published' = published
          /\ applied' = applied /\ durable' = durable
      BY <1>1, <1>11, ZenonT(30) DEF store
    <3>2. Range(rest) \subseteq Range(applied[flush.seq])
      BY <1>1, <1>3, ZenonT(30) DEF Stored
    <3> HIDE <1>1, <1>11
    <3> QED BY <1>4, <1>6, <2>3, <2>13, <3>1, <3>2, ZenonT(30) DEF Stored
  <2> QED BY <1>5, <1>7, <1>8, <2>9, <2>10, <2>12, <2>14
<1> QED BY <1>1, <1>10, <1>11, Zenon
\* The flush goroutine takes the next batch, or ends.
LEMMA FlushLoopStep ==
  ASSUME IInv, FlushLoop
  PROVE IInv'
<1> USE DEF IInv
<1>1. /\ flush.pc = "loop" \/ (flush.pc = "subscribe" /\ flush.jobs = << >>)
      /\ \/ pending = << >> /\ flushing' = FALSE /\ flush' = Idle /\ UNCHANGED pending
         \/ /\ flush' = [pc |-> "commit", jobs |-> TakeBatch(pending), seq |-> 0]
            /\ pending' = LeaveQueued(pending) /\ UNCHANGED flushing
      /\ UNCHANGED <<next, closed, notifier, poller, closer, stray, store, published, answers>>
  BY DEF FlushLoop
<1>2. flush.jobs = << >> /\ Range(<< >>) = {} /\ Ordered(<< >>) /\ << >> \in Seq(JobIds)
  BY <1>1 DEF Control, Range, Ordered
<1>3. Waiting' = Waiting
  BY <1>1 DEF Waiting, notifier
<1>4. \A n : Written(n)' = Written(n)
  BY <1>1 DEF Written, store
<1>5. Published'
  BY <1>1 DEF Published
<1>6. CASE pending = << >> /\ flushing' = FALSE /\ flush' = Idle /\ UNCHANGED pending
  <2>1. flush' = [pc |-> "none", jobs |-> << >>, seq |-> 0] /\ flush' \in Flushes
    BY <1>2, <1>6, FlushFields, Zenon DEF Idle
  <2>2. TypeOK'
    BY <1>1, <1>6, <2>1, ZenonT(30) DEF TypeOK, Flushes, notifier, store
  <2>3. Control'
    BY <1>1, <1>6, <2>1, SMTT(30) DEF Control, notifier, store
  <2>4. flush'.jobs = flush.jobs /\ waiters' = waiters /\ pending' = pending
    BY <1>1, <1>2, <1>6, <2>1, SMTT(30) DEF notifier
  <2>5. Queues' /\ Answers'
    BY <1>1, <2>4, SamePlaces, ZenonT(30) DEF notifier
  <2>6. Stored'
    BY <1>1, <1>4, <2>1, <2>4, ZenonT(30) DEF Stored, store
  <2>7. WriteOrder'
    BY <1>1, <1>4, <2>1, <2>4 DEF WriteOrder, store
  <2> QED BY <1>5, <2>2, <2>3, <2>5, <2>6, <2>7
<1>7. CASE /\ flush' = [pc |-> "commit", jobs |-> TakeBatch(pending), seq |-> 0]
           /\ pending' = LeaveQueued(pending) /\ UNCHANGED flushing
  <2> DEFINE a == TakeBatch(pending)
             b == LeaveQueued(pending)
  <2>1. pending \in Seq(JobIds) /\ Ordered(pending)
    BY DEF TypeOK, Queues
  <2>2. /\ a \in Seq(JobIds) /\ b \in Seq(JobIds) /\ Range(pending) = Range(a) \cup Range(b)
        /\ Ordered(a) /\ Ordered(b) /\ Before(Range(a), Range(b))
    BY <2>1, Batch
  <2>3. flush' = [pc |-> "commit", jobs |-> a, seq |-> 0] /\ pending' = b
    BY <1>7
  <2> HIDE DEF a, b
  <2>4. flush' \in Flushes
    BY <2>2, <2>3, FlushFields, ZenonT(30)
  <2>5. TypeOK'
    BY <1>1, <1>7, <2>2, <2>3, <2>4, ZenonT(30) DEF TypeOK, Flushes, notifier, store
  <2>6. closed => b = << >>
    <3>1. closed => pending = << >>
      BY DEF Control
    <3>2. pending = << >> => LeaveQueued(pending) = << >>
      BY CommitterAssumption, SMTT(30) DEF LeaveQueued
    <3> QED BY <3>1, <3>2 DEF b
  <2>7. Control'
    BY <1>1, <1>7, <2>3, <2>6 DEF Control, notifier, store
  <2>8. Before(Range(a), Range(stray)) /\ Before(Range(b), Range(stray))
    <3>1. stray = << >> \/ pending = << >>
      BY DEF Control
    <3>2. Range(stray) = {} \/ Range(pending) = {}
      BY <1>2, <3>1, ZenonT(30)
    <3> QED BY <2>2, <3>2 DEF Before
  <2>9. Queues'
    BY <1>1, <1>2, <1>3, <2>2, <2>3, <2>8, ZenonT(30) DEF Queues, Before
  <2>10. Held' = Held
    BY <1>1, <1>2, <1>3, <2>2, <2>3, ZenonT(30) DEF Held
  <2>11. Answers'
    BY <1>1, <2>10, ZenonT(30) DEF Answers
  <2>12. Stored'
    BY <1>1, <1>4, <2>3, ZenonT(30) DEF Stored, notifier, store
  <2>13. WriteOrder'
    BY <1>1, <1>4, <2>2, <2>3 DEF WriteOrder, Before, store
  <2> QED BY <1>5, <2>5, <2>7, <2>9, <2>11, <2>12, <2>13, ZenonT(30)
<1> QED BY <1>1, <1>6, <1>7, Zenon
\* fire takes the covered front of the waiting list.
LEMMA FireStep ==
  ASSUME IInv, Fire
  PROVE IInv'
<1> USE DEF IInv
<1> DEFINE K == {k \in 1..Len(waiters) : \A m \in 1..k : Covered(waiters[m])}
           c == Cardinality(K)
           cbs == [k \in 1..c |-> waiters[k].job]
           rest == [k \in 1..(Len(waiters) - c) |-> waiters[c + k].job]
<1>1. /\ poller.pc = "covered"
      /\ poller' = [poller EXCEPT !.pc = "fire", !.cbs = cbs]
      /\ waiters' = SubSeq(waiters, c + 1, Len(waiters))
      /\ UNCHANGED <<next, queue, flush, nclosed, stop, closer, stray, store, published, answers>>
  BY DEF Fire
<1>2. /\ poller = [pc |-> poller.pc, seq |-> poller.seq, cbs |-> poller.cbs, ok |-> poller.ok]
      /\ poller.seq \in Nat /\ waiters \in Seq(Waiter) /\ Len(waiters) \in Nat
  BY DEF TypeOK
<1>3. poller.cbs = << >> /\ poller.ok = TRUE /\ poller.seq <= durable
  BY <1>1 DEF Control, TypeOK
<1>4. c \in 0..Len(waiters) /\ K = 1..c
  <2>1. K \in SUBSET (1..Len(waiters))
    OBVIOUS
  <2>2. \A k \in K : \A m \in 1..k : m \in K
    <3> TAKE k \in K
    <3> TAKE m \in 1..k
    <3>1. m \in 1..Len(waiters) /\ \A x \in 1..m : x \in 1..k
      BY <1>2
    <3> QED BY <3>1
  <2> HIDE DEF K
  <2> QED BY <1>2, <2>1, <2>2, PrefixSet, Zenon
<1>5. \A k \in 1..c : waiters[k].target <= poller.seq
  <2>1. \A k \in 1..c : k \in K /\ k \in 1..k
    BY <1>4, SMTT(30)
  <2> QED BY <2>1 DEF Covered
<1> HIDE DEF K, c
<1>6. \A i \in 1..Len(waiters) : waiters[i].job \in JobIds
  <2>1. \A i \in 1..Len(waiters) : waiters[i] \in Waiter
    BY <1>2
  <2> QED BY <2>1 DEF Waiter
<1>7. /\ cbs \in Seq(JobIds) /\ Len(cbs) = c /\ \A k \in 1..c : cbs[k] = waiters[k].job
      /\ \A k \in 1..c : k \in 1..Len(waiters)
  <2>1. \A k \in 1..c : k \in 1..Len(waiters)
    BY <1>2, <1>4, SMTT(30)
  <2>2. \A k \in 1..c : waiters[k].job \in JobIds
    BY <1>6, <2>1, Zenon
  <2> QED BY <1>4, <2>1, <2>2, SMTT(30)
<1>8. /\ rest \in Seq(JobIds) /\ Len(rest) = Len(waiters) - c
      /\ \A k \in 1..(Len(waiters) - c) : rest[k] = waiters[c + k].job
      /\ \A k \in 1..(Len(waiters) - c) : c + k \in 1..Len(waiters)
  <2>1. \A k \in 1..(Len(waiters) - c) : c + k \in 1..Len(waiters)
    BY <1>2, <1>4
  <2>2. \A k \in 1..(Len(waiters) - c) : waiters[c + k].job \in JobIds
    BY <1>6, <2>1, Zenon
  <2>3. Len(waiters) - c \in Nat
    BY <1>2, <1>4
  <2> QED BY <2>1, <2>2, <2>3
<1>9. /\ waiters' \in Seq(Waiter) /\ Len(waiters') = Len(waiters) - c
      /\ \A k \in 1..(Len(waiters) - c) : waiters'[k] = waiters[c + k]
  <2>1. waiters' = SubSeq(waiters, c + 1, Len(waiters))
    BY <1>1
  <2> HIDE <1>1
  <2> QED BY <1>2, <1>4, <2>1
<1>10. Waiting' = rest
  BY <1>9 DEF Waiting
<1> HIDE DEF cbs, rest
<1>11. /\ Range(Waiting) = Range(cbs) \cup Range(rest)
       /\ Ordered(cbs) /\ Ordered(rest) /\ Before(Range(cbs), Range(rest))
  <2>1. /\ Waiting \in Seq(JobIds) /\ Len(Waiting) = Len(waiters)
        /\ \A i \in 1..Len(waiters) : Waiting[i] = waiters[i].job
    BY <1>2, WaitingType, ZenonT(30)
  <2>2. Ordered(Waiting)
    BY Zenon DEF Queues
  <2>3. Len(Waiting) = Len(cbs) + Len(rest)
    BY <1>2, <1>4, <1>7, <1>8, <2>1
  <2>4. \A k \in 1..Len(cbs) : cbs[k] = Waiting[k]
    BY <1>7, <2>1, Zenon
  <2>5. \A k \in 1..Len(rest) : rest[k] = Waiting[Len(cbs) + k]
    BY <1>7, <1>8, <2>1, Zenon
  <2>6. Waiting \in Seq(JobIds) /\ cbs \in Seq(JobIds) /\ rest \in Seq(JobIds)
    BY <1>7, <1>8, <2>1, Zenon
  <2>7. Splits(Waiting, cbs, rest)
    BY <2>3, <2>4, <2>5, <2>6 DEF Splits
  <2> QED BY <2>2, <2>7, Cut
<1>12. poller' = [pc |-> "fire", seq |-> poller.seq, cbs |-> cbs, ok |-> TRUE]
  BY <1>1, <1>2, <1>3, Zenon
<1>13. poller' \in Pollers
  BY <1>2, <1>7, <1>12, PollerFields, Zenon
<1>14. TypeOK'
  BY <1>1, <1>9, <1>13, Zenon DEF TypeOK, Pollers, queue, store
<1>15. Control'
  BY <1>1, <1>3, <1>12 DEF Control, queue, store
<1>16. Range(<< >>) = {}
  BY DEF Range
<1>17. Queues'
  BY <1>1, <1>10, <1>11, <1>12 DEF Queues, Before, queue
<1>18. Held' = Held
  BY <1>1, <1>3, <1>10, <1>11, <1>12, <1>16 DEF Held, queue
<1>19. Answers'
  BY <1>1, <1>18 DEF Answers
<1>20. \A n : Written(n)' = Written(n)
  BY <1>1 DEF Written, store
<1>21. Range(cbs) \subseteq Written(durable)
  <2>1. \A k \in 1..c : cbs[k] \in Written(durable)
    <3> TAKE k \in 1..c
    <3> DEFINE t == waiters[k].target
    <3>1. t \in 1..Len(applied) /\ waiters[k].job \in Range(applied[t]) /\ t <= poller.seq
      BY <1>5, <1>7, ZenonT(30) DEF Stored
    <3> HIDE DEF t
    <3>2. t \in 1..durable
      BY <1>2, <1>3, <3>1, SMTT(30) DEF TypeOK
    <3> QED BY <1>7, <3>1, <3>2 DEF Written
  <2>2. Range(cbs) = {cbs[k] : k \in 1..c}
    BY <1>7, RangeOfSeq, Zenon
  <2> QED BY <2>1, <2>2
<1>22. Stored'
  <2>1. \A i \in 1..Len(waiters') : /\ waiters'[i].target \in 1..Len(applied)
                                    /\ waiters'[i].job \in Range(applied[waiters'[i].target])
    BY <1>8, <1>9, Zenon DEF Stored
  <2>2. /\ answers' = answers /\ flush' = flush /\ published' = published
        /\ applied' = applied /\ durable' = durable
    BY <1>1 DEF store
  <2> HIDE <1>1
  <2> QED BY <1>12, <1>20, <1>21, <2>1, <2>2 DEF Stored
<1>23. WriteOrder' /\ Published'
  BY <1>1, <1>20 DEF WriteOrder, Published, queue, store
<1> QED BY <1>14, <1>15, <1>17, <1>19, <1>22, <1>23
\* closeAll takes every waiting callback.
LEMMA CloseAllStep ==
  ASSUME IInv, PollFails \/ PollerStops
  PROVE IInv'
<1> USE DEF IInv
<1>1. PICK pc \in {"fire", "last"} : closeAll(pc) /\ poller.pc \in {"durableSeq", "select"}
  BY DEF PollFails, PollerStops
<1>2. /\ poller' = [poller EXCEPT !.pc = pc, !.ok = FALSE, !.cbs = Waiting]
      /\ waiters' = << >> /\ nclosed' = TRUE
      /\ UNCHANGED <<next, queue, flush, stop, closer, stray, store, published, answers>>
  BY <1>1 DEF closeAll, Waiting
<1>3. /\ poller = [pc |-> poller.pc, seq |-> poller.seq, cbs |-> poller.cbs, ok |-> poller.ok]
      /\ poller.seq \in Nat
  BY DEF TypeOK
<1>4. Waiting \in Seq(JobIds)
  BY HeldTypes, Zenon
<1>5. poller' = [pc |-> pc, seq |-> poller.seq, cbs |-> Waiting, ok |-> FALSE]
  BY <1>2, <1>3, Zenon
<1>6. poller' \in Pollers
  BY <1>1, <1>3, <1>4, <1>5, PollerFields, Zenon
<1>7. TypeOK'
  BY <1>2, <1>6, SMTT(30) DEF TypeOK, Pollers, queue, store
<1>8. Control'
  BY <1>1, <1>2, <1>5 DEF Control, queue, store
<1>9. /\ Waiting' = << >> /\ Range(<< >>) = {} /\ Ordered(<< >>)
      /\ poller.cbs = << >>
  BY <1>1, <1>2 DEF Waiting, Range, Ordered, Control
<1>10. Queues'
  BY <1>2, <1>5, <1>9 DEF Queues, Before, queue
<1>11. Held' = Held
  BY <1>2, <1>5, <1>9 DEF Held, queue
<1>12. Answers'
  BY <1>2, <1>11 DEF Answers
<1>13. \A n : Written(n)' = Written(n)
  BY <1>2 DEF Written, store
<1>14. Stored'
  BY <1>2, <1>5, <1>13 DEF Stored, store
<1>15. WriteOrder' /\ Published'
  BY <1>2, <1>13 DEF WriteOrder, Published, queue, store
<1> QED BY <1>7, <1>8, <1>10, <1>12, <1>14, <1>15

\* One callback: the oldest burst in flight is published and answered.
LEMMA CallbackStep ==
  ASSUME IInv, Callback
  PROVE /\ IInv'
        /\ \A s \in Streams : published[s] <= published'[s]
<1> USE DEF IInv
<1> DEFINE job == Head(poller.cbs)
           rest == Tail(poller.cbs)
           o == IF poller.ok THEN "ok" ELSE "error"
<1>1. /\ poller.pc \in {"fire", "last"} /\ poller.cbs # << >>
      /\ IF poller.ok THEN applyReader(job) ELSE UNCHANGED published
      /\ Answer(<<job>>, o)
      /\ poller' = [poller EXCEPT !.cbs = rest]
      /\ UNCHANGED <<next, queue, flush, notifier, closer, stray, store>>
  BY DEF Callback
<1>2. /\ poller = [pc |-> poller.pc, seq |-> poller.seq, cbs |-> poller.cbs, ok |-> poller.ok]
      /\ poller \in Pollers /\ poller.cbs \in Seq(JobIds)
  BY DEF TypeOK, Pollers
<1>3. /\ job \in JobIds /\ rest \in Seq(JobIds)
      /\ Range(poller.cbs) = {job} \cup Range(rest)
      /\ Ordered(rest) /\ Before({job}, Range(rest))
  BY <1>1, <1>2, HeadAndTail, Zenon DEF Queues
<1>4. poller' = [pc |-> poller.pc, seq |-> poller.seq, cbs |-> rest, ok |-> poller.ok]
  BY <1>1, <1>2, Zenon
<1>5. o \in {"ok", "error"} /\ (o = "ok" <=> poller.ok)
  OBVIOUS
<1> HIDE DEF job, rest, o
<1>6. poller' \in Pollers
  BY <1>2, <1>3, <1>4, PollerFields
<1>7. /\ answers' \in [JobIds -> Seq({"ok", "error"})]
      /\ \A j \in JobIds : answers'[j] = IF j \in {job} THEN Append(answers[j], o) ELSE answers[j]
      /\ o = "error" => \A j \in JobIds : answers'[j] = <<"ok">> => answers[j] = <<"ok">>
  <2>1. Range(<<job>>) = {job}
    BY DEF Range
  <2> QED BY <1>1, <1>5, <2>1, AnswerFacts, ZenonT(30)
<1>8. /\ job[1] \in Streams /\ job[2] \in 1..MaxJobs /\ published[job[1]] < job[2]
      /\ job[2] <= next[job[1]] /\ job \in Held /\ published \in [Streams -> 0..MaxJobs]
  BY <1>3, ZenonT(30) DEF Answers, Held, TypeOK, JobIds
<1>9. published' \in [Streams -> 0..MaxJobs]
      /\ \A s \in Streams : published'[s] = IF poller.ok /\ s = job[1] THEN job[2] ELSE published[s]
  BY <1>1, <1>8 DEF applyReader
<1>10. TypeOK'
  BY <1>1, <1>6, <1>7, <1>9, Zenon DEF TypeOK, Pollers, queue, notifier, store
<1>11. Control'
  BY <1>1, <1>4 DEF Control, queue, notifier, store
<1>12. Waiting' = Waiting
  BY <1>1 DEF Waiting, notifier
<1>13. Queues'
  BY <1>1, <1>3, <1>4, <1>12, ZenonT(30) DEF Queues, Before, queue
<1>14. /\ Before({job}, Range(Waiting)) /\ Before({job}, Range(flush.jobs))
       /\ Before({job}, Range(pending) \cup Range(stray))
  BY <1>3, Zenon DEF Queues, Before
<1>15. Held' = Held \ {job}
  <2>1. {job} \in SUBSET JobIds
    BY <1>3
  <2>2. /\ job \notin Range(rest) /\ job \notin Range(Waiting) /\ job \notin Range(flush.jobs)
        /\ job \notin Range(pending) \cup Range(stray)
    BY <1>3, <1>14, <2>1, Apart, Zenon
  <2> QED BY <1>1, <1>3, <1>4, <1>12, <2>2, ZenonT(30) DEF Held, queue
<1>16. Answers'
  <2>1. \A j \in Held \ {job} : Older(job, j)
    BY <1>3, <1>14, ZenonT(30) DEF Held, Before
  <2>2. \A j \in JobIds : j \in Held \ {job} => published'[j[1]] < j[2]
    BY <1>8, <1>9, <2>1 DEF Answers, Older, JobIds
  <2>3. {job} \in SUBSET Held /\ next' = next
    BY <1>1, <1>8
  <2> QED BY <1>7, <1>15, <2>2, <2>3, AnswersKept, ZenonT(30)
<1>17. \A n : Written(n)' = Written(n)
  BY <1>1 DEF Written, store
<1>18. \A s \in Streams : published[s] <= published'[s] /\ published'[s] <= next'[s]
  <2> TAKE s \in Streams
  <2>1. published[s] \in Nat /\ next[s] \in Nat /\ published[s] <= next[s] /\ next' = next
    BY <1>1, <1>8, CommitterAssumption, SMTT(30) DEF Published, TypeOK
  <2>2. CASE published'[s] = published[s]
    BY <2>1, <2>2, SMTT(30)
  <2>3. CASE s = job[1] /\ published'[s] = job[2]
    BY <1>8, <2>1, <2>3, CommitterAssumption, SMTT(30)
  <2> QED BY <1>9, <2>2, <2>3
<1>19. Stored'
  <2>1. ASSUME NEW j \in JobIds, answers'[j] = <<"ok">>
        PROVE j \in Written(durable) /\ j[2] <= published'[j[1]]
    <3>1. j[1] \in Streams /\ j[2] \in Nat
      BY CommitterAssumption, SMTT(30) DEF JobIds
    <3>2. CASE answers[j] = <<"ok">>
      BY <1>8, <1>9, <1>18, <3>1, <3>2, SMTT(30) DEF Stored
    <3>3. CASE answers[j] # <<"ok">>
      <4>1. j = job /\ poller.ok
        BY <1>5, <1>7, <2>1, <3>3, ZenonT(30)
      <4>2. job \in Written(durable)
        BY <1>3, <4>1 DEF Stored
      <4> QED BY <1>8, <1>9, <4>1, <4>2, SMTT(30)
    <3> QED BY <3>2, <3>3
  <2>2. Range(rest) \subseteq Range(poller.cbs)
    BY <1>3
  <2> QED BY <1>1, <1>4, <1>17, <2>1, <2>2, ZenonT(30) DEF Stored, notifier, store
<1>20. WriteOrder'
  BY <1>1, <1>17 DEF WriteOrder, queue, store
<1>21. Published'
  BY <1>18 DEF Published
<1> QED BY <1>10, <1>11, <1>13, <1>16, <1>18, <1>19, <1>20, <1>21, ZenonT(30)
\* close takes what is queued ...
LEMMA CloseStartStep ==
  ASSUME IInv, CloseStart
  PROVE IInv'
<1> USE DEF IInv
<1>1. /\ closer = "open" /\ closer' = "stray" /\ closed' = TRUE
      /\ stray' = pending /\ pending' = << >>
      /\ UNCHANGED <<next, flushing, flush, notifier, poller, store, published, answers>>
  BY ZenonT(30) DEF CloseStart
<1>2. stray = << >> /\ Range(<< >>) = {} /\ Ordered(<< >>) /\ Waiting' = Waiting
  BY <1>1, SMTT(30) DEF Control, Range, Ordered, Waiting, notifier
<1>3. TypeOK'
  BY <1>1, SMTT(30) DEF TypeOK, notifier, store
<1>4. Control'
  BY <1>1, ZenonT(30) DEF Control, notifier, store
<1>5. Queues'
  BY <1>1, <1>2, ZenonT(30) DEF Queues, Before
<1>6. Held' = Held
  BY <1>1, <1>2, ZenonT(30) DEF Held
<1>7. Answers' /\ Published'
  BY <1>1, <1>6 DEF Answers, Published
<1>8. \A n : Written(n)' = Written(n)
  BY <1>1, ZenonT(30) DEF Written, store
<1>9. Stored'
  BY <1>1, <1>8, ZenonT(30) DEF Stored, notifier, store
<1>10. WriteOrder'
  BY <1>1, <1>2, <1>8, ZenonT(30) DEF WriteOrder, Before, store
<1> QED BY <1>3, <1>4, <1>5, <1>7, <1>9, <1>10

\* ... and fails it.
LEMMA CloseStrayStep ==
  ASSUME IInv, CloseStray
  PROVE IInv'
<1> USE DEF IInv
<1> DEFINE S == Range(stray)
<1>1. /\ closer = "stray" /\ Answer(stray, "error") /\ stray' = << >> /\ closer' = "wait"
      /\ UNCHANGED <<next, queue, flush, notifier, poller, store, published>>
  BY DEF CloseStray
<1>2. /\ answers' \in [JobIds -> Seq({"ok", "error"})]
      /\ \A j \in JobIds : answers'[j] = IF j \in S THEN Append(answers[j], "error") ELSE answers[j]
      /\ \A j \in JobIds : answers'[j] = <<"ok">> => answers[j] = <<"ok">>
  BY <1>1, AnswerFacts, ZenonT(30)
<1>3. Range(<< >>) = {} /\ Ordered(<< >>) /\ Waiting' = Waiting /\ pending = << >>
  <2>1. Range(<< >>) = {} /\ Ordered(<< >>)
    BY EmptyRange DEF Ordered
  <2>2. Waiting' = Waiting
    BY <1>1, Zenon DEF Waiting, notifier
  <2>3. pending = << >>
    BY <1>1 DEF Control
  <2> QED BY <2>1, <2>2, <2>3, Zenon
<1>4. TypeOK'
  BY <1>1, <1>2, SMTT(30) DEF TypeOK, queue, notifier, store
<1>5. Control'
  BY <1>1, ZenonT(30) DEF Control, queue, notifier, store
<1>6. Queues'
  BY <1>1, <1>3, ZenonT(30) DEF Queues, Before, queue
<1>7. Held' = Held \ S
  <2>1. /\ Range(poller.cbs) \in SUBSET JobIds /\ Range(Waiting) \in SUBSET JobIds
        /\ Range(flush.jobs) \in SUBSET JobIds
    BY HeldTypes, ZenonT(30)
  <2>2. /\ \A j \in Range(poller.cbs) : j \notin Range(pending) \cup S
        /\ \A j \in Range(Waiting) : j \notin Range(pending) \cup S
        /\ \A j \in Range(flush.jobs) : j \notin Range(pending) \cup S
    BY <2>1, Apart, ZenonT(30) DEF Queues
  <2> QED BY <1>1, <1>3, <2>2, ZenonT(30) DEF Held, queue
<1>8. Answers'
  <2>1. S \in SUBSET Held
    BY ZenonT(30) DEF Held
  <2>2. \A j \in JobIds : j \in Held \ S => published'[j[1]] < j[2]
    BY <1>1 DEF Answers
  <2>3. next' = next
    BY <1>1
  <2> HIDE DEF S
  <2> QED BY <1>2, <1>7, <2>1, <2>2, <2>3, AnswersKept, Zenon
<1>9. \A n : Written(n)' = Written(n)
  BY <1>1, ZenonT(30) DEF Written, store
<1>10. Stored'
  BY <1>1, <1>2, <1>9, Zenon DEF Stored, notifier, store
<1>11. WriteOrder' /\ Published'
  BY <1>1, <1>9, ZenonT(30) DEF WriteOrder, Published, queue, store
<1> QED BY <1>4, <1>5, <1>6, <1>8, <1>10, <1>11

\* A streamer commits its next burst.
LEMMA CommitStep ==
  ASSUME IInv, NEW s \in Streams, Commit(s)
  PROVE IInv'
<1> USE DEF IInv
<1> DEFINE job == <<s, next[s] + 1>>
           q == Append(pending, job)
<1>1. /\ next[s] < MaxJobs /\ next' = [next EXCEPT ![s] = next[s] + 1]
      /\ \/ closed /\ Answer(<<job>>, "error") /\ UNCHANGED <<queue, flush>>
         \/ ~closed /\ flushing /\ pending' = q /\ UNCHANGED <<flushing, closed, flush, answers>>
         \/ /\ ~closed /\ ~flushing /\ flushing' = TRUE
            /\ flush' = [pc |-> "commit", jobs |-> TakeBatch(q), seq |-> 0]
            /\ pending' = LeaveQueued(q) /\ UNCHANGED <<closed, answers>>
      /\ UNCHANGED <<notifier, poller, closer, stray, store, published>>
  BY DEF Commit
<1>2. next \in [Streams -> 0..MaxJobs] /\ next[s] \in Nat /\ MaxJobs \in Nat
  <2>1. next \in [Streams -> 0..MaxJobs]
    BY Zenon DEF TypeOK
  <2> QED BY <2>1, JobFields, CommitterAssumption, Zenon
<1>3. job \in JobIds /\ job[1] = s /\ job[2] = next[s] + 1
  BY <1>1, <1>2, JobFields, Zenon
<1>4. /\ next' \in [Streams -> 0..MaxJobs] /\ next'[s] = next[s] + 1
      /\ \A x \in Streams : x # s => next'[x] = next[x]
  BY <1>1, <1>2, SMTT(30)
<1>5. \A j \in JobIds : /\ j[1] \in Streams /\ j[2] \in Nat /\ next[j[1]] \in Nat
                        /\ j[2] <= next[j[1]] => j[2] <= next'[j[1]] /\ Older(j, job)
                        /\ j[2] <= next'[j[1]] => j = job \/ j[2] <= next[j[1]]
                        /\ next'[j[1]] < j[2] => next[j[1]] < j[2]
  <2> TAKE j \in JobIds
  <2>1. j = <<j[1], j[2]>> /\ j[1] \in Streams /\ j[2] \in Nat /\ next[j[1]] \in Nat
    BY <1>2, SMTT(30) DEF JobIds
  <2>2. CASE j[1] = s
    BY <1>2, <1>3, <1>4, <2>1, <2>2, SMTT(30) DEF Older
  <2>3. CASE j[1] # s
    BY <1>2, <1>3, <1>4, <2>1, <2>3, ZenonT(30) DEF Older
  <2> QED BY <2>2, <2>3, ZenonT(30)
<1>6. /\ job \notin Held /\ answers[job] = << >> /\ ~(job[2] <= next[job[1]])
      /\ job[2] <= next'[job[1]] /\ published[job[1]] < job[2]
  <2>1. ~(job[2] <= next[job[1]]) /\ next[job[1]] < job[2] /\ job[2] <= next'[job[1]]
    BY <1>2, <1>3, <1>4
  <2>2. published[s] \in Nat /\ published[s] <= next[s]
    BY <1>2 DEF Published, TypeOK
  <2>3. published[job[1]] < job[2]
    BY <1>2, <1>3, <2>2, SMTT(30)
  <2> QED BY <1>3, <2>1, <2>3, ZenonT(30) DEF Answers
<1>7. Before(Held, {job}) /\ Before(Written(Len(applied)), {job})
  <2>1. Held \subseteq JobIds
    BY HeldTypes DEF Held
  <2>2. Written(Len(applied)) \subseteq JobIds
    <3>1. \A b \in 1..Len(applied) : applied[b] \in Seq(JobIds)
      BY Entries, Zenon DEF TypeOK
    <3>2. \A x \in Seq(JobIds) : Range(x) \subseteq JobIds
      BY DEF Range
    <3> QED BY <3>1, <3>2, Zenon DEF Written
  <2> QED BY <1>5, <2>1, <2>2, ZenonT(30) DEF Answers, WriteOrder, Before
<1> HIDE DEF job, q
<1>8. Published'
  <2>1. \A x \in Streams : published[x] \in Nat /\ next[x] \in Nat /\ published[x] <= next[x]
    BY <1>2, SMTT(30) DEF Published, TypeOK
  <2>2. \A x \in Streams : published[x] <= next'[x]
    BY <1>4, <2>1, SMTT(30)
  <2> QED BY <1>1, <2>2 DEF Published
<1>9. (\A n : Written(n)' = Written(n)) /\ Waiting' = Waiting
  BY <1>1, Zenon DEF Written, Waiting, store, notifier
<1>10. \A j \in Written(Len(applied)) : j[2] <= next'[j[1]]
  <2>1. Written(Len(applied)) \subseteq JobIds
    <3>1. \A b \in 1..Len(applied) : applied[b] \in Seq(JobIds)
      BY DEF TypeOK
    <3>2. \A x \in Seq(JobIds) : Range(x) \subseteq JobIds
      BY DEF Range
    <3> QED BY <3>1, <3>2, Zenon DEF Written
  <2> QED BY <1>5, <2>1, ZenonT(30) DEF WriteOrder
<1>11. CASE closed /\ Answer(<<job>>, "error") /\ UNCHANGED <<queue, flush>>
  <2>1. /\ answers' \in [JobIds -> Seq({"ok", "error"})]
        /\ \A j \in JobIds : answers'[j] = IF j \in Range(<<job>>) THEN Append(answers[j], "error")
                                                                  ELSE answers[j]
        /\ \A j \in JobIds : answers'[j] = <<"ok">> => answers[j] = <<"ok">>
    BY <1>11, AnswerFacts
  <2>2. Range(<<job>>) = {job} /\ Len(Append(<< >>, "error")) = 1
    BY SMTT(30) DEF Range
  <2>3. TypeOK'
    BY <1>1, <1>4, <1>11, <2>1, ZenonT(30) DEF TypeOK, queue, notifier, store
  <2>4. Control'
    BY <1>1, <1>11 DEF Control, queue, notifier, store
  <2>5. Queues'
    BY <1>1, <1>9, <1>11, Zenon DEF Queues, queue
  <2>6. Held' = Held
    BY <1>1, <1>9, <1>11, ZenonT(30) DEF Held, queue
  <2>7. Answers'
    <3> SUFFICES ASSUME NEW j \in JobIds
                 PROVE /\ j \in Held => /\ answers'[j] = << >> /\ published[j[1]] < j[2]
                                        /\ j[2] <= next'[j[1]]
                       /\ j \notin Held /\ j[2] <= next'[j[1]] => Len(answers'[j]) = 1
                       /\ next'[j[1]] < j[2] => answers'[j] = << >>
      BY <1>1, <2>6, ZenonT(30) DEF Answers
    <3>1. CASE j = job
      <4>1. answers'[j] = Append(<< >>, "error")
        <5>1. answers'[job] = Append(answers[job], "error")
          BY <1>3, <2>1, <2>2, Zenon
        <5> QED BY <1>6, <3>1, <5>1, Zenon
      <4>2. ~(next'[j[1]] < j[2])
        <5>1. next'[job[1]] \in Nat /\ job[2] \in Nat
          BY <1>3, <1>4
        <5>2. ~(next'[job[1]] < job[2])
          BY <1>6, <5>1
        <5> QED BY <3>1, <5>2, Zenon
      <4>3. j \notin Held /\ Len(answers'[j]) = 1
        BY <1>6, <2>2, <3>1, <4>1, Zenon
      <4> QED BY <4>2, <4>3, Zenon
    <3>2. CASE j # job
      BY <1>5, <2>1, <2>2, <3>2, ZenonT(30) DEF Answers
    <3> QED BY <3>1, <3>2, ZenonT(30)
  <2>8. Stored'
    BY <1>1, <1>9, <1>11, <2>1, ZenonT(30) DEF Stored, notifier, store
  <2>9. WriteOrder'
    BY <1>1, <1>9, <1>10, <1>11, ZenonT(30) DEF WriteOrder, queue, store
  <2> QED BY <1>8, <2>3, <2>4, <2>5, <2>7, <2>8, <2>9, ZenonT(30)
<1>12. ASSUME Held' = Held \cup {job}, answers' = answers PROVE Answers'
  <2> SUFFICES ASSUME NEW j \in JobIds
               PROVE /\ j \in Held \cup {job} => /\ answers[j] = << >> /\ published[j[1]] < j[2]
                                                 /\ j[2] <= next'[j[1]]
                     /\ j \notin Held \cup {job} /\ j[2] <= next'[j[1]] => Len(answers[j]) = 1
                     /\ next'[j[1]] < j[2] => answers[j] = << >>
    BY <1>1, <1>12, ZenonT(30) DEF Answers
  <2>1. CASE j = job
    BY <1>6, <2>1, ZenonT(30)
  <2>2. CASE j # job
    BY <1>5, <2>2, ZenonT(30) DEF Answers
  <2> QED BY <2>1, <2>2, ZenonT(30)
<1>13. /\ pending \in Seq(JobIds) /\ Ordered(pending) /\ Before(Range(pending), {job})
       /\ q \in Seq(JobIds) /\ Range(q) = Range(pending) \cup {job} /\ Ordered(q)
  <2>1. pending \in Seq(JobIds) /\ Ordered(pending) /\ Before(Range(pending), {job})
    BY <1>7, ZenonT(30) DEF TypeOK, Queues, Before, Held
  <2> QED BY <1>3, <2>1, RangeOfAppend, ZenonT(30) DEF q
<1>14. ~closed => stray = << >> /\ Range(stray) = {}
  BY SMTT(30) DEF Control, Range
<1>15. CASE ~closed /\ flushing /\ pending' = q /\ UNCHANGED <<flushing, closed, flush, answers>>
  <2>1. TypeOK'
    BY <1>1, <1>4, <1>13, <1>15, ZenonT(30) DEF TypeOK, notifier, store
  <2>2. Control'
    BY <1>1, <1>15, Zenon DEF Control, notifier, store
  <2>3. Queues'
    BY <1>1, <1>7, <1>9, <1>13, <1>14, <1>15, ZenonT(30) DEF Queues, Before, Held
  <2>4. Held' = Held \cup {job}
    BY <1>1, <1>9, <1>13, <1>15, ZenonT(30) DEF Held
  <2>5. Answers'
    BY <1>12, <1>15, <2>4, Zenon
  <2>6. Stored'
    BY <1>1, <1>9, <1>15, ZenonT(30) DEF Stored, notifier, store
  <2>7. WriteOrder'
    BY <1>1, <1>7, <1>9, <1>10, <1>13, <1>15, ZenonT(30) DEF WriteOrder, Before, store
  <2> QED BY <1>8, <2>1, <2>2, <2>3, <2>5, <2>6, <2>7
<1>16. CASE /\ ~closed /\ ~flushing /\ flushing' = TRUE
            /\ flush' = [pc |-> "commit", jobs |-> TakeBatch(q), seq |-> 0]
            /\ pending' = LeaveQueued(q) /\ UNCHANGED <<closed, answers>>
  <2> DEFINE a == TakeBatch(q)
             b == LeaveQueued(q)
  <2>1. /\ a \in Seq(JobIds) /\ b \in Seq(JobIds) /\ Range(q) = Range(a) \cup Range(b)
        /\ Ordered(a) /\ Ordered(b) /\ Before(Range(a), Range(b))
    BY <1>13, Batch, ZenonT(30)
  <2>2. flush' = [pc |-> "commit", jobs |-> a, seq |-> 0] /\ pending' = b
    BY <1>16, ZenonT(30)
  <2> HIDE DEF a, b
  <2>3. flush' \in Flushes
    BY <2>1, <2>2, FlushFields, ZenonT(30)
  <2>4. flush.pc = "none" /\ flush.jobs = << >> /\ Range(flush.jobs) = {}
    <3>1. flush.pc = "none" /\ flush.jobs = << >>
      BY <1>16, Zenon DEF Control
    <3> QED BY <3>1, EmptyRange, Zenon
  <2>5. TypeOK'
    BY <1>1, <1>4, <1>16, <2>1, <2>2, <2>3, ZenonT(30) DEF TypeOK, Flushes, notifier, store
  <2>6. Control'
    <3>1. flush'.pc = "commit"
      BY <2>2, ZenonT(30)
    <3>2. /\ closed' = closed /\ closer' = closer /\ stray' = stray /\ poller' = poller
          /\ durable' = durable /\ flushing' = TRUE
      BY <1>1, <1>16 DEF store
    <3>3. closer = "open"
      BY <1>16, Zenon DEF Control
    <3> QED BY <1>16, <3>1, <3>2, <3>3, SMTT(30) DEF Control
  <2>7. /\ Before(Range(poller.cbs), Range(a)) /\ Before(Range(poller.cbs), Range(b))
        /\ Before(Range(Waiting), Range(a)) /\ Before(Range(Waiting), Range(b))
    <3>1. \A j \in Range(a) \cup Range(b) : j \in Range(pending) \/ j = job
      BY <1>13, <2>1, Zenon
    <3>2. \A i \in Range(poller.cbs) \cup Range(Waiting) : Older(i, job)
      BY <1>7, Zenon DEF Before, Held
    <3> QED BY <3>1, <3>2, Zenon DEF Queues, Before
  <2>8. Queues'
    <3>1. flush'.jobs = a /\ poller' = poller /\ stray' = stray
      BY <1>1, <2>2
    <3>2. Range(b) \cup Range(stray) = Range(b)
      BY <1>14, <1>16, Zenon
    <3> QED BY <1>9, <2>1, <2>2, <2>7, <3>1, <3>2, ZenonT(30) DEF Queues
  <2>9. Held' = Held \cup {job}
    BY <1>1, <1>9, <1>13, <2>1, <2>2, <2>4, Zenon DEF Held
  <2>10. Answers'
    BY <1>12, <1>16, <2>9, ZenonT(30)
  <2>11. Stored'
    BY <1>1, <1>9, <1>16, <2>2, SMTT(30) DEF Stored, notifier, store
  <2>12. WriteOrder'
    BY <1>1, <1>7, <1>9, <1>10, <1>13, <2>1, <2>2, ZenonT(30) DEF WriteOrder, Before, store
  <2> QED BY <1>8, <2>5, <2>6, <2>8, <2>10, <2>11, <2>12
<1> QED BY <1>1, <1>11, <1>15, <1>16, Zenon
\* Every step keeps the invariant.
LEMMA NextInv == IInv /\ [Next]_vars => IInv'
<1> SUFFICES ASSUME IInv, [Next]_vars PROVE IInv'
  OBVIOUS
<1>1. CASE \E s \in Streams : Commit(s)
  BY <1>1, CommitStep
<1>2. CASE FlushCommit \/ FlushFails \/ Subscribe \/ FlushLoop
  BY <1>2, FlushCommitStep, FlushFailsStep, SubscribeStep, FlushLoopStep, ZenonT(30)
<1>3. CASE Fire \/ PollFails \/ PollerStops \/ Callback
  BY <1>3, FireStep, CloseAllStep, CallbackStep
<1>4. CASE Poll \/ DurableSeq \/ CallbacksDone \/ CloseShutdown \/ CloseStore
  BY <1>4, QuietSteps
<1>5. CASE CloseStart \/ CloseStray \/ Persist
  BY <1>5, CloseStartStep, CloseStrayStep, PersistStep, ZenonT(30)
<1>6. CASE UNCHANGED vars
  <2> USE DEF IInv
  <2>1. Queues' /\ Answers' /\ Published' /\ Stored' /\ WriteOrder'
    BY <1>6, SamePlaces, SameStore, Zenon DEF vars
  <2>2. TypeOK' /\ Control'
    BY <1>6, ZenonT(30) DEF vars, TypeOK, Control
  <2> QED BY <2>1, <2>2, ZenonT(30)
<1> QED BY <1>1, <1>2, <1>3, <1>4, <1>5, <1>6, ZenonT(30) DEF Next

\* The invariant holds in every reachable state.
LEMMA Invariance == Spec => []IInv
<1> QED BY InitInv, NextInv, PTL DEF Spec

-----------------------------------------------------------------------------
(* What follows from it. *)

\* q followed by r.
LEMMA Joined ==
  ASSUME NEW q \in Seq(JobIds), NEW r \in Seq(JobIds)
  PROVE /\ q \o r \in Seq(JobIds) /\ Range(q \o r) = Range(q) \cup Range(r)
        /\ Ordered(q) /\ Ordered(r) /\ Before(Range(q), Range(r)) => Ordered(q \o r)
<1> DEFINE t == q \o r
<1>1. /\ t \in Seq(JobIds) /\ Len(t) = Len(q) + Len(r)
      /\ \A i \in 1..Len(q) : q[i] = t[i]
      /\ \A i \in 1..Len(r) : r[i] = t[Len(q) + i]
  BY SMTT(30)
<1> HIDE DEF t
<1>2. Splits(t, q, r)
  BY <1>1 DEF Splits
<1>3. Range(t) = Range(q) \cup Range(r)
  BY <1>2, Cut
<1>4. ASSUME Ordered(q), Ordered(r), Before(Range(q), Range(r)) PROVE Ordered(t)
  <2> SUFFICES ASSUME NEW i \in 1..Len(t), NEW k \in 1..Len(t), i < k
               PROVE Older(t[i], t[k])
    BY <1>1, SMTT(30) DEF Ordered
  <2>1. CASE k \in 1..Len(q)
    <3>1. i \in 1..Len(q)
      BY <1>1, <2>1
    <3> QED BY <1>1, <1>4, <2>1, <3>1, Entries, Zenon DEF Ordered
  <2>2. CASE k \notin 1..Len(q)
    <3> DEFINE n == k - Len(q)
    <3>1. n \in 1..Len(r) /\ k = Len(q) + n
      BY <1>1, <2>2
    <3> HIDE DEF n
    <3>2. t[k] = r[n]
      BY <1>1, <3>1, ZenonT(30)
    <3>3. CASE i \in 1..Len(q)
      BY <1>1, <1>4, <3>1, <3>2, <3>3, SMTT(30) DEF Before, Range
    <3>4. CASE i \notin 1..Len(q)
      <4> DEFINE m == i - Len(q)
      <4>1. m \in 1..Len(r) /\ i = Len(q) + m /\ m < n
        BY <1>1, <3>1, <3>4, SMTT(30)
      <4> HIDE DEF m
      <4>2. t[i] = r[m] /\ DOMAIN r = 1..Len(r)
        BY <1>1, <4>1, SMTT(30)
      <4>3. Older(r[m], r[n])
        BY <1>4, <3>1, <4>1, <4>2, ZenonT(30) DEF Ordered
      <4> QED BY <3>2, <4>2, <4>3, ZenonT(30)
    <3> QED BY <3>3, <3>4
  <2> QED BY <2>1, <2>2
<1> QED BY <1>1, <1>3, <1>4, ZenonT(30) DEF t

\* Everything on its way, taken together, is in order.
LEMMA InFlightOrdered ==
  ASSUME IInv
  PROVE InFlight \in Seq(JobIds) /\ Range(InFlight) = Held /\ Ordered(InFlight)
<1> USE DEF IInv
<1> DEFINE q1 == poller.cbs \o Waiting
           q2 == q1 \o flush.jobs
           q3 == q2 \o pending
           q4 == q3 \o stray
<1>1. /\ poller.cbs \in Seq(JobIds) /\ flush.jobs \in Seq(JobIds)
      /\ pending \in Seq(JobIds) /\ stray \in Seq(JobIds) /\ Waiting \in Seq(JobIds)
  BY HeldTypes, ZenonT(30)
<1>2. /\ q1 \in Seq(JobIds) /\ Range(q1) = Range(poller.cbs) \cup Range(Waiting) /\ Ordered(q1)
  BY <1>1, Joined, ZenonT(30) DEF Queues
<1> HIDE DEF q1
<1>3. /\ q2 \in Seq(JobIds) /\ Range(q2) = Range(q1) \cup Range(flush.jobs) /\ Ordered(q2)
  <2>1. Before(Range(q1), Range(flush.jobs)) /\ Ordered(flush.jobs)
    BY <1>2 DEF Queues, Before
  <2> QED BY <1>1, <1>2, <2>1, Joined, ZenonT(30)
<1> HIDE DEF q2
<1>4. /\ q3 \in Seq(JobIds) /\ Range(q3) = Range(q2) \cup Range(pending) /\ Ordered(q3)
  <2>1. Before(Range(q2), Range(pending)) /\ Ordered(pending)
    BY <1>2, <1>3 DEF Queues, Before
  <2> QED BY <1>1, <1>3, <2>1, Joined, ZenonT(30)
<1> HIDE DEF q3
<1>5. /\ q4 \in Seq(JobIds) /\ Range(q4) = Range(q3) \cup Range(stray) /\ Ordered(q4)
  <2>1. stray = << >> \/ pending = << >>
    BY DEF Control
  <2>2. Range(stray) = {} \/ Range(pending) = {}
    BY <2>1, EmptyRange, ZenonT(30)
  <2>3. Before(Range(q3), Range(stray)) /\ Ordered(stray)
    BY <1>2, <1>3, <1>4, <2>2 DEF Queues, Before
  <2> QED BY <1>1, <1>4, <2>3, Joined, Zenon
<1>6. InFlight = q4
  BY DEF InFlight, Waiting, q1, q2, q3
<1> HIDE DEF q4
<1> QED BY <1>2, <1>3, <1>4, <1>5, <1>6 DEF Held
\* While the notifier and the queues hold two bursts of one stream, the earlier one
\* is resolved first (durability.go: "callbacks totally ordered by target").
THEOREM ResolvesInOrder == Spec => []ResolveOrder
<1>1. IInv => ResolveOrder
  <2> SUFFICES ASSUME IInv, NEW i \in 1..Len(InFlight), NEW k \in 1..Len(InFlight),
                      i < k, InFlight[i][1] = InFlight[k][1]
               PROVE InFlight[i][2] < InFlight[k][2]
    BY ZenonT(30) DEF ResolveOrder
  <2>1. InFlight \in Seq(JobIds) /\ Ordered(InFlight)
    BY InFlightOrdered
  <2>2. Older(InFlight[i], InFlight[k])
    BY <2>1, Entries, Zenon DEF Ordered
  <2> QED BY <2>2, Zenon DEF Older
<1> QED BY <1>1, Invariance, PTL

\* Every committed burst is answered exactly once, or is on its way exactly once and
\* not answered yet, whatever fails and however shutdown interleaves (commit.go
\* failJob, runFlush and close; durability.go "invokes cb exactly once").
THEOREM EachAnsweredOnce == Spec => []AnsweredOnce
<1>1. IInv => AnsweredOnce
  <2> SUFFICES ASSUME IInv, NEW j \in JobIds
               PROVE LET n == Cardinality({i \in 1..Len(InFlight) : InFlight[i] = j})
                     IN  IF j[2] <= next[j[1]] THEN n + Len(answers[j]) = 1
                                               ELSE n = 0 /\ answers[j] = << >>
    BY DEF AnsweredOnce
  <2> DEFINE at == {i \in 1..Len(InFlight) : InFlight[i] = j}
  <2>1. InFlight \in Seq(JobIds) /\ Ordered(InFlight) /\ Range(InFlight) = Held
    BY InFlightOrdered, ZenonT(30)
  <2>2. /\ j[1] \in Streams /\ j[2] \in Nat /\ next[j[1]] \in Nat /\ ~Older(j, j)
    BY CommitterAssumption, SMTT(30) DEF IInv, TypeOK, JobIds, Older
  <2>3. /\ j \in Held => answers[j] = << >> /\ j[2] <= next[j[1]]
        /\ j \notin Held /\ j[2] <= next[j[1]] => Len(answers[j]) = 1
        /\ next[j[1]] < j[2] => answers[j] = << >>
    BY DEF IInv, Answers
  <2>4. ASSUME NEW i \in at, NEW k \in at PROVE i = k
    <3>1. i \in 1..Len(InFlight) /\ k \in 1..Len(InFlight) /\ InFlight[i] = j /\ InFlight[k] = j
      BY ZenonT(30)
    <3>2. ~(i < k) /\ ~(k < i)
      BY <2>1, <2>2, <3>1, SMTT(30) DEF Ordered
    <3> QED BY <3>1, <3>2
  <2>5. at # {} <=> j \in Held
    BY <2>1 DEF Range
  <2> HIDE DEF at
  <2>6. CASE at = {}
    <3>1. Cardinality(at) = 0
      BY <2>6, FS_EmptySet, ZenonT(30)
    <3>2. j[2] <= next[j[1]] => Len(answers[j]) = 1 /\ 0 + 1 = 1
      BY <2>3, <2>5, <2>6, SMTT(30)
    <3>3. ~(j[2] <= next[j[1]]) => answers[j] = << >>
      BY <2>2, <2>3
    <3> QED BY <3>1, <3>2, <3>3, Zenon DEF at
  <2>7. CASE at # {}
    <3>1. PICK i : at = {i}
      BY <2>4, <2>7
    <3>2. Cardinality(at) = 1
      BY <3>1, FS_Singleton, Zenon
    <3>3. answers[j] = << >> /\ Len(<< >>) = 0
      BY <2>3, <2>5, <2>7, ZenonT(30)
    <3>4. j[2] <= next[j[1]] /\ 1 + 0 = 1
      BY <2>3, <2>5, <2>7, SMTT(30)
    <3> QED BY <3>2, <3>3, <3>4, Zenon DEF at
  <2> QED BY <2>6, <2>7
<1> QED BY <1>1, Invariance, PTL

\* The bursts of one stream reach the store in the order the streamer planned them
\* (commit.go: "two bursts can never reach CommitAsync out of order").
THEOREM CommitsInOrder == Spec => []CommitOrder
<1>1. IInv => CommitOrder
  <2> SUFFICES ASSUME IInv, NEW s \in Streams, NEW b1 \in 1..Len(applied),
                      NEW b2 \in 1..Len(applied), b1 < b2,
                      NEW m \in 1..MaxJobs, NEW n \in 1..MaxJobs,
                      <<s, m>> \in Range(applied[b1]), <<s, n>> \in Range(applied[b2])
               PROVE m < n
    BY ZenonT(30) DEF CommitOrder
  <2>1. Older(<<s, m>>, <<s, n>>)
    BY ZenonT(30) DEF IInv, WriteOrder, Before
  <2> QED BY <2>1 DEF Older
<1> QED BY <1>1, Invariance, PTL

\* A burst answered with success is in a batch the store has made durable, and its
\* stream's readers can see it (durability.go fire, streamer.go applyReader).
THEOREM OkMeansDurable == Spec => []OkIsDurable
<1>1. IInv => OkIsDurable
  <2> SUFFICES ASSUME IInv, NEW j \in JobIds, answers[j] = <<"ok">>
               PROVE /\ published[j[1]] >= j[2]
                     /\ \E b \in 1..durable : j \in Range(applied[b])
    BY ZenonT(30) DEF OkIsDurable
  <2>1. j \in Written(durable) /\ j[2] <= published[j[1]]
    BY DEF IInv, Stored
  <2>2. \E b \in 1..durable : j \in Range(applied[b])
    BY <2>1, Zenon DEF Written
  <2>3. j[2] \in Nat /\ published[j[1]] \in Nat
    BY CommitterAssumption, SMTT(30) DEF IInv, TypeOK, JobIds
  <2> QED BY <2>1, <2>2, <2>3, ZenonT(30)
<1> QED BY <1>1, Invariance, PTL

\* No flush goroutine is left once the store is freed (commit.go close: "Wait for any
\* in-flight runFlush to finish").
THEOREM QuietAfterClose == Spec => []NoCommitAfterClose
<1>1. IInv => NoCommitAfterClose
  BY DEF IInv, Control, NoCommitAfterClose
<1> QED BY <1>1, Invariance, PTL

\* What a stream's readers can see never moves backwards (applyReader runs in the
\* order of the bursts).
THEOREM PublishedForward == Spec => PublishedNeverRegresses
<1>1. IInv /\ [Next]_vars => [\A s \in Streams : published'[s] >= published[s]]_vars
  <2> SUFFICES ASSUME IInv, [Next]_vars PROVE \A s \in Streams : published'[s] >= published[s]
    BY Zenon
  <2>0. \A i \in 0..MaxJobs : i \in Nat
    OBVIOUS
  <2>1. \A s \in Streams : published[s] \in Nat
    BY <2>0, Zenon DEF IInv, TypeOK
  <2>2. \A s \in Streams : published'[s] \in Nat
    BY <2>0, NextInv, Zenon DEF IInv, TypeOK
  <2>3. CASE Callback
    BY <2>1, <2>2, <2>3, CallbackStep
  <2>4. CASE published' = published
    BY <2>1, <2>4
  <2> QED BY <2>3, <2>4, Zenon DEF Next, vars, Commit, FlushCommit, FlushFails, Subscribe, FlushLoop,
                            Poll, DurableSeq, Fire, PollFails, PollerStops, closeAll,
                            CallbacksDone, CloseStart, CloseStray, CloseShutdown, CloseStore,
                            Persist
<1> QED BY <1>1, Invariance, PTL DEF Spec, PublishedNeverRegresses
=============================================================================
