--------------------------- MODULE Streamer_proofs --------------------------
(***************************************************************************)
(* What an acknowledgement means, for any number of clients, producers and *)
(* crashes, any burst bound, both durability modes, and a store that may   *)
(* refuse batches and fail lookups.                                        *)
(***************************************************************************)
EXTENDS Streamer, TLAPS

-----------------------------------------------------------------------------
(* The inductive invariant, part by part. *)

\* A burst's responses agree with its records: an accepted append owns the slice
\* [start, next) of them, and wrote something.
JobOK(p, bt) ==
  /\ p.tail = p.base + Len(p.recs)
  /\ \A i \in 1..Len(bt) : bt[i].v.acc =>
       /\ p.base <= bt[i].v.start
       /\ bt[i].v.next = bt[i].v.start + bt[i].req.n
       /\ bt[i].v.next <= p.tail
       /\ \A m \in 1..bt[i].req.n : p.recs[bt[i].v.start - p.base + m] = <<bt[i].req, m>>
       /\ bt[i].req.n > 0 \/ p.metaChanged

\* Store state s holds the records of burst p.
Landed(s, p) ==
  /\ p.tail <= s.tail
  /\ \A q \in p.base..(p.tail - 1) : q \in DOMAIN s.recs /\ s.recs[q] = p.recs[q - p.base + 1]

\* Store state t keeps everything s has.
Extends(s, t) ==
  /\ s.tail <= t.tail
  /\ \A q \in DOMAIN s.recs : q \in DOMAIN t.recs /\ t.recs[q] = s.recs[q]

\* Store state s holds the accepted append a.
Holds(s, a) ==
  /\ a.next <= s.tail
  /\ \A i \in 1..a.req.n : /\ a.start + i - 1 \in DOMAIN s.recs
                           /\ s.recs[a.start + i - 1] = <<a.req, i>>

\* What the control state implies about the queues.
Control ==
  /\ ~resident => reqs = << >> /\ pending = << >> /\ waiters = << >> /\ pc = "idle"
  /\ pc # "plan" => batch = << >>
  /\ Mode = "sync" => pending = << >>
  /\ pc = "sync" => Mode = "sync" /\ Len(waiters) = 1
  /\ Mode = "sync" /\ pc # "sync" => waiters = << >>

\* The burst being planned starts at the writer's tail.
Planning == pc = "plan" => pend.base = w.tail /\ JobOK(pend, batch)

\* Queued bursts lie above the store, below the writer's tail, in order.
Queued ==
  /\ \A i \in 1..Len(pending) : /\ JobOK(pending[i].p, pending[i].batch)
                                /\ mem.tail <= pending[i].p.base
                                /\ pending[i].p.tail <= w.tail
  /\ \A i, j \in 1..Len(pending) : i < j => pending[i].p.tail <= pending[j].p.base

\* Bursts in the store wait for durability above the readers' tail, in order.
Waiting ==
  /\ \A i \in 1..Len(waiters) : /\ JobOK(waiters[i].p, waiters[i].batch)
                                /\ waiters[i].target \in 1..Len(hist)
                                /\ Landed(hist[waiters[i].target], waiters[i].p)
                                /\ tail <= waiters[i].p.base
  /\ \A i, j \in 1..Len(waiters) : i < j => waiters[i].p.tail <= waiters[j].p.base

\* Readers trail the store, the store trails the writer, except inside a sync commit.
Views ==
  /\ resident => tail <= mem.tail
  /\ resident /\ pc # "sync" => mem.tail <= w.tail
  /\ pc = "sync" => mem.tail = waiters[1].p.tail

\* The store only grows, and has no record at or above its tail.
Growing ==
  /\ \A k \in 1..Len(hist) : DOMAIN hist[k].recs \subseteq 0..(hist[k].tail - 1)
  /\ \A k, l \in 1..Len(hist) : k <= l => Extends(hist[k], hist[l])

\* Accepted answers are durable, and below the tail of a resident streamer.
Acked == \A a \in acked : a.acc => Holds(hist[dur], a) /\ (resident => a.next <= tail)

IInv == TypeOK /\ Control /\ Planning /\ Queued /\ Waiting /\ Views /\ Growing /\ Acked

-----------------------------------------------------------------------------
(* Types. *)

Stores == [recs : UNION {[D -> Records] : D \in SUBSET Nat}, tail : Nat, closed : BOOLEAN,
           prods : [Pids -> ProducerStates], wseq : Nat]
Jobs == [p : Pends, batch : Seq(Replies)]
Waiters == [p : Pends, batch : Seq(Replies), target : Nat]

\* Taking from and adding to a queue.
LEMMA HeadTail ==
  ASSUME NEW S, NEW s \in Seq(S), s # << >>
  PROVE  /\ Len(s) \in Nat \ {0}
         /\ Head(s) = s[1] /\ Head(s) \in S
         /\ Tail(s) \in Seq(S) /\ Len(Tail(s)) = Len(s) - 1
         /\ \A i \in 1..Len(Tail(s)) : Tail(s)[i] = s[i + 1]
OBVIOUS

LEMMA AppendAt ==
  ASSUME NEW S, NEW s \in Seq(S), NEW x \in S
  PROVE  /\ Append(s, x) \in Seq(S)
         /\ Len(s) \in Nat /\ Len(Append(s, x)) = Len(s) + 1
         /\ Append(s, x)[Len(s) + 1] = x
         /\ \A i \in 1..Len(s) : Append(s, x)[i] = s[i]
OBVIOUS

LEMMA ConcatAt ==
  ASSUME NEW S, NEW s \in Seq(S), NEW t \in Seq(S)
  PROVE  /\ Len(s) \in Nat /\ Len(t) \in Nat /\ Len(s \o t) = Len(s) + Len(t)
         /\ \A i \in 1..Len(s) : (s \o t)[i] = s[i]
         /\ \A i \in 1..Len(t) : (s \o t)[Len(s) + i] = t[i]
OBVIOUS

\* Numbers.
LEMMA LeqTrans ==
  ASSUME NEW a \in Nat, NEW b \in Nat, NEW c \in Nat, a <= b, b <= c
  PROVE  a <= c
OBVIOUS

LEMMA LeqPlus ==
  ASSUME NEW a \in Nat, NEW b \in Nat, NEW n \in Nat, NEW t, a <= b, t = b + n
  PROVE  a <= t
OBVIOUS

LEMMA SumFrom == ASSUME NEW a \in Nat, NEW b, NEW n \in Nat, b = a + n PROVE b - a = n /\ a <= b
OBVIOUS

LEMMA SumsMove == \A a, m, n \in Nat : (a + m) + n = a + (m + n)
OBVIOUS

\* A bound cannot separate two numbers the wrong way round, and a shift keeps their order.
LEMMA NotBetween ==
  ASSUME NEW o \in Int, NEW i \in Int, NEW j \in Int, i < j
  PROVE  ~(o < i /\ j <= o) /\ i - o < j - o
OBVIOUS

\* Positions 1..n of a burst are the offsets b..(t - 1) of the log.
LEMMA IntoBurst ==
  ASSUME NEW b \in Nat, NEW t \in Nat, NEW n \in Nat, t = b + n, NEW i \in b..(t - 1)
  PROVE  b - 1 < i /\ i - (b - 1) \in 1..n /\ i - (b - 1) = i - b + 1
OBVIOUS

\* An offset below tail s is below every burst that starts at or above s.
LEMMA BelowBurst ==
  ASSUME NEW s \in Nat, NEW b \in Nat, NEW t \in Nat, s <= b, NEW i \in 0..(s - 1)
  PROVE  i <= b - 1 /\ i \notin b..(t - 1)
OBVIOUS

\* A position of a concatenation that is not in its first part is in its second.
LEMMA InSecondPart ==
  ASSUME NEW n \in Nat, NEW m \in Nat, NEW i \in 1..(n + m), i \notin 1..n
  PROVE  n < i /\ i - n \in 1..m /\ n + (i - n) = i
OBVIOUS

\* The positions behind the first of a queue of n.
LEMMA BehindFirst ==
  ASSUME NEW n \in Nat \ {0}, NEW i \in 1..(n - 1) PROVE i + 1 \in 1..n /\ 1 < i + 1
OBVIOUS

LEMMA RangeNat == ASSUME NEW a \in Nat, NEW b \in Nat PROVE a..(b - 1) \subseteq Nat
OBVIOUS

LEMMA StepBound == ASSUME NEW n \in Nat, NEW x \in 0..n, x < n PROVE x + 1 \in 0..n
OBVIOUS

LEMMA UpToNext ==
  ASSUME NEW n \in Nat
  PROVE  /\ n + 1 \in 1..(n + 1)
         /\ \A i \in 1..n : i \in 1..(n + 1)
         /\ \A i \in 1..(n + 1) : i = n + 1 \/ i \in 1..n
OBVIOUS

LEMMA OneIsSome == \A s : Len(s) = 1 => s # << >>
OBVIOUS

LEMMA QueueType == TypeOK => pending \in Seq(Jobs) /\ waiters \in Seq(Waiters)
BY DEF TypeOK, Jobs, Waiters

\* The store's states form a sequence of stores.
LEMMA StoreType == \A s : IsStore(s) <=> s \in Stores
BY Zenon DEF IsStore, Stores

LEMMA HistType == TypeOK => hist \in Seq(Stores) /\ mem \in Stores /\ Len(hist) >= 1
<1> SUFFICES ASSUME TypeOK PROVE hist \in Seq(Stores) /\ mem \in Stores /\ Len(hist) >= 1
  OBVIOUS
<1>1. Len(hist) \in Nat /\ dur \in 1..Len(hist) /\ hist = [k \in 1..Len(hist) |-> hist[k]]
  BY DEF TypeOK
<1>2. \A k \in 1..Len(hist) : hist[k] \in Stores
  BY StoreType DEF TypeOK
<1>3. hist \in [1..Len(hist) -> Stores]
  BY <1>1, <1>2
<1>4. hist \in Seq(Stores)
  BY <1>1, <1>3
<1> QED BY <1>1, <1>2, <1>4 DEF mem

\* A history of stores is what TypeOK says of hist.
LEMMA HistFromSeq ==
  ASSUME NEW h \in Seq(Stores)
  PROVE  /\ h = [k \in 1..Len(h) |-> h[k]]
         /\ Len(h) \in Nat
         /\ \A k \in 1..Len(h) : IsStore(h[k])
BY StoreType

\* A burst's batch turns a store into a store.
LEMMA ApplyType ==
  ASSUME NEW s \in Stores, NEW p \in Pends, p.tail = p.base + Len(p.recs)
  PROVE  applyOps(s, p) \in Stores
<1> DEFINE D == DOMAIN s.recs \cup p.base..(p.tail - 1)
           R == [i \in D |-> IF i \in p.base..(p.tail - 1) THEN p.recs[i - p.base + 1]
                                                          ELSE s.recs[i]]
<1>1. D \in SUBSET Nat
  <2>1. p.base \in Nat /\ p.tail \in Nat
    BY DEF Pends
  <2>2. DOMAIN s.recs \subseteq Nat
    BY Zenon DEF Stores
  <2> QED BY <2>1, <2>2, RangeNat, Zenon
<1>2. \A i \in p.base..(p.tail - 1) : p.recs[i - p.base + 1] \in Records
  BY DEF Pends
<1>3. \A i \in DOMAIN s.recs : s.recs[i] \in Records
  BY ZenonT(60) DEF Stores
<1>4. R \in [D -> Records]
  BY <1>2, <1>3
<1>5. R \in UNION {[E -> Records] : E \in SUBSET Nat}
  BY <1>1, <1>4, Zenon
<1>6. (IF p.metaChanged THEN p.closed ELSE s.closed) \in BOOLEAN
  BY DEF Stores, Pends
<1>7. [q \in Pids |-> IF p.prods[q] = None THEN s.prods[q] ELSE p.prods[q]]
        \in [Pids -> ProducerStates]
  BY DEF Stores, Pends
<1>8. (IF p.wseq = None THEN s.wseq ELSE p.wseq) \in Nat /\ p.tail \in Nat
  BY DEF Stores, Pends
<1> HIDE DEF D, R
<1>9. applyOps(s, p) = [recs |-> R, tail |-> p.tail,
         closed |-> IF p.metaChanged THEN p.closed ELSE s.closed,
         prods |-> [q \in Pids |-> IF p.prods[q] = None THEN s.prods[q] ELSE p.prods[q]],
         wseq |-> IF p.wseq = None THEN s.wseq ELSE p.wseq]
  BY DEF applyOps, R, D
<1> QED BY <1>5, <1>6, <1>7, <1>8, <1>9 DEF Stores

\* Requests have the fields planning reads.
LEMMA RequestType ==
  ASSUME NEW r \in Requests
  PROVE  /\ r.n \in Nat
         /\ r.close \in BOOLEAN
         /\ r.sseq \in Nat \cup {None}
         /\ r.prod # None => r.prod.id \in Pids /\ r.prod.epoch \in U /\ r.prod.seq \in U
         /\ r.n = 0 => r.close
BY RequestsAssumption DEF ReqShape

\* A verdict is well formed, and an accepting one spans the request's records.
LEMMA VerdictType ==
  ASSUME NEW p \in Pends, NEW r \in Requests, NEW ps, NEW ws
  PROVE  /\ planVerdict(p, r, ps, ws) \in Verdicts
         /\ planVerdict(p, r, ps, ws).start = p.tail
         /\ planVerdict(p, r, ps, ws).acc => planVerdict(p, r, ps, ws).next = p.tail + r.n
BY RequestType DEF planVerdict, planAppendClosed, Verdict, Verdicts, ProducerStatus, Pends

LEMMA PayloadType ==
  ASSUME NEW r \in Requests
  PROVE  /\ Payloads(r) \in Seq(Records)
         /\ Len(Payloads(r)) = r.n
         /\ \A i \in 1..r.n : Payloads(r)[i] = <<r, i>>
<1>1. r.n \in Nat
  BY RequestType
<1>2. \A i \in 1..r.n : <<r, i>> \in Records
  BY <1>1 DEF Records
<1>3. Payloads(r) \in [1..r.n -> Records]
  BY <1>2 DEF Payloads
<1> QED BY <1>1, <1>3 DEF Payloads

LEMMA EffectsType ==
  ASSUME NEW p \in Pends, NEW r \in Requests
  PROVE  planEffects(p, r) \in Pends
<1>1. r.n \in Nat /\ r.close \in BOOLEAN /\ r.sseq \in Nat \cup {None}
  BY RequestType
<1>2. p.recs \o Payloads(r) \in Seq(Records)
  BY PayloadType DEF Pends
<1>3. r.prod # None => newState(r.prod) \in ProducerStates
  BY RequestType DEF newState, State, ProducerStates
<1>4. [q \in Pids |-> IF r.prod # None /\ r.prod.id = q THEN newState(r.prod) ELSE p.prods[q]]
        \in [Pids -> ProducerStates \cup {None}]
  BY <1>3 DEF Pends
<1> QED BY <1>1, <1>2, <1>4 DEF planEffects, Pends

LEMMA EmptyTypes == NoPend \in Pends /\ EmptyStore \in Stores
<1>1. << >> \in Seq(Records)
  OBVIOUS
<1>2. [i \in {} |-> None] \in [{} -> Records]
  OBVIOUS
<1>3. [i \in {} |-> None] \in UNION {[D -> Records] : D \in SUBSET Nat}
  BY <1>2, Zenon
<1>4. [p \in Pids |-> Absent] \in [Pids -> ProducerStates]
  BY MaxUAssumption DEF Absent, ProducerStates, U
<1> QED BY <1>1, <1>3, <1>4, Zenon DEF NoPend, Pends, EmptyStore, Stores

\* Answers and failures keep the types of what they are made from.
LEMMA AnswersType ==
  ASSUME NEW bt \in Seq(Replies)
  PROVE  Answers(bt) \subseteq [req : Requests, acc : BOOLEAN, start : Nat, next : Nat]
<1>1. \A i \in 1..Len(bt) : bt[i] \in Replies
  OBVIOUS
<1>2. SUFFICES ASSUME NEW i \in 1..Len(bt)
      PROVE  [req |-> bt[i].req, acc |-> bt[i].v.acc, start |-> bt[i].v.start,
              next |-> bt[i].v.next] \in [req : Requests, acc : BOOLEAN, start : Nat, next : Nat]
  BY DEF Answers
<1> QED BY <1>1 DEF Replies, Verdicts

LEMMA FailType ==
  ASSUME NEW bt \in Seq(Replies)
  PROVE  /\ failAccepted(bt) \in Seq(Replies)
         /\ \A i \in 1..Len(failAccepted(bt)) : ~failAccepted(bt)[i].v.acc
<1>1. \A i \in 1..Len(bt) : bt[i] \in Replies
  OBVIOUS
<1>2. ASSUME NEW i \in 1..Len(bt)
      PROVE  failAccepted(bt)[i] \in Replies /\ ~failAccepted(bt)[i].v.acc
  BY <1>1, <1>2 DEF failAccepted, Replies, Verdict, Verdicts
<1>3. failAccepted(bt) \in [1..Len(bt) -> Replies]
  BY <1>2, Zenon DEF failAccepted
<1> QED BY <1>2, <1>3

\* The states planning may load are producer states and Stream-Seqs.
LEMMA LoadType ==
  ASSUME TypeOK, NEW p \in Pends, NEW r \in Requests
  PROVE  effProducer(p, r) \subseteq ProducerStates /\ effWriterSeq(p) \subseteq Nat
<1>1. mem \in Stores
  BY HistType
<1>2. Absent \in ProducerStates
  BY MaxUAssumption DEF Absent, ProducerStates, U
<1>3. ASSUME r.prod # None
      PROVE  loadProducer(r.prod.id) \subseteq ProducerStates
  BY <1>1, <1>2, <1>3, RequestType DEF loadProducer, TypeOK, Stores
<1>4. effProducer(p, r) \subseteq ProducerStates
  BY <1>2, <1>3, RequestType DEF effProducer, Pends
<1>5. effWriterSeq(p) \subseteq Nat
  <2>1. mem.wseq \in Nat
    BY <1>1 DEF Stores
  <2>2. p.wseq # None => p.wseq \in Nat
    BY DEF Pends
  <2>3. w.wseq # None => w.wseq \in Nat
    BY DEF TypeOK
  <2>4. 0 \in Nat
    OBVIOUS
  <2> QED BY <2>1, <2>2, <2>3, <2>4, Zenon DEF effWriterSeq
<1> QED BY <1>4, <1>5

LEMMA ReplyType ==
  ASSUME TypeOK, NEW bt \in Seq(Replies), replyAll(bt)
  PROVE  /\ client' \in [Clients -> {"idle", "waiting"}]
         /\ acked' \subseteq [req : Requests, acc : BOOLEAN, start : Nat, next : Nat]
BY AnswersType DEF TypeOK, replyAll

LEMMA WriterType ==
  ASSUME TypeOK, NEW p \in Pends, applyWriter(p)
  PROVE  w' \in [tail : Nat, closed : BOOLEAN,
                 prods : [Pids -> ProducerStates \cup {None}], wseq : Nat \cup {None}]
<1>1. [q \in Pids |-> IF p.prods[q] = None THEN w.prods[q] ELSE p.prods[q]]
        \in [Pids -> ProducerStates \cup {None}]
  BY Zenon DEF TypeOK, Pends
<1> QED BY <1>1, Zenon DEF TypeOK, Pends, applyWriter

LEMMA NoWriterType ==
  NoWriter \in [tail : Nat, closed : BOOLEAN,
                prods : [Pids -> ProducerStates \cup {None}], wseq : Nat \cup {None}]
BY DEF NoWriter

LEMMA NewPendType == TypeOK => newPend \in Pends
<1>1. << >> \in Seq(Records)
  OBVIOUS
<1> QED BY <1>1 DEF TypeOK, newPend, Pends

LEMMA TypeSpawn ==
  ASSUME IInv, Spawn
  PROVE  TypeOK'
<1>t. TypeOK
  BY DEF IInv
<1>h. hist \in Seq(Stores) /\ mem \in Stores /\ Len(hist) >= 1
  BY <1>t, HistType
<1>1. w' \in [tail : Nat, closed : BOOLEAN,
              prods : [Pids -> ProducerStates \cup {None}], wseq : Nat \cup {None}]
  BY <1>h DEF Spawn, Stores
<1>2. tail' \in Nat /\ closed' \in BOOLEAN
  BY <1>h DEF Spawn, Stores
<1> QED BY <1>t, <1>1, <1>2 DEF Spawn, TypeOK

LEMMA TypeSubmit ==
  ASSUME IInv, NEW c \in Clients, NEW r \in Requests, Submit(c, r)
  PROVE  TypeOK'
<1>t. TypeOK
  BY DEF IInv
<1>1. sent' \in 0..MaxSent
  BY <1>t, BoundsAssumption, StepBound, Zenon DEF Submit, TypeOK
<1>2. reqs' \in Seq([c : Clients, req : Requests])
  BY <1>t DEF Submit, TypeOK
<1>3. client' \in [Clients -> {"idle", "waiting"}]
  BY <1>t DEF Submit, TypeOK
<1> QED BY <1>t, <1>1, <1>2, <1>3, ZenonT(30) DEF Submit, TypeOK

LEMMA TypePlan ==
  ASSUME IInv, Plan
  PROVE  TypeOK'
<1>t. TypeOK
  BY DEF IInv
<1> DEFINE r == Head(reqs).req
           p == IF pc = "idle" THEN newPend ELSE pend
<1>1. Head(reqs) \in [c : Clients, req : Requests]
      /\ Tail(reqs) \in Seq([c : Clients, req : Requests])
  <2>1. reqs # << >> /\ reqs \in Seq([c : Clients, req : Requests])
    BY <1>t DEF Plan, TypeOK
  <2> QED BY <2>1, HeadTail, Zenon
<1>2. r \in Requests /\ Head(reqs).c \in Clients
  BY <1>1
<1>3. p \in Pends
  BY <1>t, NewPendType, ZenonT(30) DEF TypeOK
<1> HIDE DEF r, p
<1>4. PICK ps \in effProducer(p, r), ws \in effWriterSeq(p) :
        /\ pend' = IF planVerdict(p, r, ps, ws).acc THEN planEffects(p, r) ELSE p
        /\ batch' = Append(batch, [c |-> Head(reqs).c, req |-> r,
                                   v |-> planVerdict(p, r, ps, ws)])
        /\ w' = [w EXCEPT
                   !.prods = [q \in Pids |-> IF ConsultsProducer(p, r) /\ r.prod.id = q
                                               THEN ps ELSE w.prods[q]],
                   !.wseq = IF ConsultsWriterSeq(p, r, ps) THEN ws ELSE w.wseq]
  BY Zenon DEF Plan, p, r
<1>5. ps \in ProducerStates /\ ws \in Nat
  BY <1>t, <1>2, <1>3, LoadType
<1>6. pend' \in Pends
  BY <1>2, <1>3, <1>4, EffectsType
<1>7. [c |-> Head(reqs).c, req |-> r, v |-> planVerdict(p, r, ps, ws)] \in Replies
  BY <1>2, <1>3, VerdictType DEF Replies
<1>8. batch' \in Seq(Replies)
  BY <1>t, <1>4, <1>7 DEF TypeOK
<1>9. [q \in Pids |-> IF ConsultsProducer(p, r) /\ r.prod.id = q THEN ps ELSE w.prods[q]]
        \in [Pids -> ProducerStates \cup {None}]
  BY <1>t, <1>5, Zenon DEF TypeOK
<1>10. w' \in [tail : Nat, closed : BOOLEAN,
               prods : [Pids -> ProducerStates \cup {None}], wseq : Nat \cup {None}]
  BY <1>t, <1>4, <1>5, <1>9, Zenon DEF TypeOK
<1> QED BY <1>t, <1>1, <1>6, <1>8, <1>10, Zenon DEF Plan, TypeOK

LEMMA TypeAnswerBurst ==
  ASSUME IInv, AnswerBurst
  PROVE  TypeOK'
<1>t. TypeOK
  BY DEF IInv
<1>1. << >> \in Seq(Replies) /\ batch \in Seq(Replies)
  BY <1>t DEF TypeOK
<1> QED BY <1>t, <1>1, ReplyType, EmptyTypes, ZenonT(30) DEF AnswerBurst, TypeOK

LEMMA TypeCommitNotifier ==
  ASSUME IInv, CommitNotifier
  PROVE  TypeOK'
<1>t. TypeOK
  BY DEF IInv
<1>1. << >> \in Seq(Replies)
  OBVIOUS
<1>2. [p |-> pend, batch |-> batch] \in Jobs
  BY <1>t DEF TypeOK, Jobs
<1>3. pending' \in Seq(Jobs)
  BY <1>t, <1>2 DEF CommitNotifier, TypeOK, Jobs
<1>4. w' \in [tail : Nat, closed : BOOLEAN,
              prods : [Pids -> ProducerStates \cup {None}], wseq : Nat \cup {None}]
  BY <1>t, WriterType, ZenonT(30) DEF CommitNotifier, TypeOK
<1> QED BY <1>t, <1>1, <1>3, <1>4, EmptyTypes DEF CommitNotifier, TypeOK, Jobs

LEMMA TypeCommitAsync ==
  ASSUME IInv, CommitAsync
  PROVE  TypeOK'
<1>t. TypeOK
  BY DEF IInv
<1>h. hist \in Seq(Stores) /\ mem \in Stores /\ Len(hist) >= 1
  BY <1>t, HistType
<1>0. pending # << >> /\ pending \in Seq(Jobs)
  BY <1>t, QueueType DEF CommitAsync
<1>1. Head(pending) \in Jobs /\ Tail(pending) \in Seq(Jobs)
  BY <1>0, HeadTail
<1>2. 1 \in 1..Len(pending) /\ Head(pending) = pending[1]
  BY <1>0, HeadTail
<1>3. Head(pending).p.tail = Head(pending).p.base + Len(Head(pending).p.recs)
  BY <1>2, Zenon DEF IInv, Queued, JobOK
<1>4. applyOps(mem, Head(pending).p) \in Stores
  BY <1>h, <1>1, <1>3, ApplyType DEF Jobs
<1>5. hist' \in Seq(Stores) /\ Len(hist') = Len(hist) + 1
  BY <1>h, <1>4 DEF CommitAsync
<1>6. [p |-> Head(pending).p, batch |-> Head(pending).batch, target |-> Len(hist) + 1]
        \in Waiters
  BY <1>h, <1>1 DEF Jobs, Waiters
<1>7. waiters' \in Seq(Waiters)
  BY <1>t, <1>6 DEF CommitAsync, TypeOK, Waiters
<1>8. dur' \in 1..Len(hist')
  BY <1>h, <1>t, <1>5 DEF CommitAsync, TypeOK
<1>9. /\ hist' = [k \in 1..Len(hist') |-> hist'[k]]
      /\ Len(hist') \in Nat
      /\ \A k \in 1..Len(hist') : IsStore(hist'[k])
  BY <1>5, HistFromSeq
<1>10. pending' \in Seq(Jobs)
  BY <1>1 DEF CommitAsync
<1> QED BY <1>t, <1>7, <1>8, <1>9, <1>10, Zenon DEF CommitAsync, TypeOK, Jobs, Waiters

LEMMA TypeCommitAsyncFails ==
  ASSUME IInv, CommitAsyncFails
  PROVE  TypeOK'
<1>t. TypeOK
  BY DEF IInv
<1>1. Head(pending) \in Jobs /\ Tail(pending) \in Seq(Jobs)
  <2>1. pending # << >> /\ pending \in Seq(Jobs)
    BY <1>t, QueueType DEF CommitAsyncFails
  <2> QED BY <2>1, HeadTail
<1>2. failAccepted(Head(pending).batch) \in Seq(Replies)
  BY <1>1, FailType DEF Jobs
<1>3. /\ client' \in [Clients -> {"idle", "waiting"}]
      /\ acked' \subseteq [req : Requests, acc : BOOLEAN, start : Nat, next : Nat]
  BY <1>t, <1>2, ReplyType DEF CommitAsyncFails
<1> QED BY <1>t, <1>1, <1>3, Zenon DEF CommitAsyncFails, TypeOK, Jobs

LEMMA TypeFire ==
  ASSUME IInv, Fire
  PROVE  TypeOK'
<1>t. TypeOK
  BY DEF IInv
<1>1. Head(waiters) \in Waiters /\ Tail(waiters) \in Seq(Waiters)
  <2>1. waiters # << >> /\ waiters \in Seq(Waiters)
    BY <1>t, QueueType DEF Fire
  <2> QED BY <2>1, HeadTail
<1>2. /\ client' \in [Clients -> {"idle", "waiting"}]
      /\ acked' \subseteq [req : Requests, acc : BOOLEAN, start : Nat, next : Nat]
  BY <1>t, <1>1, ReplyType DEF Fire, Waiters
<1>3. tail' \in Nat /\ closed' \in BOOLEAN
  BY <1>t, <1>1, Zenon DEF Fire, applyReader, Waiters, Pends, TypeOK
<1> QED BY <1>t, <1>1, <1>2, <1>3, Zenon DEF Fire, TypeOK, Waiters

LEMMA TypeCommitSync ==
  ASSUME IInv, CommitSync
  PROVE  TypeOK'
<1>t. TypeOK
  BY DEF IInv
<1>h. hist \in Seq(Stores) /\ mem \in Stores /\ Len(hist) >= 1
  BY <1>t, HistType
<1>1. pend \in Pends /\ batch \in Seq(Replies) /\ << >> \in Seq(Replies)
  BY <1>t DEF TypeOK
<1>2. pend.tail = pend.base + Len(pend.recs)
  BY DEF IInv, Planning, JobOK, CommitSync, BurstReady
<1>3. hist' \in Seq(Stores) /\ Len(hist') = Len(hist) + 1
  BY <1>h, <1>1, <1>2, ApplyType DEF CommitSync
<1>4. [p |-> pend, batch |-> batch, target |-> Len(hist) + 1] \in Waiters
  BY <1>h, <1>1 DEF Waiters
<1>5. waiters' \in Seq(Waiters)
  BY <1>4 DEF CommitSync
<1>6. dur' \in 1..Len(hist')
  BY <1>h, <1>t, <1>3 DEF CommitSync, TypeOK
<1>7. /\ hist' = [k \in 1..Len(hist') |-> hist'[k]]
      /\ Len(hist') \in Nat
      /\ \A k \in 1..Len(hist') : IsStore(hist'[k])
  BY <1>3, HistFromSeq
<1> QED BY <1>t, <1>1, <1>5, <1>6, <1>7, EmptyTypes, Zenon DEF CommitSync, TypeOK, Waiters

LEMMA TypeCommitSyncDone ==
  ASSUME IInv, CommitSyncDone
  PROVE  TypeOK'
<1>t. TypeOK
  BY DEF IInv
<1>1. waiters # << >> /\ waiters \in Seq(Waiters)
  BY <1>t, QueueType, OneIsSome, Zenon DEF IInv, Control, CommitSyncDone
<1>2. Head(waiters) \in Waiters /\ << >> \in Seq(Waiters)
  BY <1>1, HeadTail
<1>3. /\ client' \in [Clients -> {"idle", "waiting"}]
      /\ acked' \subseteq [req : Requests, acc : BOOLEAN, start : Nat, next : Nat]
  BY <1>t, <1>2, ReplyType DEF CommitSyncDone, Waiters
<1>4. tail' \in Nat /\ closed' \in BOOLEAN
  BY <1>t, <1>2, Zenon DEF CommitSyncDone, applyReader, Waiters, Pends, TypeOK
<1>5. w' \in [tail : Nat, closed : BOOLEAN,
              prods : [Pids -> ProducerStates \cup {None}], wseq : Nat \cup {None}]
  BY <1>t, <1>2, WriterType DEF CommitSyncDone, Waiters
<1> QED BY <1>t, <1>2, <1>3, <1>4, <1>5, Zenon DEF CommitSyncDone, TypeOK, Waiters

LEMMA TypeCommitSyncFails ==
  ASSUME IInv, CommitSyncFails
  PROVE  TypeOK'
<1>t. TypeOK
  BY DEF IInv
<1>1. failAccepted(batch) \in Seq(Replies) /\ << >> \in Seq(Replies)
  BY <1>t, FailType DEF TypeOK
<1>2. /\ client' \in [Clients -> {"idle", "waiting"}]
      /\ acked' \subseteq [req : Requests, acc : BOOLEAN, start : Nat, next : Nat]
  BY <1>t, <1>1, ReplyType DEF CommitSyncFails
<1> QED BY <1>t, <1>1, <1>2, EmptyTypes DEF CommitSyncFails, TypeOK

LEMMA TypeRetire ==
  ASSUME IInv, Retire
  PROVE  TypeOK'
<1>t. TypeOK
  BY DEF IInv
<1> QED BY <1>t, NoWriterType, Zenon DEF Retire, TypeOK

LEMMA TypePersist ==
  ASSUME IInv, Persist
  PROVE  TypeOK'
<1>t. TypeOK
  BY DEF IInv
<1> QED BY <1>t, SMTT(60) DEF Persist, TypeOK

LEMMA TypeCrash ==
  ASSUME IInv, Crash
  PROVE  TypeOK'
<1>t. TypeOK
  BY DEF IInv
<1>h. hist \in Seq(Stores) /\ mem \in Stores /\ Len(hist) >= 1
  BY <1>t, HistType
<1>1. PICK k \in dur..Len(hist) : hist' = SubSeq(hist, 1, k) /\ dur' = k
  BY DEF Crash
<1>2. k \in 1..Len(hist)
  BY <1>t, <1>1 DEF TypeOK
<1>3. hist' \in Seq(Stores) /\ Len(hist') = k
  BY <1>h, <1>1, <1>2
<1>4. /\ hist' = [i \in 1..Len(hist') |-> hist'[i]]
      /\ Len(hist') \in Nat
      /\ \A i \in 1..Len(hist') : IsStore(hist'[i])
  BY <1>3, HistFromSeq
<1>5. dur' \in 1..Len(hist')
  BY <1>1, <1>2, <1>3
<1>6. /\ << >> \in Seq([c : Clients, req : Requests])
      /\ << >> \in Seq(Replies)
      /\ << >> \in Seq(Jobs)
      /\ << >> \in Seq(Waiters)
  OBVIOUS
<1>7. crashes' \in 0..MaxCrashes
  BY <1>t, BoundsAssumption, StepBound, Zenon DEF Crash, TypeOK
<1> QED BY <1>t, <1>4, <1>5, <1>6, <1>7, NoWriterType, EmptyTypes, Zenon
        DEF Crash, TypeOK, Jobs, Waiters

LEMMA TypeStutter ==
  ASSUME IInv, UNCHANGED vars
  PROVE  TypeOK'
<1>t. TypeOK
  BY DEF IInv
<1> QED BY <1>t DEF vars, TypeOK

\* Every step keeps the types; the store's need the burst's size.
LEMMA TypeStep == IInv /\ [Next]_vars => TypeOK'
BY TypeSpawn, TypeSubmit, TypePlan, TypeAnswerBurst, TypeCommitNotifier, TypeCommitAsync,
   TypeCommitAsyncFails, TypeFire, TypeCommitSync, TypeCommitSyncDone, TypeCommitSyncFails,
   TypeRetire, TypePersist, TypeCrash, TypeStutter, Zenon DEF Next

-----------------------------------------------------------------------------
(* The store grows, and what a burst wrote stays. *)

LEMMA ExtendsTrans ==
  ASSUME NEW s \in Stores, NEW t \in Stores, NEW u \in Stores, Extends(s, t), Extends(t, u)
  PROVE  Extends(s, u)
BY DEF Extends, Stores

LEMMA HoldsExtends ==
  ASSUME NEW s \in Stores, NEW t \in Stores, Extends(s, t),
         NEW a \in [req : Requests, acc : BOOLEAN, start : Nat, next : Nat], Holds(s, a)
  PROVE  Holds(t, a)
BY DEF Extends, Stores, Holds

\* A batch planned at or above the tail of s adds its records and keeps the rest.
LEMMA ApplyExtends ==
  ASSUME NEW s \in Stores, DOMAIN s.recs \subseteq 0..(s.tail - 1),
         NEW p \in Pends, p.tail = p.base + Len(p.recs), s.tail <= p.base
  PROVE  /\ Extends(s, applyOps(s, p))
         /\ Landed(applyOps(s, p), p)
         /\ DOMAIN applyOps(s, p).recs \subseteq 0..(p.tail - 1)
         /\ applyOps(s, p).tail = p.tail
<1>1. s.tail \in Nat /\ p.base \in Nat /\ p.tail \in Nat /\ p.base <= p.tail
  BY DEF Stores, Pends
<1>2. /\ applyOps(s, p).tail = p.tail
      /\ DOMAIN applyOps(s, p).recs = DOMAIN s.recs \cup p.base..(p.tail - 1)
      /\ \A q \in p.base..(p.tail - 1) : applyOps(s, p).recs[q] = p.recs[q - p.base + 1]
      /\ \A q \in DOMAIN s.recs : q \notin p.base..(p.tail - 1) => applyOps(s, p).recs[q] = s.recs[q]
  BY DEF applyOps
<1>3. \A q \in DOMAIN s.recs : q \notin p.base..(p.tail - 1) /\ q \in 0..(p.tail - 1)
  BY <1>1
<1>4. \A q \in p.base..(p.tail - 1) : q \in 0..(p.tail - 1)
  BY <1>1
<1> HIDE DEF applyOps
<1>5. Extends(s, applyOps(s, p))
  BY <1>1, <1>2, <1>3 DEF Extends
<1>6. Landed(applyOps(s, p), p)
  BY <1>1, <1>2 DEF Landed
<1> QED BY <1>2, <1>3, <1>4, <1>5, <1>6

\* The slice [start, start + n) of the records [base, tail).
LEMMA Slice ==
  ASSUME NEW base \in Nat, NEW tl \in Nat, NEW start \in Nat, NEW n \in Nat,
         base <= start, start + n <= tl, NEW m \in 1..n
  PROVE  /\ start + m - 1 \in base..(tl - 1)
         /\ (start + m - 1) - base + 1 = start - base + m
         /\ start - base + m \in 1..(tl - base)
OBVIOUS

\* A landed burst's accepted appends are held.
LEMMA JobHolds ==
  ASSUME NEW p \in Pends, NEW bt \in Seq(Replies), JobOK(p, bt),
         NEW s \in Stores, Landed(s, p),
         NEW a \in Answers(bt), a.acc
  PROVE  Holds(s, a) /\ a.next <= p.tail
<1>1. PICK i \in 1..Len(bt) : a = [req |-> bt[i].req, acc |-> bt[i].v.acc,
                                   start |-> bt[i].v.start, next |-> bt[i].v.next]
  BY DEF Answers
<1>2. bt[i] \in Replies
  OBVIOUS
<1>3. /\ a.req = bt[i].req /\ a.start = bt[i].v.start /\ a.next = bt[i].v.next
      /\ bt[i].v.acc
  BY <1>1
<1>4. a.start \in Nat /\ a.next \in Nat /\ a.req \in Requests /\ a.req.n \in Nat
  BY <1>2, <1>3, RequestType DEF Replies, Verdicts
<1>5. /\ p.base <= a.start /\ a.next = a.start + a.req.n /\ a.next <= p.tail
      /\ \A m \in 1..a.req.n : p.recs[a.start - p.base + m] = <<a.req, m>>
  BY <1>3, Zenon DEF JobOK
<1>6. p.base \in Nat /\ p.tail \in Nat /\ s.tail \in Nat /\ p.tail <= s.tail
  BY DEF Pends, Stores, Landed
<1>7. ASSUME NEW m \in 1..a.req.n
      PROVE  a.start + m - 1 \in DOMAIN s.recs /\ s.recs[a.start + m - 1] = <<a.req, m>>
  <2>0. a.start + a.req.n <= p.tail
    BY <1>4, <1>5, <1>6
  <2>1. a.start + m - 1 \in p.base..(p.tail - 1)
    BY <1>4, <1>5, <1>6, <2>0, Slice, Zenon
  <2>2. (a.start + m - 1) - p.base + 1 = a.start - p.base + m
    BY <1>4, <1>6
  <2> QED BY <2>1, <2>2, <1>5 DEF Landed
<1> QED BY <1>4, <1>5, <1>6, <1>7 DEF Holds

\* Nothing accepted is in a burst that plans nothing.
LEMMA NothingAccepted ==
  ASSUME NEW p \in Pends, NEW bt \in Seq(Replies), JobOK(p, bt), NothingPlanned(p),
         NEW a \in Answers(bt)
  PROVE  ~a.acc
<1> SUFFICES ASSUME a.acc PROVE FALSE
  BY Zenon DEF Answers, Replies, Verdicts
<1>1. PICK i \in 1..Len(bt) : a = [req |-> bt[i].req, acc |-> bt[i].v.acc,
                                   start |-> bt[i].v.start, next |-> bt[i].v.next]
  BY DEF Answers
<1>2. bt[i].v.acc /\ bt[i] \in Replies
  BY <1>1
<1>3. bt[i].req.n \in Nat /\ bt[i].v.start \in Nat /\ p.base \in Nat
  BY <1>2, RequestType, ZenonT(60) DEF Replies, Verdicts, Pends
<1>4. Len(p.recs) = 0 /\ ~p.metaChanged
  BY DEF NothingPlanned
<1>5. p.tail = p.base /\ bt[i].v.start + bt[i].req.n <= p.tail /\ p.base <= bt[i].v.start
  BY <1>2, <1>3, <1>4 DEF JobOK
<1> QED BY <1>2, <1>3, <1>4, <1>5 DEF JobOK

LEMMA FailedAnswers ==
  ASSUME NEW bt \in Seq(Replies), NEW a \in Answers(failAccepted(bt))
  PROVE  ~a.acc
BY FailType DEF Answers

\* Planning one more append keeps the responses in step with the records.
LEMMA PlanKeepsJob ==
  ASSUME NEW p \in Pends, NEW bt \in Seq(Replies), JobOK(p, bt),
         NEW c \in Clients, NEW r \in Requests, NEW ps, NEW ws,
         NEW v, v = planVerdict(p, r, ps, ws)
  PROVE  JobOK(IF v.acc THEN planEffects(p, r) ELSE p,
               Append(bt, [c |-> c, req |-> r, v |-> v]))
<1> DEFINE x == [c |-> c, req |-> r, v |-> v]
           np == IF v.acc THEN planEffects(p, r) ELSE p
           nb == Append(bt, x)
<1>1. r.n \in Nat
  BY RequestType
<1>2. v \in Verdicts /\ v.start = p.tail /\ (v.acc => v.next = p.tail + r.n)
  BY VerdictType
<1>3. p.base \in Nat /\ p.tail \in Nat /\ p.recs \in Seq(Records)
  BY DEF Pends
<1>4. x \in Replies
  BY <1>2 DEF Replies
<1>5. nb \in Seq(Replies) /\ Len(nb) = Len(bt) + 1 /\ nb[Len(bt) + 1] = x
      /\ \A i \in 1..Len(bt) : nb[i] = bt[i]
  BY <1>4, AppendAt
<1>6. Payloads(r) \in Seq(Records) /\ Len(Payloads(r)) = r.n
      /\ \A i \in 1..r.n : Payloads(r)[i] = <<r, i>>
  BY PayloadType, Zenon
<1>7. p.tail = p.base + Len(p.recs) /\ Len(p.recs) \in Nat
  BY <1>3 DEF JobOK
<1>8. \A i \in 1..Len(bt) : bt[i] \in Replies /\ bt[i].req.n \in Nat
                            /\ bt[i].v.start \in Nat /\ bt[i].v.next \in Nat
  <2> SUFFICES ASSUME NEW i \in 1..Len(bt)
               PROVE  bt[i] \in Replies /\ bt[i].req.n \in Nat
                      /\ bt[i].v.start \in Nat /\ bt[i].v.next \in Nat
    OBVIOUS
  <2>1. bt[i] \in Replies
    OBVIOUS
  <2> QED BY <2>1, RequestType DEF Replies, Verdicts
<1>9. CASE ~v.acc
  <2>1. np = p
    BY <1>9
  <2>2. ~x.v.acc
    BY <1>9
  <2> HIDE DEF x, np, nb
  <2>3. ASSUME NEW i \in 1..Len(nb), nb[i].v.acc PROVE i \in 1..Len(bt) /\ nb[i] = bt[i]
    BY <1>5, <2>2, <2>3
  <2>4. JobOK(p, nb)
    <3>1. ASSUME NEW i \in 1..Len(nb), nb[i].v.acc
          PROVE  /\ p.base <= nb[i].v.start
                 /\ nb[i].v.next = nb[i].v.start + nb[i].req.n
                 /\ nb[i].v.next <= p.tail
                 /\ \A m \in 1..nb[i].req.n :
                      p.recs[nb[i].v.start - p.base + m] = <<nb[i].req, m>>
                 /\ nb[i].req.n > 0 \/ p.metaChanged
      <4>1. i \in 1..Len(bt) /\ nb[i] = bt[i] /\ bt[i].v.acc
        BY <2>3, <3>1
      <4> QED BY <4>1, Zenon DEF JobOK
    <3> QED BY <1>7, <3>1, Zenon DEF JobOK
  <2> QED BY <2>1, <2>4 DEF x, np, nb
<1>10. CASE v.acc
  <2>1. np = planEffects(p, r)
    BY <1>10
  <2>2. np.base = p.base /\ np.tail = p.tail + r.n /\ np.recs = p.recs \o Payloads(r)
    BY <2>1, SMTT(60) DEF planEffects
  <2>m. (p.metaChanged => np.metaChanged) /\ (r.n > 0 \/ np.metaChanged)
    <3>1. r.n = 0 => r.close
      BY RequestType
    <3>2. np.metaChanged = (p.metaChanged \/ r.close)
      BY <2>1 DEF planEffects
    <3>3. r.n > 0 \/ r.n = 0
      BY <1>1
    <3> QED BY <3>1, <3>2, <3>3, Zenon
  <2>3. x.v = v /\ x.req = r
    OBVIOUS
  <2> HIDE DEF x, np, nb
  <2>4. Len(np.recs) = Len(p.recs) + r.n
        /\ (\A m \in 1..Len(p.recs) : np.recs[m] = p.recs[m])
        /\ (\A m \in 1..r.n : np.recs[Len(p.recs) + m] = <<r, m>>)
    <3>1. ASSUME NEW a \in Seq(Records), NEW b \in Seq(Records)
          PROVE  /\ Len(a \o b) = Len(a) + Len(b)
                 /\ \A m \in 1..Len(a) : (a \o b)[m] = a[m]
                 /\ \A m \in 1..Len(b) : (a \o b)[Len(a) + m] = b[m]
      BY ConcatAt, SMTT(60)
    <3>2. /\ Len(p.recs \o Payloads(r)) = Len(p.recs) + Len(Payloads(r))
          /\ \A m \in 1..Len(p.recs) : (p.recs \o Payloads(r))[m] = p.recs[m]
          /\ \A m \in 1..Len(Payloads(r)) :
               (p.recs \o Payloads(r))[Len(p.recs) + m] = Payloads(r)[m]
      BY <1>3, <1>6, <3>1, Zenon
    <3> QED BY <1>6, <2>2, <3>2, Zenon
  <2>5. np.tail = np.base + Len(np.recs)
    <3>1. np.base = p.base /\ np.tail = p.tail + r.n /\ Len(np.recs) = Len(p.recs) + r.n
      BY <2>2, <2>4, Zenon
    <3>2. (p.base + Len(p.recs)) + r.n = p.base + (Len(p.recs) + r.n)
      BY <1>1, <1>3, <1>7, SumsMove, Zenon
    <3> QED BY <1>7, <3>1, <3>2, Zenon
  <2>6. ASSUME NEW i \in 1..Len(nb), nb[i].v.acc
        PROVE  /\ np.base <= nb[i].v.start
               /\ nb[i].v.next = nb[i].v.start + nb[i].req.n
               /\ nb[i].v.next <= np.tail
               /\ \A m \in 1..nb[i].req.n :
                    np.recs[nb[i].v.start - np.base + m] = <<nb[i].req, m>>
               /\ nb[i].req.n > 0 \/ np.metaChanged
    <3>1. CASE i = Len(bt) + 1
      <4>1. nb[i].v = v /\ nb[i].req = r
        BY <1>5, <2>3, <3>1
      <4>2. v.start - np.base = Len(p.recs)
        BY <1>2, <1>3, <1>7, <2>2
      <4>3. np.base <= v.start /\ v.next = v.start + r.n /\ v.next <= np.tail
        BY <1>1, <1>2, <1>3, <1>7, <1>10, <2>2
      <4>4. \A m \in 1..r.n : np.recs[v.start - np.base + m] = <<r, m>>
        BY <2>4, <4>2, Zenon
      <4> QED BY <2>m, <4>1, <4>3, <4>4, ZenonT(30)
    <3>2. CASE i # Len(bt) + 1
      <4>1. i \in 1..Len(bt) /\ nb[i] = bt[i]
        BY <1>5, <3>2
      <4>2. /\ p.base <= bt[i].v.start
            /\ bt[i].v.next = bt[i].v.start + bt[i].req.n
            /\ bt[i].v.next <= p.tail
            /\ \A m \in 1..bt[i].req.n : p.recs[bt[i].v.start - p.base + m] = <<bt[i].req, m>>
            /\ bt[i].req.n > 0 \/ p.metaChanged
        BY <2>6, <4>1, Zenon DEF JobOK
      <4>3. ASSUME NEW m \in 1..bt[i].req.n
            PROVE  bt[i].v.start - p.base + m \in 1..Len(p.recs)
        <5>1. /\ bt[i].v.start + bt[i].req.n <= p.tail
              /\ bt[i].v.start \in Nat /\ bt[i].req.n \in Nat
          BY <1>8, <4>1, <4>2, Zenon
        <5>2. p.tail - p.base = Len(p.recs)
          BY <1>3, <1>7, SumFrom, Zenon
        <5> QED BY <1>3, <4>2, <5>1, <5>2, Slice, ZenonT(30)
      <4>4. \A m \in 1..bt[i].req.n : np.recs[bt[i].v.start - p.base + m] = <<bt[i].req, m>>
        BY <2>4, <4>2, <4>3, Zenon
      <4>5. bt[i].v.next <= np.tail
        <5>1. bt[i].v.next \in Nat /\ bt[i].v.next <= p.tail /\ np.tail = p.tail + r.n
          BY <1>8, <2>2, <4>1, <4>2, Zenon
        <5> QED BY <1>1, <1>3, <5>1, LeqPlus, Zenon
      <4> QED BY <2>2, <2>m, <4>1, <4>2, <4>4, <4>5, Zenon
    <3> QED BY <3>1, <3>2
  <2>7. JobOK(np, nb)
    BY <2>5, <2>6, Zenon DEF JobOK
  <2> QED BY <2>7 DEF x, np, nb
<1> QED BY <1>2, <1>9, <1>10 DEF Verdicts

\* Committing p: the new state is last, the others stay, and the store has grown.
LEMMA CommitGrows ==
  ASSUME TypeOK, Growing, NEW p \in Pends, p.tail = p.base + Len(p.recs),
         mem.tail <= p.base, hist' = Append(hist, applyOps(mem, p))
  PROVE  /\ Len(hist') = Len(hist) + 1
         /\ \A k \in 1..Len(hist) : hist'[k] = hist[k]
         /\ Landed(hist'[Len(hist) + 1], p)
         /\ mem'.tail = p.tail
         /\ Growing'
<1>1. hist \in Seq(Stores) /\ mem \in Stores /\ Len(hist) >= 1 /\ Len(hist) \in Nat
  BY HistType
<1> DEFINE n == Len(hist) + 1
           s == applyOps(mem, p)
<1>2. s \in Stores
  BY <1>1, ApplyType
<1>3. Len(hist) \in 1..Len(hist)
  BY <1>1
<1>4. DOMAIN mem.recs \subseteq 0..(mem.tail - 1)
  BY <1>3 DEF Growing, mem
<1>5. Extends(mem, s) /\ Landed(s, p) /\ DOMAIN s.recs \subseteq 0..(p.tail - 1) /\ s.tail = p.tail
  BY <1>1, <1>4, ApplyExtends
<1> HIDE DEF s
<1>6. hist' \in Seq(Stores) /\ Len(hist') = n /\ hist'[n] = s
      /\ \A k \in 1..Len(hist) : hist'[k] = hist[k]
  BY <1>1, <1>2, AppendAt, SMTT(60) DEF s
<1>7. \A k \in 1..Len(hist) : hist[k] \in Stores /\ Extends(hist[k], s)
  BY <1>1, <1>2, <1>3, <1>5, ExtendsTrans DEF Growing, mem
<1>8. Extends(s, s)
  BY <1>2 DEF Extends, Stores
<1>9. \A k \in 1..Len(hist') : k = n \/ k \in 1..Len(hist)
  BY <1>1, <1>6
<1>10. \A k \in 1..Len(hist') : DOMAIN hist'[k].recs \subseteq 0..(hist'[k].tail - 1)
  BY <1>5, <1>6, <1>9 DEF Growing
<1>11. \A k, l \in 1..Len(hist') : k <= l => Extends(hist'[k], hist'[l])
  <2> SUFFICES ASSUME NEW k \in 1..Len(hist'), NEW l \in 1..Len(hist'), k <= l
               PROVE  Extends(hist'[k], hist'[l])
    OBVIOUS
  <2>1. CASE l = n
    BY <1>6, <1>7, <1>8, <1>9, <2>1
  <2>2. CASE l \in 1..Len(hist)
    <3>1. k \in 1..Len(hist)
      BY <1>1, <1>9, <2>2
    <3> QED BY <1>6, <2>2, <3>1 DEF Growing
  <2> QED BY <1>9, <2>1, <2>2
<1>12. mem' = s
  BY <1>6 DEF mem
<1> QED BY <1>5, <1>6, <1>10, <1>11, <1>12 DEF Growing

-----------------------------------------------------------------------------
(* Every step keeps the invariant. *)

Safe == Control /\ Planning /\ Queued /\ Waiting /\ Views /\ Growing /\ Acked

\* The numbers and queues the steps below reason about.
LEMMA Basics ==
  ASSUME TypeOK
  PROVE  /\ tail \in Nat /\ w.tail \in Nat /\ mem.tail \in Nat
         /\ hist \in Seq(Stores) /\ mem \in Stores
         /\ Len(hist) \in Nat /\ dur \in 1..Len(hist) /\ Len(hist) \in 1..Len(hist)
         /\ \A k \in 1..Len(hist) : hist[k] \in Stores /\ hist[k].tail \in Nat
         /\ \A a \in acked : a \in [req : Requests, acc : BOOLEAN, start : Nat, next : Nat]
<1>1. hist \in Seq(Stores) /\ mem \in Stores /\ Len(hist) >= 1 /\ Len(hist) \in Nat
  BY HistType
<1>2. dur \in 1..Len(hist) /\ tail \in Nat /\ w.tail \in Nat
  BY DEF TypeOK
<1>3. \A k \in 1..Len(hist) : hist[k] \in Stores /\ hist[k].tail \in Nat
  <2>1. \A s \in Stores : s.tail \in Nat
    BY DEF Stores
  <2> QED BY <1>1, <2>1
<1>4. \A a \in acked : a \in [req : Requests, acc : BOOLEAN, start : Nat, next : Nat]
  BY DEF TypeOK
<1>5. mem.tail \in Nat /\ Len(hist) \in 1..Len(hist)
  BY <1>1 DEF Stores
<1> QED BY <1>1, <1>2, <1>3, <1>4, <1>5

LEMMA JobNumbers ==
  ASSUME NEW p \in Pends, p.tail = p.base + Len(p.recs)
  PROVE  p.base \in Nat /\ p.tail \in Nat /\ p.base <= p.tail
BY DEF Pends

LEMMA PendingNumbers ==
  ASSUME TypeOK, Queued
  PROVE  \A i \in 1..Len(pending) : /\ pending[i] \in Jobs
                                    /\ pending[i].p.tail \in Nat
                                    /\ pending[i].p.base \in Nat
                                    /\ pending[i].p.base <= pending[i].p.tail
<1> SUFFICES ASSUME NEW i \in 1..Len(pending)
             PROVE  /\ pending[i] \in Jobs
                    /\ pending[i].p.tail \in Nat
                    /\ pending[i].p.base \in Nat
                    /\ pending[i].p.base <= pending[i].p.tail
  OBVIOUS
<1>1. pending[i] \in Jobs
  BY QueueType, SMTT(60)
<1>2. pending[i].p \in Pends /\ pending[i].p.tail = pending[i].p.base + Len(pending[i].p.recs)
  BY <1>1, Zenon DEF Jobs, Queued, JobOK
<1> QED BY <1>1, <1>2, JobNumbers

\* A burst in the store lies below the store's tail.
LEMMA WaitersBelow ==
  ASSUME TypeOK, Waiting, Growing
  PROVE  \A i \in 1..Len(waiters) : /\ waiters[i] \in Waiters
                                    /\ waiters[i].p.tail \in Nat
                                    /\ waiters[i].p.base \in Nat
                                    /\ waiters[i].p.base <= waiters[i].p.tail
                                    /\ waiters[i].p.tail <= mem.tail
<1> SUFFICES ASSUME NEW i \in 1..Len(waiters)
             PROVE  /\ waiters[i] \in Waiters
                    /\ waiters[i].p.tail \in Nat
                    /\ waiters[i].p.base \in Nat
                    /\ waiters[i].p.base <= waiters[i].p.tail
                    /\ waiters[i].p.tail <= mem.tail
  OBVIOUS
<1>1. waiters[i] \in Waiters
  BY QueueType, SMTT(60)
<1>2. waiters[i].p \in Pends /\ waiters[i].p.tail = waiters[i].p.base + Len(waiters[i].p.recs)
  BY <1>1, Zenon DEF Waiters, Waiting, JobOK
<1>3. /\ waiters[i].p.base \in Nat /\ waiters[i].p.tail \in Nat
      /\ waiters[i].p.base <= waiters[i].p.tail
  BY <1>2, JobNumbers, ZenonT(30)
<1> DEFINE k == waiters[i].target
<1>4. k \in 1..Len(hist) /\ waiters[i].p.tail <= hist[k].tail
  BY DEF Waiting, Landed
<1> HIDE DEF k
<1>5. Extends(hist[k], hist[Len(hist)])
  BY <1>4, Basics DEF Growing
<1>6. hist[k].tail <= mem.tail /\ hist[k].tail \in Nat /\ mem.tail \in Nat
  BY <1>4, <1>5, Basics DEF Extends, mem
<1> QED BY <1>1, <1>3, <1>4, <1>6

\* Accepted answers lie below the store's tail.
LEMMA AckedBelow ==
  ASSUME TypeOK, Growing, Acked, NEW a \in acked, a.acc
  PROVE  a.next <= mem.tail /\ a.next \in Nat
<1>1. Holds(hist[dur], a) /\ Extends(hist[dur], hist[Len(hist)])
  BY Basics DEF Acked, Growing
<1>2. a.next <= hist[dur].tail /\ hist[dur].tail <= mem.tail
  BY <1>1 DEF Holds, Extends, mem
<1>3. a.next \in Nat /\ hist[dur].tail \in Nat /\ mem.tail \in Nat
  BY Basics
<1> QED BY <1>2, <1>3

\* Steps that leave the store and what was answered alone.
LEMMA StoreKept ==
  ASSUME UNCHANGED hist
  PROVE  mem' = mem /\ (Growing => Growing')
BY DEF mem, Growing

\* A step that answers a burst whose accepted appends are durable and published.
LEMMA AnswersKeepAcked ==
  ASSUME TypeOK, Acked, NEW bt, acked' = acked \cup Answers(bt), UNCHANGED <<hist, dur, resident>>,
         tail \in Nat, tail' \in Nat, resident => tail <= tail',
         \A a \in Answers(bt) : a.acc => Holds(hist[dur], a) /\ (resident => a.next <= tail')
  PROVE  Acked'
<1> SUFFICES ASSUME NEW a \in acked', a.acc
             PROVE  Holds(hist[dur], a) /\ (resident => a.next <= tail')
  BY DEF Acked
<1>1. CASE a \in Answers(bt)
  BY <1>1
<1>2. CASE a \in acked
  <2>1. Holds(hist[dur], a) /\ (resident => a.next <= tail)
    BY <1>2 DEF Acked
  <2>2. a.next \in Nat
    BY <1>2, Basics
  <2> QED BY <2>1, <2>2
<1> QED BY <1>1, <1>2

\* The first waiting burst, once covered, is durable.
LEMMA CoveredHolds ==
  ASSUME TypeOK, Waiting, Growing, waiters # << >>, Covered(Head(waiters)),
         NEW a \in Answers(Head(waiters).batch), a.acc
  PROVE  Holds(hist[dur], a) /\ a.next <= Head(waiters).p.tail
<1>1. Head(waiters) = waiters[1] /\ 1 \in 1..Len(waiters) /\ Head(waiters) \in Waiters
  BY QueueType, HeadTail
<1> DEFINE j == Head(waiters)
           k == j.target
<1>2. j.p \in Pends /\ j.batch \in Seq(Replies) /\ JobOK(j.p, j.batch)
      /\ k \in 1..Len(hist) /\ Landed(hist[k], j.p)
  BY <1>1 DEF Waiting, Waiters
<1>3. k <= dur
  BY DEF Covered
<1> HIDE DEF j, k
<1>4. hist[k] \in Stores /\ hist[dur] \in Stores /\ Extends(hist[k], hist[dur])
  BY <1>2, <1>3, Basics DEF Growing
<1>5. a \in Answers(j.batch)
  BY Zenon DEF j
<1>6. Holds(hist[k], a) /\ a.next <= j.p.tail
  BY <1>2, <1>4, <1>5, JobHolds
<1>7. a \in [req : Requests, acc : BOOLEAN, start : Nat, next : Nat]
  BY <1>2, <1>5, AnswersType
<1> QED BY <1>4, <1>6, <1>7, HoldsExtends DEF j

LEMMA SafeSpawn ==
  ASSUME IInv, Spawn, TypeOK'
  PROVE  Safe'
<1>i. TypeOK /\ Control /\ Planning /\ Queued /\ Waiting /\ Views /\ Growing /\ Acked
  BY Zenon DEF IInv
<1>b. /\ tail \in Nat /\ w.tail \in Nat /\ mem.tail \in Nat
      /\ hist \in Seq(Stores) /\ mem \in Stores
      /\ Len(hist) \in Nat /\ dur \in 1..Len(hist) /\ Len(hist) \in 1..Len(hist)
      /\ tail' \in Nat /\ w'.tail \in Nat
  <2>1. tail' \in Nat /\ w'.tail \in Nat
    BY DEF TypeOK
  <2> QED BY <1>i, <2>1, Basics, Zenon
<1>n. Len(<< >>) = 0 /\ 1..0 = {}
  OBVIOUS
<1>1. /\ pending' = << >> /\ waiters' = << >> /\ pc' = "idle" /\ batch' = batch /\ resident'
      /\ hist' = hist /\ dur' = dur /\ acked' = acked /\ tail' = mem.tail /\ w'.tail = mem.tail
  BY <1>i DEF Spawn, Control
<1>2. Control'
  BY <1>i, <1>1, ZenonT(30) DEF Spawn, Control
<1>3. Planning' /\ Queued' /\ Waiting'
  BY <1>n, <1>1 DEF Planning, Queued, Waiting
<1>4. Views' /\ Growing'
  BY <1>i, <1>b, <1>1, StoreKept DEF Views
<1>5. Acked'
  BY <1>i, <1>1, AckedBelow DEF Acked
<1> QED BY <1>2, <1>3, <1>4, <1>5 DEF Safe

LEMMA SafeSubmit ==
  ASSUME IInv, NEW c \in Clients, NEW r \in Requests, Submit(c, r), TypeOK'
  PROVE  Safe'
<1>i. TypeOK /\ Control /\ Planning /\ Queued /\ Waiting /\ Views /\ Growing /\ Acked
  BY Zenon DEF IInv
<1>1. resident /\ UNCHANGED <<resident, pc, batch, pend, w, tail, pending, waiters, hist, dur, acked>>
  BY DEF Submit
<1>2. Control' /\ Planning'
  BY <1>i, <1>1 DEF Control, Planning
<1>3. mem' = mem /\ Growing'
  BY <1>i, <1>1, StoreKept, ZenonT(30)
<1>4. Queued' /\ Waiting' /\ Views' /\ Acked'
  BY <1>i, <1>1, <1>3 DEF Queued, Waiting, Views, Acked
<1> QED BY <1>2, <1>3, <1>4 DEF Safe

LEMMA SafePlan ==
  ASSUME IInv, Plan, TypeOK'
  PROVE  Safe'
<1>i. TypeOK /\ Control /\ Planning /\ Queued /\ Waiting /\ Views /\ Growing /\ Acked
  BY Zenon DEF IInv
<1>b. /\ tail \in Nat /\ w.tail \in Nat /\ mem.tail \in Nat
      /\ hist \in Seq(Stores) /\ mem \in Stores
      /\ Len(hist) \in Nat /\ dur \in 1..Len(hist) /\ Len(hist) \in 1..Len(hist)
      /\ tail' \in Nat /\ w'.tail \in Nat
  <2>1. tail' \in Nat /\ w'.tail \in Nat
    BY DEF TypeOK
  <2> QED BY <1>i, <2>1, Basics, Zenon
<1>n. Len(<< >>) = 0 /\ 1..0 = {}
  OBVIOUS
<1> DEFINE r == Head(reqs).req
           p == IF pc = "idle" THEN newPend ELSE pend
<1>1. reqs # << >> /\ reqs \in Seq([c : Clients, req : Requests])
  BY <1>i, Zenon DEF Plan, TypeOK
<1>2. r \in Requests /\ Head(reqs).c \in Clients
  <2>1. Head(reqs) \in [c : Clients, req : Requests]
    BY <1>1, HeadTail, Zenon
  <2> QED BY <2>1
<1>3. p \in Pends /\ batch \in Seq(Replies)
  BY <1>i, NewPendType, Zenon DEF TypeOK
<1>4. p.base = w.tail /\ JobOK(p, batch)
  <2>1. CASE pc = "idle"
    <3>1. batch = << >> /\ p = newPend
      BY <1>i, <2>1 DEF Control
    <3>2. newPend.base = w.tail /\ newPend.tail = w.tail /\ newPend.recs = << >>
      BY ZenonT(30) DEF newPend
    <3>3. JobOK(newPend, << >>)
      BY <1>b, <1>n, <3>2 DEF JobOK
    <3> QED BY <3>1, <3>2, <3>3, Zenon
  <2>2. CASE pc = "plan"
    BY <1>i, <2>2 DEF Planning
  <2> QED BY <2>1, <2>2, ZenonT(30) DEF Plan
<1> HIDE DEF r, p
<1>5. PICK ps \in effProducer(p, r), ws \in effWriterSeq(p) :
        /\ pend' = IF planVerdict(p, r, ps, ws).acc THEN planEffects(p, r) ELSE p
        /\ batch' = Append(batch, [c |-> Head(reqs).c, req |-> r,
                                   v |-> planVerdict(p, r, ps, ws)])
        /\ w' = [w EXCEPT
                   !.prods = [q \in Pids |-> IF ConsultsProducer(p, r) /\ r.prod.id = q
                                               THEN ps ELSE w.prods[q]],
                   !.wseq = IF ConsultsWriterSeq(p, r, ps) THEN ws ELSE w.wseq]
  BY Zenon DEF Plan, p, r
<1>6. w'.tail = w.tail
  BY <1>i, <1>5, Zenon DEF TypeOK
<1>7. JobOK(pend', batch')
  BY <1>2, <1>3, <1>4, <1>5, PlanKeepsJob
<1>8. pend'.base = p.base
  BY <1>5 DEF planEffects
<1>9. resident /\ pc \in {"idle", "plan"} /\ pc' = "plan"
      /\ UNCHANGED <<resident, tail, pending, waiters, hist, dur, acked>>
  BY DEF Plan
<1>10. Control'
  BY <1>i, <1>9 DEF Control
<1>11. Planning'
  BY <1>4, <1>6, <1>7, <1>8 DEF Planning
<1>12. mem' = mem /\ Growing'
  BY <1>i, <1>9, StoreKept
<1>13. Queued'
  BY <1>i, <1>6, <1>9, <1>12, ZenonT(30) DEF Queued
<1>14. Waiting' /\ Views' /\ Acked'
  BY <1>i, <1>6, <1>9, <1>12 DEF Waiting, Views, Acked
<1> QED BY <1>10, <1>11, <1>12, <1>13, <1>14, Zenon DEF Safe

LEMMA SafeAnswerBurst ==
  ASSUME IInv, AnswerBurst, TypeOK'
  PROVE  Safe'
<1>i. TypeOK /\ Control /\ Planning /\ Queued /\ Waiting /\ Views /\ Growing /\ Acked
  BY Zenon DEF IInv
<1>b. /\ tail \in Nat /\ w.tail \in Nat /\ mem.tail \in Nat
      /\ hist \in Seq(Stores) /\ mem \in Stores
      /\ Len(hist) \in Nat /\ dur \in 1..Len(hist) /\ Len(hist) \in 1..Len(hist)
      /\ tail' \in Nat /\ w'.tail \in Nat
  <2>1. tail' \in Nat /\ w'.tail \in Nat
    BY DEF TypeOK
  <2> QED BY <1>i, <2>1, Basics, Zenon
<1>1. resident /\ pc = "plan" /\ pc' = "idle" /\ batch' = << >>
      /\ acked' = acked \cup Answers(batch)
      /\ UNCHANGED <<resident, reqs, w, tail, pending, waiters, hist, dur>>
  BY Zenon DEF AnswerBurst, BurstReady, replyAll
<1>2. Control' /\ Planning'
  BY <1>i, <1>1 DEF Control, Planning
<1>3. mem' = mem /\ Growing'
  BY <1>i, <1>1, StoreKept, Zenon
<1>4. Queued' /\ Waiting' /\ Views'
  BY <1>i, <1>1, <1>3, ZenonT(30) DEF Queued, Waiting, Views
<1>5. \A a \in Answers(batch) : ~a.acc
  <2>1. pend \in Pends /\ batch \in Seq(Replies) /\ JobOK(pend, batch) /\ NothingPlanned(pend)
    BY <1>i, <1>1 DEF TypeOK, Planning, AnswerBurst
  <2> QED BY <2>1, NothingAccepted, Zenon
<1>6. Acked'
  BY <1>i, <1>b, <1>1, <1>5, AnswersKeepAcked
<1> QED BY <1>2, <1>3, <1>4, <1>6, ZenonT(30) DEF Safe

LEMMA SafeCommitNotifier ==
  ASSUME IInv, CommitNotifier, TypeOK'
  PROVE  Safe'
<1>i. TypeOK /\ Control /\ Planning /\ Queued /\ Waiting /\ Views /\ Growing /\ Acked
  BY Zenon DEF IInv
<1>b. /\ tail \in Nat /\ w.tail \in Nat /\ mem.tail \in Nat
      /\ hist \in Seq(Stores) /\ mem \in Stores
      /\ Len(hist) \in Nat /\ dur \in 1..Len(hist) /\ Len(hist) \in 1..Len(hist)
      /\ tail' \in Nat /\ w'.tail \in Nat
  <2>1. tail' \in Nat /\ w'.tail \in Nat
    BY DEF TypeOK
  <2> QED BY <1>i, <2>1, Basics, Zenon
<1>1. resident /\ pc = "plan" /\ pc' = "idle" /\ batch' = << >> /\ Mode = "notifier"
      /\ w'.tail = pend.tail /\ pending' = Append(pending, [p |-> pend, batch |-> batch])
      /\ UNCHANGED <<resident, reqs, tail, waiters, hist, dur, acked>>
  BY DEF CommitNotifier, BurstReady, applyWriter
<1>2. Control' /\ Planning'
  BY <1>i, <1>1, Zenon DEF Control, Planning
<1>3. mem' = mem /\ Growing'
  BY <1>i, <1>1, StoreKept, Zenon
<1>4. pend \in Pends /\ batch \in Seq(Replies) /\ JobOK(pend, batch) /\ pend.base = w.tail
  BY <1>i, <1>1, Zenon DEF TypeOK, Planning
<1>5. pend.base \in Nat /\ pend.tail \in Nat /\ pend.base <= pend.tail
  BY <1>4, JobNumbers DEF JobOK
<1>6. mem.tail <= w.tail
  BY <1>i, <1>1, Zenon DEF Views
<1>7. Waiting' /\ Acked'
  BY <1>i, <1>1, <1>3, ZenonT(30) DEF Waiting, Acked
<1>8. Views'
  <2>1. mem.tail <= pend.tail
    BY <1>b, <1>4, <1>5, <1>6, LeqTrans, Zenon
  <2> QED BY <1>i, <1>1, <1>3, <2>1, Zenon DEF Views
<1>9. Queued'
  <2> DEFINE x == [p |-> pend, batch |-> batch]
  <2>1. x \in Jobs /\ pending \in Seq(Jobs) /\ x.p = pend /\ x.batch = batch
    BY <1>i, <1>4, QueueType DEF Jobs
  <2> HIDE DEF x
  <2>2. Len(pending) \in Nat /\ Len(pending') = Len(pending) + 1
        /\ pending'[Len(pending) + 1] = x /\ \A i \in 1..Len(pending) : pending'[i] = pending[i]
    <3>1. pending' = Append(pending, x)
      BY <1>1, Zenon DEF x
    <3> QED BY <2>1, <3>1, AppendAt, SMTT(60)
  <2>3. \A i \in 1..Len(pending) : pending[i].p.tail \in Nat /\ pending[i].p.tail <= w.tail
    BY <1>i, PendingNumbers, Zenon DEF Queued
  <2>4. ASSUME NEW i \in 1..Len(pending')
        PROVE  /\ JobOK(pending'[i].p, pending'[i].batch)
               /\ mem.tail <= pending'[i].p.base
               /\ pending'[i].p.tail <= w'.tail
    <3>1. CASE i = Len(pending) + 1
      <4>1. pending'[i].p = pend /\ pending'[i].batch = batch
        BY <2>1, <2>2, <3>1, Zenon
      <4>2. w'.tail = pend.tail /\ pend.base = w.tail
        BY <1>1, <1>4, Zenon
      <4>3. pend.tail <= pend.tail
        BY <1>5
      <4> QED BY <1>4, <1>6, <4>1, <4>2, <4>3, Zenon
    <3>2. CASE i \in 1..Len(pending)
      <4>1. pending'[i].p.tail <= w'.tail
        BY <1>b, <1>1, <1>4, <1>5, <2>2, <2>3, <3>2, LeqTrans, Zenon
      <4> QED BY <1>i, <2>2, <3>2, <4>1, Zenon DEF Queued
    <3> QED BY <2>2, <3>1, <3>2, UpToNext, Zenon
  <2>5. ASSUME NEW i \in 1..Len(pending'), NEW j \in 1..Len(pending'), i < j
        PROVE  pending'[i].p.tail <= pending'[j].p.base
    <3>1. i \in 1..Len(pending)
      BY <2>2, <2>5, SMTT(60)
    <3>2. CASE j = Len(pending) + 1
      BY <1>4, <2>1, <2>2, <2>3, <3>1, <3>2, Zenon
    <3>3. CASE j \in 1..Len(pending)
      BY <1>i, <2>2, <2>5, <3>1, <3>3, Zenon DEF Queued
    <3> QED BY <2>2, <3>2, <3>3, UpToNext, Zenon
  <2> QED BY <1>3, <2>4, <2>5, ZenonT(30) DEF Queued
<1> QED BY <1>2, <1>3, <1>7, <1>8, <1>9, Zenon DEF Safe

LEMMA SafeCommitAsync ==
  ASSUME IInv, CommitAsync, TypeOK'
  PROVE  Safe'
<1>i. TypeOK /\ Control /\ Planning /\ Queued /\ Waiting /\ Views /\ Growing /\ Acked
  BY Zenon DEF IInv
<1>b. /\ tail \in Nat /\ w.tail \in Nat /\ mem.tail \in Nat
      /\ hist \in Seq(Stores) /\ mem \in Stores
      /\ Len(hist) \in Nat /\ dur \in 1..Len(hist) /\ Len(hist) \in 1..Len(hist)
      /\ tail' \in Nat /\ w'.tail \in Nat
  <2>1. tail' \in Nat /\ w'.tail \in Nat
    BY DEF TypeOK
  <2> QED BY <1>i, <2>1, Basics, Zenon
<1>1. pending # << >> /\ pending \in Seq(Jobs) /\ waiters \in Seq(Waiters)
  BY <1>i, QueueType DEF CommitAsync
<1>2. resident /\ pc # "sync"
  BY <1>i, <1>1 DEF Control
<1> DEFINE j == Head(pending)
           x == [p |-> j.p, batch |-> j.batch, target |-> Len(hist) + 1]
<1>3. j = pending[1] /\ 1 \in 1..Len(pending) /\ j \in Jobs
      /\ Tail(pending) \in Seq(Jobs) /\ Len(Tail(pending)) = Len(pending) - 1
      /\ Len(pending) \in Nat \ {0}
      /\ \A i \in 1..Len(Tail(pending)) : Tail(pending)[i] = pending[i + 1]
  BY <1>1, HeadTail, SMTT(60)
<1>4. pending' = Tail(pending) /\ waiters' = Append(waiters, x)
      /\ hist' = Append(hist, applyOps(mem, j.p))
      /\ UNCHANGED <<resident, reqs, pc, batch, pend, w, tail, dur, acked>>
  BY Zenon DEF CommitAsync
<1>5. x \in Waiters /\ x.p = j.p /\ x.batch = j.batch /\ x.target = Len(hist) + 1
  BY <1>b, <1>3 DEF Jobs, Waiters
<1> HIDE DEF j, x
<1>6. j.p \in Pends /\ JobOK(j.p, j.batch) /\ mem.tail <= j.p.base /\ j.p.tail <= w.tail
  BY <1>i, <1>3, Zenon DEF Queued, Jobs
<1>7. j.p.base \in Nat /\ j.p.tail \in Nat /\ j.p.base <= j.p.tail
      /\ j.p.tail = j.p.base + Len(j.p.recs)
  BY <1>6, JobNumbers, Zenon DEF JobOK
<1>8. /\ Len(hist') = Len(hist) + 1
      /\ \A k \in 1..Len(hist) : hist'[k] = hist[k]
      /\ Landed(hist'[Len(hist) + 1], j.p)
      /\ mem'.tail = j.p.tail
      /\ Growing'
  BY <1>i, <1>4, <1>6, <1>7, CommitGrows, Zenon
<1>9. Control' /\ Planning'
  <2>1. Mode # "sync"
    BY <1>i, <1>1, Zenon DEF Control
  <2> QED BY <1>i, <1>2, <1>4, <2>1 DEF Control, Planning
<1>10. Views'
  <2>1. tail <= mem.tail
    BY <1>i, <1>2, ZenonT(30) DEF Views
  <2>2. tail <= j.p.tail
    BY <1>b, <1>6, <1>7, <2>1, LeqTrans, Zenon
  <2> QED BY <1>2, <1>4, <1>6, <1>8, <2>2 DEF Views
<1>11. Acked'
  BY <1>i, <1>b, <1>4, <1>8, Zenon DEF Acked
<1>12. Queued'
  <2>1. \A i \in 1..Len(pending') : i + 1 \in 1..Len(pending) /\ pending'[i] = pending[i + 1]
                                    /\ 1 < i + 1
    BY <1>3, <1>4, SMTT(60)
  <2>2. ASSUME NEW i \in 1..Len(pending')
        PROVE  /\ JobOK(pending'[i].p, pending'[i].batch)
               /\ mem'.tail <= pending'[i].p.base
               /\ pending'[i].p.tail <= w'.tail
    BY <1>i, <1>3, <1>4, <1>8, <2>1, Zenon DEF Queued
  <2>3. ASSUME NEW i \in 1..Len(pending'), NEW k \in 1..Len(pending'), i < k
        PROVE  pending'[i].p.tail <= pending'[k].p.base
    <3>1. i + 1 < k + 1
      BY <2>3
    <3> QED BY <1>i, <2>1, <3>1, Zenon DEF Queued
  <2> QED BY <2>2, <2>3 DEF Queued
<1>13. Waiting'
  <2>1. Len(waiters) \in Nat /\ Len(waiters') = Len(waiters) + 1
        /\ waiters'[Len(waiters) + 1] = x /\ \A i \in 1..Len(waiters) : waiters'[i] = waiters[i]
    BY <1>1, <1>4, <1>5, AppendAt, SMTT(60)
  <2>2. ASSUME NEW i \in 1..Len(waiters')
        PROVE  /\ JobOK(waiters'[i].p, waiters'[i].batch)
               /\ waiters'[i].target \in 1..Len(hist')
               /\ Landed(hist'[waiters'[i].target], waiters'[i].p)
               /\ tail' <= waiters'[i].p.base
    <3>1. CASE i = Len(waiters) + 1
      <4>1. waiters'[i] = x
        BY <2>1, <3>1, Zenon
      <4>2. x.target \in 1..Len(hist')
        BY <1>b, <1>5, <1>8
      <4>3. tail <= mem.tail
        BY <1>i, <1>2, Zenon DEF Views
      <4>4. tail' <= x.p.base
        BY <1>b, <1>4, <1>5, <1>6, <1>7, <4>3, LeqTrans, Zenon
      <4> QED BY <1>5, <1>6, <1>8, <4>1, <4>2, <4>4
    <3>2. CASE i \in 1..Len(waiters)
      <4>1. waiters'[i] = waiters[i] /\ waiters[i].target \in 1..Len(hist)
        BY <1>i, <2>1, <3>2, Zenon DEF Waiting
      <4>2. waiters[i].target \in 1..Len(hist') /\ hist'[waiters[i].target] = hist[waiters[i].target]
        BY <1>b, <1>8, <4>1, UpToNext, Zenon
      <4> QED BY <1>i, <1>4, <3>2, <4>1, <4>2, Zenon DEF Waiting
    <3> QED BY <2>1, <3>1, <3>2, UpToNext, Zenon
  <2>3. ASSUME NEW i \in 1..Len(waiters'), NEW k \in 1..Len(waiters'), i < k
        PROVE  waiters'[i].p.tail <= waiters'[k].p.base
    <3>1. i \in 1..Len(waiters)
      BY <2>1, <2>3
    <3>2. CASE k = Len(waiters) + 1
      <4>1. waiters[i].p.tail \in Nat /\ waiters[i].p.tail <= mem.tail
        BY <1>i, <3>1, WaitersBelow
      <4>2. waiters'[i] = waiters[i] /\ waiters'[k].p = j.p
        BY <1>5, <2>1, <3>1, <3>2
      <4> QED BY <1>b, <1>6, <1>7, <4>1, <4>2, LeqTrans, Zenon
    <3>3. CASE k \in 1..Len(waiters)
      BY <1>i, <2>1, <2>3, <3>1, <3>3, Zenon DEF Waiting
    <3> QED BY <2>1, <3>2, <3>3
  <2> QED BY <2>2, <2>3, ZenonT(30) DEF Waiting
<1> QED BY <1>8, <1>9, <1>10, <1>11, <1>12, <1>13, Zenon DEF Safe

LEMMA SafeCommitAsyncFails ==
  ASSUME IInv, CommitAsyncFails, TypeOK'
  PROVE  Safe'
<1>i. TypeOK /\ Control /\ Planning /\ Queued /\ Waiting /\ Views /\ Growing /\ Acked
  BY Zenon DEF IInv
<1>b. /\ tail \in Nat /\ w.tail \in Nat /\ mem.tail \in Nat
      /\ hist \in Seq(Stores) /\ mem \in Stores
      /\ Len(hist) \in Nat /\ dur \in 1..Len(hist) /\ Len(hist) \in 1..Len(hist)
      /\ tail' \in Nat /\ w'.tail \in Nat
  <2>1. tail' \in Nat /\ w'.tail \in Nat
    BY DEF TypeOK
  <2> QED BY <1>i, <2>1, Basics, Zenon
<1>1. pending # << >> /\ pending \in Seq(Jobs)
  BY <1>i, QueueType DEF CommitAsyncFails
<1>2. Head(pending) \in Jobs /\ Len(Tail(pending)) = Len(pending) - 1
      /\ Len(pending) \in Nat \ {0}
      /\ \A i \in 1..Len(Tail(pending)) : Tail(pending)[i] = pending[i + 1]
  BY <1>1, HeadTail, ZenonT(30)
<1> DEFINE bt == failAccepted(Head(pending).batch)
<1>3. pending' = Tail(pending) /\ acked' = acked \cup Answers(bt)
      /\ UNCHANGED <<resident, reqs, pc, batch, pend, w, tail, waiters, hist, dur>>
  BY DEF CommitAsyncFails, replyAll
<1>4. \A a \in Answers(bt) : ~a.acc
  <2>1. Head(pending).batch \in Seq(Replies)
    BY <1>2 DEF Jobs
  <2> QED BY <2>1, FailedAnswers
<1> HIDE DEF bt
<1>5. mem' = mem /\ Growing'
  BY <1>i, <1>3, StoreKept, Zenon
<1>6. Control' /\ Planning'
  <2>1. resident /\ Mode # "sync"
    BY <1>i, <1>1, Zenon DEF Control
  <2> QED BY <1>i, <1>3, <2>1 DEF Control, Planning
<1>7. Waiting' /\ Views'
  BY <1>i, <1>3, <1>5 DEF Waiting, Views
<1>8. Acked'
  <2>1. tail <= tail'
    BY <1>b, <1>3
  <2> QED BY <1>i, <1>b, <1>3, <1>4, <2>1, AnswersKeepAcked, Zenon
<1>9. Queued'
  <2>1. \A i \in 1..Len(pending') : i + 1 \in 1..Len(pending) /\ pending'[i] = pending[i + 1]
    BY <1>2, <1>3, SMTT(60)
  <2>2. ASSUME NEW i \in 1..Len(pending')
        PROVE  /\ JobOK(pending'[i].p, pending'[i].batch)
               /\ mem'.tail <= pending'[i].p.base
               /\ pending'[i].p.tail <= w'.tail
    BY <1>i, <1>3, <1>5, <2>1, Zenon DEF Queued
  <2>3. ASSUME NEW i \in 1..Len(pending'), NEW k \in 1..Len(pending'), i < k
        PROVE  pending'[i].p.tail <= pending'[k].p.base
    <3>1. i + 1 < k + 1
      BY <2>3
    <3> QED BY <1>i, <2>1, <3>1, ZenonT(30) DEF Queued
  <2> QED BY <2>2, <2>3 DEF Queued
<1> QED BY <1>5, <1>6, <1>7, <1>8, <1>9 DEF Safe

LEMMA SafeFire ==
  ASSUME IInv, Fire, TypeOK'
  PROVE  Safe'
<1>i. TypeOK /\ Control /\ Planning /\ Queued /\ Waiting /\ Views /\ Growing /\ Acked
  BY Zenon DEF IInv
<1>b. /\ tail \in Nat /\ w.tail \in Nat /\ mem.tail \in Nat
      /\ hist \in Seq(Stores) /\ mem \in Stores
      /\ Len(hist) \in Nat /\ dur \in 1..Len(hist) /\ Len(hist) \in 1..Len(hist)
      /\ tail' \in Nat /\ w'.tail \in Nat
  <2>1. tail' \in Nat /\ w'.tail \in Nat
    BY DEF TypeOK
  <2> QED BY <1>i, <2>1, Basics, Zenon
<1>1. waiters # << >> /\ waiters \in Seq(Waiters) /\ Mode = "notifier" /\ Covered(Head(waiters))
  BY <1>i, QueueType DEF Fire
<1> DEFINE j == Head(waiters)
<1>2. j = waiters[1] /\ 1 \in 1..Len(waiters) /\ j \in Waiters
      /\ Len(Tail(waiters)) = Len(waiters) - 1 /\ Len(waiters) \in Nat \ {0}
      /\ \A i \in 1..Len(Tail(waiters)) : Tail(waiters)[i] = waiters[i + 1]
  BY <1>1, HeadTail, SMTT(60)
<1>3. waiters' = Tail(waiters) /\ acked' = acked \cup Answers(j.batch) /\ tail' = j.p.tail
      /\ UNCHANGED <<resident, reqs, pc, batch, pend, w, pending, hist, dur>>
  BY Zenon DEF Fire, replyAll, applyReader
<1>4. \A a \in Answers(j.batch) : a.acc => Holds(hist[dur], a) /\ a.next <= j.p.tail
  BY <1>i, <1>1, CoveredHolds
<1> HIDE DEF j
<1>5. mem' = mem /\ Growing'
  BY <1>i, <1>3, StoreKept
<1>6. resident /\ pc # "sync"
  BY <1>i, <1>1 DEF Control
<1>7. Control' /\ Planning'
  BY <1>i, <1>1, <1>3, <1>6, Zenon DEF Control, Planning
<1>8. j.p.base \in Nat /\ j.p.tail \in Nat /\ j.p.base <= j.p.tail /\ j.p.tail <= mem.tail
      /\ tail <= j.p.base
  BY <1>i, <1>2, WaitersBelow, Zenon DEF Waiting
<1>9. tail <= tail'
  BY <1>b, <1>3, <1>8, LeqTrans, Zenon
<1>10. Views'
  BY <1>i, <1>3, <1>5, <1>6, <1>8 DEF Views
<1>11. Queued'
  BY <1>i, <1>3, <1>5, Zenon DEF Queued
<1>12. Acked'
  BY <1>i, <1>b, <1>3, <1>4, <1>9, AnswersKeepAcked, ZenonT(30)
<1>13. Waiting'
  <2>1. \A i \in 1..Len(waiters') : i + 1 \in 1..Len(waiters) /\ waiters'[i] = waiters[i + 1]
                                    /\ 1 < i + 1
    BY <1>2, <1>3, BehindFirst, Zenon
  <2>2. ASSUME NEW i \in 1..Len(waiters')
        PROVE  /\ JobOK(waiters'[i].p, waiters'[i].batch)
               /\ waiters'[i].target \in 1..Len(hist')
               /\ Landed(hist'[waiters'[i].target], waiters'[i].p)
               /\ tail' <= waiters'[i].p.base
    BY <1>i, <1>2, <1>3, <2>1 DEF Waiting
  <2>3. ASSUME NEW i \in 1..Len(waiters'), NEW k \in 1..Len(waiters'), i < k
        PROVE  waiters'[i].p.tail <= waiters'[k].p.base
    <3>1. i + 1 < k + 1
      BY <2>3
    <3> QED BY <1>i, <2>1, <3>1, Zenon DEF Waiting
  <2> QED BY <2>2, <2>3 DEF Waiting
<1> QED BY <1>5, <1>7, <1>10, <1>11, <1>12, <1>13 DEF Safe

LEMMA SafeCommitSync ==
  ASSUME IInv, CommitSync, TypeOK'
  PROVE  Safe'
<1>i. TypeOK /\ Control /\ Planning /\ Queued /\ Waiting /\ Views /\ Growing /\ Acked
  BY Zenon DEF IInv
<1>b. /\ tail \in Nat /\ w.tail \in Nat /\ mem.tail \in Nat
      /\ hist \in Seq(Stores) /\ mem \in Stores
      /\ Len(hist) \in Nat /\ dur \in 1..Len(hist) /\ Len(hist) \in 1..Len(hist)
      /\ tail' \in Nat /\ w'.tail \in Nat
  <2>1. tail' \in Nat /\ w'.tail \in Nat
    BY DEF TypeOK
  <2> QED BY <1>i, <2>1, Basics, Zenon
<1>n. Len(<< >>) = 0 /\ 1..0 = {}
  OBVIOUS
<1>1. Mode = "sync" /\ resident /\ pc = "plan" /\ pc' = "sync" /\ batch' = << >>
      /\ waiters' = <<[p |-> pend, batch |-> batch, target |-> Len(hist) + 1]>>
      /\ hist' = Append(hist, applyOps(mem, pend))
      /\ UNCHANGED <<resident, reqs, w, tail, pending, dur, acked>>
  BY DEF CommitSync, BurstReady
<1>2. pend \in Pends /\ batch \in Seq(Replies) /\ JobOK(pend, batch) /\ pend.base = w.tail
  BY <1>i, <1>1, Zenon DEF TypeOK, Planning
<1>3. pend.base \in Nat /\ pend.tail \in Nat /\ pend.base <= pend.tail
      /\ pend.tail = pend.base + Len(pend.recs)
  BY <1>2, JobNumbers, Zenon DEF JobOK
<1>4. mem.tail <= pend.base /\ tail <= mem.tail
  BY <1>i, <1>1, <1>2, ZenonT(60) DEF Views
<1>5. /\ Len(hist') = Len(hist) + 1
      /\ \A k \in 1..Len(hist) : hist'[k] = hist[k]
      /\ Landed(hist'[Len(hist) + 1], pend)
      /\ mem'.tail = pend.tail
      /\ Growing'
  BY <1>i, <1>1, <1>2, <1>3, <1>4, CommitGrows, ZenonT(60)
<1>6. Len(waiters') = 1 /\ waiters'[1].p = pend /\ waiters'[1].batch = batch
      /\ waiters'[1].target = Len(hist) + 1
  BY <1>1
<1>7. pending' = << >>
  BY <1>i, <1>1, ZenonT(30) DEF Control
<1>8. Control' /\ Planning'
  BY <1>1, <1>6, <1>7 DEF Control, Planning
<1>9. Queued'
  BY <1>n, <1>7 DEF Queued
<1>10. tail <= pend.base /\ tail <= pend.tail
  BY <1>b, <1>3, <1>4, LeqTrans, Zenon
<1>11. Views'
  BY <1>1, <1>5, <1>6, <1>10, Zenon DEF Views
<1>12. Acked'
  BY <1>i, <1>b, <1>1, <1>5, ZenonT(30) DEF Acked
<1>13. Waiting'
  <2>1. \A i \in 1..Len(waiters') : i = 1
    BY <1>6
  <2>2. Len(hist) + 1 \in 1..Len(hist')
    BY <1>b, <1>5, UpToNext, Zenon
  <2>3. ASSUME NEW i \in 1..Len(waiters')
        PROVE  /\ JobOK(waiters'[i].p, waiters'[i].batch)
               /\ waiters'[i].target \in 1..Len(hist')
               /\ Landed(hist'[waiters'[i].target], waiters'[i].p)
               /\ tail' <= waiters'[i].p.base
    BY <1>1, <1>2, <1>5, <1>6, <1>10, <2>1, <2>2, ZenonT(30)
  <2>4. \A i, k \in 1..Len(waiters') : ~(i < k)
    BY <2>1
  <2> QED BY <2>3, <2>4 DEF Waiting
<1> QED BY <1>5, <1>8, <1>9, <1>11, <1>12, <1>13, ZenonT(30) DEF Safe

LEMMA SafeCommitSyncDone ==
  ASSUME IInv, CommitSyncDone, TypeOK'
  PROVE  Safe'
<1>i. TypeOK /\ Control /\ Planning /\ Queued /\ Waiting /\ Views /\ Growing /\ Acked
  BY Zenon DEF IInv
<1>b. /\ tail \in Nat /\ w.tail \in Nat /\ mem.tail \in Nat
      /\ hist \in Seq(Stores) /\ mem \in Stores
      /\ Len(hist) \in Nat /\ dur \in 1..Len(hist) /\ Len(hist) \in 1..Len(hist)
      /\ tail' \in Nat /\ w'.tail \in Nat
  <2>1. tail' \in Nat /\ w'.tail \in Nat
    BY DEF TypeOK
  <2> QED BY <1>i, <2>1, Basics, Zenon
<1>n. Len(<< >>) = 0 /\ 1..0 = {}
  OBVIOUS
<1>1. pc = "sync" /\ Mode = "sync" /\ waiters # << >> /\ pending = << >> /\ resident
      /\ batch = << >>
  BY <1>i, OneIsSome, Zenon DEF CommitSyncDone, Control
<1>2. Head(waiters) = waiters[1] /\ 1 \in 1..Len(waiters)
  BY <1>i, <1>1, QueueType, HeadTail, SMTT(60)
<1> DEFINE j == Head(waiters)
<1>3. waiters' = << >> /\ pc' = "idle" /\ acked' = acked \cup Answers(j.batch)
      /\ tail' = j.p.tail /\ w'.tail = j.p.tail
      /\ UNCHANGED <<resident, reqs, batch, pend, pending, hist, dur>>
  BY Zenon DEF CommitSyncDone, applyWriter, applyReader, replyAll
<1>4. \A a \in Answers(j.batch) : a.acc => Holds(hist[dur], a) /\ a.next <= j.p.tail
  BY <1>i, <1>1, CoveredHolds, ZenonT(30) DEF CommitSyncDone
<1>5. mem' = mem /\ Growing'
  BY <1>i, <1>3, StoreKept
<1>6. j.p.tail = mem.tail /\ tail <= mem.tail
  BY <1>i, <1>1, <1>2 DEF Views
<1> HIDE DEF j
<1>7. Control' /\ Planning'
  BY <1>1, <1>3, Zenon DEF Control, Planning
<1>8. Queued' /\ Waiting'
  BY <1>n, <1>1, <1>3, Zenon DEF Queued, Waiting
<1>9. Views'
  BY <1>b, <1>3, <1>5, <1>6, SMTT(60) DEF Views
<1>10. Acked'
  BY <1>i, <1>b, <1>3, <1>4, <1>6, AnswersKeepAcked, ZenonT(60)
<1> QED BY <1>5, <1>7, <1>8, <1>9, <1>10, ZenonT(30) DEF Safe

LEMMA SafeCommitSyncFails ==
  ASSUME IInv, CommitSyncFails, TypeOK'
  PROVE  Safe'
<1>i. TypeOK /\ Control /\ Planning /\ Queued /\ Waiting /\ Views /\ Growing /\ Acked
  BY Zenon DEF IInv
<1>b. /\ tail \in Nat /\ w.tail \in Nat /\ mem.tail \in Nat
      /\ hist \in Seq(Stores) /\ mem \in Stores
      /\ Len(hist) \in Nat /\ dur \in 1..Len(hist) /\ Len(hist) \in 1..Len(hist)
      /\ tail' \in Nat /\ w'.tail \in Nat
  <2>1. tail' \in Nat /\ w'.tail \in Nat
    BY DEF TypeOK
  <2> QED BY <1>i, <2>1, Basics, Zenon
<1>1. resident /\ pc = "plan" /\ pc' = "idle" /\ batch' = << >>
      /\ acked' = acked \cup Answers(failAccepted(batch))
      /\ UNCHANGED <<resident, reqs, w, tail, pending, waiters, hist, dur>>
  BY ZenonT(30) DEF CommitSyncFails, BurstReady, replyAll
<1>2. Control' /\ Planning'
  BY <1>i, <1>1 DEF Control, Planning
<1>3. mem' = mem /\ Growing'
  BY <1>i, <1>1, StoreKept, Zenon
<1>4. Queued' /\ Waiting' /\ Views'
  BY <1>i, <1>1, <1>3, Zenon DEF Queued, Waiting, Views
<1>5. \A a \in Answers(failAccepted(batch)) : ~a.acc
  BY <1>i, FailedAnswers, ZenonT(30) DEF TypeOK
<1>6. Acked'
  BY <1>i, <1>b, <1>1, <1>5, AnswersKeepAcked
<1> QED BY <1>2, <1>3, <1>4, <1>6 DEF Safe

LEMMA SafeRetire ==
  ASSUME IInv, Retire, TypeOK'
  PROVE  Safe'
<1>i. TypeOK /\ Control /\ Planning /\ Queued /\ Waiting /\ Views /\ Growing /\ Acked
  BY Zenon DEF IInv
<1>n. Len(<< >>) = 0 /\ 1..0 = {}
  OBVIOUS
<1>1. pc = "idle" /\ reqs = << >> /\ pending = << >> /\ waiters = << >> /\ ~resident'
      /\ UNCHANGED <<reqs, pc, batch, pend, pending, waiters, hist, dur, acked>>
  BY DEF Retire
<1>2. Control' /\ Planning'
  BY <1>i, <1>1 DEF Control, Planning
<1>3. mem' = mem /\ Growing'
  BY <1>i, <1>1, StoreKept
<1>4. Queued' /\ Waiting'
  BY <1>n, <1>1, Zenon DEF Queued, Waiting
<1>5. Views' /\ Acked'
  BY <1>i, <1>1, ZenonT(30) DEF Views, Acked
<1> QED BY <1>2, <1>3, <1>4, <1>5 DEF Safe

LEMMA SafePersist ==
  ASSUME IInv, Persist, TypeOK'
  PROVE  Safe'
<1>i. TypeOK /\ Control /\ Planning /\ Queued /\ Waiting /\ Views /\ Growing /\ Acked
  BY Zenon DEF IInv
<1>b. /\ tail \in Nat /\ w.tail \in Nat /\ mem.tail \in Nat
      /\ hist \in Seq(Stores) /\ mem \in Stores
      /\ Len(hist) \in Nat /\ dur \in 1..Len(hist) /\ Len(hist) \in 1..Len(hist)
      /\ tail' \in Nat /\ w'.tail \in Nat
  <2>1. tail' \in Nat /\ w'.tail \in Nat
    BY DEF TypeOK
  <2> QED BY <1>i, <2>1, Basics, Zenon
<1>1. UNCHANGED <<resident, reqs, pc, batch, pend, w, tail, pending, waiters, hist, acked>>
      /\ dur' \in (dur + 1)..Len(hist)
  BY ZenonT(30) DEF Persist
<1>2. Control' /\ Planning'
  BY <1>i, <1>1 DEF Control, Planning
<1>3. mem' = mem /\ Growing'
  BY <1>i, <1>1, StoreKept, ZenonT(60)
<1>4. Queued' /\ Waiting' /\ Views'
  BY <1>i, <1>1, <1>3 DEF Queued, Waiting, Views
<1>5. dur' \in 1..Len(hist) /\ dur <= dur'
  BY <1>b, <1>1
<1>6. Extends(hist[dur], hist[dur']) /\ hist[dur] \in Stores /\ hist[dur'] \in Stores
  BY <1>i, <1>b, <1>5, Basics, ZenonT(60) DEF Growing
<1>7. \A a \in acked : a.acc => Holds(hist[dur'], a)
  BY <1>i, <1>6, Basics, HoldsExtends DEF Acked
<1>8. Acked'
  BY <1>i, <1>1, <1>7 DEF Acked
<1> QED BY <1>2, <1>3, <1>4, <1>8 DEF Safe

LEMMA SafeCrash ==
  ASSUME IInv, Crash, TypeOK'
  PROVE  Safe'
<1>i. TypeOK /\ Control /\ Planning /\ Queued /\ Waiting /\ Views /\ Growing /\ Acked
  BY Zenon DEF IInv
<1>b. /\ tail \in Nat /\ w.tail \in Nat /\ mem.tail \in Nat
      /\ hist \in Seq(Stores) /\ mem \in Stores
      /\ Len(hist) \in Nat /\ dur \in 1..Len(hist) /\ Len(hist) \in 1..Len(hist)
      /\ tail' \in Nat /\ w'.tail \in Nat
  <2>1. tail' \in Nat /\ w'.tail \in Nat
    BY DEF TypeOK
  <2> QED BY <1>i, <2>1, Basics, Zenon
<1>n. Len(<< >>) = 0 /\ 1..0 = {}
  OBVIOUS
<1>1. PICK k \in dur..Len(hist) : hist' = SubSeq(hist, 1, k) /\ dur' = k
  BY DEF Crash
<1>2. k \in 1..Len(hist) /\ dur <= k
  BY <1>b, <1>1
<1>3. Len(hist') = k /\ \A i \in 1..k : hist'[i] = hist[i]
  BY <1>b, <1>1, <1>2
<1>4. ~resident' /\ reqs' = << >> /\ pending' = << >> /\ waiters' = << >> /\ pc' = "idle"
      /\ batch' = << >> /\ acked' = acked
  BY DEF Crash
<1>5. Control' /\ Planning' /\ Views'
  BY <1>4, ZenonT(30) DEF Control, Planning, Views
<1>6. Queued' /\ Waiting'
  BY <1>n, <1>4 DEF Queued, Waiting
<1>7. \A i \in 1..k : i \in 1..Len(hist)
  BY <1>b, <1>2, SMTT(60)
<1>8. Growing'
  BY <1>i, <1>3, <1>7, ZenonT(30) DEF Growing
<1>9. Extends(hist[dur], hist[k]) /\ hist[dur] \in Stores /\ hist[k] \in Stores
  BY <1>i, <1>b, <1>2, Basics, Zenon DEF Growing
<1>10. \A a \in acked : a.acc => Holds(hist[k], a)
  BY <1>i, <1>9, Basics, HoldsExtends DEF Acked
<1>11. hist'[dur'] = hist[k]
  BY <1>1, <1>2, <1>3
<1>12. Acked'
  BY <1>4, <1>10, <1>11 DEF Acked
<1> QED BY <1>5, <1>6, <1>8, <1>12 DEF Safe

LEMMA SafeStutter ==
  ASSUME IInv, UNCHANGED vars, TypeOK'
  PROVE  Safe'
<1>i. TypeOK /\ Control /\ Planning /\ Queued /\ Waiting /\ Views /\ Growing /\ Acked
  BY Zenon DEF IInv
<1>1. mem' = mem /\ Growing'
  BY <1>i, StoreKept, Zenon DEF vars
<1>2. Control' /\ Planning' /\ Queued' /\ Waiting' /\ Views' /\ Acked'
  BY <1>i, <1>1, Zenon DEF vars, Control, Planning, Queued, Waiting, Views, Acked
<1> QED BY <1>1, <1>2 DEF Safe

LEMMA SafeStep == IInv /\ [Next]_vars => Safe'
<1> SUFFICES ASSUME IInv, [Next]_vars PROVE Safe'
  OBVIOUS
<1>1. TypeOK'
  BY TypeStep
<1> QED BY <1>1, SafeSpawn, SafeSubmit, SafePlan, SafeAnswerBurst, SafeCommitNotifier,
           SafeCommitAsync, SafeCommitAsyncFails, SafeFire, SafeCommitSync, SafeCommitSyncDone,
           SafeCommitSyncFails, SafeRetire, SafePersist, SafeCrash, SafeStutter, Zenon DEF Next

LEMMA InitIInv == Init => IInv
<1> SUFFICES ASSUME Init PROVE IInv
  OBVIOUS
<1>1. /\ hist = <<EmptyStore>> /\ dur = 1 /\ EmptyStore \in Stores
      /\ Len(hist) = 1 /\ hist[1] = EmptyStore /\ mem = EmptyStore
  BY EmptyTypes DEF Init, mem
<1>2. hist \in Seq(Stores)
  BY <1>1
<1>3. TypeOK
  <2>1. /\ << >> \in Seq([c : Clients, req : Requests])
        /\ << >> \in Seq(Replies)
        /\ << >> \in Seq(Jobs)
        /\ << >> \in Seq(Waiters)
    OBVIOUS
  <2>2. 0 \in 0..MaxSent /\ 0 \in 0..MaxCrashes
    BY BoundsAssumption
  <2>3. /\ hist = [k \in 1..Len(hist) |-> hist[k]]
        /\ Len(hist) \in Nat
        /\ \A k \in 1..Len(hist) : IsStore(hist[k])
    BY <1>2, HistFromSeq
  <2>4. /\ client \in [Clients -> {"idle", "waiting"}]
        /\ resident \in BOOLEAN /\ closed \in BOOLEAN /\ tail \in Nat
        /\ pc \in {"idle", "plan", "sync"}
        /\ sent \in 0..MaxSent /\ crashes \in 0..MaxCrashes
        /\ acked \subseteq [req : Requests, acc : BOOLEAN, start : Nat, next : Nat]
    BY <2>2, Zenon DEF Init
  <2>5. dur \in 1..Len(hist)
    BY <1>1
  <2>6. pend \in Pends /\ w = NoWriter
    BY EmptyTypes DEF Init
  <2>7. reqs = << >> /\ batch = << >> /\ pending = << >> /\ waiters = << >>
    BY DEF Init
  <2> QED BY <2>1, <2>3, <2>4, <2>5, <2>6, <2>7, NoWriterType, Zenon DEF TypeOK, Jobs, Waiters
<1>4. Control /\ Planning /\ Queued /\ Waiting /\ Views /\ Acked
  <2>1. Len(<< >>) = 0 /\ 1..0 = {}
    BY SMTT(60)
  <2> QED BY <2>1, Zenon DEF Init, Control, Planning, Queued, Waiting, Views, Acked
<1>5. Growing
  <2>1. DOMAIN EmptyStore.recs = {}
    BY DEF EmptyStore
  <2>2. Extends(EmptyStore, EmptyStore)
    BY <1>1 DEF Extends, Stores
  <2>3. \A k \in 1..Len(hist) : hist[k] = EmptyStore
    BY <1>1
  <2> QED BY <2>1, <2>2, <2>3, Zenon DEF Growing
<1> QED BY <1>3, <1>4, <1>5 DEF IInv

-----------------------------------------------------------------------------
(* Theorems. *)

LEMMA Inductive == Spec => []IInv
<1>1. IInv /\ [Next]_vars => IInv'
  BY TypeStep, SafeStep DEF IInv, Safe
<1> QED BY <1>1, InitIInv, PTL DEF Spec

\* The streamer, its committer and the store keep their types: no offset, queue
\* or stored state leaves the shape streamer.go and storage.go give it.
THEOREM TypeCorrect == Spec => []TypeOK
<1>1. IInv => TypeOK
  BY DEF IInv
<1> QED BY <1>1, Inductive, PTL

\* An accepted append that was answered is durable, with the records it carried
\* and at the offsets it was told, in sync and in notifier mode, whatever the
\* store refuses and whenever the process crashes (durability.go, commit.go).
THEOREM AcknowledgedIsDurable == Spec => []AckedDurable
<1>1. IInv => AckedDurable
  BY Zenon DEF IInv, Acked, Holds, AckedDurable, durable
<1> QED BY <1>1, Inductive, PTL

\* An acknowledged append is below the reader-visible tail of whatever streamer
\* is resident, across retirement and respawn (streamer.go applyReader, server.go
\* getOrSpawn).
THEOREM AcknowledgedIsReadable == Spec => []ReadAfterAck
<1>1. IInv => ReadAfterAck
  BY DEF IInv, Acked, ReadAfterAck
<1> QED BY <1>1, Inductive, PTL

\* The tail and closure readers see never go back while a streamer is resident:
\* callbacks publish bursts in the order they were planned (streamer.go applyReader).
THEOREM PublishedForward == Spec => TailNeverRegresses
<1>1. ASSUME IInv, [Next]_vars
      PROVE  resident /\ resident' => tail <= tail' /\ (closed => closed')
  <2> SUFFICES ASSUME resident, resident' PROVE tail <= tail' /\ (closed => closed')
    OBVIOUS
  <2>i. TypeOK /\ Control /\ Waiting /\ Views /\ Growing
    BY <1>1 DEF IInv
  <2>b. tail \in Nat /\ mem.tail \in Nat
    BY <2>i, Basics
  <2>1. CASE UNCHANGED <<tail, closed>>
    BY <2>1, <2>b
  <2>2. CASE Fire
    <3>1. Head(waiters) = waiters[1] /\ 1 \in 1..Len(waiters)
      BY <2>2, <2>i, QueueType, HeadTail DEF Fire
    <3>2. tail' = waiters[1].p.tail /\ (closed => closed')
      BY <2>2, <3>1, ZenonT(60) DEF Fire, applyReader
    <3>3. tail <= waiters[1].p.base /\ waiters[1].p.base <= waiters[1].p.tail
          /\ waiters[1].p.base \in Nat /\ waiters[1].p.tail \in Nat
      BY <2>i, <3>1, WaitersBelow DEF Waiting
    <3> QED BY <2>b, <3>2, <3>3
  <2>3. CASE CommitSyncDone
    <3>0. Len(waiters) = 1 /\ Len(<< >>) = 0
      BY <2>3, <2>i DEF CommitSyncDone, Control
    <3>1. waiters # << >> /\ pc = "sync"
      BY <2>3, <3>0 DEF CommitSyncDone
    <3>2. Head(waiters) = waiters[1]
      BY <2>i, <3>1, QueueType, HeadTail
    <3>3. tail' = waiters[1].p.tail /\ (closed => closed')
      BY <2>3, <3>2, Zenon DEF CommitSyncDone, applyReader
    <3> QED BY <2>i, <3>1, <3>3 DEF Views
  <2> QED BY <1>1, <2>1, <2>2, <2>3, Zenon
          DEF Next, vars, Spawn, Submit, Plan, AnswerBurst, CommitNotifier, CommitAsync,
              CommitAsyncFails, CommitSync, CommitSyncFails, Retire, Persist, Crash
<1> QED BY <1>1, Inductive, PTL DEF Spec, TailNeverRegresses

\* Nothing durable is lost or overwritten, and the durable tail never goes back,
\* whatever is refused and whenever the process crashes (storage.go Commit).
THEOREM DurableGrows == Spec => [][Extends(durable, durable')]_vars
<1>1. ASSUME IInv, [Next]_vars PROVE Extends(durable, durable')
  <2>i. TypeOK /\ Growing /\ Queued /\ Planning /\ Views /\ Control
    BY <1>1 DEF IInv
  <2>b. Len(hist) \in Nat /\ dur \in 1..Len(hist) /\ hist \in Seq(Stores) /\ mem \in Stores
    BY <2>i, Basics
  <2>1. ASSUME NEW k \in dur..Len(hist), dur' = k, hist'[k] = hist[k]
        PROVE  Extends(durable, durable')
    <3>1. k \in 1..Len(hist) /\ dur <= k
      BY <2>1, <2>b
    <3> QED BY <2>1, <2>b, <2>i, <3>1 DEF Growing, durable
  <2>2. dur \in dur..Len(hist)
    BY <2>b
  <2>3. CASE UNCHANGED <<hist, dur>>
    BY <2>1, <2>2, <2>3
  <2>4. CASE dur' = dur /\ \E s : hist' = Append(hist, s)
    <3>1. hist'[dur] = hist[dur]
      BY <2>4, <2>b
    <3> QED BY <2>1, <2>2, <2>4, <3>1, Zenon
  <2>5. CASE Persist
    <3>1. dur' \in dur..Len(hist) /\ hist' = hist
      BY <2>5, <2>b DEF Persist
    <3> QED BY <2>1, <3>1
  <2>6. CASE Crash
    <3>1. PICK k \in dur..Len(hist) : hist' = SubSeq(hist, 1, k) /\ dur' = k
      BY <2>6 DEF Crash
    <3>2. hist'[k] = hist[k]
      BY <2>b, <3>1
    <3> QED BY <2>1, <3>1, <3>2, Zenon
  <2> QED BY <1>1, <2>3, <2>4, <2>5, <2>6, Zenon
          DEF Next, vars, Spawn, Submit, Plan, AnswerBurst, CommitNotifier, CommitAsync,
              CommitAsyncFails, Fire, CommitSync, CommitSyncDone, CommitSyncFails, Retire
<1> QED BY <1>1, Inductive, PTL DEF Spec
=============================================================================
