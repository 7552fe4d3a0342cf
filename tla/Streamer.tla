------------------------------ MODULE Streamer ------------------------------
(***************************************************************************)
(* One stream's streamer goroutine (internal/ds/streamer.go), the          *)
(* committer that lands its bursts (commit.go) in sync or notifier mode,   *)
(* the durability callbacks (durability.go), dormancy retirement and       *)
(* respawn (server.go), and crashes.                                       *)
(*                                                                         *)
(* The store is the sequence of the states its atomic batches produced:    *)
(* hist[Len(hist)] is what Get and Scan see (reads use                     *)
(* DurabilityLevelMemory), hist[dur] is what is known durable, and a batch *)
(* number is its index in hist.  A crash keeps some prefix of hist that    *)
(* contains everything known durable.                                      *)
(*                                                                         *)
(* drainBurst and the planning loop of processBurst are interleaved one    *)
(* request at a time: planning touches only goroutine-owned state, so the  *)
(* order "drain all, then plan all" reaches the same commits.  The         *)
(* committer lands one job per CommitAsync (CommitterBatchMax = 1);        *)
(* batching across jobs is in module Committer.  Sliding TTL is not in     *)
(* this module: the stream has TTLSeconds = 0.                             *)
(***************************************************************************)
EXTENDS Producer, Sequences

CONSTANTS
  Clients,        \* HTTP handlers that submit appends
  Requests,       \* the appends they submit: records, see ReqShape
  Pids,           \* producer ids
  None,           \* absence of a record, header or overlay entry
  Mode,           \* Config.Durability: "sync" or "notifier"
  MaxBurst,       \* maxBurst: burst bound and capacity of reqs
  MaxSent,        \* bound: requests submitted in a behaviour
  MaxCrashes,     \* bound: crashes in a behaviour
  CommitMayFail,  \* the store may refuse a batch (Commit/CommitAsync error)
  GetMayFail      \* a store Get may fail while producer or Stream-Seq is loaded

\* n is the number of records after flattening (0: close-only), ctOk whether
\* the content type matches the stream's, sseq Stream-Seq as its rank in the
\* string order (the empty string is 0).
ReqShape(r) ==
  /\ r.n \in Nat
  /\ r.close \in BOOLEAN
  /\ r.ctOk \in BOOLEAN
  /\ r.sseq \in Nat \cup {None}
  /\ \/ r.prod = None
     \/ /\ r.prod.id \in Pids
        /\ r.prod.epoch \in U
        /\ r.prod.seq \in U

ASSUME RequestsAssumption ==
  \A r \in Requests : ReqShape(r) /\ (r.n = 0 => r.close)
ASSUME BoundsAssumption ==
  /\ MaxBurst \in Nat \ {0}
  /\ MaxSent \in Nat
  /\ MaxCrashes \in Nat
ASSUME ModeAssumption ==
  /\ Mode \in {"sync", "notifier"}
  /\ CommitMayFail \in BOOLEAN
  /\ GetMayFail \in BOOLEAN
ASSUME NoneAssumption ==
  /\ None \notin Nat
  /\ None \notin ProducerStates

VARIABLES
  client,    \* client -> "idle" or "waiting"
  sent,      \* number of requests submitted
  resident,  \* the streamer is registered and running
  reqs,      \* the reqs channel
  pc,        \* the goroutine: "idle" in select, "plan", or "sync" in Commit
  batch,     \* the burst being planned: its responses so far
  pend,      \* pendingBurst
  w,         \* goroutine-owned writer view: tail, closed, prods, wseq
  tail,      \* atomic reader-visible tail
  closed,    \* atomic reader-visible closure flag
  pending,   \* sharedCommitter.pending: jobs not yet handed to the store
  waiters,   \* jobs in the store, their durability callback outstanding
  hist,      \* states of the store
  dur,       \* index of the last state known durable
  crashes,
  acked      \* history: the successful answers clients received

vars == <<client, sent, resident, reqs, pc, batch, pend, w, tail, closed,
          pending, waiters, hist, dur, crashes, acked>>

-----------------------------------------------------------------------------
(* The store. *)

\* Records are keyed by seq; nothing but a batch's own ops adds or replaces one.
EmptyStore ==
  [recs |-> [i \in {} |-> None], tail |-> 0, closed |-> FALSE,
   prods |-> [p \in Pids |-> Absent], wseq |-> 0]

mem == hist[Len(hist)]
durable == hist[dur]

\* The effect of a burst's WriteBatch on the store: one record op per planned
\* record, the tail, the touched producers, Stream-Seq and, when changed, meta.
applyOps(s, j) ==
  [recs   |-> [i \in DOMAIN s.recs \cup j.base..(j.tail - 1) |->
                 IF i \in j.base..(j.tail - 1) THEN j.recs[i - j.base + 1]
                                               ELSE s.recs[i]],
   tail   |-> j.tail,
   closed |-> IF j.metaChanged THEN j.closed ELSE s.closed,
   prods  |-> [p \in Pids |-> IF j.prods[p] = None THEN s.prods[p] ELSE j.prods[p]],
   wseq   |-> IF j.wseq = None THEN s.wseq ELSE j.wseq]

-----------------------------------------------------------------------------
(* Planning a burst. *)

\* The pending view a burst starts from.
newPend_readerTail ==
  [base |-> tail, tail |-> tail, recs |-> << >>, closed |-> w.closed,
   metaChanged |-> FALSE, prods |-> [p \in Pids |-> None], wseq |-> None]
newPend ==
  [base |-> w.tail, tail |-> w.tail, recs |-> << >>, closed |-> w.closed,
   metaChanged |-> FALSE, prods |-> [p \in Pids |-> None], wseq |-> None]

\* loadProducer: the cached state, or the stored one.  A failed Get is cached
\* as "no such producer".
loadProducer(p) ==
  IF w.prods[p] # None
    THEN {w.prods[p]}
    ELSE {mem.prods[p]} \cup (IF GetMayFail THEN {Absent} ELSE {})

effWriterSeq_noOverlay(p) ==
  {mem.wseq} \cup (IF GetMayFail THEN {0} ELSE {})
\* effWriterSeq over loadWriterSeq, with the same treatment of a failed Get.
effWriterSeq(p) ==
  IF p.wseq # None THEN {p.wseq}
  ELSE IF w.wseq # None THEN {w.wseq}
  ELSE {mem.wseq} \cup (IF GetMayFail THEN {0} ELSE {})

\* The records of request r: flattened payload i of r is the pair <<r, i>>.
Payloads(r) == [i \in 1..r.n |-> <<r, i>>]

\* A verdict on one append: its status, whether it was accepted, and the
\* offsets before and after its records.
Verdict(s, acc, start, next) ==
  [status |-> s, acc |-> acc, start |-> start, next |-> next]

\* planAppendClosed: ps is the effective producer state (ignored without one).
planAppendClosed(p, r, ps) ==
  IF r.n = 0 \/ (r.prod # None /\ validateProducer(ps, r.prod) = "duplicate")
    THEN Verdict(204, FALSE, p.tail, p.tail)
    ELSE Verdict(409, FALSE, p.tail, p.tail)

\* The status with which producer validation refuses or absorbs an append.
ProducerStatus(kind) ==
  IF kind = "staleEpoch" THEN 403
  ELSE IF kind = "badSeqStart" THEN 400
  ELSE IF kind = "gap" THEN 409
  ELSE 204

\* planAppend's verdict, in the order of its early returns, on producer state ps
\* and Stream-Seq ws.
planVerdict(p, r, ps, ws) ==
  IF p.closed
    THEN planAppendClosed(p, r, ps)
  ELSE IF r.n > 0 /\ ~r.ctOk
    THEN Verdict(409, FALSE, p.tail, p.tail)
  ELSE IF r.prod # None /\ validateProducer(ps, r.prod) # "accept"
    THEN Verdict(ProducerStatus(validateProducer(ps, r.prod)), FALSE, p.tail, p.tail)
  ELSE IF r.sseq # None /\ r.sseq <= ws
    THEN Verdict(409, FALSE, p.tail, p.tail)
  ELSE Verdict(IF r.prod # None /\ r.n > 0 THEN 200 ELSE 204, TRUE,
               p.tail, p.tail + r.n)

planEffects_noProducer(p, r) ==
  [base |-> p.base, tail |-> p.tail + r.n, recs |-> p.recs \o Payloads(r),
   closed |-> p.closed \/ r.close, metaChanged |-> p.metaChanged \/ r.close,
   prods |-> p.prods, wseq |-> IF r.sseq # None THEN r.sseq ELSE p.wseq]
\* The effects of an accepted append on the pending view.
planEffects(p, r) ==
  [base |-> p.base, tail |-> p.tail + r.n, recs |-> p.recs \o Payloads(r),
   closed |-> p.closed \/ r.close,
   metaChanged |-> p.metaChanged \/ r.close,
   prods |-> [q \in Pids |-> IF r.prod # None /\ r.prod.id = q
                               THEN newState(r.prod) ELSE p.prods[q]],
   wseq |-> IF r.sseq # None THEN r.sseq ELSE p.wseq]

\* Planning r loads, and caches, the producer or Stream-Seq it consults when
\* neither the burst nor the writer view holds it yet.
ConsultsProducer(p, r) ==
  /\ r.prod # None
  /\ p.prods[r.prod.id] = None
  /\ IF p.closed THEN r.n > 0 ELSE r.n = 0 \/ r.ctOk
ConsultsWriterSeq(p, r, ps) ==
  /\ r.sseq # None /\ p.wseq = None
  /\ ~p.closed /\ (r.n = 0 \/ r.ctOk)
  /\ r.prod # None => validateProducer(ps, r.prod) = "accept"

\* The effective producer states planning r may see.
effProducer(p, r) ==
  IF r.prod = None THEN {Absent}
  ELSE IF p.prods[r.prod.id] # None THEN {p.prods[r.prod.id]}
  ELSE loadProducer(r.prod.id)

-----------------------------------------------------------------------------
(* Actions. *)

\* newStreamer over the created, empty stream; nobody has touched it yet.
NoWriter == [tail |-> 0, closed |-> FALSE, prods |-> [p \in Pids |-> None], wseq |-> None]
NoPend ==
  [base |-> 0, tail |-> 0, recs |-> << >>, closed |-> FALSE,
   metaChanged |-> FALSE, prods |-> [p \in Pids |-> None], wseq |-> None]

Init ==
  /\ client = [c \in Clients |-> "idle"]
  /\ sent = 0
  /\ resident = FALSE
  /\ reqs = << >>
  /\ pc = "idle"
  /\ batch = << >>
  /\ pend = NoPend
  /\ w = NoWriter
  /\ tail = 0
  /\ closed = FALSE
  /\ pending = << >>
  /\ waiters = << >>
  /\ hist = <<EmptyStore>>
  /\ dur = 1
  /\ crashes = 0
  /\ acked = {}

\* Replies to a burst: every client in it is answered; acc and start/next are
\* kept for the successful answers.
Answers(bt) == {[req |-> bt[i].req, acc |-> bt[i].v.acc, start |-> bt[i].v.start,
                 next |-> bt[i].v.next] :
                  i \in {k \in 1..Len(bt) : bt[k].v.status \in {200, 204}}}

replyAll_onlyAccepted(bt) ==
  /\ client' = [c \in Clients |-> IF \E i \in 1..Len(bt) : bt[i].c = c /\ bt[i].v.acc
                                    THEN "idle" ELSE client[c]]
  /\ acked' = acked \cup Answers(bt)
replyAll(bt) ==
  /\ client' = [c \in Clients |-> IF \E i \in 1..Len(bt) : bt[i].c = c
                                    THEN "idle" ELSE client[c]]
  /\ acked' = acked \cup Answers(bt)

\* failAccepted: an accepted append of a failed burst is answered 500.
failAccepted(bt) ==
  [i \in 1..Len(bt) |->
     IF bt[i].v.acc
       THEN [c |-> bt[i].c, req |-> bt[i].req,
             v |-> Verdict(500, FALSE, bt[i].v.start, bt[i].v.next)]
       ELSE bt[i]]

\* getOrSpawn: load meta and tail through the store's current (not
\* necessarily durable) view and register a fresh streamer.
Spawn ==
  /\ ~resident
  /\ resident' = TRUE
  /\ w' = [tail |-> mem.tail, closed |-> mem.closed,
           prods |-> [p \in Pids |-> None], wseq |-> None]
  /\ tail' = mem.tail
  /\ closed' = mem.closed
  /\ UNCHANGED <<client, sent, reqs, pc, batch, pend, pending, waiters, hist,
                 dur, crashes, acked>>

\* submitAppend on a resident streamer with room in its channel.
Submit(c, r) ==
  /\ client[c] = "idle"
  /\ sent < MaxSent
  /\ resident
  /\ Len(reqs) < MaxBurst
  /\ client' = [client EXCEPT ![c] = "waiting"]
  /\ sent' = sent + 1
  /\ reqs' = Append(reqs, [c |-> c, req |-> r])
  /\ UNCHANGED <<resident, pc, batch, pend, w, tail, closed, pending, waiters,
                 hist, dur, crashes, acked>>

\* run / drainBurst take the next queued append and planAppend plans it
\* against the burst's pending view.
Plan ==
  /\ resident
  /\ pc \in {"idle", "plan"}
  /\ reqs # << >>
  /\ Len(batch) < MaxBurst
  /\ LET r == Head(reqs).req
         p == IF pc = "idle" THEN newPend ELSE pend
     IN  \E ps \in effProducer(p, r), ws \in effWriterSeq(p) :
           LET v == planVerdict(p, r, ps, ws)
           IN  /\ pend' = IF v.acc THEN planEffects(p, r) ELSE p
               /\ batch' = Append(batch, [c |-> Head(reqs).c, req |-> r, v |-> v])
               /\ w' = [w EXCEPT
                          !.prods = [q \in Pids |->
                             IF ConsultsProducer(p, r) /\ r.prod.id = q
                               THEN ps ELSE w.prods[q]],
                          !.wseq = IF ConsultsWriterSeq(p, r, ps)
                                     THEN ws ELSE w.wseq]
  /\ reqs' = Tail(reqs)
  /\ pc' = "plan"
  /\ UNCHANGED <<client, sent, resident, tail, closed, pending, waiters, hist,
                 dur, crashes, acked>>

\* The burst is complete: the channel is empty or the burst is full.
BurstReady == resident /\ pc = "plan" /\ (reqs = << >> \/ Len(batch) = MaxBurst)

NothingPlanned(p) ==
  p.recs = << >> /\ ~p.metaChanged /\ p.wseq = None /\ \A q \in Pids : p.prods[q] = None

\* processBurst with nothing to write: answer at once, no commit.
AnswerBurst ==
  /\ BurstReady
  /\ NothingPlanned(pend)
  /\ replyAll(batch)
  /\ batch' = << >>
  /\ pend' = NoPend
  /\ pc' = "idle"
  /\ UNCHANGED <<sent, resident, reqs, w, tail, closed, pending, waiters, hist,
                 dur, crashes>>

applyWriter_keepsTail(p) ==
  w' = [tail   |-> w.tail,
        closed |-> IF p.metaChanged THEN p.closed ELSE w.closed,
        prods  |-> [q \in Pids |-> IF p.prods[q] = None THEN w.prods[q] ELSE p.prods[q]],
        wseq   |-> IF p.wseq = None THEN w.wseq ELSE p.wseq]
\* applyWriter publishes the burst to the goroutine-owned writer view.
applyWriter(p) ==
  w' = [tail   |-> p.tail,
        closed |-> IF p.metaChanged THEN p.closed ELSE w.closed,
        prods  |-> [q \in Pids |-> IF p.prods[q] = None THEN w.prods[q] ELSE p.prods[q]],
        wseq   |-> IF p.wseq = None THEN w.wseq ELSE p.wseq]

applyReader_late(p) ==
  /\ tail' = p.base
  /\ closed' = (closed \/ (p.metaChanged /\ p.closed))
\* applyReader publishes the reader-visible tail and closure.
applyReader(p) ==
  /\ tail' = p.tail
  /\ closed' = (closed \/ (p.metaChanged /\ p.closed))

\* sharedCommitter.commit: the writer view advances before the store has the
\* burst; the job joins the shared queue.
CommitNotifier ==
  /\ Mode = "notifier"
  /\ BurstReady
  /\ ~NothingPlanned(pend)
  /\ applyWriter(pend)
  /\ pending' = Append(pending, [p |-> pend, batch |-> batch])
  /\ batch' = << >>
  /\ pend' = NoPend
  /\ pc' = "idle"
  /\ UNCHANGED <<client, sent, resident, reqs, tail, closed, waiters, hist, dur,
                 crashes, acked>>

\* runFlush: CommitAsync writes the job's ops, subscribe queues its callback
\* under the returned sequence number.
CommitAsync ==
  /\ pending # << >>
  /\ hist' = Append(hist, applyOps(mem, Head(pending).p))
  /\ waiters' = Append(waiters, [p |-> Head(pending).p, batch |-> Head(pending).batch,
                                 target |-> Len(hist) + 1])
  /\ pending' = Tail(pending)
  /\ UNCHANGED <<client, sent, resident, reqs, pc, batch, pend, w, tail, closed,
                 dur, crashes, acked>>

\* runFlush with a CommitAsync error: failJob answers, nothing else changes.
CommitAsyncFails ==
  /\ CommitMayFail
  /\ pending # << >>
  /\ replyAll(failAccepted(Head(pending).batch))
  /\ pending' = Tail(pending)
  /\ UNCHANGED <<sent, resident, reqs, pc, batch, pend, w, tail, closed, waiters,
                 hist, dur, crashes>>

\* The durable watermark covers the batch of job j.
Covered_offByOne(j) == j.target <= dur + 1
Covered(j) == j.target <= dur

\* The poller's fire: the first waiter's target is durable, its callback
\* publishes to readers and answers.
Fire ==
  /\ Mode = "notifier"
  /\ waiters # << >>
  /\ Covered(Head(waiters))
  /\ applyReader(Head(waiters).p)
  /\ replyAll(Head(waiters).batch)
  /\ waiters' = Tail(waiters)
  /\ UNCHANGED <<sent, resident, reqs, pc, batch, pend, w, pending, hist, dur, crashes>>

\* syncCommitter.commit: Commit(ops, true) writes the batch and blocks ...
CommitSync ==
  /\ Mode = "sync"
  /\ BurstReady
  /\ ~NothingPlanned(pend)
  /\ hist' = Append(hist, applyOps(mem, pend))
  /\ waiters' = <<[p |-> pend, batch |-> batch, target |-> Len(hist) + 1]>>
  /\ batch' = << >>
  /\ pend' = NoPend
  /\ pc' = "sync"
  /\ UNCHANGED <<client, sent, resident, reqs, w, tail, closed, pending, dur,
                 crashes, acked>>

\* ... until it is durable: only then are writer view, readers and clients told.
CommitSyncDone ==
  /\ pc = "sync"
  /\ Covered(Head(waiters))
  /\ applyWriter(Head(waiters).p)
  /\ applyReader(Head(waiters).p)
  /\ replyAll(Head(waiters).batch)
  /\ waiters' = << >>
  /\ pc' = "idle"
  /\ UNCHANGED <<sent, resident, reqs, batch, pend, pending, hist, dur, crashes>>

\* ... or the store refuses the batch: the pending view is dropped.
CommitSyncFails ==
  /\ CommitMayFail
  /\ Mode = "sync"
  /\ BurstReady
  /\ ~NothingPlanned(pend)
  /\ replyAll(failAccepted(batch))
  /\ batch' = << >>
  /\ pend' = NoPend
  /\ pc' = "idle"
  /\ UNCHANGED <<sent, resident, reqs, w, tail, closed, pending, waiters, hist,
                 dur, crashes>>

\* tryRetire: dormant, nothing queued, no callback outstanding.  The object and
\* its state are dropped.
Retire ==
  /\ resident
  /\ pc = "idle"
  /\ reqs = << >>
  /\ pending = << >>
  /\ waiters = << >>
  /\ resident' = FALSE
  /\ w' = NoWriter
  /\ tail' = 0
  /\ closed' = FALSE
  /\ UNCHANGED <<client, sent, reqs, pc, batch, pend, pending, waiters, hist, dur,
                 crashes, acked>>

\* The engine's flush makes a prefix of the written batches durable.
Persist ==
  /\ dur < Len(hist)
  /\ dur' \in (dur + 1)..Len(hist)
  /\ UNCHANGED <<client, sent, resident, reqs, pc, batch, pend, w, tail, closed,
                 pending, waiters, hist, crashes, acked>>

\* The process dies and restarts: memory is lost, the store keeps at least what
\* was durable, every connection breaks.
Crash ==
  /\ crashes < MaxCrashes
  /\ crashes' = crashes + 1
  /\ \E k \in dur..Len(hist) :
       /\ hist' = SubSeq(hist, 1, k)
       /\ dur' = k
  /\ client' = [c \in Clients |-> "idle"]
  /\ resident' = FALSE
  /\ reqs' = << >>
  /\ pc' = "idle"
  /\ batch' = << >>
  /\ pend' = NoPend
  /\ pending' = << >>
  /\ waiters' = << >>
  /\ w' = NoWriter
  /\ tail' = 0
  /\ closed' = FALSE
  /\ UNCHANGED <<sent, acked>>

Next ==
  \/ Spawn
  \/ \E c \in Clients, r \in Requests : Submit(c, r)
  \/ Plan
  \/ AnswerBurst
  \/ CommitNotifier
  \/ CommitAsync
  \/ CommitAsyncFails
  \/ Fire
  \/ CommitSync
  \/ CommitSyncDone
  \/ CommitSyncFails
  \/ Retire
  \/ Persist
  \/ Crash

Spec == Init /\ [][Next]_vars

\* The goroutines of the server and the engine's flush keep running; clients
\* need not send anything, and nothing crashes on purpose.
Fairness ==
  /\ WF_vars(Plan)
  /\ WF_vars(AnswerBurst)
  /\ WF_vars(CommitNotifier)
  /\ WF_vars(CommitAsync)
  /\ WF_vars(Fire)
  /\ WF_vars(CommitSync)
  /\ WF_vars(CommitSyncDone)
  /\ WF_vars(Persist)

FairSpec == Spec /\ Fairness

-----------------------------------------------------------------------------
(* Properties. *)

Verdicts == [status : {200, 204, 400, 403, 409, 500}, acc : BOOLEAN,
             start : Nat, next : Nat]
Replies == [c : Clients, req : Requests, v : Verdicts]
Records == Requests \X Nat
Pends ==
  [base : Nat, tail : Nat, recs : Seq(Records), closed : BOOLEAN,
   metaChanged : BOOLEAN, prods : [Pids -> ProducerStates \cup {None}],
   wseq : Nat \cup {None}]
IsStore(s) ==
  /\ DOMAIN s.recs \subseteq Nat
  /\ s \in [recs : [DOMAIN s.recs -> Records], tail : Nat, closed : BOOLEAN,
            prods : [Pids -> ProducerStates], wseq : Nat]

TypeOK ==
  /\ client \in [Clients -> {"idle", "waiting"}]
  /\ sent \in 0..MaxSent
  /\ resident \in BOOLEAN
  /\ reqs \in Seq([c : Clients, req : Requests])
  /\ pc \in {"idle", "plan", "sync"}
  /\ batch \in Seq(Replies)
  /\ pend \in Pends
  /\ w \in [tail : Nat, closed : BOOLEAN,
            prods : [Pids -> ProducerStates \cup {None}], wseq : Nat \cup {None}]
  /\ tail \in Nat
  /\ closed \in BOOLEAN
  /\ pending \in Seq([p : Pends, batch : Seq(Replies)])
  /\ waiters \in Seq([p : Pends, batch : Seq(Replies), target : Nat])
  /\ hist = [k \in 1..Len(hist) |-> hist[k]]
  /\ Len(hist) \in Nat
  /\ \A k \in 1..Len(hist) : IsStore(hist[k])
  /\ dur \in 1..Len(hist)
  /\ crashes \in 0..MaxCrashes
  /\ acked \subseteq [req : Requests, acc : BOOLEAN, start : Nat, next : Nat]

\* An answered, accepted append is in the durable state with the very records
\* it carried, at the offsets it was told, whatever crashes follow (DESIGN.md:
\* "returns Stream-Next-Offset only once the append is durable").
AckedDurable ==
  \A a \in acked : a.acc =>
    /\ a.next <= durable.tail
    /\ \A i \in 1..a.req.n :
         /\ a.start + i - 1 \in DOMAIN durable.recs
         /\ durable.recs[a.start + i - 1] = <<a.req, i>>

\* The same for every successful answer, the idempotent 204 of a duplicate and
\* of a repeated close included: the offset returned is durable.
AckedOffsetDurable == \A a \in acked : a.next <= durable.tail

\* Read-after-acknowledge: an acknowledged append is below the reader-visible
\* tail of whatever streamer is resident (durability.go:54-60).
ReadAfterAck == resident => \A a \in acked : a.acc => a.next <= tail

\* In every state of the store the records are exactly the seqs below the tail.
DenseLog == \A k \in 1..Len(hist) : DOMAIN hist[k].recs = 0..(hist[k].tail - 1)

\* Nothing is stored twice: a producer's (epoch, seq) labels the records of one
\* request only, each of them once, across bursts, retries, respawns and crashes.
\* That an append told it succeeded is stored at all is AckedDurable, and for a
\* duplicate AckedOffsetDurable, which does not hold (streamer.go:527-589).
ExactlyOnce ==
  \A i, j \in DOMAIN mem.recs :
    (i # j /\ mem.recs[i][1].prod # None /\ mem.recs[i][1].prod = mem.recs[j][1].prod)
      => mem.recs[i][1] = mem.recs[j][1] /\ mem.recs[i][2] # mem.recs[j][2]

\* Stream-Seq orders the log: of two stored records that carry one, the later
\* carries the larger, or they belong to one append, whatever mix of bursts,
\* refused commits, respawns and crashes stored them (streamer.go:551-555).
WriterSeqOrdered ==
  \A i, j \in DOMAIN mem.recs :
    LET a == mem.recs[i]
        b == mem.recs[j]
    IN  (i < j /\ a[1].sseq # None /\ b[1].sseq # None)
          => a[1].sseq < b[1].sseq \/ (a[1] = b[1] /\ a[2] < b[2])

\* Producer state is never ahead of or behind the records in any state a crash
\* can expose: it rides the same WriteBatch (DESIGN.md: "the protocol's crash
\* window ... does not exist").
ProducerMatchesLog ==
  \A k \in 1..Len(hist), q \in Pids :
    LET s == hist[k]
        heads == {s.recs[i][1].prod : i \in DOMAIN s.recs} \ {None}
        mine == {h \in heads : h.id = q}
    IN  /\ \A h \in mine : /\ s.prods[q].exists
                           /\ \/ h.epoch < s.prods[q].epoch
                              \/ h.epoch = s.prods[q].epoch /\ h.seq <= s.prods[q].lastSeq
        /\ s.prods[q].exists /\ ~s.closed =>
             \E h \in mine : h.epoch = s.prods[q].epoch /\ h.seq = s.prods[q].lastSeq

\* Nothing durable is ever lost, overwritten or reordered, and a durably closed
\* stream stays closed at its final tail (meta.go:15 "monotonic; never cleared").
DurableIsFinal ==
  [][/\ \A i \in DOMAIN durable.recs :
          i \in DOMAIN durable'.recs /\ durable'.recs[i] = durable.recs[i]
     /\ durable.tail <= durable'.tail
     /\ durable.closed => durable'.closed /\ durable'.tail = durable.tail]_vars

\* What readers see only moves forward while a streamer stays resident
\* (durability.go:58-60 "would regress the tail").
TailNeverRegresses ==
  [][resident /\ resident' => tail <= tail' /\ (closed => closed')]_vars

\* Every submitted append is answered: no burst, job or callback is stranded.
EveryAppendAnswered == \A c \in Clients : client[c] = "waiting" ~> client[c] = "idle"
=============================================================================
