----------------------------- MODULE Committer -----------------------------
(***************************************************************************)
(* The shared commit queue and the durability notifier of notifier mode    *)
(* (internal/ds/commit.go, durability.go), fed by several streams, with    *)
(* CommitAsync and DurableSeq errors and shutdown.                         *)
(*                                                                         *)
(* A job is the pair <<s, n>>: stream s's n-th burst.  Four goroutines     *)
(* meet here: the streamers that call commit, the flush goroutine, the     *)
(* notifier's poller and the one closing the server.                       *)
(***************************************************************************)
EXTENDS Integers, Sequences, FiniteSets, Functions

CONSTANTS
  Streams,
  MaxJobs,       \* bound: bursts one stream commits
  BatchMax,      \* Config.CommitterBatchMax
  StoreMayFail   \* CommitAsync and DurableSeq may return an error

ASSUME CommitterAssumption ==
  /\ MaxJobs \in Nat
  /\ BatchMax \in Nat \ {0}
  /\ StoreMayFail \in BOOLEAN

JobIds == Streams \X (1..MaxJobs)

VARIABLES
  next,       \* stream -> number of bursts it has committed so far
  pending,    \* sc.pending
  flushing,   \* sc.flushing
  closed,     \* sc.closed
  flush,      \* runFlush goroutine: [pc, jobs, seq]
  waiters,    \* n.waiters: [target, job], ascending by target
  nclosed,    \* n.closed
  poller,     \* run goroutine: [pc, seq, cbs, ok]; cbs are callbacks being fired
  stop,       \* n.stop is closed
  closer,     \* Server.Close: "open", "stray", "wait", "shutdown", "closed"
  stray,      \* jobs close() took from the queue and is failing
  applied,    \* the store: sequence of batches, each a sequence of jobs
  durable,    \* the store's durable sequence number
  published,  \* stream -> last burst applyReader published
  answers     \* job -> sequence of outcomes its clients were sent

store == <<applied, durable>>
queue == <<pending, flushing, closed>>
notifier == <<waiters, nclosed, stop>>
vars == <<next, pending, flushing, closed, flush, waiters, nclosed, poller, stop,
          closer, stray, applied, durable, published, answers>>

Idle == [pc |-> "none", jobs |-> << >>, seq |-> 0]
Polling == [pc |-> "select", seq |-> 0, cbs |-> << >>, ok |-> TRUE]

Init ==
  /\ next = [s \in Streams |-> 0]
  /\ pending = << >>
  /\ flushing = FALSE
  /\ closed = FALSE
  /\ flush = Idle
  /\ waiters = << >>
  /\ nclosed = FALSE
  /\ poller = Polling
  /\ stop = FALSE
  /\ closer = "open"
  /\ stray = << >>
  /\ applied = << >>
  /\ durable = 0
  /\ published = [s \in Streams |-> 0]
  /\ answers = [j \in JobIds |-> << >>]

\* replyAll and st.pending.Add(-1) for every job of js.
Answer(js, outcome) ==
  answers' = [j \in JobIds |-> IF j \in Range(js) THEN Append(answers[j], outcome)
                                                   ELSE answers[j]]

\* takeBatchLocked on queue q: the batch and what stays queued.
TakeBatch(q) == SubSeq(q, 1, IF Len(q) <= BatchMax THEN Len(q) ELSE BatchMax)
LeaveQueued_offByOne(q) == IF Len(q) <= BatchMax THEN << >> ELSE SubSeq(q, BatchMax, Len(q))
LeaveQueued(q) == IF Len(q) <= BatchMax THEN << >> ELSE SubSeq(q, BatchMax + 1, Len(q))

-----------------------------------------------------------------------------
\* commit on streamer s's goroutine: a closed committer fails the job; a running
\* flush will pick it up; otherwise start a flush.
Commit(s) ==
  /\ next[s] < MaxJobs
  /\ next' = [next EXCEPT ![s] = @ + 1]
  /\ LET job == <<s, next[s] + 1>>
         q == Append(pending, job)
     IN \/ /\ closed
           /\ Answer(<<job>>, "error")
           /\ UNCHANGED <<queue, flush>>
        \/ /\ ~closed /\ flushing
           /\ pending' = q
           /\ UNCHANGED <<flushing, closed, flush, answers>>
        \/ /\ ~closed /\ ~flushing
           /\ flushing' = TRUE
           /\ flush' = [pc |-> "commit", jobs |-> TakeBatch(q), seq |-> 0]
           /\ pending' = LeaveQueued(q)
           /\ UNCHANGED <<closed, answers>>
  /\ UNCHANGED <<notifier, poller, closer, stray, store, published>>

\* runFlush: one CommitAsync for the whole batch.
FlushCommit ==
  /\ flush.pc = "commit"
  /\ applied' = Append(applied, flush.jobs)
  /\ flush' = [flush EXCEPT !.pc = "subscribe", !.seq = Len(applied) + 1]
  /\ UNCHANGED <<next, queue, notifier, poller, closer, stray, durable, published, answers>>

FlushFails ==
  /\ flush.pc = "commit"
  /\ StoreMayFail
  /\ Answer(flush.jobs, "error")
  /\ flush' = [flush EXCEPT !.pc = "loop", !.jobs = << >>]
  /\ UNCHANGED <<next, queue, notifier, poller, closer, stray, store, published>>

\* Where subscribe inserts a waiter of target t: sort.Search's first index with a
\* larger target (the number of waiters before it).
Position_beforeEqual(t) == Cardinality({i \in 1..Len(waiters) : waiters[i].target < t})
Position(t) == Cardinality({i \in 1..Len(waiters) : waiters[i].target <= t})

\* subscribe, once per job in drain order: behind every waiter of an equal or
\* smaller target, or failed at once when the notifier is closed.
Subscribe ==
  /\ flush.pc = "subscribe"
  /\ flush.jobs # << >>
  /\ LET job == Head(flush.jobs)
         k == Position(flush.seq)
         wtr == [target |-> flush.seq, job |-> job]
     IN \/ /\ nclosed
           /\ Answer(<<job>>, "error")
           /\ UNCHANGED waiters
        \/ /\ ~nclosed
           /\ waiters' = SubSeq(waiters, 1, k) \o <<wtr>> \o SubSeq(waiters, k + 1, Len(waiters))
           /\ UNCHANGED answers
  /\ flush' = [flush EXCEPT !.jobs = Tail(@)]
  /\ UNCHANGED <<next, queue, nclosed, stop, poller, closer, stray, store, published>>

FlushLoop_noRecheck ==
  /\ flush.pc = "loop" \/ (flush.pc = "subscribe" /\ flush.jobs = << >>)
  /\ flushing' = FALSE
  /\ flush' = Idle
  /\ UNCHANGED <<next, pending, closed, notifier, poller, closer, stray, store,
                 published, answers>>
\* The end of runFlush's loop body: exit on an empty queue, else take more.
FlushLoop ==
  /\ flush.pc = "loop" \/ (flush.pc = "subscribe" /\ flush.jobs = << >>)
  /\ \/ /\ pending = << >>
        /\ flushing' = FALSE
        /\ flush' = Idle
        /\ UNCHANGED pending
     \/ /\ pending # << >>
        /\ flush' = [pc |-> "commit", jobs |-> TakeBatch(pending), seq |-> 0]
        /\ pending' = LeaveQueued(pending)
        /\ UNCHANGED flushing
  /\ UNCHANGED <<next, closed, notifier, poller, closer, stray, store, published, answers>>

\* poll: with waiters outstanding, ask the store for its durable sequence number.
Poll ==
  /\ poller.pc = "select"
  /\ waiters # << >>
  /\ poller' = [poller EXCEPT !.pc = "durableSeq"]
  /\ UNCHANGED <<next, queue, flush, notifier, closer, stray, store, published, answers>>

\* DurableSeq returns, and the store moves on before fire locks the notifier.
DurableSeq ==
  /\ poller.pc = "durableSeq"
  /\ closer # "closed"
  /\ poller' = [poller EXCEPT !.pc = "covered", !.seq = durable]
  /\ UNCHANGED <<next, queue, flush, notifier, closer, stray, store, published, answers>>

Covered_offByOne(wtr) == wtr.target <= poller.seq + 1
Covered(wtr) == wtr.target <= poller.seq

\* fire takes the waiters the sequence number covers, from the front.
Fire ==
  /\ poller.pc = "covered"
  /\ LET i == Cardinality({k \in 1..Len(waiters) : \A m \in 1..k : Covered(waiters[m])})
     IN  /\ poller' = [poller EXCEPT !.pc = "fire",
                                     !.cbs = [k \in 1..i |-> waiters[k].job]]
         /\ waiters' = SubSeq(waiters, i + 1, Len(waiters))
  /\ UNCHANGED <<next, queue, flush, nclosed, stop, closer, stray, store, published, answers>>

\* closeAll, on the poller: close the notifier for good and fail what is waiting.
closeAll(pc) ==
  /\ poller' = [poller EXCEPT !.pc = pc, !.ok = FALSE,
                              !.cbs = [k \in 1..Len(waiters) |-> waiters[k].job]]
  /\ waiters' = << >>
  /\ nclosed' = TRUE
  /\ UNCHANGED <<next, queue, flush, stop, closer, stray, store, published, answers>>

\* DurableSeq returned an error (the store is broken or already closed).
PollFails ==
  /\ poller.pc = "durableSeq"
  /\ StoreMayFail \/ closer = "closed"
  /\ closeAll("fire")

\* The poller's select takes the stop case: fail the rest and return.
PollerStops ==
  /\ poller.pc = "select"
  /\ stop
  /\ closeAll("last")

\* applyReader of the job's streamer.
applyReader(job) == published' = [published EXCEPT ![job[1]] = job[2]]

\* One callback: publish and answer on success, answer the error otherwise.
Callback ==
  /\ poller.pc \in {"fire", "last"}
  /\ poller.cbs # << >>
  /\ LET job == Head(poller.cbs)
     IN  /\ IF poller.ok THEN applyReader(job) ELSE UNCHANGED published
         /\ Answer(<<job>>, IF poller.ok THEN "ok" ELSE "error")
  /\ poller' = [poller EXCEPT !.cbs = Tail(@)]
  /\ UNCHANGED <<next, queue, flush, notifier, closer, stray, store>>

CallbacksDone ==
  /\ poller.pc \in {"fire", "last"}
  /\ poller.cbs = << >>
  /\ poller' = [poller EXCEPT !.pc = IF @ = "last" THEN "exited" ELSE "select",
                              !.seq = 0, !.ok = TRUE]
  /\ UNCHANGED <<next, queue, flush, notifier, closer, stray, store, published, answers>>

\* sharedCommitter.close: refuse new jobs, take what is queued, ...
CloseStart ==
  /\ closer = "open"
  /\ closer' = "stray"
  /\ closed' = TRUE
  /\ stray' = pending
  /\ pending' = << >>
  /\ UNCHANGED <<next, flushing, flush, notifier, poller, store, published, answers>>

\* ... fail it, ...
CloseStray ==
  /\ closer = "stray"
  /\ Answer(stray, "error")
  /\ stray' = << >>
  /\ closer' = "wait"
  /\ UNCHANGED <<next, queue, flush, notifier, poller, store, published>>

CloseShutdown_noWait ==
  /\ closer = "wait"
  /\ stop' = TRUE
  /\ closer' = "shutdown"
  /\ UNCHANGED <<next, queue, flush, waiters, nclosed, poller, stray, store, published, answers>>
\* ... wait for the flush goroutine, stop the poller (without joining it), ...
CloseShutdown ==
  /\ closer = "wait"
  /\ flush.pc = "none"
  /\ stop' = TRUE
  /\ closer' = "shutdown"
  /\ UNCHANGED <<next, queue, flush, waiters, nclosed, poller, stray, store, published, answers>>

\* ... and Server.Close frees the store.
CloseStore ==
  /\ closer = "shutdown"
  /\ closer' = "closed"
  /\ UNCHANGED <<next, queue, flush, notifier, poller, stray, store, published, answers>>

\* The engine's flush (external).
Persist ==
  /\ durable < Len(applied)
  /\ closer # "closed"
  /\ durable' \in (durable + 1)..Len(applied)
  /\ UNCHANGED <<next, queue, flush, notifier, poller, closer, stray, applied,
                 published, answers>>

Next ==
  \/ \E s \in Streams : Commit(s)
  \/ FlushCommit \/ FlushFails \/ Subscribe \/ FlushLoop
  \/ Poll \/ DurableSeq \/ Fire \/ PollFails \/ PollerStops \/ Callback \/ CallbacksDone
  \/ CloseStart \/ CloseStray \/ CloseShutdown \/ CloseStore
  \/ Persist

Spec == Init /\ [][Next]_vars

\* Goroutines keep running and the engine keeps flushing.  Go's select picks
\* among ready cases at random, so the stop case is taken if it stays ready:
\* strong fairness.  Streams need not commit and the server need not
\* start closing.
Fairness ==
  /\ WF_vars(FlushCommit \/ FlushFails)
  /\ WF_vars(Subscribe)
  /\ WF_vars(FlushLoop)
  /\ WF_vars(Poll)
  /\ WF_vars(DurableSeq \/ PollFails)
  /\ WF_vars(Fire)
  /\ SF_vars(PollerStops)
  /\ WF_vars(Callback)
  /\ WF_vars(CallbacksDone)
  /\ WF_vars(CloseStray)
  /\ WF_vars(CloseShutdown)
  /\ WF_vars(Persist)
FairSpec == Spec /\ Fairness

-----------------------------------------------------------------------------
Waiter == [target : Nat, job : JobIds]

\* The shapes of the queue, the notifier and the goroutines' local state.
TypeOK ==
  /\ next \in [Streams -> 0..MaxJobs]
  /\ pending \in Seq(JobIds) /\ stray \in Seq(JobIds)
  /\ flushing \in BOOLEAN /\ closed \in BOOLEAN /\ nclosed \in BOOLEAN /\ stop \in BOOLEAN
  /\ flush \in [pc : {"none", "commit", "subscribe", "loop"}, jobs : Seq(JobIds), seq : Nat]
  /\ waiters \in Seq(Waiter)
  /\ poller \in [pc : {"select", "durableSeq", "covered", "fire", "last", "exited"},
                 seq : Nat, cbs : Seq(JobIds), ok : BOOLEAN]
  /\ closer \in {"open", "stray", "wait", "shutdown", "closed"}
  /\ applied \in Seq(Seq(JobIds))
  /\ durable \in 0..Len(applied)
  /\ published \in [Streams -> 0..MaxJobs]
  /\ answers \in [JobIds -> Seq({"ok", "error"})]

\* Every commit job on its way, in the order the code will resolve it.
InFlight ==
  poller.cbs \o [i \in 1..Len(waiters) |-> waiters[i].job] \o flush.jobs \o pending \o stray

\* Each burst's clients are answered at most once, and exactly when the burst has
\* left the queue, the flush, the notifier and the stray list: nobody is answered
\* twice by close racing a flush, and no job is dropped unanswered
\* (commit.go failJob/runFlush/close, durability.go "invokes cb exactly once").
AnsweredOnce ==
  \A j \in JobIds :
     LET n == Cardinality({i \in 1..Len(InFlight) : InFlight[i] = j})
     IN  IF j[2] <= next[j[1]] THEN n + Len(answers[j]) = 1
                               ELSE n = 0 /\ answers[j] = << >>

\* A burst answered with success is covered by the store's durable sequence
\* number, and its stream's readers can see it (applyReader ran first).
OkIsDurable ==
  \A j \in JobIds :
     answers[j] = <<"ok">> =>
       /\ published[j[1]] >= j[2]
       /\ \E b \in 1..durable : j \in Range(applied[b])

\* Two bursts of one stream reach the store in the order the streamer planned
\* them, whatever streams share the queue ("two bursts can never reach
\* CommitAsync out of order", commit.go).
CommitOrder ==
  \A s \in Streams :
    LET mine(b) == {n \in 1..MaxJobs : <<s, n>> \in Range(applied[b])}
    IN \A b1, b2 \in 1..Len(applied) :
         b1 < b2 => \A m \in mine(b1), n \in mine(b2) : m < n

\* While the notifier queue holds two bursts of one stream, the earlier one fires
\* first (durability.go: "callbacks totally ordered by target").
ResolveOrder ==
  \A i, k \in 1..Len(InFlight) :
     i < k /\ InFlight[i][1] = InFlight[k][1] => InFlight[i][2] < InFlight[k][2]

\* The reader-visible position of a stream never moves backwards.
PublishedNeverRegresses == [][\A s \in Streams : published'[s] >= published[s]]_vars

\* Once the store is freed no flush goroutine can commit to it: close waits for it
\* ("Wait for any in-flight runFlush to finish ... before Server.Close frees the
\* native store handle", commit.go).
NoCommitAfterClose == closer = "closed" => flush.pc = "none"

\* The claim of Server.Close's contract for every store call: none is in flight
\* once the store is freed ("freeing the native store while an FFI call is in
\* flight", server.go).
NoCallAfterClose == closer = "closed" => poller.pc # "durableSeq" /\ flush.pc = "none"

\* Every committed burst is answered, through store errors and shutdown.
EveryJobAnswered ==
  \A j \in JobIds : (next[j[1]] >= j[2]) ~> (answers[j] # << >>)
=============================================================================
