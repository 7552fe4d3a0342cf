----------------------------- MODULE Residency ------------------------------
(***************************************************************************)
(* Who may write to a stream, and for how long it lives: the registry of   *)
(* resident streamers, spawning and retiring them, appends submitted       *)
(* through their bounded channel, and create, delete and expiry of the     *)
(* path under them (server.go, registry.go, handlers.go, expiry.go and the *)
(* run loop and sliding TTL of streamer.go).                               *)
(*                                                                         *)
(* One path.  Locks: metaMu is held while del is not idle, the path's      *)
(* spawn lock while del is stopping or committing, a streamer's mu by the  *)
(* sender it names.  A burst becomes durable when it lands: what lies      *)
(* between is in Streamer and Committer.  The clock counts seconds.        *)
(***************************************************************************)
EXTENDS Integers, Sequences, FiniteSets

CONSTANTS
  Posters,    \* goroutines that append: HTTP handlers, or a Writer's slots
  Settings,   \* configurations and bounds, see env
  None

\* None is neither a poster nor a stored meta; a TTL is a number of seconds.
ASSUME ResidencyAssumption ==
  /\ None \notin Posters
  /\ None \notin [id : Nat, ct : UNION {e.types : e \in Settings}, deadline : Nat]
  /\ \A e \in Settings : e.ttl \in Nat /\ e.types # {} /\ e.kinds \subseteq {"hard", "soft"}

VARIABLES
  env,        \* mode, ttl, cap, and the bounds of the behaviour
  now,        \* time.Now().Unix()
  meta,       \* stored meta of the path: id, ct, deadline (0: none), or None
  tomb,       \* a soft-delete tombstone is stored
  mapped,     \* ids with an idMapping key
  index,      \* expiry index entries <<deadline, id>>
  recs,       \* id -> seq -> the append stored there
  tail,       \* id -> stored tail
  objs,       \* every streamer ever spawned, by number
  registry,   \* number of the resident one, 0 if none
  jobs,       \* bursts handed to the committer
  post,       \* poster -> its append call
  sent,       \* number of append calls
  reader,     \* a read's touchStream call: the streamer it got, 0 if idle
  touches,    \* number of touchStream calls
  del,        \* the create/delete/expire operation that holds metaMu
  deletes,    \* number of delete calls
  refused,    \* number of commits the store refused
  fires,      \* number of times a dormancy timer fired
  dues,       \* due entries the sweeper has scanned
  writer,     \* where the library Writer's caller is
  upto,       \* appends covered by the Writer's last successful Flush
  answers     \* history: what append calls returned

storeVars == <<meta, tomb, mapped, index, recs, tail>>
runVars == <<objs, registry, jobs, fires>>
callVars == <<post, sent, writer, upto, answers>>
otherVars == <<reader, touches, del, deletes, refused, dues>>
vars == <<env, now, storeVars, runVars, callVars, otherVars>>

Objs == 1..Len(objs)
Idle == [pc |-> "idle", k |-> 0, ct |-> None, n |-> 0, st |-> 0, there |-> FALSE]
NoDelete == [pc |-> "idle", kind |-> "", id |-> 0, deadline |-> 0, obj |-> 0]

\* gran of slideTTL and ttlRefreshOps.
gran == LET g == env.ttl \div 4 IN IF g < 1 THEN 1 ELSE IF g > 600 THEN 600 ELSE g

-----------------------------------------------------------------------------
(* The stream's store keys. *)

\* createStream's initial deadline; the +1 covers the truncated second.
initialDeadline == IF env.ttl = 0 THEN 0 ELSE now + env.ttl + 1

entry(d, id) == IF d = 0 THEN {} ELSE {<<d, id>>}

Init ==
  /\ env \in Settings
  /\ now = 0
  /\ meta = [id |-> 1, ct |-> CHOOSE t \in env.types : TRUE, deadline |-> initialDeadline]
  /\ tomb = FALSE
  /\ mapped = {1} /\ index = entry(initialDeadline, 1)
  /\ recs = <<<< >>>> /\ tail = <<0>>
  /\ objs = << >> /\ registry = 0 /\ jobs = << >> /\ fires = 0
  /\ post = [p \in Posters |-> Idle] /\ sent = 0
  /\ reader = 0 /\ touches = 0
  /\ del = NoDelete /\ deletes = 0 /\ refused = 0 /\ dues = {}
  /\ writer = "ready" /\ upto = 0
  /\ answers = {}

\* The clock is of no interest past env.active once every deadline is due.
Tick ==
  /\ now < env.active \/ \E e \in index : now < e[1]
  /\ now' = now + 1
  /\ UNCHANGED <<env, storeVars, runVars, callVars, otherVars>>

\* createStream on a path that has no stream and no tombstone.
CreateStream ==
  /\ del.pc = "idle"
  /\ now <= env.active
  /\ ~tomb /\ meta = None
  /\ Len(tail) < env.streams
  /\ \E ct \in env.types :
       LET id == Len(tail) + 1
       IN /\ meta' = [id |-> id, ct |-> ct, deadline |-> initialDeadline]
          /\ mapped' = mapped \cup {id}
          /\ index' = index \cup entry(initialDeadline, id)
  /\ recs' = Append(recs, << >>)
  /\ tail' = Append(tail, 0)
  /\ UNCHANGED <<env, now, tomb, runVars, callVars, otherVars>>

-----------------------------------------------------------------------------
(* Spawning. *)

newStreamer ==
  [id |-> meta.id, ct |-> meta.ct, deadline |-> meta.deadline, wtail |-> tail[meta.id],
   reqs |-> << >>, touch |-> FALSE, pending |-> 0, dead |-> FALSE, stop |-> FALSE,
   mu |-> None, pc |-> "select"]

spawnLockFree_never == TRUE
\* The path's spawn lock; removeStreamerLocked holds it up to its commit.
spawnLockFree == del.pc \notin {"stop", "commit"}

\* getOrSpawn: the resident streamer needs no lock; without one the path is
\* looked up and a streamer registered under the spawn lock.  The tombstone is
\* not consulted.  What it returns is registry', 0 for not found.
getOrSpawn ==
  /\ registry # 0 \/ spawnLockFree
  /\ IF registry # 0 \/ meta = None
       THEN UNCHANGED <<objs, registry>>
       ELSE objs' = Append(objs, newStreamer) /\ registry' = Len(objs) + 1

-----------------------------------------------------------------------------
(* Append calls. *)

Reply(p, status) ==
  [k |-> post[p].k, status |-> status, id |-> 0, seq |-> 0, n |-> post[p].n,
   there |-> post[p].there, at |-> 0]

Return(p, status) ==
  /\ post' = [post EXCEPT ![p] = Idle]
  /\ answers' = answers \cup {Reply(p, status)}

Begin(p, ct) ==
  /\ p \in env.posters
  /\ now <= env.active
  /\ sent < env.posts
  /\ sent' = sent + 1
  /\ post' = [post EXCEPT ![p] =
       [pc |-> "resolve", k |-> sent + 1, ct |-> ct, n |-> 0, st |-> 0,
        there |-> meta # None /\ spawnLockFree]]

\* An HTTP handler enters handlePost with a body.
Post(p) ==
  /\ ~env.writer
  /\ post[p].pc = "idle"
  /\ \E ct \in env.types : Begin(p, ct)
  /\ UNCHANGED <<env, now, storeVars, runVars, writer, upto, answers, otherVars>>

\* handlePost flattens the body only if the hinted streamer's type matches;
\* appendOrClose takes the type from the hinted streamer.
Hinted(p, o, st) ==
  LET ct == IF env.writer THEN st.ct ELSE post[p].ct
  IN post' = [post EXCEPT ![p].pc = "submit", ![p].st = o, ![p].ct = ct,
                          ![p].n = IF st.ct = ct THEN 1 ELSE 0]

\* registry.get, else the tombstone check.
Resolve(p) ==
  /\ post[p].pc = "resolve"
  /\ \/ registry # 0 /\ Hinted(p, registry, objs[registry]) /\ UNCHANGED answers
     \/ registry = 0 /\ tomb /\ Return(p, "gone")
     \/ registry = 0 /\ ~tomb /\ post' = [post EXCEPT ![p].pc = "spawn"] /\ UNCHANGED answers
  /\ UNCHANGED <<env, now, storeVars, runVars, sent, writer, upto, otherVars>>

\* The getOrSpawn of handlePost, and that of submitAppend's retry, which
\* keeps the records flattened for the streamer that is gone.
Spawn(p) ==
  /\ post[p].pc \in {"spawn", "respawn"}
  /\ getOrSpawn
  /\ \/ registry' = 0 /\ Return(p, "notfound")
     \/ /\ registry' # 0
        /\ IF post[p].pc = "spawn" THEN Hinted(p, registry', objs'[registry'])
           ELSE post' = [post EXCEPT ![p].pc = "submit", ![p].st = registry']
        /\ UNCHANGED answers
  /\ UNCHANGED <<env, now, storeVars, jobs, fires, sent, writer, upto, otherVars>>

submitAppend_gives404(p) ==
  LET o == post[p].st
  IN /\ post[p].pc = "submit" /\ objs[o].mu = None
     /\ \/ objs[o].dead /\ Return(p, "notfound") /\ UNCHANGED objs
        \/ /\ ~objs[o].dead /\ Len(objs[o].reqs) < env.cap
           /\ objs' = [objs EXCEPT ![o].reqs = Append(@, p)]
           /\ post' = [post EXCEPT ![p].pc = "wait"]
           /\ UNCHANGED answers
        \/ /\ ~objs[o].dead /\ Len(objs[o].reqs) = env.cap
           /\ objs' = [objs EXCEPT ![o].mu = p]
           /\ post' = [post EXCEPT ![p].pc = "send"]
           /\ UNCHANGED answers
     /\ UNCHANGED <<env, now, storeVars, registry, jobs, fires, sent, writer, upto, otherVars>>
\* submitAppend under the streamer's mu: retry if it died, else send, which
\* blocks with mu held while the channel is full.
submitAppend(p) ==
  LET o == post[p].st
  IN /\ post[p].pc = "submit" /\ objs[o].mu = None
     /\ \/ /\ objs[o].dead
           /\ post' = [post EXCEPT ![p].pc = "respawn"]
           /\ UNCHANGED objs
        \/ /\ ~objs[o].dead /\ Len(objs[o].reqs) < env.cap
           /\ objs' = [objs EXCEPT ![o].reqs = Append(@, p)]
           /\ post' = [post EXCEPT ![p].pc = "wait"]
        \/ /\ ~objs[o].dead /\ Len(objs[o].reqs) = env.cap
           /\ objs' = [objs EXCEPT ![o].mu = p]
           /\ post' = [post EXCEPT ![p].pc = "send"]
     /\ UNCHANGED <<env, now, storeVars, registry, jobs, fires, sent, writer, upto, answers, otherVars>>

\* The blocked send completes and mu is released.
Send(p) ==
  LET o == post[p].st
  IN /\ post[p].pc = "send" /\ Len(objs[o].reqs) < env.cap
     /\ objs' = [objs EXCEPT ![o].reqs = Append(@, p), ![o].mu = None]
     /\ post' = [post EXCEPT ![p].pc = "wait"]
     /\ UNCHANGED <<env, now, storeVars, registry, jobs, fires, sent, writer, upto, answers, otherVars>>

-----------------------------------------------------------------------------
(* The library's Writer: its posters are the slots of sem. *)

Err == \E a \in answers : a.status # "ok"

\* Write looks at Err before it waits for a slot.
WriteChecks ==
  /\ env.writer /\ writer = "ready" /\ ~Err
  /\ sent < env.posts /\ now <= env.active
  /\ writer' = "acquire"
  /\ UNCHANGED <<env, now, storeVars, runVars, post, sent, upto, answers, otherVars>>

\* Write gets a slot and starts the goroutine that calls Append, or its
\* context ends first.
Write ==
  /\ writer = "acquire"
  /\ writer' = "ready"
  /\ \/ \E p \in Posters : post[p].pc = "idle" /\ Begin(p, None)
     \/ UNCHANGED <<post, sent>>
  /\ UNCHANGED <<env, now, storeVars, runVars, upto, answers, otherVars>>

\* Append finds its context done before it does anything.
AppendCancelled(p) ==
  /\ env.writer
  /\ post[p].pc = "resolve"
  /\ Return(p, "cancelled")
  /\ UNCHANGED <<env, now, storeVars, runVars, sent, writer, upto, otherVars>>

Flush ==
  /\ env.writer /\ writer = "ready" /\ upto < sent
  /\ writer' = "flush"
  /\ UNCHANGED <<env, now, storeVars, runVars, post, sent, upto, answers, otherVars>>

Finished_submitted(p) == post[p].pc \in {"idle", "wait"}
\* wg.Done: the goroutine has returned from Append and set its error.
Finished(p) == post[p].pc = "idle"

\* wg.Wait returns and Flush reports Err, or its context ends first.
FlushDone ==
  /\ writer = "flush"
  /\ writer' = "ready"
  /\ upto' = IF (\A p \in Posters : Finished(p)) /\ ~Err THEN sent ELSE upto
  /\ UNCHANGED <<env, now, storeVars, runVars, post, sent, answers, otherVars>>

-----------------------------------------------------------------------------
(* The streamer goroutine. *)

slideTTL_truncated(deadline) ==
  IF env.ttl = 0 \/ now + env.ttl <= deadline THEN deadline ELSE now + env.ttl + gran
\* slideTTL and ttlRefreshOps: rate-limited, padded by the granularity.
slideTTL(deadline) ==
  IF env.ttl = 0 \/ now + env.ttl < deadline THEN deadline ELSE now + env.ttl + gran

\* planAppend on every request of the drained channel, in order.
accepts(st, p) == post[p].ct = st.ct

items(st) ==
  LET before(i) == {j \in 1..(i - 1) : accepts(st, st.reqs[j])}
      records(J) == Cardinality({j \in J : post[st.reqs[j]].n = 1})
  IN [i \in 1..Len(st.reqs) |->
       [p |-> st.reqs[i], ok |-> accepts(st, st.reqs[i]), n |-> post[st.reqs[i]].n,
        seq |-> st.wtail + records(before(i))]]

processBurst(o) ==
  LET st == objs[o]
      batch == items(st)
      taken == {i \in DOMAIN batch : batch[i].ok}
      written == {i \in taken : batch[i].n = 1}
  IN [obj |-> o, id |-> st.id, ct |-> st.ct, batch |-> batch, at |-> now,
      puts |-> [s \in {batch[i].seq : i \in written} |->
                 post[(batch[CHOOSE i \in written : batch[i].seq = s]).p].k],
      end |-> st.wtail + Cardinality(written),
      old |-> st.deadline,
      deadline |-> IF taken = {} THEN st.deadline ELSE slideTTL(st.deadline)]

nothing(job) == job.puts = << >> /\ job.deadline = job.old

applyWriter(st, job) == [st EXCEPT !.wtail = job.end, !.deadline = job.deadline]

Status(item, good) == IF ~item.ok THEN "conflict" ELSE IF good THEN "ok" ELSE "error"

\* replyAll, after failAccepted when the commit failed.
replyAll(job, good) ==
  /\ answers' = answers \cup
       {[k |-> post[job.batch[i].p].k, status |-> Status(job.batch[i], good), id |-> job.id,
         seq |-> job.batch[i].seq, n |-> job.batch[i].n, there |-> post[job.batch[i].p].there,
         at |-> job.at] : i \in DOMAIN job.batch}
  /\ post' = [p \in Posters |->
       IF \E i \in DOMAIN job.batch : job.batch[i].p = p THEN Idle ELSE post[p]]

\* The run loop receives a request: the burst is drained, planned and handed
\* to the committer, which applies the writer's view now (notifier) or when
\* the batch is durable (sync, the goroutine waits).
Burst(o) ==
  LET st == objs[o]
      job == processBurst(o)
      drained == [st EXCEPT !.reqs = << >>]
  IN /\ st.pc = "select" /\ st.reqs # << >>
     /\ \/ nothing(job) /\ objs' = [objs EXCEPT ![o] = drained] /\ replyAll(job, TRUE)
           /\ UNCHANGED jobs
        \/ /\ ~nothing(job)
           /\ jobs' = Append(jobs, job)
           /\ objs' = [objs EXCEPT ![o] =
                IF env.mode = "sync" THEN [drained EXCEPT !.pc = "commit"]
                ELSE [applyWriter(drained, job) EXCEPT !.pending = @ + 1]]
           /\ UNCHANGED <<post, answers>>
     /\ UNCHANGED <<env, now, storeVars, registry, fires, sent, writer, upto, otherVars>>

\* The deadline keys and the meta of a stream whose deadline slides.
slideOps(id, ct, old, deadline) ==
  IF deadline = old THEN UNCHANGED <<meta, index>>
  ELSE /\ meta' = [id |-> id, ct |-> ct, deadline |-> deadline]
       /\ index' = (index \ {<<old, id>>}) \cup {<<deadline, id>>}

\* A streamer that commits for itself returns to its loop; behind the shared
\* committer the burst is no longer pending.
released(st) ==
  IF env.mode = "sync" THEN [st EXCEPT !.pc = "select"]
  ELSE [st EXCEPT !.pending = @ - 1]

\* syncCommitter applies the burst now, the shared committer did at hand-over.
durable(st, job) == released(IF env.mode = "sync" THEN applyWriter(st, job) ELSE st)

\* The records of a stream after a batch is applied to them.
Put(puts, log) ==
  [s \in DOMAIN puts \cup DOMAIN log |-> IF s \in DOMAIN puts THEN puts[s] ELSE log[s]]

\* The queue without its i-th burst.
Without(s, i) == [k \in 1..(Len(s) - 1) |-> s[IF k < i THEN k ELSE k + 1]]

\* A burst becomes durable: in queue order behind the shared committer, on
\* its own when each streamer commits for itself.
Land(i) ==
  LET job == jobs[i]
  IN /\ i = 1 \/ env.mode = "sync"
     /\ recs' = [recs EXCEPT ![job.id] = Put(job.puts, @)]
     /\ tail' = [tail EXCEPT ![job.id] = job.end]
     /\ slideOps(job.id, job.ct, job.old, job.deadline)
     /\ objs' = [objs EXCEPT ![job.obj] = durable(@, job)]
     /\ jobs' = Without(jobs, i)
     /\ replyAll(job, TRUE)
     /\ UNCHANGED <<env, now, tomb, mapped, registry, fires, sent, writer, upto, otherVars>>

Refuse(op) == op \in env.faults /\ refused < env.refusals /\ refused' = refused + 1

\* The store refuses a burst.
LandRefused(i) ==
  LET job == jobs[i]
  IN /\ i = 1 \/ env.mode = "sync"
     /\ Refuse("burst")
     /\ objs' = [objs EXCEPT ![job.obj] = released(@)]
     /\ jobs' = Without(jobs, i)
     /\ replyAll(job, FALSE)
     /\ UNCHANGED <<env, now, storeVars, registry, fires, sent, writer, upto,
                    reader, touches, del, deletes, dues>>

refreshTTLOnRead_keepsEntry(o) ==
  LET st == objs[o]
      deadline == slideTTL(st.deadline)
  IN /\ objs' = [objs EXCEPT ![o].touch = FALSE, ![o].deadline = deadline]
     /\ meta' = IF deadline = st.deadline THEN meta
                ELSE [id |-> st.id, ct |-> st.ct, deadline |-> deadline]
     /\ UNCHANGED <<index, refused>>
\* refreshTTLOnRead commits at once, past any queued burst; a refused commit
\* restores the deadline.
refreshTTLOnRead(o) ==
  LET st == objs[o]
      deadline == slideTTL(st.deadline)
  IN \/ /\ objs' = [objs EXCEPT ![o].touch = FALSE, ![o].deadline = deadline]
        /\ slideOps(st.id, st.ct, st.deadline, deadline)
        /\ UNCHANGED refused
     \/ /\ deadline # st.deadline /\ Refuse("touch")
        /\ objs' = [objs EXCEPT ![o].touch = FALSE]
        /\ UNCHANGED <<meta, index>>

Touched(o) ==
  /\ objs[o].pc = "select" /\ objs[o].touch
  /\ refreshTTLOnRead(o)
  /\ UNCHANGED <<env, now, tomb, mapped, recs, tail, registry, jobs, fires, callVars,
                 reader, touches, del, deletes, dues>>

\* The dormancy timer fires.
Dormant(o) ==
  /\ objs[o].pc = "select"
  /\ fires < env.fires
  /\ fires' = fires + 1
  /\ objs' = [objs EXCEPT ![o].pc = "retire"]
  /\ UNCHANGED <<env, now, storeVars, registry, jobs, callVars, otherVars>>

busy(st) == st.reqs # << >> \/ st.pending > 0

busy_channelOnly(st) == st.reqs # << >>

tryRetire_ignoresPending(o) ==
  LET st == objs[o]
      stays == busy_channelOnly(st)
  IN /\ st.pc = "retire" /\ st.mu = None
     /\ objs' = [objs EXCEPT ![o] = IF stays THEN [st EXCEPT !.pc = "select"]
                                    ELSE [st EXCEPT !.pc = "exit", !.dead = TRUE]]
     /\ registry' = IF ~stays /\ registry = o THEN 0 ELSE registry
     /\ UNCHANGED <<env, now, storeVars, jobs, fires, callVars, otherVars>>
\* tryRetire, once it holds mu; no live reader is attached.
tryRetire(o) ==
  LET st == objs[o]
      stays == busy(st)
  IN /\ st.pc = "retire" /\ st.mu = None
     /\ objs' = [objs EXCEPT ![o] = IF stays THEN [st EXCEPT !.pc = "select"]
                                    ELSE [st EXCEPT !.pc = "exit", !.dead = TRUE]]
     /\ registry' = IF ~stays /\ registry = o THEN 0 ELSE registry
     /\ UNCHANGED <<env, now, storeVars, jobs, fires, callVars, otherVars>>

Stopped_dropsQueued(o) ==
  /\ objs[o].pc = "select" /\ objs[o].stop
  /\ objs' = [objs EXCEPT ![o].pc = "exit", ![o].reqs = << >>]
  /\ UNCHANGED <<env, now, storeVars, registry, jobs, fires, callVars, otherVars>>
\* The stop case: what is queued is answered 404 and the goroutine ends.
Stopped(o) ==
  LET queued == {objs[o].reqs[i] : i \in DOMAIN objs[o].reqs}
  IN /\ objs[o].pc = "select" /\ objs[o].stop
     /\ objs' = [objs EXCEPT ![o].pc = "exit", ![o].reqs = << >>]
     /\ answers' = answers \cup {Reply(p, "notfound") : p \in queued}
     /\ post' = [p \in Posters |-> IF p \in queued THEN Idle ELSE post[p]]
     /\ UNCHANGED <<env, now, storeVars, registry, jobs, fires, sent, writer, upto, otherVars>>

-----------------------------------------------------------------------------
(* Reads slide the window through touchStream. *)

TouchResolve ==
  /\ reader = 0 /\ touches < env.touches /\ now <= env.active
  /\ touches' = touches + 1
  /\ getOrSpawn
  /\ reader' = registry'
  /\ UNCHANGED <<env, now, storeVars, jobs, fires, callVars, del, deletes, refused, dues>>

touchStream ==
  /\ reader # 0 /\ objs[reader].mu = None
  /\ objs' = [objs EXCEPT ![reader].touch = @ \/ ~objs[reader].dead]
  /\ reader' = 0
  /\ UNCHANGED <<env, now, storeVars, registry, jobs, fires, callVars,
                 touches, del, deletes, refused, dues>>

-----------------------------------------------------------------------------
(* Delete and expiry. *)

\* deleteStream under metaMu; a stream with forks is soft-deleted.
deleteStream ==
  /\ del.pc = "idle" /\ deletes < env.deletes /\ now <= env.active
  /\ deletes' = deletes + 1
  /\ \/ (tomb \/ meta = None) /\ UNCHANGED del
     \/ /\ ~tomb /\ meta # None
        /\ \E kind \in env.kinds :
             del' = [pc |-> "remove", kind |-> kind, id |-> meta.id, deadline |-> meta.deadline,
                     obj |-> 0]
  /\ UNCHANGED <<env, now, storeVars, runVars, callVars, reader, touches, refused, dues>>

\* sweepOnce's scan.
sweepOnce ==
  /\ dues = {} /\ del.pc = "idle"
  /\ dues' = {e \in index : e[1] <= now}
  /\ dues' # {}
  /\ UNCHANGED <<env, now, storeVars, runVars, callVars, reader, touches, del, deletes, refused>>

\* expireIfDue under metaMu: the entry is stale, or the stream is deleted.
expireIfDue(e) ==
  LET current == e[2] \in mapped /\ meta # None /\ meta.id = e[2] /\ meta.deadline = e[1]
  IN /\ del.pc = "idle"
     /\ dues' = dues \ {e}
     /\ \/ ~current /\ index' = index \ {e} /\ UNCHANGED del
        \/ /\ current
           /\ del' = [pc |-> "remove", kind |-> "hard", id |-> e[2], deadline |-> e[1], obj |-> 0]
           /\ UNCHANGED index
     /\ UNCHANGED <<env, now, meta, tomb, mapped, recs, tail, runVars, callVars,
                    reader, touches, deletes, refused>>

\* removeStreamerLocked takes the spawn lock and the registry entry.
RemoveEntry ==
  /\ del.pc = "remove"
  /\ del' = [del EXCEPT !.pc = IF registry = 0 THEN "commit" ELSE "stop", !.obj = registry]
  /\ registry' = 0
  /\ post' = [p \in Posters |-> [post[p] EXCEPT !.there = FALSE]]
  /\ UNCHANGED <<env, now, storeVars, objs, jobs, fires, sent, writer, upto, answers,
                 reader, touches, deletes, refused, dues>>

\* removeStreamer marks the streamer dead and closes stop, once it holds mu.
StopStreamer ==
  /\ del.pc = "stop" /\ objs[del.obj].mu = None
  /\ objs' = [objs EXCEPT ![del.obj].stop = @ \/ ~objs[del.obj].dead, ![del.obj].dead = TRUE]
  /\ del' = [del EXCEPT !.pc = "commit"]
  /\ UNCHANGED <<env, now, storeVars, registry, jobs, fires, callVars,
                 reader, touches, deletes, refused, dues>>

\* The batch of deleteStreamLocked or softDeleteLocked, or its refusal.
CommitDelete ==
  /\ del.pc = "commit"
  /\ del' = NoDelete
  /\ \/ /\ del.kind = "hard"
        /\ meta' = None /\ tomb' = FALSE
        /\ mapped' = mapped \ {del.id}
        /\ index' = index \ {<<del.deadline, del.id>>}
        /\ tail' = [tail EXCEPT ![del.id] = 0]
        /\ UNCHANGED refused
     \/ /\ del.kind = "soft"
        /\ tomb' = TRUE
        /\ UNCHANGED <<meta, mapped, index, tail, refused>>
     \/ Refuse("delete") /\ UNCHANGED <<meta, tomb, mapped, index, tail>>
  /\ UNCHANGED <<env, now, recs, runVars, callVars, reader, touches, deletes, dues>>

-----------------------------------------------------------------------------
Poster(p) == Resolve(p) \/ Spawn(p) \/ submitAppend(p) \/ Send(p)

Runner(o) == Burst(o) \/ Touched(o) \/ tryRetire(o) \/ Stopped(o)

Deleter == RemoveEntry \/ StopStreamer \/ CommitDelete

Sweeper == sweepOnce \/ \E e \in dues : expireIfDue(e)

Next ==
  \/ \E p \in Posters : Post(p) \/ Poster(p) \/ AppendCancelled(p)
  \/ WriteChecks \/ Write \/ Flush \/ FlushDone
  \/ \E o \in Objs : Runner(o) \/ Dormant(o)
  \/ \E i \in DOMAIN jobs : Land(i) \/ LandRefused(i)
  \/ TouchResolve \/ touchStream
  \/ CreateStream \/ deleteStream \/ Deleter \/ Sweeper
  \/ Tick

\* What goroutines that run, the ticker and the clock do; calls of users and
\* expiring contexts are not among them.
Progress ==
  \/ \E p \in Posters : Poster(p)
  \/ \E o \in Objs : Runner(o)
  \/ \E i \in DOMAIN jobs : Land(i) \/ LandRefused(i)
  \/ touchStream \/ Deleter \/ Sweeper \/ Tick

\* Go runs every goroutine that can run, and the sweeper's ticker and the
\* clock go on.  Every behaviour has finitely many of these steps, so that
\* weak fairness of each and of their disjunction is the same.
Fairness == WF_vars(Progress)

Spec == Init /\ [][Next]_vars /\ Fairness

-----------------------------------------------------------------------------
(* Properties. *)

CanWrite(o) ==
  \/ objs[o].pc # "exit" /\ (~objs[o].dead \/ objs[o].reqs # << >>)
  \/ \E i \in DOMAIN jobs : jobs[i].obj = o

\* A stream that is not deleted has one writer: at most one streamer that can
\* still plan or has a burst in flight assigns its sequence numbers
\* (streamer.go "single-writer", tryRetire, getOrSpawn, removeStreamer).
OneWriter ==
  ~tomb => \A o, q \in Objs :
    objs[o].id \in mapped /\ objs[q].id = objs[o].id /\ CanWrite(o) /\ CanWrite(q) => o = q

Stored(a) == a.seq \in DOMAIN recs[a.id] /\ recs[a.id][a.seq] = a.k

Current(id) == meta # None /\ meta.id = id /\ id \in mapped /\ ~tomb

\* An acknowledged record of a stream that is still there is where it was
\* acknowledged: no later streamer of the stream writes over it.
AckedStored ==
  \A a \in answers : a.status = "ok" /\ a.n = 1 /\ Current(a.id) => Stored(a)

\* A streamer that is resident was spawned from the meta the path has now
\* (getOrSpawn: no "zombie" streamer), unless a delete has begun.
NoZombie ==
  registry # 0 => meta # None /\ meta.id = objs[registry].id

\* An append is answered 404 only if the path had no stream, or one being
\* removed, at some time during the call: retirement alone is never seen
\* (submitAppend retries; the stop drain is reached through a delete).
NotFoundIsHonest ==
  \A a \in answers : a.status = "notfound" => ~a.there

\* A nil Flush means that every append accepted before it succeeded, and is
\* stored if its stream is still there (writer.go "nil means everything
\* accepted before this call is durable").
FlushMeansStored ==
  \A k \in 1..upto : \E a \in answers :
    a.k = k /\ a.status = "ok" /\ (Current(a.id) => Stored(a))

\* With sync commits the stored deadline lies past the whole second in which
\* the window of any acknowledged append ends, so that the stream does not
\* expire early whatever the truncated clock hid (slideTTL, "padded"; a
\* refused commit leaves the writer's view alone).
WindowCovered ==
  env.mode = "sync" /\ env.ttl > 0 =>
    \A a \in answers : a.status = "ok" /\ Current(a.id) =>
      meta.deadline > a.at + env.ttl

\* A dormancy timer fired while a sender waits for room in the full channel: tryRetire
\* waits for the mu that sender holds, and the sender for the run loop.
Stuck == \E o \in Objs :
  objs[o].pc = "retire" /\ objs[o].mu # None /\ Len(objs[o].reqs) = env.cap

\* Every append call returns, whatever is retired, deleted or refused under it, unless
\* the path comes to be stuck: nothing else leaves a handler waiting (submitAppend's
\* retry; the stop drain "so no handler hangs").
AnsweredUnlessStuck ==
  \A p \in Posters : post[p].pc # "idle" ~> (post[p].pc = "idle" \/ Stuck)

\* Every append call returns (tryRetire "aborts if work is pending"; the stop drain "so
\* no handler hangs").  It does not hold: see Stuck.
EverySubmitAnswered ==
  \A p \in Posters : post[p].pc # "idle" ~> post[p].pc = "idle"

\* A stream with a TTL that is left alone is deleted.
IdleStreamExpires ==
  env.ttl > 0 ~> mapped = {}
=============================================================================
