------------------------------ MODULE LiveRead ------------------------------
(***************************************************************************)
(* Live readers of one stream: long-poll, SSE and LiveCursor               *)
(* (internal/ds/read.go, public.go) against applyReader's publication      *)
(* (streamer.go), the wake coalescer (livewaker.go), the in-memory record  *)
(* cache (livecache.go), dormancy retirement, respawn and deletion.        *)
(*                                                                         *)
(* The atomics a streamer shares with its readers are separate steps here: *)
(* a reader loads channel, tail and closure one by one while the publisher *)
(* stores cache, tail, closure and wakes.  A record's payload is its seq,  *)
(* so what a reader was handed can be compared with the log.  A streamer   *)
(* object is a generation number; a respawn is a new generation.           *)
(***************************************************************************)
EXTENDS Integers, Sequences, FiniteSets

CONSTANTS
  Readers,
  Kind,        \* reader -> "poll", "sse" or "cursor"
  MaxLog,      \* bound: records appended
  MaxGen,      \* bound: streamer objects
  MaxRead,     \* Config.MaxReadBytes, in records
  CacheMax,    \* Config.LiveCacheMaxRecords
  MayClose     \* a burst may close the stream

ASSUME LiveReadAssumption ==
  /\ IsFiniteSet(Readers)
  /\ Kind \in [Readers -> {"poll", "sse", "cursor"}]
  /\ MaxLog \in Nat /\ MaxGen \in Nat
  /\ MaxRead \in Nat \ {0} /\ CacheMax \in Nat \ {0}
  /\ MayClose \in BOOLEAN

Gens == 1..MaxGen

VARIABLES
  log,      \* number of records in the store
  fin,      \* the stream is closed in the store
  deleted,  \* the stream's meta is gone
  cur,      \* registry entry: a generation, or 0
  gen,      \* generations spawned so far
  tail, closed, cache, trailing, stop,   \* per generation, see Streamers
  pub,      \* applyReader in progress: [pc, g, base, n, close, seg]
  rd,       \* reader -> [pc, g, pos, woken, tail, closed, next, body]; woken: the
            \* waiter channel it loaded was closed by a broadcast
  got,      \* reader -> payloads delivered, in order
  skipped   \* history: reader -> records a 204 told its client to resume behind

Streamers == <<tail, closed, cache, trailing, stop>>
vars == <<log, fin, deleted, cur, gen, tail, closed, cache, trailing, stop,
          pub, rd, got, skipped>>

NoPub == [pc |-> "idle", g |-> 0, base |-> 0, n |-> 0, close |-> FALSE, seg |-> << >>]
\* A reader at pos that has loaded nothing from its streamer yet; a new request.
At(pc, g, pos, woken) ==
  [pc |-> pc, g |-> g, pos |-> pos, woken |-> woken, tail |-> 0, closed |-> FALSE,
   next |-> 0, body |-> << >>]
NewReader(pos) == At("out", 0, pos, FALSE)

Init ==
  /\ log = 0 /\ fin = FALSE /\ deleted = FALSE
  /\ cur = 0 /\ gen = 0
  /\ tail = [g \in Gens |-> 0]
  /\ closed = [g \in Gens |-> FALSE]
  /\ cache = [g \in Gens |-> << >>]     \* liveCache.recs: [seq, payload]
  /\ trailing = [g \in Gens |-> FALSE]  \* liveWaker.pending: a deferred wake is armed
  /\ stop = [g \in Gens |-> FALSE]
  /\ pub = NoPub
  /\ rd = [r \in Readers |-> NewReader(0)]
  /\ got = [r \in Readers |-> << >>]
  /\ skipped = [r \in Readers |-> {}]

\* Parked or looping readers, as longPollReaders and sseReaders count them.
Counted == {"loop", "chan", "tail", "closed", "read", "park"}
totalReaders(g) == Cardinality({r \in Readers : rd[r].g = g /\ rd[r].pc \in Counted})

Min(a, b) == IF a < b THEN a ELSE b
\* r moves on with nothing but its streamer and position.
Goto(r, pc) == rd' = [rd EXCEPT ![r] = At(pc, @.g, @.pos, FALSE)]

\* streamer.broadcast: publish a fresh channel and close the one readers hold.
broadcast(g) == rd' = [r \in Readers |->
  [rd[r] EXCEPT !.woken = @ \/ (rd[r].g = g /\ rd[r].pc \in Counted \ {"loop"})]]

-----------------------------------------------------------------------------
(* The streamer side. *)

\* getOrSpawn's slow path, under the path's spawn lock.
Spawn ==
  /\ cur = 0 /\ ~deleted /\ gen < MaxGen
  /\ gen' = gen + 1
  /\ cur' = gen + 1
  /\ tail' = [tail EXCEPT ![gen + 1] = log]
  /\ closed' = [closed EXCEPT ![gen + 1] = fin]
  /\ UNCHANGED <<log, fin, deleted, cache, trailing, stop, pub, rd, got, skipped>>

\* A burst is durable in the store; its payloads were captured for the cache only
\* if some reader was counted when it was planned.
Burst(n, close) ==
  /\ pub.pc = "idle"
  /\ cur # 0 /\ ~fin
  /\ log + n <= MaxLog
  /\ close => MayClose
  /\ n > 0 \/ close
  /\ log' = log + n
  /\ fin' = close
  /\ pub' = [pc |-> "cache", g |-> cur, base |-> log, n |-> n, close |-> close,
             seg |-> IF totalReaders(cur) > 0 THEN [i \in 1..n |-> log + i - 1] ELSE << >>]
  /\ UNCHANGED <<deleted, cur, gen, Streamers, rd, got, skipped>>

\* liveCache.append: restart the window on a discontinuity, evict the oldest beyond
\* the bound, keep at least one.
cacheAppend_mislabels(recs, first, seg) ==
  LET kept == IF recs # << >> /\ first # recs[Len(recs)].seq + 1 THEN << >> ELSE recs
      all == kept \o [i \in 1..Len(seg) |-> [seq |-> first + i - 2, payload |-> seg[i]]]
  IN  IF seg = << >> THEN recs
      ELSE SubSeq(all, IF Len(all) > CacheMax THEN Len(all) - CacheMax + 1 ELSE 1, Len(all))
cacheAppend(recs, first, seg) ==
  LET kept == IF recs # << >> /\ first # recs[Len(recs)].seq + 1 THEN << >> ELSE recs
      all == kept \o [i \in 1..Len(seg) |-> [seq |-> first + i - 1, payload |-> seg[i]]]
  IN  IF seg = << >> THEN recs
      ELSE SubSeq(all, IF Len(all) > CacheMax THEN Len(all) - CacheMax + 1 ELSE 1, Len(all))

\* applyReader, one store at a time: fill or drop the cache, ...
PublishCache ==
  /\ pub.pc = "cache"
  /\ cache' = [cache EXCEPT ![pub.g] =
                 IF totalReaders(pub.g) > 0 THEN cacheAppend(@, pub.base, pub.seg) ELSE << >>]
  /\ pub' = [pub EXCEPT !.pc = "tail"]
  /\ UNCHANGED <<log, fin, deleted, cur, gen, tail, closed, trailing, stop, rd, got, skipped>>

\* ... publish the tail, ...
PublishTail ==
  /\ pub.pc = "tail"
  /\ tail' = [tail EXCEPT ![pub.g] = pub.base + pub.n]
  /\ pub' = [pub EXCEPT !.pc = "closed"]
  /\ UNCHANGED <<log, fin, deleted, cur, gen, closed, cache, trailing, stop, rd, got, skipped>>

\* ... the closure, ...
PublishClosed ==
  /\ pub.pc = "closed"
  /\ closed' = [closed EXCEPT ![pub.g] = @ \/ pub.close]
  /\ pub' = [pub EXCEPT !.pc = "check"]
  /\ UNCHANGED <<log, fin, deleted, cur, gen, tail, cache, trailing, stop, rd, got, skipped>>

\* ... and wake if anybody is counted: Wake broadcasts at the leading edge, or arms
\* one trailing wake inside the window of the last.
PublishWake_noTimer ==
  /\ pub.pc = "check"
  /\ \/ UNCHANGED <<rd, trailing>>
     \/ totalReaders(pub.g) > 0 /\ broadcast(pub.g) /\ UNCHANGED trailing
  /\ pub' = NoPub
  /\ UNCHANGED <<log, fin, deleted, cur, gen, tail, closed, cache, stop, got, skipped>>
PublishWake ==
  /\ pub.pc = "check"
  /\ \/ totalReaders(pub.g) = 0 /\ UNCHANGED <<rd, trailing>>
     \/ totalReaders(pub.g) > 0 /\ broadcast(pub.g) /\ UNCHANGED trailing
     \/ totalReaders(pub.g) > 0 /\ trailing' = [trailing EXCEPT ![pub.g] = TRUE] /\ UNCHANGED rd
  /\ pub' = NoPub
  /\ UNCHANGED <<log, fin, deleted, cur, gen, tail, closed, cache, stop, got, skipped>>

\* liveWaker.fire: the trailing wake.
WakerFires(g) ==
  /\ trailing[g]
  /\ trailing' = [trailing EXCEPT ![g] = FALSE]
  /\ broadcast(g)
  /\ UNCHANGED <<log, fin, deleted, cur, gen, tail, closed, cache, stop, pub, got, skipped>>

\* tryRetire: dormant, no reader counted, no callback outstanding.
Retire ==
  /\ cur # 0
  /\ totalReaders(cur) = 0
  /\ pub.pc = "idle"
  /\ cur' = 0
  /\ trailing' = [trailing EXCEPT ![cur] = FALSE]
  /\ UNCHANGED <<log, fin, deleted, gen, tail, closed, cache, stop, pub, rd, got, skipped>>

\* deleteStream's commit and removeStreamer; the streamer's stop case stops the waker.
Delete ==
  /\ ~deleted
  /\ deleted' = TRUE
  /\ cur' = 0
  /\ stop' = [g \in Gens |-> stop[g] \/ g = cur]
  /\ trailing' = [g \in Gens |-> trailing[g] /\ g # cur]
  /\ UNCHANGED <<log, fin, gen, tail, closed, cache, pub, rd, got, skipped>>

-----------------------------------------------------------------------------
(* The reader side. *)

\* A request resolves the streamer (getOrSpawn) ...
Attach(r) ==
  /\ rd[r].pc = "out"
  /\ \/ cur # 0 /\ rd' = [rd EXCEPT ![r].pc = "attached", ![r].g = cur]
     \/ deleted /\ Goto(r, "gone")
  /\ UNCHANGED <<log, fin, deleted, cur, gen, Streamers, pub, got, skipped>>

\* ... and counts itself.
Count(r) ==
  /\ rd[r].pc = "attached"
  /\ Goto(r, "loop")
  /\ UNCHANGED <<log, fin, deleted, cur, gen, Streamers, pub, got, skipped>>

\* The loop body loads the waiter channel, then the tail, then the closure flag.
LoadChan(r) ==
  /\ rd[r].pc = "loop"
  /\ rd' = [rd EXCEPT ![r].pc = "chan"]
  /\ UNCHANGED <<log, fin, deleted, cur, gen, Streamers, pub, got, skipped>>

LoadTail(r) ==
  /\ rd[r].pc = "chan"
  /\ rd' = [rd EXCEPT ![r].pc = "tail", ![r].tail = tail[rd[r].g]]
  /\ UNCHANGED <<log, fin, deleted, cur, gen, Streamers, pub, got, skipped>>

LoadClosed(r) ==
  /\ rd[r].pc = "tail"
  /\ rd' = [rd EXCEPT ![r].pc = "closed", ![r].closed = closed[rd[r].g]]
  /\ UNCHANGED <<log, fin, deleted, cur, gen, Streamers, pub, got, skipped>>

\* tryRead: the cached window covers [pos, tail) and the range is under the cap.
cacheHit(recs, pos, end) ==
  /\ pos < end
  /\ recs # << >>
  /\ recs[1].seq <= pos /\ end <= recs[Len(recs)].seq + 1
  /\ end - pos < MaxRead

\* The payloads at indices from+1..to of the window.
cachePayloads(recs, pos, end) ==
  [i \in 1..(end - pos) |-> recs[pos - recs[1].seq + i].payload]

\* cacheRead, or readRange from the store up to the tail that was loaded.
Read(r) ==
  /\ rd[r].pc = "closed"
  /\ LET x == rd[r]
         recs == cache[x.g]
         next == IF x.pos >= x.tail THEN x.pos ELSE Min(x.tail, x.pos + MaxRead)
     IN  rd' = [rd EXCEPT ![r].pc = "read",
                  ![r].next = IF cacheHit(recs, x.pos, x.tail) THEN x.tail ELSE next,
                  ![r].body = IF cacheHit(recs, x.pos, x.tail)
                                THEN cachePayloads(recs, x.pos, x.tail)
                                ELSE [i \in 1..(next - x.pos) |-> x.pos + i - 1]]
  /\ UNCHANGED <<log, fin, deleted, cur, gen, Streamers, pub, got, skipped>>

\* Where a delivery leaves the reader: an SSE response goes on, a long-poll client
\* asks again, a cursor's next Next call starts on the same streamer.
AfterDelivery(r, eof) ==
  IF Kind[r] = "sse" THEN (IF eof THEN "eof" ELSE "loop")
  ELSE IF Kind[r] = "poll" THEN "out"
  ELSE "attached"

Park(r) == rd' = [rd EXCEPT ![r] = At("park", @.g, @.pos, @.woken)]

\* The stopped check, then delivery, end of stream, or parking.
Serve(r) ==
  /\ rd[r].pc = "read"
  /\ LET x == rd[r] IN
       \/ stop[x.g] /\ Goto(r, "gone") /\ UNCHANGED got
       \/ /\ ~stop[x.g] /\ x.next # x.pos
          /\ got' = [got EXCEPT ![r] = @ \o x.body]
          /\ LET pc == AfterDelivery(r, x.closed /\ x.next = x.tail)
             IN rd' = [rd EXCEPT ![r] = At(pc, IF pc = "out" THEN 0 ELSE x.g, x.next, FALSE)]
       \/ ~stop[x.g] /\ x.next = x.pos /\ x.closed /\ Goto(r, "eof") /\ UNCHANGED got
       \/ ~stop[x.g] /\ x.next = x.pos /\ ~x.closed /\ Park(r) /\ UNCHANGED got
  /\ UNCHANGED <<log, fin, deleted, cur, gen, Streamers, pub, skipped>>

\* select: the loaded channel was closed by a broadcast, or the stream stopped.
Wakeup(r) ==
  /\ rd[r].pc = "park"
  /\ \/ rd[r].woken /\ Goto(r, "loop")
     \/ stop[rd[r].g] /\ Goto(r, "gone")
  /\ UNCHANGED <<log, fin, deleted, cur, gen, Streamers, pub, got, skipped>>

\* select: the long-poll timer.  The 204 carries the tail as it is now, and Up-To-Date;
\* the client asks again from there.
Timeout(r) ==
  /\ rd[r].pc = "park"
  /\ Kind[r] = "poll"
  /\ LET now == tail[rd[r].g] IN
       /\ rd' = [rd EXCEPT ![r] = NewReader(now)]
       /\ skipped' = [skipped EXCEPT ![r] = @ \cup rd[r].pos..(now - 1)]
  /\ UNCHANGED <<log, fin, deleted, cur, gen, Streamers, pub, got>>

\* select: the SSE timer, or the client went away; it reconnects at its offset.
Leave(r) ==
  /\ rd[r].pc = "park"
  /\ Kind[r] # "cursor"
  /\ rd' = [rd EXCEPT ![r] = NewReader(rd[r].pos)]
  /\ UNCHANGED <<log, fin, deleted, cur, gen, Streamers, pub, got, skipped>>

ReaderStep(r) ==
  \/ Attach(r) \/ Count(r) \/ LoadChan(r) \/ LoadTail(r) \/ LoadClosed(r)
  \/ Read(r) \/ Serve(r) \/ Wakeup(r)
Publish == PublishCache \/ PublishTail \/ PublishClosed \/ PublishWake

Next ==
  \/ Spawn
  \/ \E n \in 0..2, close \in BOOLEAN : Burst(n, close)
  \/ Publish
  \/ \E g \in Gens : WakerFires(g)
  \/ Retire
  \/ Delete
  \/ \E r \in Readers : ReaderStep(r) \/ Timeout(r) \/ Leave(r)

Spec == Init /\ [][Next]_vars

-----------------------------------------------------------------------------
\* The shapes of the per-generation atomics and of the readers' local state.
TypeOK ==
  /\ log \in 0..MaxLog /\ fin \in BOOLEAN /\ deleted \in BOOLEAN
  /\ cur \in 0..MaxGen /\ gen \in 0..MaxGen
  /\ tail \in [Gens -> 0..MaxLog] /\ closed \in [Gens -> BOOLEAN]
  /\ trailing \in [Gens -> BOOLEAN] /\ stop \in [Gens -> BOOLEAN]
  /\ cache \in [Gens -> Seq([seq : 0..MaxLog, payload : 0..MaxLog])]
  /\ pub \in [pc : {"idle", "cache", "tail", "closed", "check"}, g : 0..MaxGen,
              base : 0..MaxLog, n : 0..2, close : BOOLEAN, seg : Seq(0..MaxLog)]
  /\ rd \in [Readers -> [pc : Counted \cup {"out", "attached", "eof", "gone"},
               g : 0..MaxGen, pos : 0..MaxLog, woken : BOOLEAN, tail : 0..MaxLog,
               closed : BOOLEAN, next : 0..MaxLog, body : Seq(0..MaxLog)]]
  /\ got \in [Readers -> Seq(0..MaxLog)]
  /\ skipped \in [Readers -> SUBSET (0..MaxLog)]

\* Every reader is handed the records of the log below its position in order, each
\* once and never past what is published, whether they came from the cache or the
\* store and across reconnects and respawns.  The only records a client misses are
\* those a long-poll 204 told it to resume behind: published between its last look and
\* the timer (livewaker.go: "never drops or reorders data").
InOrderDelivery ==
  \A r \in Readers :
    /\ \A i \in 1..Len(got[r]) : \A j \in 1..(i - 1) : got[r][j] < got[r][i]
    /\ {got[r][i] : i \in 1..Len(got[r])} = (0..(rd[r].pos - 1)) \ skipped[r]
    /\ rd[r].pos <= log
    /\ Kind[r] # "poll" => skipped[r] = {}

\* No 204 makes a client skip a record (cmd/maelstrom-adapter: "204: caught up
\* (long-poll timed out with no new data)").  It does not hold: write204Timeout
\* announces a tail loaded after the reader's last look at the stream.
NothingSkipped == \A r \in Readers : skipped[r] = {}

\* No lost wakeup: a reader parked behind the published tail of its streamer will be
\* woken, because its channel is already closed, a wake is deferred, the publisher
\* is about to wake, or the streamer was stopped (streamer.go applyReader: "it never
\* misses data").
NoLostWakeup ==
  \A r \in Readers :
    LET x == rd[r] IN
    (x.pc = "park" /\ (x.pos < tail[x.g] \/ closed[x.g])) =>
       \/ x.woken
       \/ trailing[x.g]
       \/ pub.g = x.g /\ pub.pc \in {"closed", "check"}
       \/ stop[x.g]

\* Whoever is told the stream is closed has every record of it (public.go:
\* "ErrStreamClosed once the cursor has delivered every record up to a closed
\* stream's tail (there will never be more)").
EofMeansComplete == \A r \in Readers : rd[r].pc = "eof" => rd[r].pos = log
=============================================================================
