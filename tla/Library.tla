------------------------------ MODULE Library -------------------------------
(***************************************************************************)
(* A stream used end to end through the embedding API: an idempotent       *)
(* producer (ProducerSession) whose accepted appends form the log, and a   *)
(* reader of that log, either Stream.Chunks with its consumer              *)
(* (yasdb/channel.go) or Materialize followed by TailState                 *)
(* (internal/ds/public.go), with responses capped by ReadRange.            *)
(*                                                                         *)
(* What a client sends under a header is always the same body, BodyOf.     *)
(* A live read loads its streamer's tail in one step, and looks at the     *)
(* closure flag and reads below that tail in a later one.  Between two     *)
(* Next calls a cursor is counted nowhere, so its streamer may retire; the *)
(* cursor then keeps the retired object, whose tail no longer moves.       *)
(***************************************************************************)
EXTENDS ProducerSession, Materializer, ReadRange

CONSTANTS
  BodyOf(_, _),   \* content type and header -> [size, msg, decodes] of its record
  Readers,        \* the readers tried: "chunks" and "state"
  MaxReadBytes,   \* Config.MaxReadBytes
  ChunksBuffer    \* chunksBufferSize

\* An uncancelled context and a missing error are both nil in the code.
ASSUME LibraryAssumption ==
  /\ Readers \subseteq {"chunks", "state"}
  /\ MaxReadBytes \in Nat \ {0}
  /\ ChunksBuffer \in Nat \ {0}

VARIABLES
  log,      \* the stream's records
  closed,   \* the stream is closed
  exists,   \* the path resolves to the stream (FALSE once deleted)
  ctxDone,  \* the reader's context has ended
  reader,   \* which of Readers runs
  json,     \* the stream is application/json
  pc,       \* the reader: "open", "catchup", "attach", "tail" (between two live
            \* reads), "loaded", "parked", "done"
  pos,      \* its position
  seen,     \* the tail its live read loaded, 0 outside of one
  retired,  \* the tail and closure of the streamer it holds, if that one retired
  out,      \* the Chunks channel
  err,      \* the result's error
  got,      \* bytes the consumer received so far
  last,     \* Chunk.Next of the last one, the offset to resume from
  view,     \* the Materializer
  buf       \* StateCursor.buf

readerVars == <<pc, pos, seen, retired, out, err, got, last, view, buf>>
settings == <<reader, json>>
lvars == <<session, log, closed, exists, ctxDone, settings, readerVars>>

size == [i \in 1..Len(log) |-> log[i].size]
msgs == [i \in 1..Len(log) |-> log[i].msg]

LInit ==
  /\ SessionInit
  /\ log = << >> /\ closed = FALSE /\ exists = TRUE /\ ctxDone = FALSE
  /\ reader \in Readers
  /\ json \in (IF reader = "state" THEN {TRUE} ELSE BOOLEAN)
  /\ pc = "open" /\ pos = Offset(0, 0) /\ seen = 0 /\ retired = None
  /\ out = << >> /\ err = None
  /\ got = << >> /\ last = Offset(0, 0)
  /\ view = NewMaterializer /\ buf = << >>

-----------------------------------------------------------------------------
(* The stream. *)

Write(h) ==
  /\ exists /\ ~closed
  /\ Present(h)
  /\ log' = Append(log, BodyOf(json, h))
  /\ UNCHANGED <<closed, exists, ctxDone, settings, readerVars>>

WriteRefused(h) ==
  /\ exists /\ ~closed
  /\ Refuse(h)
  /\ UNCHANGED <<log, closed, exists, ctxDone, settings, readerVars>>

CloseStream ==
  /\ exists /\ ~closed
  /\ closed' = TRUE
  /\ UNCHANGED <<session, log, exists, ctxDone, settings, readerVars>>

DeleteStream ==
  /\ exists
  /\ exists' = FALSE
  /\ UNCHANGED <<session, log, closed, ctxDone, settings, readerVars>>

Cancel ==
  /\ ~ctxDone
  /\ ctxDone' = TRUE
  /\ UNCHANGED <<session, log, closed, exists, settings, readerVars>>

streamUnchanged == UNCHANGED <<session, log, closed, exists, ctxDone, settings>>

-----------------------------------------------------------------------------
(* Both readers: open a cursor, then turn live. *)

Fail(e) ==
  /\ pc' = "done"
  /\ err' = IF err = None THEN e ELSE err

\* Server.Read and Server.Tail answer ErrNotFound (or ErrGone) for a deleted path;
\* Stream.Read, Tail and TailState look at the context first, Materialize does not.
Resolve(from, to) ==
  /\ pc = from
  /\ IF ctxDone /\ ~(reader = "state" /\ from = "open") THEN Fail("ctx")
     ELSE IF ~exists THEN Fail("notFound")
     ELSE pc' = to /\ err' = err
  /\ UNCHANGED <<pos, seen, retired, out, got, last, view, buf>>
  /\ streamUnchanged

Open == Resolve("open", "catchup")
Attach == Resolve("attach", "tail")

\* liveState: a deleted stream has tail 0.
liveTail == IF exists THEN Len(log) ELSE 0

\* The streamer a live cursor holds: deletion stops it only while it is registered.
tail == IF retired = None THEN Len(log) ELSE retired.tail
ended == IF retired = None THEN closed ELSE retired.closed
stopped == retired = None /\ ~exists

page == readRange(json, size, pos, IF pc = "loaded" THEN seen ELSE liveTail, MaxReadBytes)
AfterCatchUp == IF page.upToDate THEN "attach" ELSE "catchup"

\* tryRetire: a cursor between two Next calls is not counted as a reader.
Retire ==
  /\ pc = "tail" /\ retired = None /\ exists
  /\ retired' = [tail |-> Len(log), closed |-> closed]
  /\ UNCHANGED <<pc, pos, seen, out, err, got, last, view, buf>>
  /\ streamUnchanged

\* LiveCursor.Next loads the tail, at its start or when a wake sends it round again, ...
LoadTail ==
  /\ \/ pc = "tail" /\ buf = << >>
     \/ pc = "parked" /\ (tail # seen \/ ended)
  /\ pc' = "loaded" /\ seen' = tail
  /\ UNCHANGED <<pos, retired, out, err, got, last, view, buf>>
  /\ streamUnchanged

liveEnd_closedFirst == IF stopped THEN "notFound"
                       ELSE IF ended THEN "streamClosed" ELSE None
\* ... then has data, or is told why there will be none, ...
liveEnd == IF stopped THEN "notFound"
           ELSE IF page.next # pos THEN None
           ELSE IF ended THEN "streamClosed" ELSE None

\* ... or parks, until the stream is deleted or the context ends.
Park ==
  /\ pc = "loaded" /\ liveEnd = None /\ page.next = pos
  /\ pc' = "parked"
  /\ UNCHANGED <<pos, seen, retired, out, err, got, last, view, buf>>
  /\ streamUnchanged

Unpark ==
  /\ pc = "parked"
  /\ \/ stopped /\ Fail("notFound")
     \/ ctxDone /\ Fail("ctx")
  /\ UNCHANGED <<pos, seen, retired, out, got, last, view, buf>>
  /\ streamUnchanged

-----------------------------------------------------------------------------
(* Chunks and its consumer. *)

\* sendChunk never blocks: a full channel ends the reader.
sendChunk(to) ==
  IF Len(out) < ChunksBuffer
    THEN /\ out' = Append(out, [body |-> page.body, next |-> page.next])
         /\ pc' = to /\ err' = err
    ELSE Fail("overrun") /\ out' = out

CatchUpChunk ==
  /\ reader = "chunks" /\ pc = "catchup"
  /\ IF ctxDone THEN Fail("ctx") /\ UNCHANGED <<pos, out>>
     ELSE /\ pos' = page.next
          /\ IF page.next # pos THEN sendChunk(AfterCatchUp)
             ELSE pc' = AfterCatchUp /\ UNCHANGED <<out, err>>
  /\ UNCHANGED <<seen, retired, got, last, view, buf>>
  /\ streamUnchanged

TailChunk ==
  /\ reader = "chunks" /\ pc = "loaded"
  /\ \/ liveEnd # None /\ Fail(liveEnd) /\ UNCHANGED <<pos, seen, out>>
     \/ liveEnd = None /\ page.next # pos /\ pos' = page.next /\ seen' = 0 /\ sendChunk("tail")
  /\ UNCHANGED <<retired, got, last, view, buf>>
  /\ streamUnchanged

Receive ==
  /\ out # << >>
  /\ got' = got \o Head(out).body
  /\ last' = Head(out).next
  /\ out' = Tail(out)
  /\ UNCHANGED <<pc, pos, seen, retired, err, view, buf>>
  /\ streamUnchanged

\* The documented use: Chunks again, from the last chunk received.
Resume ==
  /\ pc = "done" /\ err = "overrun" /\ out = << >>
  /\ pc' = "open" /\ err' = None /\ pos' = last /\ seen' = 0 /\ retired' = None
  /\ UNCHANGED <<out, got, last, view, buf>>
  /\ streamUnchanged

-----------------------------------------------------------------------------
(* Materialize, then TailState. *)

\* decodeStateMessages: one undecodable message fails its whole page.
pageMsgs == SubSeq(msgs, pos.seq + 1, page.next.seq)
decodes == \A i \in (pos.seq + 1)..page.next.seq : log[i].decodes

Replay ==
  /\ reader = "state" /\ pc = "catchup"
  /\ IF ctxDone THEN Fail("ctx") /\ UNCHANGED <<pos, last, view>>
     ELSE IF ~decodes THEN Fail("notState") /\ UNCHANGED <<pos, last, view>>
     ELSE /\ pos' = page.next
          /\ view' = ApplyAll(view, pageMsgs)
          /\ last' = page.next
          /\ pc' = AfterCatchUp /\ err' = err
  /\ UNCHANGED <<seen, retired, out, got, buf>>
  /\ streamUnchanged

\* StateCursor.Next refills an empty buffer from the LiveCursor ...
Refill ==
  /\ reader = "state" /\ pc = "loaded"
  /\ \/ liveEnd # None /\ Fail(liveEnd) /\ UNCHANGED <<pos, seen, buf>>
     \/ /\ liveEnd = None /\ page.next # pos
        /\ pos' = page.next /\ seen' = 0
        /\ IF decodes THEN buf' = pageMsgs /\ pc' = "tail" /\ err' = err
                      ELSE Fail("notState") /\ buf' = buf
  /\ UNCHANGED <<retired, out, got, last, view>>
  /\ streamUnchanged

\* ... and hands out one message, which the application applies.
NextMessage ==
  /\ pc = "tail" /\ buf # << >>
  /\ view' = Apply(view, Head(buf))
  /\ last' = Offset(last.seq + 1, 0)
  /\ buf' = Tail(buf)
  /\ UNCHANGED <<pc, pos, seen, retired, out, err, got>>
  /\ streamUnchanged

-----------------------------------------------------------------------------
ReaderStep ==
  \/ Open \/ Attach \/ CatchUpChunk \/ LoadTail \/ Park \/ Unpark
  \/ TailChunk \/ Replay \/ Refill
ConsumerStep == Receive \/ Resume \/ NextMessage

LNext ==
  \/ \E h \in Headers : Write(h) \/ WriteRefused(h)
  \/ CloseStream \/ DeleteStream \/ Cancel \/ Retire
  \/ ReaderStep \/ ConsumerStep

\* The reader's goroutine runs, and its consumer keeps ranging over the channel.
LSpec == LInit /\ [][LNext]_lvars /\ WF_lvars(ReaderStep) /\ WF_lvars(ConsumerStep)

-----------------------------------------------------------------------------
BytesUpTo(o) ==
  Whole(size, 0, o.seq) \o (IF o.byte = 0 THEN << >> ELSE Bytes(o.seq, 0, o.byte))

\* Across pages, records cut at the byte limit, the switch from catch-up to
\* live and any number of overruns and resumptions, the consumer has received
\* exactly the log's bytes up to its resume offset: none lost, repeated or out
\* of order (channel.go:89-147, read.go:96-192).
NothingLostInChunks == reader = "chunks" => got = BytesUpTo(last)

\* The error is set when the channel closes, and "closed" is only reported when every
\* record below the tail the cursor last loaded is buffered or received, and no byte
\* before it is missing (channel.go:43-48).  Records published between that load and
\* the load of the closure flag are not covered, see FullyDrained.
EndIsHonest ==
  /\ pc = "done" => err # None
  /\ err = "streamClosed" =>
       /\ closed /\ pos = Offset(seen, 0)
       /\ reader = "chunks" => got \o FlattenSeq([i \in 1..Len(out) |-> out[i].body]) = BytesUpTo(pos)

\* "ErrStreamClosed (the stream closed and was fully drained)" (channel.go:45-46).  It
\* does not hold: a write and a close may both land between the two loads.
FullyDrained == err = "streamClosed" => pos = Offset(Len(log), 0)

\* Materialize and the messages of TailState together give every entity what
\* its last valid change since the last reset left, whatever the page limit,
\* each accepted append counting once (materializer.go:30-72, public.go:338-399).
MaterializedIsMeaning ==
  reader = "state" => Means(view, SubSeq(msgs, 1, last.seq))

\* "The result is byte-for-byte identical to readRange": a cached read up to the tail
\* that was loaded, or to the current one, that does not miss returns the page the store
\* would (livecache.go:102-160).
CacheAgrees ==
  \A lo \in 0..pos.seq, n \in 1..(MaxReadBytes + 1), end \in {seen, Len(log)} :
    LET c == tryRead(size, lo, Len(log), pos, end, n)
    IN c.ok => c.page = readRange(json, size, pos, end, n)

\* A consumer that keeps reading, and resumes after an overrun, ends with the
\* whole log, or with a reason why not, or, if its cursor's streamer retired between two
\* Next calls, with what was in the log then (channel.go:30-58, public.go:284-328).
EverythingArrives ==
  <>[](\/ last = Offset(Len(log), 0)
       \/ pc = "done" /\ err # "overrun"
       \/ retired # None /\ last = Offset(retired.tail, 0))

\* "a write to this stream always wakes it" (public.go:288-289).  It does not hold for a
\* cursor whose streamer retired.
AlwaysWoken == <>[](last = Offset(Len(log), 0) \/ (pc = "done" /\ err # "overrun"))
=============================================================================
