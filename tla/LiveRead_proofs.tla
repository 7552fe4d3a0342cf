-------------------------- MODULE LiveRead_proofs ---------------------------
(***************************************************************************)
(* Live readers get every record in order and are never left parked behind *)
(* the published tail: for any number of readers of any kind, any bound on *)
(* the cache and on a read, and any number of bursts, respawns and wakes.  *)
(***************************************************************************)
EXTENDS LiveRead, FiniteSetTheorems, TLAPS

\* The records of the cache, of the publisher and of a reader.
Cached == [seq : 0..MaxLog, payload : 0..MaxLog]
Publication == [pc : {"idle", "cache", "tail", "closed", "check"}, g : 0..MaxGen,
                base : 0..MaxLog, n : 0..2, close : BOOLEAN, seg : Seq(0..MaxLog)]
Reading == [pc : Counted \cup {"out", "attached", "eof", "gone"},
            g : 0..MaxGen, pos : 0..MaxLog, woken : BOOLEAN, tail : 0..MaxLog,
            closed : BOOLEAN, next : 0..MaxLog, body : Seq(0..MaxLog)]

\* Nobody refers to a streamer that was not spawned or to a record not in the store.
Spawned ==
  /\ cur \in 0..gen
  /\ \A g \in Gens : tail[g] <= log
  /\ pub.pc # "idle" =>
       /\ pub.g \in 1..gen /\ pub.base + pub.n = log
       /\ pub.seg = << >> \/ pub.seg = [i \in 1..pub.n |-> pub.base + i - 1]

\* A cache window is a run of consecutive records of the log, with their payloads.
Window(recs) ==
  \A i \in 1..Len(recs) : /\ recs[i].payload = recs[i].seq
                          /\ recs[i].seq = recs[1].seq + i - 1
                          /\ recs[i].seq < log
Windows == \A g \in Gens : Window(cache[g])

\* A reader in state x will see the channel it holds closed.
Wakes(x) ==
  \/ x.woken
  \/ trailing[x.g]
  \/ pub.g = x.g /\ pub.pc \in {"closed", "check"}
  \/ stop[x.g]

\* What a reader has loaded is behind its streamer only if a wake is on its way.
Current(x) ==
  /\ x.pc \in {"tail", "closed", "read"} => x.tail <= log /\ (x.tail < tail[x.g] => Wakes(x))
  /\ x.pc \in {"closed", "read"} => (closed[x.g] /\ ~x.closed => Wakes(x))
  /\ x.pc = "park" => (x.pos < tail[x.g] \/ closed[x.g] => Wakes(x))

\* What a reader is about to deliver is the log from its position on.
Honest(x) ==
  /\ x.pos <= log
  /\ x.pc \in Counted \cup {"attached"} => x.g \in 1..gen
  /\ x.pc = "read" => /\ x.pos <= x.next /\ x.next <= log
                      /\ x.next = x.pos => x.tail <= x.pos
                      /\ x.body = [i \in 1..(x.next - x.pos) |-> x.pos + i - 1]

\* The readers.
Reads == \A r \in Readers : Honest(rd[r]) /\ Current(rd[r])

\* The inductive invariant of the wakes and of what is read.
IInv == TypeOK /\ Spawned /\ Windows /\ Reads

-----------------------------------------------------------------------------
(* Records and counts. *)

\* The pc values of a reader.
Pcs == Counted \cup {"out", "attached", "eof", "gone"}

\* A reader, field by field.
State(pc, g, pos, woken, t, c, next, body) ==
  [pc |-> pc, g |-> g, pos |-> pos, woken |-> woken, tail |-> t, closed |-> c,
   next |-> next, body |-> body]

\* Numbers.
LEMMA LeqLess == \A a, b, c \in Nat : a <= b /\ b < c => a < c
OBVIOUS

\* The fields of a reader.
LEMMA ReadingFields ==
  ASSUME NEW x \in Reading
  PROVE /\ x.pc \in Pcs /\ x.g \in 0..MaxGen /\ x.pos \in 0..MaxLog /\ x.woken \in BOOLEAN
        /\ x.tail \in 0..MaxLog /\ x.closed \in BOOLEAN /\ x.next \in 0..MaxLog
        /\ x.body \in Seq(0..MaxLog)
        /\ x = State(x.pc, x.g, x.pos, x.woken, x.tail, x.closed, x.next, x.body)
BY DEF Reading, Pcs, State

\* A reader from its fields.
LEMMA ReadingOf ==
  ASSUME NEW pc \in Pcs, NEW g \in 0..MaxGen, NEW pos \in 0..MaxLog, NEW w \in BOOLEAN,
         NEW t \in 0..MaxLog, NEW c \in BOOLEAN, NEW n \in 0..MaxLog, NEW b \in Seq(0..MaxLog)
  PROVE State(pc, g, pos, w, t, c, n, b) \in Reading
BY DEF Reading, Pcs, State

\* A reader that has loaded nothing is a reader.
LEMMA AtReading ==
  ASSUME NEW pc \in Pcs, NEW g \in 0..MaxGen, NEW pos \in 0..MaxLog, NEW w \in BOOLEAN
  PROVE At(pc, g, pos, w) \in Reading
<1>1. 0 \in 0..MaxLog /\ << >> \in Seq(0..MaxLog)
  BY LiveReadAssumption
<1> QED BY <1>1, ReadingOf, Zenon DEF At, State

\* A publication from its fields.
LEMMA PublicationOf ==
  ASSUME NEW pc \in {"idle", "cache", "tail", "closed", "check"}, NEW g \in 0..MaxGen,
         NEW b \in 0..MaxLog, NEW n \in 0..2, NEW c \in BOOLEAN, NEW s \in Seq(0..MaxLog)
  PROVE [pc |-> pc, g |-> g, base |-> b, n |-> n, close |-> c, seg |-> s] \in Publication
BY DEF Publication

\* The fields of a publication.
LEMMA PublicationFields ==
  ASSUME NEW p \in Publication
  PROVE /\ p.pc \in {"idle", "cache", "tail", "closed", "check"} /\ p.g \in 0..MaxGen
        /\ p.base \in 0..MaxLog /\ p.n \in 0..2 /\ p.close \in BOOLEAN /\ p.seg \in Seq(0..MaxLog)
        /\ p = [pc |-> p.pc, g |-> p.g, base |-> p.base, n |-> p.n, close |-> p.close,
                seg |-> p.seg]
BY DEF Publication

\* The types, by name.
LEMMA Shapes ==
  TypeOK <=>
    /\ log \in 0..MaxLog /\ fin \in BOOLEAN /\ deleted \in BOOLEAN
    /\ cur \in 0..MaxGen /\ gen \in 0..MaxGen
    /\ tail \in [Gens -> 0..MaxLog] /\ closed \in [Gens -> BOOLEAN]
    /\ trailing \in [Gens -> BOOLEAN] /\ stop \in [Gens -> BOOLEAN]
    /\ cache \in [Gens -> Seq(Cached)]
    /\ pub \in Publication
    /\ rd \in [Readers -> Reading]
    /\ got \in [Readers -> Seq(0..MaxLog)]
    /\ skipped \in [Readers -> SUBSET (0..MaxLog)]
BY Zenon DEF TypeOK, Cached, Publication, Reading

\* A counted reader keeps its streamer's count above zero.
LEMMA SomebodyCounted ==
  ASSUME NEW r \in Readers, rd[r].pc \in Counted
  PROVE totalReaders(rd[r].g) # 0
<1> DEFINE S == {q \in Readers : rd[q].g = rd[r].g /\ rd[q].pc \in Counted}
<1>1. IsFiniteSet(S)
  BY FS_Subset, LiveReadAssumption
<1>2. r \in S
  OBVIOUS
<1>3. Cardinality(S) # 0
  BY <1>1, <1>2, FS_EmptySet
<1> QED BY <1>3 DEF totalReaders

-----------------------------------------------------------------------------
(* What the readers rely on. *)

\* A reader with a streamer refers to one that exists.
LEMMA OfStreamer ==
  ASSUME IInv, NEW r \in Readers, rd[r].pc \in Counted
  PROVE rd[r].g \in 1..gen /\ rd[r].g \in Gens
<1>1. rd[r].g \in 1..gen /\ gen \in 0..MaxGen
  BY Zenon DEF IInv, Reads, Honest, TypeOK
<1> QED BY <1>1, LiveReadAssumption DEF Gens

\* Steps of the streamers that move no reader: who is behind afterwards was behind
\* before, or is to be woken.
LEMMA ReadersRest ==
  ASSUME IInv, rd' = rd, log' \in Nat, gen' \in Nat, log <= log', gen <= gen',
         \A r \in Readers : rd[r].pc \in Counted =>
           \/ Wakes(rd[r])'
           \/ /\ tail'[rd[r].g] = tail[rd[r].g] /\ closed'[rd[r].g] = closed[rd[r].g]
              /\ Wakes(rd[r]) => Wakes(rd[r])'
  PROVE Reads'
<1> SUFFICES ASSUME NEW r \in Readers PROVE Honest(rd[r])' /\ Current(rd[r])'
  BY DEF IInv, Reads
<1>1. Honest(rd[r]) /\ Current(rd[r]) /\ rd[r] \in Reading /\ log \in Nat /\ gen \in Nat
  BY DEF IInv, Reads, TypeOK, Reading
<1>2. rd[r].pos \in Nat /\ rd[r].next \in Nat /\ rd[r].tail \in Nat
  BY <1>1, ReadingFields
<1>3. \A k \in Nat : k <= log => k <= log'
  BY <1>1
<1>4. \A k \in 1..gen : k \in 1..gen'
  BY <1>1
<1> HIDE DEF IInv
<1>5. Honest(rd[r])'
  BY <1>1, <1>2, <1>3, <1>4, Zenon DEF Honest
<1>6. CASE rd[r].pc \notin Counted
  BY <1>5, <1>6 DEF Current, Counted
<1>7. CASE rd[r].pc \in Counted /\ Wakes(rd[r])'
  BY <1>1, <1>2, <1>3, <1>5, <1>7, Zenon DEF Current
<1>8. CASE /\ tail'[rd[r].g] = tail[rd[r].g] /\ closed'[rd[r].g] = closed[rd[r].g]
           /\ Wakes(rd[r]) => Wakes(rd[r])'
  BY <1>1, <1>2, <1>3, <1>5, <1>8, Zenon DEF Current
<1> QED BY <1>5, <1>6, <1>7, <1>8, Zenon

\* broadcast(g): everybody who holds a channel of g is woken.
LEMMA BroadcastStep ==
  ASSUME IInv, NEW g \in Gens, broadcast(g),
         UNCHANGED <<log, gen, tail, closed, stop>>,
         \A h \in Gens : h # g => trailing'[h] = trailing[h],
         pub' = pub \/ pub.g = g
  PROVE Reads' /\ rd' \in [Readers -> Reading]
<1> DEFINE w(r) == rd[r].woken \/ (rd[r].g = g /\ rd[r].pc \in Counted \ {"loop"})
<1>1. \A r \in Readers : rd[r] \in Reading /\ w(r) \in BOOLEAN
  BY Shapes DEF IInv
<1>2. \A r \in Readers : rd'[r] = State(rd[r].pc, rd[r].g, rd[r].pos, w(r), rd[r].tail,
                                        rd[r].closed, rd[r].next, rd[r].body)
  <2> TAKE r \in Readers
  <2>1. rd[r] = State(rd[r].pc, rd[r].g, rd[r].pos, rd[r].woken, rd[r].tail,
                      rd[r].closed, rd[r].next, rd[r].body)
    BY <1>1, ReadingFields, Zenon
  <2>2. rd'[r] = [rd[r] EXCEPT !.woken = w(r)]
    BY DEF broadcast
  <2> HIDE DEF w
  <2> QED BY <2>1, <2>2 DEF State
<1>3. rd' = [r \in Readers |-> rd'[r]]
  BY DEF broadcast
<1>4. \A r \in Readers : rd'[r] \in Reading
  <2> TAKE r \in Readers
  <2> HIDE DEF w
  <2>1. rd[r] \in Reading /\ w(r) \in BOOLEAN
    BY <1>1
  <2>2. State(rd[r].pc, rd[r].g, rd[r].pos, w(r), rd[r].tail, rd[r].closed, rd[r].next,
              rd[r].body) \in Reading
    BY <2>1, ReadingFields, ReadingOf, Zenon
  <2> QED BY <1>2, <2>2, Zenon
<1>5. rd' \in [Readers -> Reading]
  BY <1>3, <1>4
<1>6. ASSUME NEW r \in Readers PROVE (Honest(rd[r]) /\ Current(rd[r]))'
  <2>1. /\ rd'[r].pc = rd[r].pc /\ rd'[r].g = rd[r].g /\ rd'[r].pos = rd[r].pos
        /\ rd'[r].woken = w(r) /\ rd'[r].tail = rd[r].tail /\ rd'[r].closed = rd[r].closed
        /\ rd'[r].next = rd[r].next /\ rd'[r].body = rd[r].body
    <3> HIDE DEF w
    <3>1. rd'[r] = State(rd[r].pc, rd[r].g, rd[r].pos, w(r), rd[r].tail, rd[r].closed,
                         rd[r].next, rd[r].body)
      BY <1>2
    <3> QED BY <3>1 DEF State
  <2>2. Honest(rd[r]) /\ Current(rd[r])
    BY DEF IInv, Reads
  <2>3. Honest(rd[r])'
    BY <2>1, <2>2, Zenon DEF Honest
  <2>4. CASE rd[r].pc \notin Counted \ {"loop"}
    BY <2>1, <2>2, <2>3, <2>4 DEF Current, Counted
  <2>5. CASE rd[r].pc \in Counted \ {"loop"} /\ rd[r].g = g
    <3>1. Wakes(rd[r])'
      BY <2>1, <2>5, Zenon DEF Wakes
    <3> QED BY <2>1, <2>2, <2>3, <3>1, Zenon DEF Current
  <2>6. CASE rd[r].pc \in Counted \ {"loop"} /\ rd[r].g # g
    <3>1. rd[r].g \in Gens
      BY <2>6, OfStreamer
    <3>2. Wakes(rd[r]) => Wakes(rd[r])'
      BY <2>1, <2>6, <3>1, Zenon DEF Wakes
    <3> QED BY <2>1, <2>2, <2>3, <3>2, Zenon DEF Current
  <2> QED BY <2>4, <2>5, <2>6, Zenon
<1> QED BY <1>5, <1>6, Zenon DEF Reads

\* One reader moves, perhaps with a delivery, and nothing else does.
LEMMA ReaderGets ==
  ASSUME IInv, NEW r \in Readers, NEW x \in Reading, rd' = [rd EXCEPT ![r] = x],
         got' \in [Readers -> Seq(0..MaxLog)], skipped' \in [Readers -> SUBSET (0..MaxLog)],
         Honest(x), Current(x),
         UNCHANGED <<log, fin, deleted, cur, gen, Streamers, pub>>
  PROVE IInv'
<1>1. /\ log' = log /\ fin' = fin /\ deleted' = deleted /\ cur' = cur /\ gen' = gen
      /\ tail' = tail /\ closed' = closed /\ cache' = cache /\ trailing' = trailing
      /\ stop' = stop /\ pub' = pub
  BY DEF Streamers
<1>2. rd \in [Readers -> Reading]
  BY Shapes DEF IInv
<1>3. /\ rd' \in [Readers -> Reading] /\ rd'[r] = x
      /\ \A q \in Readers : q # r => rd'[q] = rd[q]
  BY <1>2
<1>4. TypeOK'
  BY <1>1, <1>3, Zenon DEF IInv, TypeOK, Reading
<1>5. Spawned' /\ Windows'
  BY <1>1 DEF IInv, Spawned, Windows, Window
<1>6. \A q \in Readers : Honest(rd'[q]) /\ Current(rd'[q])
  BY <1>3, Zenon DEF IInv, Reads
<1>7. Reads'
  BY <1>1, <1>6 DEF Reads, Honest, Current, Wakes
<1> QED BY <1>4, <1>5, <1>7 DEF IInv

\* One reader moves without a delivery.
LEMMA ReaderMoves ==
  ASSUME IInv, NEW r \in Readers, NEW x \in Reading, rd' = [rd EXCEPT ![r] = x],
         Honest(x), Current(x),
         UNCHANGED <<log, fin, deleted, cur, gen, Streamers, pub, got, skipped>>
  PROVE IInv'
<1>1. got' \in [Readers -> Seq(0..MaxLog)] /\ skipped' \in [Readers -> SUBSET (0..MaxLog)]
  BY ZenonT(30) DEF IInv, TypeOK
<1> QED BY <1>1, ReaderGets, Zenon

-----------------------------------------------------------------------------
(* The reader's steps. *)

\* A reader that starts over at its position holds no channel.
LEMMA GotoStep ==
  ASSUME IInv, NEW r \in Readers, NEW pc \in {"loop", "eof", "gone"},
         pc = "loop" => rd[r].g \in 1..gen, Goto(r, pc),
         UNCHANGED <<log, fin, deleted, cur, gen, Streamers, pub, got, skipped>>
  PROVE IInv'
<1> DEFINE x == At(pc, rd[r].g, rd[r].pos, FALSE)
<1>1. rd[r] \in Reading
  BY Shapes DEF IInv
<1>2. rd[r].g \in 0..MaxGen /\ rd[r].pos \in 0..MaxLog
  BY <1>1, ReadingFields
<1>3. pc \in Pcs
  BY DEF Pcs, Counted
<1>4. x \in Reading
  BY <1>2, <1>3, AtReading, Zenon
<1>5. rd' = [rd EXCEPT ![r] = x]
  BY Zenon DEF Goto
<1>6. x.pos = rd[r].pos /\ x.pc = pc /\ x.g = rd[r].g
  BY DEF At
<1>7. Honest(rd[r])
  BY Zenon DEF IInv, Reads
<1> HIDE DEF x
<1>8. Honest(x) /\ Current(x)
  BY <1>6, <1>7 DEF Honest, Current, Counted
<1> QED BY <1>4, <1>5, <1>6, <1>8, ReaderMoves, Zenon

\* Attach: the reader resolves the resident streamer.
LEMMA AttachStep ==
  ASSUME IInv, NEW r \in Readers, Attach(r)
  PROVE IInv'
<1>1. CASE deleted /\ Goto(r, "gone")
  BY <1>1, GotoStep DEF Attach
<1>2. CASE cur # 0 /\ rd' = [rd EXCEPT ![r].pc = "attached", ![r].g = cur]
  <2> DEFINE y == rd[r]
             x == State("attached", cur, y.pos, y.woken, y.tail, y.closed, y.next, y.body)
  <2>1. y \in Reading /\ cur \in 0..MaxGen /\ cur \in 0..gen /\ gen \in Nat
    BY Shapes DEF IInv, Spawned
  <2>2. x \in Reading
    BY <2>1, ReadingFields, ReadingOf, Zenon DEF Pcs
  <2>3. rd' = [rd EXCEPT ![r] = x]
    <3>1. y = State(y.pc, y.g, y.pos, y.woken, y.tail, y.closed, y.next, y.body)
      BY <2>1, ReadingFields, Zenon
    <3>2. [y EXCEPT !.pc = "attached"] =
            State("attached", y.g, y.pos, y.woken, y.tail, y.closed, y.next, y.body)
      BY <3>1 DEF State
    <3>4. [State("attached", y.g, y.pos, y.woken, y.tail, y.closed, y.next, y.body)
             EXCEPT !.g = cur] = x
      BY DEF State
    <3>3. rd' = [rd EXCEPT ![r] = [y EXCEPT !.pc = "attached", !.g = cur]]
      BY <1>2, Zenon
    <3> QED BY <3>2, <3>3, <3>4, Zenon
  <2>4. x.pos = y.pos /\ x.pc = "attached" /\ x.g = cur
    BY DEF State
  <2>5. Honest(y)
    BY Zenon DEF IInv, Reads
  <2> HIDE DEF x
  <2>6. Honest(x) /\ Current(x)
    BY <1>2, <2>1, <2>4, <2>5 DEF Honest, Current, Counted
  <2> QED BY <2>2, <2>3, <2>4, <2>6, ReaderMoves, Zenon DEF Attach
<1> QED BY <1>1, <1>2 DEF Attach

\* Count: the reader counts itself on its streamer.
LEMMA CountStep ==
  ASSUME IInv, NEW r \in Readers, Count(r)
  PROVE IInv'
<1>1. rd[r].g \in 1..gen
  BY Zenon DEF Count, IInv, Reads, Honest
<1> QED BY <1>1, GotoStep DEF Count

\* LoadChan: the channel is loaded before the state it guards.
LEMMA LoadChanStep ==
  ASSUME IInv, NEW r \in Readers, LoadChan(r)
  PROVE IInv'
<1> DEFINE y == rd[r]
           x == State("chan", y.g, y.pos, y.woken, y.tail, y.closed, y.next, y.body)
<1>1. y \in Reading
  BY Shapes DEF IInv
<1>2. x \in Reading
  BY <1>1, ReadingFields, ReadingOf, Zenon DEF Pcs, Counted
<1>3. rd' = [rd EXCEPT ![r] = x]
  <2>1. y = State(y.pc, y.g, y.pos, y.woken, y.tail, y.closed, y.next, y.body)
    BY <1>1, ReadingFields, Zenon
  <2>2. [y EXCEPT !.pc = "chan"] = x
    BY <2>1 DEF State
  <2>3. rd' = [rd EXCEPT ![r] = [y EXCEPT !.pc = "chan"]]
    BY DEF LoadChan
  <2> QED BY <2>2, <2>3, Zenon
<1>4. x.pos = y.pos /\ x.pc = "chan" /\ x.g = y.g
  BY DEF State
<1>5. Honest(y) /\ y.pc = "loop"
  BY Zenon DEF IInv, Reads, LoadChan
<1> HIDE DEF x
<1>6. Honest(x) /\ Current(x)
  BY <1>4, <1>5 DEF Honest, Current, Counted
<1> QED BY <1>2, <1>3, <1>4, <1>6, ReaderMoves, Zenon DEF LoadChan

\* LoadTail: at this moment the reader is not behind.
LEMMA LoadTailStep ==
  ASSUME IInv, NEW r \in Readers, LoadTail(r)
  PROVE IInv'
<1> DEFINE y == rd[r]
           x == State("tail", y.g, y.pos, y.woken, tail[y.g], y.closed, y.next, y.body)
<1>1. /\ y \in Reading /\ y.pc = "chan" /\ Honest(y)
      /\ gen \in 0..MaxGen /\ tail \in [Gens -> 0..MaxLog]
  BY Shapes DEF IInv, Reads, LoadTail
<1>2. y.g \in 1..gen /\ y.g \in Gens /\ tail[y.g] \in 0..MaxLog
  BY <1>1, LiveReadAssumption DEF Honest, Counted, Gens
<1>3. x \in Reading
  BY <1>1, <1>2, ReadingFields, ReadingOf, Zenon DEF Pcs, Counted
<1>4. rd' = [rd EXCEPT ![r] = x]
  <2>1. y = State(y.pc, y.g, y.pos, y.woken, y.tail, y.closed, y.next, y.body)
    BY <1>1, ReadingFields, Zenon
  <2>2. [y EXCEPT !.pc = "tail"] =
          State("tail", y.g, y.pos, y.woken, y.tail, y.closed, y.next, y.body)
    BY <2>1 DEF State
  <2>4. [State("tail", y.g, y.pos, y.woken, y.tail, y.closed, y.next, y.body)
           EXCEPT !.tail = tail[y.g]] = x
    BY DEF State
  <2>3. rd' = [rd EXCEPT ![r] = [y EXCEPT !.pc = "tail", !.tail = tail[y.g]]]
    BY Zenon DEF LoadTail
  <2> QED BY <2>2, <2>3, <2>4, Zenon
<1>5. x.pos = y.pos /\ x.pc = "tail" /\ x.g = y.g /\ x.tail = tail[y.g]
  BY DEF State
<1>6. tail[y.g] <= log
  BY <1>2 DEF IInv, Spawned
<1> HIDE DEF x
<1>7. Honest(x) /\ Current(x)
  BY <1>1, <1>2, <1>5, <1>6 DEF Honest, Current, Counted
<1> QED BY <1>3, <1>4, <1>5, <1>7, ReaderMoves, Zenon DEF LoadTail

\* LoadClosed: what became behind since LoadTail is to be woken.
LEMMA LoadClosedStep ==
  ASSUME IInv, NEW r \in Readers, LoadClosed(r)
  PROVE IInv'
<1> DEFINE y == rd[r]
           x == State("closed", y.g, y.pos, y.woken, y.tail, closed[y.g], y.next, y.body)
<1>1. /\ y \in Reading /\ y.pc = "tail" /\ Honest(y) /\ Current(y)
      /\ gen \in 0..MaxGen /\ closed \in [Gens -> BOOLEAN]
  BY Shapes DEF IInv, Reads, LoadClosed
<1>2. y.g \in 1..gen /\ y.g \in Gens /\ closed[y.g] \in BOOLEAN
  BY <1>1, LiveReadAssumption DEF Honest, Counted, Gens
<1>3. x \in Reading
  BY <1>1, <1>2, ReadingFields, ReadingOf, Zenon DEF Pcs, Counted
<1>4. rd' = [rd EXCEPT ![r] = x]
  <2>1. y = State(y.pc, y.g, y.pos, y.woken, y.tail, y.closed, y.next, y.body)
    BY <1>1, ReadingFields, Zenon
  <2>2. [y EXCEPT !.pc = "closed"] =
          State("closed", y.g, y.pos, y.woken, y.tail, y.closed, y.next, y.body)
    BY <2>1 DEF State
  <2>4. [State("closed", y.g, y.pos, y.woken, y.tail, y.closed, y.next, y.body)
           EXCEPT !.closed = closed[y.g]] = x
    BY DEF State
  <2>3. rd' = [rd EXCEPT ![r] = [y EXCEPT !.pc = "closed", !.closed = closed[y.g]]]
    BY Zenon DEF LoadClosed
  <2> QED BY <2>2, <2>3, <2>4, Zenon
<1>5. /\ x.pos = y.pos /\ x.pc = "closed" /\ x.g = y.g /\ x.tail = y.tail
      /\ x.closed = closed[y.g] /\ x.woken = y.woken
  BY ZenonT(30) DEF State
<1> HIDE DEF x
<1>6. Honest(x) /\ Current(x)
  BY <1>1, <1>2, <1>5 DEF Honest, Current, Wakes, Counted
<1> QED BY <1>3, <1>4, <1>5, <1>6, ReaderMoves, Zenon DEF LoadClosed

\* Records pos..n-1 of the log, as a sequence.
LEMMA LogSlice ==
  ASSUME NEW pos \in 0..MaxLog, NEW n \in 0..MaxLog, pos <= n
  PROVE [i \in 1..(n - pos) |-> pos + i - 1] \in Seq(0..MaxLog)
<1>1. n - pos \in Nat /\ \A i \in 1..(n - pos) : pos + i - 1 \in 0..MaxLog
  BY LiveReadAssumption
<1> QED BY <1>1

\* cachePayloads: a hit returns the records of the log from pos on.
LEMMA HitIsLog ==
  ASSUME NEW recs \in Seq(Cached), NEW pos \in Nat, NEW end \in Nat, log \in Nat, Window(recs),
         cacheHit(recs, pos, end)
  PROVE /\ cachePayloads(recs, pos, end) = [i \in 1..(end - pos) |-> pos + i - 1]
        /\ pos < end
<1> DEFINE first == recs[1].seq
<1>1. /\ pos < end /\ recs # << >> /\ first <= pos /\ end <= recs[Len(recs)].seq + 1
  BY DEF cacheHit
<1>2. Len(recs) \in Nat /\ Len(recs) # 0 /\ 1 \in 1..Len(recs) /\ Len(recs) \in 1..Len(recs)
  BY <1>1
<1>3. recs[1] \in Cached
  BY <1>2
<1>4. first \in Nat
  BY <1>3, LiveReadAssumption DEF Cached
<1>5. recs[Len(recs)].seq = first + Len(recs) - 1
  BY <1>2 DEF Window
<1> HIDE DEF first
<1>6. ASSUME NEW i \in 1..(end - pos)
      PROVE recs[pos - first + i].payload = pos + i - 1
  <2> DEFINE k == pos - first + i
  <2>1. k \in 1..Len(recs)
    BY <1>1, <1>2, <1>4, <1>5
  <2>2. recs[k].payload = recs[k].seq /\ recs[k].seq = first + k - 1
    BY <2>1, ZenonT(30) DEF Window, first
  <2>3. first + k - 1 = pos + i - 1
    BY <1>4
  <2> QED BY <2>2, <2>3
<1> QED BY <1>1, <1>6 DEF cachePayloads, first

\* Read: the body is the log from the reader's position on, from either source.
LEMMA ReadStep ==
  ASSUME IInv, NEW r \in Readers, Read(r)
  PROVE IInv'
<1> DEFINE y == rd[r]
           recs == cache[y.g]
           stored == IF y.pos >= y.tail THEN y.pos ELSE Min(y.tail, y.pos + MaxRead)
           hit == cacheHit(recs, y.pos, y.tail)
           n == IF hit THEN y.tail ELSE stored
           b == IF hit THEN cachePayloads(recs, y.pos, y.tail)
                ELSE [i \in 1..(stored - y.pos) |-> y.pos + i - 1]
           x == State("read", y.g, y.pos, y.woken, y.tail, y.closed, n, b)
<1>1. /\ y \in Reading /\ y.pc = "closed" /\ Honest(y) /\ Current(y)
      /\ gen \in 0..MaxGen /\ cache \in [Gens -> Seq(Cached)] /\ log \in 0..MaxLog
  BY Shapes DEF IInv, Reads, Read
<1>2. /\ y.pos \in Nat /\ y.tail \in Nat /\ y.tail <= log /\ y.pos <= log
      /\ log \in Nat /\ MaxLog \in Nat /\ log <= MaxLog /\ MaxRead \in Nat \ {0}
  BY <1>1, ReadingFields, LiveReadAssumption DEF Current, Honest
<1>3. y.g \in 1..gen /\ y.g \in Gens
  BY <1>1, LiveReadAssumption DEF Honest, Counted, Gens
<1>4. recs \in Seq(Cached) /\ Window(recs)
  BY <1>1, <1>3, ZenonT(30) DEF IInv, Windows
<1>5. /\ n \in Nat /\ y.pos <= n /\ n <= log /\ (n = y.pos => y.tail <= y.pos)
      /\ b = [i \in 1..(n - y.pos) |-> y.pos + i - 1]
  <2>1. CASE hit
    <3>1. b = [i \in 1..(y.tail - y.pos) |-> y.pos + i - 1] /\ y.pos < y.tail
      BY <1>2, <1>4, <2>1, HitIsLog, Zenon
    <3> QED BY <1>2, <2>1, <3>1, SMTT(30)
  <2>2. CASE ~hit
    <3>1. stored \in Nat /\ y.pos <= stored /\ stored <= log /\ (stored = y.pos => y.tail <= y.pos)
      BY <1>2 DEF Min
    <3> QED BY <2>2, <3>1
  <2> HIDE DEF hit, n, b
  <2> QED BY <2>1, <2>2, Zenon
<1>6. rd' = [rd EXCEPT ![r] = x]
  <2>1. y = State(y.pc, y.g, y.pos, y.woken, y.tail, y.closed, y.next, y.body)
    BY <1>1, ReadingFields, Zenon
  <2>2. [y EXCEPT !.pc = "read"] =
          State("read", y.g, y.pos, y.woken, y.tail, y.closed, y.next, y.body)
    BY <2>1 DEF State
  <2>3. rd' = [rd EXCEPT ![r] = [y EXCEPT !.pc = "read", !.next = n, !.body = b]]
    BY Zenon DEF Read
  <2> HIDE DEF n, b
  <2>4. [State("read", y.g, y.pos, y.woken, y.tail, y.closed, y.next, y.body)
           EXCEPT !.next = n] = State("read", y.g, y.pos, y.woken, y.tail, y.closed, n, y.body)
    BY DEF State
  <2>5. [State("read", y.g, y.pos, y.woken, y.tail, y.closed, n, y.body) EXCEPT !.body = b] = x
    BY DEF State
  <2> QED BY <2>2, <2>3, <2>4, <2>5, Zenon
<1> HIDE DEF n, b
<1>7. n \in 0..MaxLog /\ b \in Seq(0..MaxLog)
  <2>1. n \in Nat /\ y.pos <= n /\ n <= log /\ b = [i \in 1..(n - y.pos) |-> y.pos + i - 1]
    BY <1>5, Zenon
  <2>2. n \in 0..MaxLog /\ y.pos \in 0..MaxLog
    BY <1>2, <2>1
  <2>3. [i \in 1..(n - y.pos) |-> y.pos + i - 1] \in Seq(0..MaxLog)
    BY <2>1, <2>2, LogSlice, Zenon
  <2> QED BY <2>1, <2>2, <2>3, Zenon
<1>8. x \in Reading
  BY <1>1, <1>7, ReadingFields, ReadingOf, ZenonT(30) DEF Pcs, Counted
<1>9. /\ x.pos = y.pos /\ x.pc = "read" /\ x.g = y.g /\ x.tail = y.tail /\ x.next = n
      /\ x.body = b /\ x.closed = y.closed /\ x.woken = y.woken
  BY DEF State
<1> HIDE DEF x
<1>10. Honest(x)
  BY <1>1, <1>3, <1>5, <1>9, ZenonT(30) DEF Honest, Counted
<1>11. Current(x)
  <2>1. Wakes(y) => Wakes(x)
    BY <1>9, Zenon DEF Wakes
  <2> QED BY <1>1, <1>9, <2>1 DEF Current
<1> QED BY <1>6, <1>8, <1>9, <1>10, <1>11, ReaderMoves DEF Read

\* Serve with a delivery.
LEMMA DeliverStep ==
  ASSUME IInv, NEW r \in Readers, NEW pc \in {"eof", "loop", "out", "attached"},
         rd[r].pc = "read", got' = [got EXCEPT ![r] = @ \o rd[r].body],
         rd' = [rd EXCEPT ![r] = At(pc, IF pc = "out" THEN 0 ELSE rd[r].g, rd[r].next, FALSE)],
         UNCHANGED <<log, fin, deleted, cur, gen, Streamers, pub, skipped>>
  PROVE IInv'
<1> DEFINE y == rd[r]
           g == IF pc = "out" THEN 0 ELSE y.g
           x == At(pc, g, y.next, FALSE)
<1>1. y \in Reading /\ Honest(y)
  BY Shapes DEF IInv, Reads
<1>2. /\ y.pos \in 0..MaxLog /\ y.next \in 0..MaxLog /\ y.g \in 0..MaxGen
      /\ 0 \in 0..MaxGen /\ FALSE \in BOOLEAN /\ y.body \in Seq(0..MaxLog)
  BY <1>1, ReadingFields, LiveReadAssumption, SMTT(30)
<1>3. y.g \in 1..gen /\ y.next <= log
  BY <1>1 DEF Honest, Counted
<1>4. g \in 0..MaxGen /\ pc \in Pcs
  BY <1>2 DEF Pcs, Counted
<1>5. x \in Reading
  BY <1>2, <1>4, AtReading, Zenon
<1>6. x.pos = y.next /\ x.pc = pc /\ x.g = g
  BY DEF At
<1>7. got \in [Readers -> Seq(0..MaxLog)]
  BY DEF IInv, TypeOK
<1>8. got[r] \o y.body \in Seq(0..MaxLog)
  BY <1>2, <1>7
<1>9. got' \in [Readers -> Seq(0..MaxLog)] /\ skipped' \in [Readers -> SUBSET (0..MaxLog)]
  <2>1. skipped \in [Readers -> SUBSET (0..MaxLog)]
    BY Zenon DEF IInv, TypeOK
  <2> QED BY <1>7, <1>8, <2>1, Zenon
<1>11. rd' = [rd EXCEPT ![r] = x]
  OBVIOUS
<1> HIDE DEF x
<1>12. Honest(x) /\ Current(x)
  BY <1>3, <1>6 DEF Honest, Current, Counted
<1> QED BY <1>5, <1>9, <1>11, <1>12, ReaderGets, Zenon

\* Serve: the stopped check, then delivery, end of stream, or parking.
LEMMA ServeStep ==
  ASSUME IInv, NEW r \in Readers, Serve(r)
  PROVE IInv'
<1> DEFINE y == rd[r]
<1>1. y \in Reading /\ y.pc = "read" /\ Honest(y) /\ Current(y)
  BY Shapes, ZenonT(30) DEF IInv, Reads, Serve
<1>2. CASE Goto(r, "gone") /\ UNCHANGED got
  BY <1>2, GotoStep, ZenonT(30) DEF Serve
<1>3. CASE Goto(r, "eof") /\ UNCHANGED got
  BY <1>3, GotoStep DEF Serve
<1>4. CASE y.next = y.pos /\ ~y.closed /\ Park(r) /\ UNCHANGED got
  <2> DEFINE x == At("park", y.g, y.pos, y.woken)
  <2>1. /\ y.g \in 0..MaxGen /\ y.pos \in 0..MaxLog /\ y.pos \in Nat
        /\ y.woken \in BOOLEAN /\ y.tail \in Nat
    BY <1>1, ReadingFields
  <2>2. x \in Reading
    BY <2>1, AtReading DEF Pcs, Counted
  <2>3. rd' = [rd EXCEPT ![r] = x]
    BY <1>4 DEF Park
  <2>4. x.pos = y.pos /\ x.pc = "park" /\ x.g = y.g /\ x.woken = y.woken
    BY DEF At
  <2> HIDE DEF x
  <2>5. Honest(x)
    BY <1>1, <2>4 DEF Honest, Counted
  <2>6. Wakes(y) => Wakes(x)
    BY <2>4, Zenon DEF Wakes
  <2>7. x.g \in Gens
    BY <1>1, <2>4, Shapes, LiveReadAssumption DEF Honest, Counted, Gens, IInv
  <2>8. tail[x.g] \in Nat
    BY <2>7, LiveReadAssumption, SMTT(30) DEF IInv, TypeOK
  <2>9. x.pos < tail[x.g] => y.tail < tail[y.g]
    <3>1. y.tail <= y.pos
      BY <1>1, <1>4, Zenon DEF Honest
    <3> QED BY <2>1, <2>4, <2>8, <3>1, LeqLess, Zenon
  <2>10. Current(x)
    BY <1>1, <1>4, <2>4, <2>6, <2>9 DEF Current
  <2> QED BY <1>4, <2>2, <2>3, <2>4, <2>5, <2>10, ReaderMoves, Zenon DEF Serve
<1>5. CASE /\ got' = [got EXCEPT ![r] = @ \o y.body]
           /\ LET pc == AfterDelivery(r, y.closed /\ y.next = y.tail)
              IN rd' = [rd EXCEPT ![r] = At(pc, IF pc = "out" THEN 0 ELSE y.g, y.next, FALSE)]
  <2> DEFINE pc == AfterDelivery(r, y.closed /\ y.next = y.tail)
  <2>1. pc \in {"eof", "loop", "out", "attached"}
    BY DEF AfterDelivery
  <2> HIDE DEF pc
  <2> QED BY <1>1, <1>5, <2>1, DeliverStep, Zenon DEF Serve, pc
<1> QED BY <1>2, <1>3, <1>4, <1>5, Zenon DEF Serve

\* Wakeup: the reader looks again, or finds its streamer stopped.
LEMMA WakeupStep ==
  ASSUME IInv, NEW r \in Readers, Wakeup(r)
  PROVE IInv'
<1>1. rd[r].g \in 1..gen
  BY Zenon DEF Wakeup, IInv, Reads, Honest, Counted
<1> QED BY <1>1, GotoStep DEF Wakeup

\* Leave: the client reconnects at its offset.
LEMMA LeaveStep ==
  ASSUME IInv, NEW r \in Readers, Leave(r)
  PROVE IInv'
<1> DEFINE x == At("out", 0, rd[r].pos, FALSE)
<1>1. rd[r] \in Reading /\ Honest(rd[r])
  BY Shapes DEF IInv, Reads
<1>2. rd[r].pos \in 0..MaxLog /\ 0 \in 0..MaxGen /\ "out" \in Pcs /\ FALSE \in BOOLEAN
  BY <1>1, ReadingFields, LiveReadAssumption DEF Pcs
<1>3. x \in Reading
  BY <1>2, AtReading, Zenon
<1>4. rd' = [rd EXCEPT ![r] = x]
  BY DEF Leave, NewReader
<1>5. x.pos = rd[r].pos /\ x.pc = "out"
  BY DEF At
<1> HIDE DEF x
<1>6. Honest(x) /\ Current(x)
  BY <1>1, <1>5 DEF Honest, Current, Counted
<1> QED BY <1>3, <1>4, <1>5, <1>6, ReaderMoves, Zenon DEF Leave

\* Timeout: the client reconnects at the tail it was told.
LEMMA TimeoutStep ==
  ASSUME IInv, NEW r \in Readers, Timeout(r)
  PROVE IInv'
<1> DEFINE now == tail[rd[r].g]
           x == At("out", 0, now, FALSE)
<1>1. rd[r].pc = "park" /\ rd[r] \in Reading
  BY Shapes DEF IInv, Timeout
<1>2. rd[r].g \in Gens
  BY <1>1, OfStreamer DEF Counted
<1>3. now \in 0..MaxLog /\ now <= log
  BY <1>2 DEF IInv, TypeOK, Spawned
<1>4. rd[r].pos \in 0..MaxLog /\ 0 \in 0..MaxGen /\ "out" \in Pcs /\ FALSE \in BOOLEAN
  BY <1>1, ReadingFields, LiveReadAssumption DEF Pcs
<1>5. /\ rd' = [rd EXCEPT ![r] = x]
      /\ skipped' = [skipped EXCEPT ![r] = skipped[r] \cup rd[r].pos..(now - 1)]
      /\ UNCHANGED <<log, fin, deleted, cur, gen, Streamers, pub, got>>
  BY Zenon DEF Timeout, NewReader
<1> HIDE DEF now
<1>6. x \in Reading
  BY <1>3, <1>4, AtReading, Zenon
<1>7. x.pos = now /\ x.pc = "out"
  BY DEF At
<1> HIDE DEF x
<1>8. Honest(x) /\ Current(x)
  BY <1>3, <1>7 DEF Honest, Current, Counted
<1>9. rd[r].pos..(now - 1) \subseteq 0..MaxLog
  BY <1>3, <1>4, LiveReadAssumption
<1>10. got' \in [Readers -> Seq(0..MaxLog)] /\ skipped' \in [Readers -> SUBSET (0..MaxLog)]
  <2>1. got \in [Readers -> Seq(0..MaxLog)] /\ skipped \in [Readers -> SUBSET (0..MaxLog)]
    BY Zenon DEF IInv, TypeOK
  <2>2. skipped[r] \cup rd[r].pos..(now - 1) \in SUBSET (0..MaxLog)
    BY <1>9, <2>1
  <2> QED BY <1>5, <2>1, <2>2, Zenon
<1> QED BY <1>5, <1>6, <1>8, <1>10, ReaderGets, Zenon

-----------------------------------------------------------------------------
(* The streamer's steps. *)

\* liveCache.append leaves a window of the log.
LEMMA AppendWindow ==
  ASSUME NEW recs \in Seq(Cached), Window(recs), log \in 0..MaxLog,
         NEW first \in 0..MaxLog, NEW seg \in Seq(0..MaxLog), first + Len(seg) <= log,
         \A i \in 1..Len(seg) : seg[i] = first + i - 1
  PROVE cacheAppend(recs, first, seg) \in Seq(Cached) /\ Window(cacheAppend(recs, first, seg))
<1> DEFINE kept == IF recs # << >> /\ first # recs[Len(recs)].seq + 1 THEN << >> ELSE recs
           new == [i \in 1..Len(seg) |-> [seq |-> first + i - 1, payload |-> seg[i]]]
           all == kept \o new
           m == IF Len(all) > CacheMax THEN Len(all) - CacheMax + 1 ELSE 1
           out == SubSeq(all, m, Len(all))
<1>0. /\ CacheMax \in Nat /\ CacheMax # 0 /\ MaxLog \in Nat /\ Len(seg) \in Nat
      /\ first \in Nat /\ log \in Nat /\ log <= MaxLog
  BY LiveReadAssumption
<1>1. /\ kept \in Seq(Cached) /\ Window(kept)
      /\ kept # << >> => first = kept[Len(kept)].seq + 1
  BY DEF Window
<1>2. \A i \in 1..Len(seg) : [seq |-> first + i - 1, payload |-> seg[i]] \in Cached
  <2> TAKE i \in 1..Len(seg)
  <2>1. first + i - 1 \in 0..MaxLog /\ seg[i] \in 0..MaxLog
    BY <1>0
  <2> QED BY <2>1 DEF Cached
<1>3. new \in Seq(Cached) /\ Len(new) = Len(seg)
  BY <1>0, <1>2
<1>4. \A i \in 1..Len(seg) : new[i].seq = first + i - 1 /\ new[i].payload = first + i - 1
  OBVIOUS
<1> HIDE DEF kept, new
<1>5. /\ all \in Seq(Cached) /\ Len(all) = Len(kept) + Len(seg) /\ Len(kept) \in Nat
      /\ \A i \in 1..Len(kept) : all[i] = kept[i]
      /\ \A i \in 1..Len(seg) : all[Len(kept) + i] = new[i]
  <2>1. kept \in Seq(Cached) /\ new \in Seq(Cached)
    BY <1>1, <1>3
  <2>2. /\ kept \o new \in Seq(Cached) /\ Len(kept \o new) = Len(kept) + Len(new)
        /\ Len(kept) \in Nat /\ \A i \in 1..Len(kept) : (kept \o new)[i] = kept[i]
        /\ \A i \in 1..Len(new) : (kept \o new)[Len(kept) + i] = new[i]
    BY <2>1, SMTT(30)
  <2> QED BY <1>3, <2>2, Zenon
<1>6. Window(all)
  <2> SUFFICES ASSUME NEW i \in 1..Len(all)
               PROVE /\ all[i].payload = all[i].seq
                     /\ all[i].seq = all[1].seq + i - 1 /\ all[i].seq < log
    BY Zenon DEF Window
  <2> HIDE DEF all
  <2>1. CASE i \in 1..Len(kept)
    <3>1. 1 \in 1..Len(kept)
      BY <1>5, <2>1
    <3> QED BY <1>1, <1>5, <2>1, <3>1, Zenon DEF Window
  <2>2. CASE i \notin 1..Len(kept) /\ Len(kept) = 0
    <3>1. i \in 1..Len(seg) /\ 1 \in 1..Len(seg) /\ Len(kept) + i = i /\ Len(kept) + 1 = 1
      BY <1>0, <1>5, <2>2
    <3>2. all[i] = new[i] /\ all[1] = new[1]
      BY <1>5, <3>1
    <3>3. all[i].seq = first + i - 1 /\ all[i].payload = first + i - 1 /\ all[1].seq = first + 1 - 1
      BY <1>4, <3>1, <3>2, Zenon
    <3> QED BY <1>0, <3>1, <3>3, SMTT(30)
  <2>3. CASE i \notin 1..Len(kept) /\ Len(kept) # 0
    <3> DEFINE k == i - Len(kept)
    <3>1. k \in 1..Len(seg) /\ Len(kept) + k = i /\ 1 \in 1..Len(kept) /\ Len(kept) \in 1..Len(kept)
      BY <1>0, <1>5, <2>3
    <3>2. all[i] = new[k] /\ all[1] = kept[1]
      BY <1>5, <3>1, Zenon
    <3>3. all[i].seq = first + k - 1 /\ all[i].payload = first + k - 1
      BY <1>4, <3>1, <3>2, Zenon
    <3>4. first = kept[Len(kept)].seq + 1 /\ kept[Len(kept)].seq = kept[1].seq + Len(kept) - 1
      BY <1>1, <2>3, <3>1 DEF Window
    <3>5. kept[1] \in Cached
      BY <1>1, <3>1
    <3>6. kept[1].seq \in Nat
      BY <3>5, <1>0 DEF Cached
    <3>7. all[1].seq = kept[1].seq
      BY <3>2
    <3> HIDE DEF k
    <3>8. \A u, l, j \in Nat : (u + l - 1 + 1) + j - 1 = u + (l + j) - 1
      OBVIOUS
    <3>9. Len(kept) \in Nat /\ k \in Nat /\ first + k - 1 < log
      BY <1>0, <1>5, <3>1
    <3>10. first + k - 1 = kept[1].seq + i - 1
      <4>1. first = (kept[1].seq + Len(kept) - 1) + 1
        BY <3>4, Zenon
      <4>2. ((kept[1].seq + Len(kept) - 1) + 1) + k - 1 = kept[1].seq + (Len(kept) + k) - 1
        BY <3>6, <3>8, <3>9, Zenon
      <4> QED BY <3>1, <4>1, <4>2, Zenon
    <3> QED BY <3>3, <3>7, <3>9, <3>10, Zenon
  <2> QED BY <2>1, <2>2, <2>3
<1> HIDE DEF all
<1>7. CASE seg # << >>
  <2>1. Len(all) \in Nat /\ Len(all) >= 1 /\ m \in 1..Len(all)
    BY <1>0, <1>5, <1>7
  <2> HIDE DEF m
  <2>2. /\ out \in Seq(Cached) /\ Len(out) = Len(all) - m + 1
        /\ \A i \in 1..Len(out) : out[i] = all[m + i - 1] /\ m + i - 1 \in 1..Len(all)
    BY <1>5, <2>1
  <2> HIDE DEF out
  <2>3. Window(out)
    <3> SUFFICES ASSUME NEW i \in 1..Len(out)
                 PROVE /\ out[i].payload = out[i].seq
                       /\ out[i].seq = out[1].seq + i - 1 /\ out[i].seq < log
      BY Zenon DEF Window
    <3>1. 1 \in 1..Len(out) /\ 1 \in 1..Len(all)
      BY <2>1, <2>2
    <3>2. all[1] \in Cached
      BY <1>5, <3>1
    <3>3. all[1].seq \in Nat
      BY <1>0, <3>2 DEF Cached
    <3>4. out[i] = all[m + i - 1] /\ out[1] = all[m + 1 - 1]
      BY <2>2, <3>1
    <3>5. /\ all[m + i - 1].seq = all[1].seq + (m + i - 1) - 1
          /\ all[m + 1 - 1].seq = all[1].seq + (m + 1 - 1) - 1
          /\ all[m + i - 1].payload = all[m + i - 1].seq /\ all[m + i - 1].seq < log
      BY <1>6, <2>2, <3>1, Zenon DEF Window
    <3>6. /\ out[i].seq = all[1].seq + (m + i - 1) - 1 /\ out[1].seq = all[1].seq + (m + 1 - 1) - 1
          /\ out[i].payload = out[i].seq /\ out[i].seq < log
      BY <3>4, <3>5, Zenon
    <3>7. m \in Nat /\ i \in Nat
      BY <2>1, <2>2
    <3>8. \A u, l, j \in Nat : u + (l + j - 1) - 1 = (u + (l + 1 - 1) - 1) + j - 1
      OBVIOUS
    <3>9. all[1].seq + (m + i - 1) - 1 = (all[1].seq + (m + 1 - 1) - 1) + i - 1
      BY <3>3, <3>7, <3>8, Zenon
    <3> QED BY <3>6, <3>9, Zenon
  <2>4. cacheAppend(recs, first, seg) = out
    BY <1>7, Zenon DEF cacheAppend, out, m, all, new, kept
  <2> QED BY <2>2, <2>3, <2>4, Zenon
<1>8. CASE seg = << >>
  BY <1>8 DEF cacheAppend
<1> QED BY <1>7, <1>8

\* The publisher's segment while it publishes.
LEMMA Publishing ==
  ASSUME IInv, pub.pc # "idle"
  PROVE /\ pub \in Publication /\ pub.g \in Gens /\ pub.g \in 1..gen
        /\ pub.base \in 0..MaxLog /\ pub.n \in 0..2 /\ pub.base + pub.n = log
        /\ pub.seg \in Seq(0..MaxLog) /\ pub.base + Len(pub.seg) <= log
        /\ \A i \in 1..Len(pub.seg) : pub.seg[i] = pub.base + i - 1
<1>1. /\ pub \in Publication /\ gen \in 0..MaxGen /\ pub.g \in 1..gen /\ pub.base + pub.n = log
      /\ pub.seg = << >> \/ pub.seg = [i \in 1..pub.n |-> pub.base + i - 1]
  BY Shapes DEF IInv, Spawned
<1>2. /\ pub.base \in 0..MaxLog /\ pub.n \in 0..2 /\ pub.seg \in Seq(0..MaxLog)
  BY <1>1, PublicationFields
<1>3. pub.g \in Gens
  BY <1>1, LiveReadAssumption DEF Gens
<1>4. CASE pub.seg = << >>
  BY <1>1, <1>2, <1>3, <1>4, LiveReadAssumption
<1>5. CASE pub.seg = [i \in 1..pub.n |-> pub.base + i - 1]
  <2>1. Len(pub.seg) = pub.n /\ \A i \in 1..pub.n : pub.seg[i] = pub.base + i - 1
    BY <1>2, <1>5
  <2> QED BY <1>1, <1>2, <1>3, <2>1, LiveReadAssumption
<1> QED BY <1>1, <1>4, <1>5

\* applyReader moves on to its next store.
LEMMA Advance ==
  ASSUME IInv, NEW pc \in {"tail", "closed", "check"}, pub' = [pub EXCEPT !.pc = pc]
  PROVE /\ pub' \in Publication /\ pub'.pc = pc /\ pub'.g = pub.g /\ pub'.base = pub.base
        /\ pub'.n = pub.n /\ pub'.seg = pub.seg
<1>1. pub \in Publication
  BY Shapes DEF IInv
<1> QED BY <1>1 DEF Publication

\* Spawn: nobody refers to the new streamer yet.
LEMMA SpawnStep ==
  ASSUME IInv, Spawn
  PROVE IInv'
<1>1. /\ log \in 0..MaxLog /\ fin \in BOOLEAN /\ gen \in Nat /\ MaxGen \in Nat /\ gen < MaxGen
      /\ tail \in [Gens -> 0..MaxLog] /\ closed \in [Gens -> BOOLEAN] /\ log \in Nat
  BY LiveReadAssumption DEF Spawn, IInv, TypeOK
<1>2. /\ tail' = [tail EXCEPT ![gen + 1] = log] /\ closed' = [closed EXCEPT ![gen + 1] = fin]
      /\ gen' = gen + 1 /\ cur' = gen + 1
      /\ log' = log /\ fin' = fin /\ deleted' = deleted /\ cache' = cache
      /\ trailing' = trailing /\ stop' = stop /\ pub' = pub /\ rd' = rd /\ got' = got
      /\ skipped' = skipped
  BY DEF Spawn
<1>3. /\ tail' \in [Gens -> 0..MaxLog] /\ closed' \in [Gens -> BOOLEAN]
      /\ \A g \in Gens : tail'[g] = tail[g] \/ tail'[g] = log
      /\ \A g \in 1..gen : tail'[g] = tail[g] /\ closed'[g] = closed[g]
  BY <1>1, <1>2 DEF Gens
<1>4. gen' \in 0..MaxGen /\ cur' \in 0..MaxGen /\ cur' \in 0..gen'
  BY <1>1, <1>2
<1>5. TypeOK'
  BY <1>2, <1>3, <1>4, Zenon DEF IInv, TypeOK
<1>6. Spawned'
  <2>1. \A g \in Gens : tail'[g] <= log
    BY <1>1, <1>3 DEF IInv, Spawned
  <2>2. pub.pc # "idle" => pub.g \in 1..gen'
    BY <1>1, <1>2 DEF IInv, Spawned
  <2> QED BY <1>2, <1>4, <2>1, <2>2, Zenon DEF IInv, Spawned
<1>7. Windows'
  BY <1>2 DEF IInv, Windows, Window
<1>8. Reads'
  <2>1. ASSUME NEW r \in Readers, rd[r].pc \in Counted
        PROVE /\ tail'[rd[r].g] = tail[rd[r].g] /\ closed'[rd[r].g] = closed[rd[r].g]
              /\ Wakes(rd[r]) => Wakes(rd[r])'
    <3>1. rd[r].g \in 1..gen
      BY <2>1, OfStreamer
    <3>2. Wakes(rd[r]) => Wakes(rd[r])'
      BY <1>2, Zenon DEF Wakes
    <3> QED BY <1>3, <3>1, <3>2, Zenon
  <2>2. log' \in Nat /\ gen' \in Nat /\ log <= log' /\ gen <= gen'
    BY <1>1, <1>2
  <2> QED BY <1>2, <2>1, <2>2, ReadersRest, Zenon
<1> QED BY <1>5, <1>6, <1>7, <1>8 DEF IInv

\* Burst: the records are in the store and nothing of them is published.
LEMMA BurstStep ==
  ASSUME IInv, NEW n \in 0..2, NEW close \in BOOLEAN, Burst(n, close)
  PROVE IInv'
<1> DEFINE seg == IF totalReaders(cur) > 0 THEN [i \in 1..n |-> log + i - 1] ELSE << >>
<1>1. /\ log \in 0..MaxLog /\ log \in Nat /\ MaxLog \in Nat /\ n \in Nat /\ log + n <= MaxLog
      /\ cur \in 0..gen /\ cur # 0 /\ gen \in 0..MaxGen /\ MaxGen \in Nat /\ gen \in Nat
  BY LiveReadAssumption DEF Burst, IInv, TypeOK, Spawned
<1>2. /\ log' = log + n /\ fin' = close
      /\ pub' = [pc |-> "cache", g |-> cur, base |-> log, n |-> n, close |-> close, seg |-> seg]
      /\ deleted' = deleted /\ cur' = cur /\ gen' = gen /\ rd' = rd /\ got' = got
      /\ skipped' = skipped
      /\ tail' = tail /\ closed' = closed /\ cache' = cache /\ trailing' = trailing
      /\ stop' = stop /\ pub.pc = "idle"
  BY DEF Burst, Streamers
<1>3. seg \in Seq(0..MaxLog) /\ (seg = << >> \/ seg = [i \in 1..n |-> log + i - 1])
  <2>1. << >> \in Seq(0..MaxLog)
    OBVIOUS
  <2>2. [i \in 1..n |-> log + i - 1] \in Seq(0..MaxLog)
    <3>1. \A i \in 1..n : log + i - 1 \in 0..MaxLog
      BY <1>1
    <3> QED BY <1>1, <3>1
  <2> QED BY <2>1, <2>2, Zenon
<1> HIDE DEF seg
<1>4. cur \in 0..MaxGen /\ cur \in 1..gen /\ log' \in 0..MaxLog /\ log' \in Nat /\ log <= log'
  BY <1>1, <1>2
<1>5. /\ pub' \in Publication /\ pub'.pc = "cache" /\ pub'.g = cur /\ pub'.base = log
      /\ pub'.n = n /\ pub'.seg = seg
  BY <1>1, <1>2, <1>3, <1>4, PublicationOf, Zenon
<1>6. TypeOK'
  BY <1>2, <1>4, <1>5, Zenon DEF IInv, TypeOK, Publication
<1>7. Spawned'
  <2>1. \A g \in Gens : tail[g] \in Nat /\ tail[g] <= log'
    BY <1>1, <1>2 DEF IInv, Spawned, TypeOK
  <2>2. pub'.base + pub'.n = log'
    BY <1>2, <1>5, Zenon
  <2> QED BY <1>1, <1>2, <1>3, <1>4, <1>5, <2>1, <2>2, Zenon DEF Spawned
<1>8. Windows'
  <2>1. \A g \in Gens : \A i \in 1..Len(cache[g]) : cache[g][i].seq \in Nat
    <3> TAKE g \in Gens
    <3>1. cache[g] \in Seq(Cached)
      BY Shapes DEF IInv
    <3> TAKE i \in 1..Len(cache[g])
    <3>2. cache[g][i] \in Cached
      BY <3>1
    <3> QED BY <1>1, <3>2 DEF Cached
  <2>2. \A k \in Nat : k < log => k < log'
    BY <1>1, <1>2
  <2> QED BY <1>2, <2>1, <2>2, Zenon DEF IInv, Windows, Window
<1>9. Reads'
  <2>1. \A r \in Readers : Wakes(rd[r]) => Wakes(rd[r])'
    BY <1>2 DEF Wakes
  <2>2. gen' \in Nat /\ gen <= gen'
    BY <1>1, <1>2
  <2> QED BY <1>2, <1>4, <2>1, <2>2, ReadersRest, Zenon
<1> QED BY <1>6, <1>7, <1>8, <1>9, ZenonT(30) DEF IInv

\* applyReader fills or drops the cache.
LEMMA PublishCacheStep ==
  ASSUME IInv, PublishCache
  PROVE IInv'
<1> DEFINE new == IF totalReaders(pub.g) > 0 THEN cacheAppend(cache[pub.g], pub.base, pub.seg)
                  ELSE << >>
<1>1. /\ cache' = [cache EXCEPT ![pub.g] = new] /\ pub' = [pub EXCEPT !.pc = "tail"]
      /\ log' = log /\ fin' = fin /\ deleted' = deleted /\ cur' = cur /\ gen' = gen
      /\ tail' = tail /\ closed' = closed /\ trailing' = trailing /\ stop' = stop
      /\ rd' = rd /\ got' = got /\ skipped' = skipped /\ pub.pc = "cache"
  BY DEF PublishCache
<1>2. /\ log \in 0..MaxLog /\ cache \in [Gens -> Seq(Cached)] /\ log \in Nat /\ gen \in Nat
  BY LiveReadAssumption, Shapes DEF IInv
<1>3. /\ pub.g \in Gens /\ pub.base \in 0..MaxLog /\ pub.seg \in Seq(0..MaxLog)
      /\ pub.base + Len(pub.seg) <= log
      /\ \A i \in 1..Len(pub.seg) : pub.seg[i] = pub.base + i - 1
  BY <1>1, Publishing
<1>4. cache[pub.g] \in Seq(Cached) /\ Window(cache[pub.g])
  BY <1>2, <1>3 DEF IInv, Windows
<1>5. new \in Seq(Cached) /\ Window(new)
  <2>1. << >> \in Seq(Cached) /\ Window(<< >>)
    BY DEF Window
  <2>2. /\ cacheAppend(cache[pub.g], pub.base, pub.seg) \in Seq(Cached)
        /\ Window(cacheAppend(cache[pub.g], pub.base, pub.seg))
    BY <1>2, <1>3, <1>4, AppendWindow, Zenon
  <2> QED BY <2>1, <2>2, Zenon
<1> HIDE DEF new
<1>6. /\ cache' \in [Gens -> Seq(Cached)]
      /\ \A g \in Gens : cache'[g] = new \/ cache'[g] = cache[g]
  BY <1>1, <1>2, <1>5, Zenon
<1>7. /\ pub' \in Publication /\ pub'.pc = "tail" /\ pub'.g = pub.g /\ pub'.base = pub.base
      /\ pub'.n = pub.n /\ pub'.seg = pub.seg
  BY <1>1, Advance
<1>8. TypeOK'
  BY <1>1, <1>6, <1>7, Zenon DEF IInv, TypeOK, Publication, Cached
<1>9. Spawned'
  BY <1>1, <1>7 DEF IInv, Spawned
<1>10. Windows'
  <2>1. \A g \in Gens : Window(cache'[g])
    BY <1>5, <1>6, Zenon DEF IInv, Windows
  <2> QED BY <1>1, <2>1 DEF Windows, Window
<1>11. Reads'
  <2>1. \A r \in Readers : Wakes(rd[r]) => Wakes(rd[r])'
    BY <1>1, <1>7 DEF Wakes
  <2> QED BY <1>1, <1>2, <2>1, ReadersRest
<1> QED BY <1>8, <1>9, <1>10, <1>11 DEF IInv

\* applyReader publishes the tail: whoever is behind it will be woken at the end.
LEMMA PublishTailStep ==
  ASSUME IInv, PublishTail
  PROVE IInv'
<1>1. /\ tail' = [tail EXCEPT ![pub.g] = pub.base + pub.n] /\ pub' = [pub EXCEPT !.pc = "closed"]
      /\ log' = log /\ fin' = fin /\ deleted' = deleted /\ cur' = cur /\ gen' = gen
      /\ closed' = closed /\ cache' = cache /\ trailing' = trailing /\ stop' = stop
      /\ rd' = rd /\ got' = got /\ skipped' = skipped /\ pub.pc = "tail"
  BY DEF PublishTail
<1>2. /\ log \in 0..MaxLog /\ tail \in [Gens -> 0..MaxLog] /\ log \in Nat /\ gen \in Nat
  BY LiveReadAssumption, Shapes DEF IInv
<1>3. pub.g \in Gens /\ pub.base + pub.n = log
  BY <1>1, Publishing
<1>4. /\ tail' \in [Gens -> 0..MaxLog] /\ tail'[pub.g] = log
      /\ \A g \in Gens : g # pub.g => tail'[g] = tail[g]
  BY <1>1, <1>2, <1>3
<1>5. /\ pub' \in Publication /\ pub'.pc = "closed" /\ pub'.g = pub.g /\ pub'.base = pub.base
      /\ pub'.n = pub.n /\ pub'.seg = pub.seg
  BY <1>1, Advance
<1>6. TypeOK'
  BY <1>1, <1>4, <1>5, Zenon DEF IInv, TypeOK, Publication
<1>7. Spawned'
  <2>1. \A g \in Gens : tail'[g] <= log
    BY <1>2, <1>4 DEF IInv, Spawned
  <2> QED BY <1>1, <1>5, <2>1 DEF IInv, Spawned
<1>8. Windows'
  BY <1>1 DEF IInv, Windows, Window
<1>9. Reads'
  <2>1. ASSUME NEW r \in Readers, rd[r].pc \in Counted
        PROVE \/ Wakes(rd[r])'
              \/ /\ tail'[rd[r].g] = tail[rd[r].g] /\ closed'[rd[r].g] = closed[rd[r].g]
                 /\ Wakes(rd[r]) => Wakes(rd[r])'
    <3>1. rd[r].g \in Gens
      BY <2>1, OfStreamer
    <3>2. CASE rd[r].g = pub.g
      BY <1>1, <1>5, <3>2 DEF Wakes
    <3>3. CASE rd[r].g # pub.g
      <4>1. Wakes(rd[r]) => Wakes(rd[r])'
        BY <1>1, <3>3, Zenon DEF Wakes
      <4> QED BY <1>1, <1>4, <3>1, <3>3, <4>1, Zenon
    <3> QED BY <3>2, <3>3
  <2> QED BY <1>1, <1>2, <2>1, ReadersRest, SMTT(30)
<1> QED BY <1>6, <1>7, <1>8, <1>9 DEF IInv

\* applyReader publishes the closure: it is still about to wake.
LEMMA PublishClosedStep ==
  ASSUME IInv, PublishClosed
  PROVE IInv'
<1>1. /\ closed' = [closed EXCEPT ![pub.g] = @ \/ pub.close] /\ pub' = [pub EXCEPT !.pc = "check"]
      /\ log' = log /\ fin' = fin /\ deleted' = deleted /\ cur' = cur /\ gen' = gen
      /\ tail' = tail /\ cache' = cache /\ trailing' = trailing /\ stop' = stop
      /\ rd' = rd /\ got' = got /\ skipped' = skipped /\ pub.pc = "closed"
  BY DEF PublishClosed
<1>2. /\ log \in 0..MaxLog /\ closed \in [Gens -> BOOLEAN] /\ log \in Nat /\ gen \in Nat
      /\ pub.close \in BOOLEAN
  BY LiveReadAssumption, Shapes, PublicationFields DEF IInv
<1>3. pub.g \in Gens
  BY <1>1, Publishing
<1>4. /\ closed' \in [Gens -> BOOLEAN] /\ \A g \in Gens : g # pub.g => closed'[g] = closed[g]
  <2>1. (closed[pub.g] \/ pub.close) \in BOOLEAN
    BY Zenon
  <2> QED BY <1>1, <1>2, <1>3, <2>1, Zenon
<1>5. /\ pub' \in Publication /\ pub'.pc = "check" /\ pub'.g = pub.g /\ pub'.base = pub.base
      /\ pub'.n = pub.n /\ pub'.seg = pub.seg
  BY <1>1, Advance
<1>6. TypeOK'
  BY <1>1, <1>4, <1>5, Zenon DEF IInv, TypeOK, Publication
<1>7. Spawned'
  BY <1>1, <1>5 DEF IInv, Spawned
<1>8. Windows'
  BY <1>1 DEF IInv, Windows, Window
<1>9. Reads'
  <2>1. ASSUME NEW r \in Readers, rd[r].pc \in Counted
        PROVE \/ Wakes(rd[r])'
              \/ /\ tail'[rd[r].g] = tail[rd[r].g] /\ closed'[rd[r].g] = closed[rd[r].g]
                 /\ Wakes(rd[r]) => Wakes(rd[r])'
    <3>1. rd[r].g \in Gens
      BY <2>1, OfStreamer
    <3>2. CASE rd[r].g = pub.g
      BY <1>1, <1>5, <3>2 DEF Wakes
    <3>3. CASE rd[r].g # pub.g
      <4>1. Wakes(rd[r]) => Wakes(rd[r])'
        BY <1>1, <3>3, Zenon DEF Wakes
      <4> QED BY <1>1, <1>4, <3>1, <3>3, <4>1, Zenon
    <3> QED BY <3>2, <3>3
  <2> QED BY <1>1, <1>2, <2>1, ReadersRest
<1> QED BY <1>6, <1>7, <1>8, <1>9 DEF IInv

\* The publisher at rest.
LEMMA AtRest == NoPub \in Publication /\ NoPub.pc = "idle"
<1>1. 0 \in 0..MaxGen /\ 0 \in 0..MaxLog /\ 0 \in 0..2 /\ << >> \in Seq(0..MaxLog)
  BY LiveReadAssumption
<1> QED BY <1>1 DEF NoPub, Publication

\* Steps that change wakes and nothing of the log.
LEMMA WakeStep ==
  ASSUME IInv, Reads', rd' \in [Readers -> Reading], trailing' \in [Gens -> BOOLEAN],
         pub' = pub \/ pub' = NoPub, got' = got, skipped' = skipped,
         UNCHANGED <<log, fin, deleted, gen, tail, closed, cache>>,
         cur' \in {0, cur}, stop' \in [Gens -> BOOLEAN]
  PROVE IInv'
<1>1. pub' \in Publication /\ (pub' = pub \/ pub'.pc = "idle")
  BY AtRest, Shapes, Zenon DEF IInv
<1>2. cur' \in 0..MaxGen /\ cur' \in 0..gen
  BY LiveReadAssumption DEF IInv, TypeOK, Spawned
<1>3. TypeOK'
  BY <1>1, <1>2, Zenon DEF IInv, TypeOK, Publication, Reading
<1>4. Spawned'
  BY <1>1, <1>2, Zenon DEF IInv, Spawned
<1>5. Windows'
  BY DEF IInv, Windows, Window
<1> QED BY <1>3, <1>4, <1>5 DEF IInv

\* applyReader wakes if anybody is counted, at once or with the armed timer.
LEMMA PublishWakeStep ==
  ASSUME IInv, PublishWake
  PROVE IInv'
<1>1. /\ pub' = NoPub /\ log' = log /\ fin' = fin /\ deleted' = deleted /\ cur' = cur
      /\ gen' = gen /\ tail' = tail /\ closed' = closed /\ cache' = cache /\ stop' = stop
      /\ got' = got /\ skipped' = skipped /\ pub.pc = "check"
  BY DEF PublishWake
<1>2. /\ log \in Nat /\ gen \in Nat /\ trailing \in [Gens -> BOOLEAN] /\ stop \in [Gens -> BOOLEAN]
      /\ rd \in [Readers -> Reading] /\ log <= log /\ gen <= gen
  BY LiveReadAssumption, Shapes DEF IInv
<1>3. pub.g \in Gens
  BY <1>1, Publishing
<1>4. Reads' /\ rd' \in [Readers -> Reading] /\ trailing' \in [Gens -> BOOLEAN]
  <2>1. CASE totalReaders(pub.g) = 0 /\ UNCHANGED <<rd, trailing>>
    <3>1. ASSUME NEW r \in Readers, rd[r].pc \in Counted PROVE Wakes(rd[r]) => Wakes(rd[r])'
      <4>1. rd[r].g # pub.g
        BY <2>1, <3>1, SomebodyCounted
      <4> QED BY <1>1, <2>1, <4>1, Zenon DEF Wakes
    <3> QED BY <1>1, <1>2, <2>1, <3>1, ReadersRest, Zenon
  <2>2. CASE broadcast(pub.g) /\ UNCHANGED trailing
    BY <1>1, <1>2, <1>3, <2>2, BroadcastStep, Zenon
  <2>3. CASE trailing' = [trailing EXCEPT ![pub.g] = TRUE] /\ UNCHANGED rd
    <3>1. /\ trailing' \in [Gens -> BOOLEAN] /\ trailing'[pub.g]
          /\ \A g \in Gens : g # pub.g => trailing'[g] = trailing[g]
      BY <1>2, <1>3, <2>3
    <3>2. ASSUME NEW r \in Readers, rd[r].pc \in Counted PROVE Wakes(rd[r]) => Wakes(rd[r])'
      <4>1. rd[r].g \in Gens
        BY <3>2, OfStreamer
      <4> QED BY <1>1, <2>3, <3>1, <4>1, Zenon DEF Wakes
    <3> QED BY <1>1, <1>2, <2>3, <3>1, <3>2, ReadersRest, Zenon
  <2> QED BY <2>1, <2>2, <2>3 DEF PublishWake
<1> QED BY <1>1, <1>2, <1>4, WakeStep, Zenon

\* liveWaker.fire: the deferred wake is delivered.
LEMMA WakerFiresStep ==
  ASSUME IInv, NEW g \in Gens, WakerFires(g)
  PROVE IInv'
<1>1. /\ trailing' = [trailing EXCEPT ![g] = FALSE] /\ broadcast(g)
      /\ log' = log /\ fin' = fin /\ deleted' = deleted /\ cur' = cur /\ gen' = gen
      /\ tail' = tail /\ closed' = closed /\ cache' = cache /\ stop' = stop /\ pub' = pub
      /\ got' = got /\ skipped' = skipped
  BY DEF WakerFires
<1>2. trailing \in [Gens -> BOOLEAN] /\ stop \in [Gens -> BOOLEAN]
  BY DEF IInv, TypeOK
<1>3. /\ trailing' \in [Gens -> BOOLEAN]
      /\ \A h \in Gens : h # g => trailing'[h] = trailing[h]
  BY <1>1, <1>2
<1>4. Reads' /\ rd' \in [Readers -> Reading]
  BY <1>1, <1>3, BroadcastStep, Zenon
<1> QED BY <1>1, <1>2, <1>3, <1>4, WakeStep, Zenon

\* tryRetire stops the waker of a streamer nobody is counted on.
LEMMA RetireStep ==
  ASSUME IInv, Retire
  PROVE IInv'
<1>1. /\ trailing' = [trailing EXCEPT ![cur] = FALSE] /\ totalReaders(cur) = 0 /\ cur' = 0
      /\ log' = log /\ fin' = fin /\ deleted' = deleted /\ gen' = gen
      /\ tail' = tail /\ closed' = closed /\ cache' = cache /\ stop' = stop /\ pub' = pub
      /\ rd' = rd /\ got' = got /\ skipped' = skipped
  BY DEF Retire
<1>2. /\ trailing \in [Gens -> BOOLEAN] /\ stop \in [Gens -> BOOLEAN] /\ log \in Nat
      /\ gen \in Nat /\ rd \in [Readers -> Reading] /\ log <= log /\ gen <= gen
  BY LiveReadAssumption, Shapes DEF IInv
<1>3. /\ trailing' \in [Gens -> BOOLEAN]
      /\ \A h \in Gens : h # cur => trailing'[h] = trailing[h]
  BY <1>1, <1>2, Zenon
<1>4. ASSUME NEW r \in Readers, rd[r].pc \in Counted PROVE Wakes(rd[r]) => Wakes(rd[r])'
  <2>1. rd[r].g # cur /\ rd[r].g \in Gens
    BY <1>1, <1>4, SomebodyCounted, OfStreamer
  <2> QED BY <1>1, <1>3, <2>1, Zenon DEF Wakes
<1>5. Reads'
  BY <1>1, <1>2, <1>4, ReadersRest, Zenon
<1> QED BY <1>1, <1>2, <1>3, <1>5, WakeStep, Zenon

\* Delete stops the waker and the readers see the streamer stopped instead.
LEMMA DeleteStep ==
  ASSUME IInv, Delete
  PROVE IInv'
<1>1. /\ deleted' = TRUE /\ cur' = 0
      /\ stop' = [g \in Gens |-> stop[g] \/ g = cur]
      /\ trailing' = [g \in Gens |-> trailing[g] /\ g # cur]
      /\ log' = log /\ fin' = fin /\ gen' = gen /\ tail' = tail /\ closed' = closed
      /\ cache' = cache /\ pub' = pub /\ rd' = rd /\ got' = got /\ skipped' = skipped
  BY DEF Delete
<1>2. /\ trailing \in [Gens -> BOOLEAN] /\ stop \in [Gens -> BOOLEAN] /\ log \in Nat
      /\ gen \in Nat /\ 0 \in 0..MaxGen /\ 0 \in 0..gen /\ log <= log /\ gen <= gen
  BY LiveReadAssumption, Shapes DEF IInv
<1>3. stop' \in [Gens -> BOOLEAN] /\ trailing' \in [Gens -> BOOLEAN]
  <2>1. \A g \in Gens : (stop[g] \/ g = cur) \in BOOLEAN /\ (trailing[g] /\ g # cur) \in BOOLEAN
    BY Zenon
  <2> QED BY <1>1, <2>1, Zenon
<1>4. ASSUME NEW r \in Readers, rd[r].pc \in Counted PROVE Wakes(rd[r]) => Wakes(rd[r])'
  <2>1. rd[r].g \in Gens
    BY <1>4, OfStreamer
  <2> QED BY <1>1, <2>1, Zenon DEF Wakes
<1>5. Reads'
  BY <1>1, <1>2, <1>4, ReadersRest, Zenon
<1>6. TypeOK'
  BY <1>1, <1>2, <1>3, Zenon DEF IInv, TypeOK
<1>7. Spawned' /\ Windows'
  BY <1>1, <1>2 DEF IInv, Spawned, Windows, Window
<1> QED BY <1>5, <1>6, <1>7 DEF IInv

-----------------------------------------------------------------------------
(* The theorems. *)

\* No streamer, no record, every reader at the start.
LEMMA InitInv == Init => IInv
<1> SUFFICES ASSUME Init PROVE IInv OBVIOUS
<1>1. 0 \in 0..MaxLog /\ 0 \in 0..MaxGen /\ FALSE \in BOOLEAN /\ 0 \in Nat
  BY LiveReadAssumption
<1>2. << >> \in Seq(Cached) /\ << >> \in Seq(0..MaxLog) /\ Window(<< >>)
  BY DEF Window
<1>3. "out" \in Pcs
  BY DEF Pcs
<1>4. NewReader(0) \in Reading /\ NewReader(0).pc = "out" /\ NewReader(0).pos = 0
  <2>1. NewReader(0) \in Reading
    BY <1>1, <1>3, AtReading, Zenon DEF NewReader
  <2> QED BY <2>1 DEF NewReader, At
<1>5. TypeOK
  <2>1. /\ rd \in [Readers -> Reading] /\ got \in [Readers -> Seq(0..MaxLog)]
        /\ skipped \in [Readers -> SUBSET (0..MaxLog)]
    BY <1>2, <1>4 DEF Init
  <2>2. cache \in [Gens -> Seq(Cached)] /\ pub \in Publication
    BY <1>2, AtRest DEF Init
  <2> QED BY <1>1, <2>1, <2>2, Shapes, Zenon DEF Init
<1>6. Spawned
  BY <1>1, AtRest DEF Init, Spawned
<1>7. Windows
  BY <1>2 DEF Init, Windows
<1>8. Reads
  <2> SUFFICES ASSUME NEW r \in Readers
               PROVE Honest(rd[r]) /\ Current(rd[r])
    BY DEF Reads
  <2>1. rd[r].pc = "out" /\ rd[r].pos = 0 /\ log = 0
    BY <1>4 DEF Init
  <2> QED BY <2>1 DEF Honest, Current, Counted
<1> QED BY <1>5, <1>6, <1>7, <1>8 DEF IInv

\* Every step keeps the invariant.
LEMMA NextInv == IInv /\ [Next]_vars => IInv'
<1> SUFFICES ASSUME IInv, [Next]_vars PROVE IInv'
  OBVIOUS
<1>1. CASE Spawn
  BY <1>1, SpawnStep
<1>2. CASE \E n \in 0..2, close \in BOOLEAN : Burst(n, close)
  BY <1>2, BurstStep
<1>3. CASE Publish
  BY <1>3, PublishCacheStep, PublishTailStep, PublishClosedStep, PublishWakeStep DEF Publish
<1>4. CASE \E g \in Gens : WakerFires(g)
  BY <1>4, WakerFiresStep
<1>5. CASE Retire
  BY <1>5, RetireStep
<1>6. CASE Delete
  BY <1>6, DeleteStep
<1>7. CASE \E r \in Readers : ReaderStep(r) \/ Timeout(r) \/ Leave(r)
  BY <1>7, AttachStep, CountStep, LoadChanStep, LoadTailStep, LoadClosedStep, ReadStep,
     ServeStep, WakeupStep, TimeoutStep, LeaveStep, ZenonT(30) DEF ReaderStep
<1>8. CASE UNCHANGED vars
  <2>1. TypeOK' /\ Spawned' /\ Windows'
    BY <1>8, ZenonT(30) DEF vars, IInv, TypeOK, Spawned, Windows, Window
  <2>2. \A r \in Readers : Wakes(rd[r]) => Wakes(rd[r])'
    BY <1>8, Zenon DEF vars, Wakes
  <2>3. log' \in Nat /\ gen' \in Nat /\ log <= log' /\ gen <= gen'
    BY <1>8, LiveReadAssumption DEF vars, IInv, TypeOK
  <2>4. rd' = rd /\ tail' = tail /\ closed' = closed
    BY <1>8 DEF vars
  <2>5. Reads'
    BY <2>2, <2>3, <2>4, ReadersRest, Zenon
  <2> QED BY <2>1, <2>5 DEF IInv
<1> QED BY <1>1, <1>2, <1>3, <1>4, <1>5, <1>6, <1>7, <1>8 DEF Next

\* The invariant holds throughout.
LEMMA Invariance == Spec => []IInv
<1>1. Init => IInv
  BY InitInv
<1>2. IInv /\ [Next]_vars => IInv'
  BY NextInv
<1> QED BY <1>1, <1>2, PTL DEF Spec

-----------------------------------------------------------------------------
(* Deliveries. *)

\* The resident streamer is the one that publishes, and it has the largest tail.
Front ==
  /\ deleted => cur = 0
  /\ pub.pc # "idle" => deleted \/ pub.g = cur
  /\ cur # 0 => \A g \in Gens : tail[g] <= tail[cur]

\* No reader is ahead of the streamer it reads from, or of the resident one.
Level(x) ==
  /\ cur # 0 => x.pos <= tail[cur]
  /\ x.pc \in Counted \cup {"attached"} => x.pos <= tail[x.g]
  /\ x.pc \in {"tail", "closed"} => x.tail <= tail[x.g]
  /\ x.pc = "read" => x.next <= tail[x.g]

\* The payloads s are the records below n without those of k, in order.
Handed(s, k, n) ==
  /\ \A i \in 1..Len(s) : \A j \in 1..(i - 1) : s[j] < s[i]
  /\ {s[i] : i \in 1..Len(s)} = (0..(n - 1)) \ k
  /\ k \subseteq 0..(n - 1)

\* With IInv, the inductive invariant behind InOrderDelivery.
Levels == \A r \in Readers : Level(rd[r])
Hands == \A r \in Readers : /\ Handed(got[r], skipped[r], rd[r].pos)
                            /\ Kind[r] # "poll" => skipped[r] = {}
BInv == Front /\ Levels /\ Hands

\* The records from pos to n are handed over.
LEMMA HandMore ==
  ASSUME NEW pos \in Nat, NEW n \in Nat, pos <= n, NEW s \in Seq(0..MaxLog), NEW k,
         NEW b \in Seq(0..MaxLog), b = [i \in 1..(n - pos) |-> pos + i - 1], Handed(s, k, pos)
  PROVE Handed(s \o b, k, n)
<1> DEFINE t == s \o b
           L == Len(s)
           d == n - pos
<1>1. L \in Nat /\ d \in Nat /\ Len(b) = d /\ \A i \in 1..d : b[i] = pos + i - 1
  OBVIOUS
<1>2. /\ Len(t) = L + d /\ \A i \in 1..L : t[i] = s[i]
      /\ \A i \in 1..d : t[L + i] = pos + i - 1
  BY <1>1
<1>3. \A i \in 1..L : s[i] \in 0..(pos - 1) /\ s[i] \notin k /\ s[i] \in Int
  BY DEF Handed
<1>4. \A i \in 1..L : \A j \in 1..(i - 1) : s[j] < s[i]
  BY DEF Handed
<1> HIDE DEF t, L, d
<1>5. \A i \in 1..(L + d) : i \in 1..L \/ (i - L \in 1..d /\ i = L + (i - L))
  BY <1>1
<1>6. \A i \in 1..(L + d) : i \notin 1..L => t[i] = pos + (i - L) - 1
  BY <1>1, <1>2, <1>5
<1>7. ASSUME NEW i \in 1..(L + d), NEW j \in 1..(i - 1) PROVE t[j] < t[i]
  <2>1. j \in 1..(L + d) /\ i \in Int /\ j \in Int /\ j < i
    BY <1>1
  <2>2. CASE i \in 1..L
    <3>1. j \in 1..L
      BY <1>1, <2>1, <2>2
    <3> QED BY <1>2, <1>4, <2>2, <3>1, Zenon
  <2>3. CASE i \notin 1..L /\ j \in 1..L
    <3>1. t[i] = pos + (i - L) - 1 /\ t[j] = s[j] /\ s[j] \in 0..(pos - 1) /\ i - L \in 1..d
      BY <1>2, <1>3, <1>5, <1>6, <2>3, Zenon
    <3> QED BY <1>1, <2>1, <3>1
  <2>4. CASE i \notin 1..L /\ j \notin 1..L
    <3>1. t[i] = pos + (i - L) - 1 /\ t[j] = pos + (j - L) - 1
      BY <1>6, <2>1, <2>4, Zenon
    <3> QED BY <1>1, <2>1, <3>1
  <2> QED BY <2>2, <2>3, <2>4
<1>8. \A i \in 1..(L + d) : t[i] \in (0..(n - 1)) \ k
  <2> SUFFICES ASSUME NEW i \in 1..(L + d) PROVE t[i] \in (0..(n - 1)) \ k
    BY Zenon
  <2>1. CASE i \in 1..L
    <3>1. t[i] \in 0..(pos - 1) /\ t[i] \notin k
      BY <1>2, <1>3, <2>1, Zenon
    <3> QED BY <3>1
  <2>2. CASE i \notin 1..L
    <3>1. t[i] = pos + (i - L) - 1 /\ i - L \in 1..d
      BY <1>5, <1>6, <2>2, Zenon
    <3>2. t[i] \in 0..(n - 1) /\ t[i] \notin 0..(pos - 1)
      BY <1>1, <3>1 DEF d
    <3> QED BY <3>2 DEF Handed
  <2> QED BY <2>1, <2>2
<1>9. ASSUME NEW v \in (0..(n - 1)) \ k PROVE \E i \in 1..(L + d) : t[i] = v
  <2>1. CASE v < pos
    <3>1. v \in (0..(pos - 1)) \ k
      BY <2>1
    <3>2. PICK i \in 1..L : s[i] = v
      BY <3>1 DEF Handed, L
    <3>3. i \in 1..(L + d) /\ t[i] = s[i]
      BY <1>1, <1>2
    <3> QED BY <3>2, <3>3, Zenon
  <2>2. CASE ~(v < pos)
    <3>1. v - pos + 1 \in 1..d /\ L + (v - pos + 1) \in 1..(L + d)
      BY <1>1, <2>2 DEF d
    <3>2. t[L + (v - pos + 1)] = pos + (v - pos + 1) - 1
      BY <1>2, <3>1, Zenon
    <3>3. pos + (v - pos + 1) - 1 = v
      OBVIOUS
    <3> QED BY <3>1, <3>2, <3>3, Zenon
  <2> QED BY <2>1, <2>2
<1>10. k \subseteq 0..(n - 1)
  BY DEF Handed
<1>11. {t[i] : i \in 1..(L + d)} = (0..(n - 1)) \ k
  BY <1>8, <1>9, Zenon
<1> QED BY <1>2, <1>7, <1>10, <1>11, Zenon DEF Handed, t

\* The client is told to resume behind n.
LEMMA HandSkip ==
  ASSUME NEW pos \in Nat, NEW n \in Nat, pos <= n, NEW s, NEW k, Handed(s, k, pos)
  PROVE Handed(s, k \cup pos..(n - 1), n)
<1>1. (0..(n - 1)) \ (k \cup pos..(n - 1)) = (0..(pos - 1)) \ k
  OBVIOUS
<1>2. k \cup pos..(n - 1) \subseteq 0..(n - 1)
  BY DEF Handed
<1> QED BY <1>1, <1>2, Zenon DEF Handed

\* A step in which only one reader moves, to x.
LEMMA LevelMoves ==
  ASSUME IInv, BInv, NEW r \in Readers, \A q \in Readers : q # r => rd'[q] = rd[q],
         NEW x, rd'[r] = x, Level(x), UNCHANGED <<deleted, cur, tail, pub>>
  PROVE Front' /\ Levels'
<1>1. Front'
  BY DEF BInv, Front
<1>2. \A q \in Readers : Level(rd'[q])
  BY Zenon DEF BInv, Levels
<1> QED BY <1>1, <1>2 DEF Levels, Level

\* A step in which no reader moves, and tails only grow.
LEMMA LevelRests ==
  ASSUME IInv, BInv, NEW r \in Readers, tail' \in [Gens -> 0..MaxLog],
         \A g \in Gens : tail[g] <= tail'[g], cur' \in 0..MaxGen,
         rd'[r].pc = rd[r].pc, rd'[r].g = rd[r].g, rd'[r].pos = rd[r].pos,
         rd'[r].tail = rd[r].tail, rd'[r].next = rd[r].next,
         cur' = 0 \/ cur' = cur \/ tail'[cur'] = log
  PROVE Level(rd[r])'
<1>1. /\ rd[r] \in Reading /\ Honest(rd[r]) /\ Level(rd[r])
      /\ cur \in 0..MaxGen /\ gen \in 0..MaxGen /\ tail \in [Gens -> 0..MaxLog]
  BY Shapes, Zenon DEF IInv, BInv, Levels, Reads
<1>2. /\ rd[r].pos \in Nat /\ rd[r].tail \in Nat /\ rd[r].next \in Nat
  BY <1>1, ReadingFields
<1>3. \A g \in Gens : tail[g] \in Nat /\ tail'[g] \in Nat
  BY <1>1, LiveReadAssumption
<1>4. \A a, b, c \in Nat : a <= b /\ b <= c => a <= c
  OBVIOUS
<1>5. rd[r].pc \in Counted \cup {"attached"} => rd[r].g \in Gens
  <2>1. \A g \in 1..gen : g \in Gens
    BY <1>1, LiveReadAssumption DEF Gens
  <2> QED BY <1>1, <2>1, Zenon DEF Honest
<1>6. rd[r].pc \in {"tail", "closed", "read"} => rd[r].pc \in Counted
  BY DEF Counted
<1>7. cur' # 0 => rd[r].pos <= tail'[cur']
  <2>1. CASE cur' = cur /\ cur # 0
    <3>1. cur \in Gens
      BY <1>1, <2>1 DEF Gens
    <3> QED BY <1>1, <1>2, <1>3, <1>4, <2>1, <3>1, Zenon DEF Level
  <2>2. CASE tail'[cur'] = log
    BY <1>1, <2>2, Zenon DEF Honest
  <2> QED BY <2>1, <2>2, Zenon
<1>8. /\ rd[r].pc \in Counted \cup {"attached"} => rd[r].pos <= tail'[rd[r].g]
      /\ rd[r].pc \in {"tail", "closed"} => rd[r].tail <= tail'[rd[r].g]
      /\ rd[r].pc = "read" => rd[r].next <= tail'[rd[r].g]
  <2>1. ASSUME rd[r].g \in Gens, NEW n \in Nat, n <= tail[rd[r].g] PROVE n <= tail'[rd[r].g]
    BY <1>3, <1>4, <2>1, Zenon
  <2>2. rd[r].pc \in Counted \cup {"attached"} => rd[r].pos <= tail'[rd[r].g]
    BY <1>1, <1>2, <1>5, <2>1, Zenon DEF Level
  <2>3. rd[r].pc \in {"tail", "closed"} => rd[r].tail <= tail'[rd[r].g]
    BY <1>1, <1>2, <1>5, <1>6, <2>1, Zenon DEF Level
  <2>4. rd[r].pc = "read" => rd[r].next <= tail'[rd[r].g]
    BY <1>1, <1>2, <1>5, <1>6, <2>1, Zenon DEF Level
  <2> QED BY <2>2, <2>3, <2>4
<1> QED BY <1>7, <1>8, Zenon DEF Level

\* The steps of the streamers that move no reader.
LEMMA StreamerLevels ==
  ASSUME IInv, BInv, IInv', \A r \in Readers : /\ rd'[r].pc = rd[r].pc /\ rd'[r].g = rd[r].g
                                               /\ rd'[r].pos = rd[r].pos /\ rd'[r].tail = rd[r].tail
                                               /\ rd'[r].next = rd[r].next,
         \A g \in Gens : tail[g] <= tail'[g], UNCHANGED <<got, skipped>>, Front',
         cur' = 0 \/ cur' = cur \/ tail'[cur'] = log
  PROVE BInv'
<1>1. tail' \in [Gens -> 0..MaxLog] /\ cur' \in 0..MaxGen
  BY Zenon DEF IInv, TypeOK
<1>2. Levels'
  BY <1>1, LevelRests, Zenon DEF Levels
<1>3. Hands'
  BY Zenon DEF BInv, Hands
<1> QED BY <1>2, <1>3 DEF BInv

\* Tails, and what broadcast leaves alone.
LEMMA TailNumbers ==
  ASSUME IInv
  PROVE \A g \in Gens : tail[g] \in Nat /\ tail[g] <= tail[g] /\ tail[g] <= log
BY LiveReadAssumption DEF IInv, TypeOK, Spawned

LEMMA BroadcastKeeps ==
  ASSUME IInv, NEW g, broadcast(g), NEW r \in Readers
  PROVE /\ rd'[r].pc = rd[r].pc /\ rd'[r].g = rd[r].g /\ rd'[r].pos = rd[r].pos
        /\ rd'[r].tail = rd[r].tail /\ rd'[r].next = rd[r].next
<1> DEFINE w == rd[r].woken \/ (rd[r].g = g /\ rd[r].pc \in Counted \ {"loop"})
<1>1. rd[r] \in Reading
  BY Shapes DEF IInv
<1>2. rd[r] = State(rd[r].pc, rd[r].g, rd[r].pos, rd[r].woken, rd[r].tail,
                    rd[r].closed, rd[r].next, rd[r].body)
  BY <1>1, ReadingFields, Zenon
<1>3. rd'[r] = [rd[r] EXCEPT !.woken = w]
  BY DEF broadcast
<1> HIDE DEF w
<1> QED BY <1>2, <1>3 DEF State

\* applyReader works for the resident streamer unless the stream is deleted.
LEMMA PublisherResident ==
  ASSUME IInv, BInv, pub.pc # "idle"
  PROVE (cur # 0 => pub.g = cur) /\ (~deleted => cur # 0)
<1>1. pub.g \in Gens
  BY Publishing
<1>2. pub.g # 0
  BY <1>1 DEF Gens
<1> QED BY <1>2, Zenon DEF BInv, Front

\* Every step of the streamers keeps the readers level.
LEMMA StreamerDelivers ==
  ASSUME IInv, BInv, IInv',
         \/ Spawn \/ \E n \in 0..2, close \in BOOLEAN : Burst(n, close)
         \/ Publish \/ \E g \in Gens : WakerFires(g)
         \/ Retire \/ Delete
  PROVE BInv'
<1>1. CASE Spawn
  <2>1. /\ cur = 0 /\ ~deleted /\ gen < MaxGen /\ cur' = gen + 1 /\ log' = log
        /\ tail' = [tail EXCEPT ![gen + 1] = log]
        /\ UNCHANGED <<deleted, pub, rd, got, skipped>>
    BY <1>1 DEF Spawn
  <2>2. pub.pc = "idle"
    BY <2>1, PublisherResident, Zenon
  <2>3. gen + 1 \in Gens /\ tail \in [Gens -> 0..MaxLog] /\ log \in Nat
    BY <2>1, LiveReadAssumption DEF IInv, TypeOK, Gens
  <2>4. /\ tail'[gen + 1] = log /\ \A g \in Gens : g # gen + 1 => tail'[g] = tail[g]
    BY <2>1, <2>3, Zenon
  <2>5. \A g \in Gens : tail[g] <= tail'[g] /\ tail'[g] <= log
    BY <2>3, <2>4, TailNumbers
  <2>6. Front'
    BY <2>1, <2>2, <2>4, <2>5, Zenon DEF Front
  <2> QED BY <2>1, <2>4, <2>5, <2>6, StreamerLevels, Zenon
<1>2. ASSUME NEW n \in 0..2, NEW close \in BOOLEAN, Burst(n, close) PROVE BInv'
  <2>1. /\ pub'.g = cur /\ UNCHANGED <<deleted, cur, tail, rd, got, skipped>>
    BY <1>2 DEF Burst, Streamers
  <2>2. Front'
    BY <2>1, Zenon DEF BInv, Front
  <2> QED BY <2>1, <2>2, StreamerLevels, TailNumbers, Zenon
<1>3. CASE PublishCache \/ PublishClosed
  <2>1. /\ UNCHANGED <<deleted, cur, tail, rd, got, skipped>> /\ pub.pc # "idle" /\ pub'.g = pub.g
    BY <1>3, Advance DEF PublishCache, PublishClosed
  <2>2. Front'
    BY <2>1, Zenon DEF BInv, Front
  <2> QED BY <2>1, <2>2, StreamerLevels, TailNumbers, Zenon
<1>4. CASE PublishTail
  <2>1. /\ UNCHANGED <<log, deleted, cur, rd, got, skipped>> /\ pub.pc # "idle" /\ pub'.g = pub.g
        /\ tail' = [tail EXCEPT ![pub.g] = pub.base + pub.n]
    BY <1>4, Advance DEF PublishTail
  <2>2. pub.g \in Gens /\ pub.base + pub.n = log /\ tail \in [Gens -> 0..MaxLog]
    BY <2>1, Publishing DEF IInv, TypeOK
  <2>3. log \in Nat
    BY LiveReadAssumption DEF IInv, TypeOK
  <2>4. tail'[pub.g] = log /\ \A g \in Gens : g # pub.g => tail'[g] = tail[g]
    BY <2>1, <2>2, Zenon
  <2>5. \A g \in Gens : tail[g] <= tail'[g] /\ tail'[g] <= log
    BY <2>3, <2>4, TailNumbers
  <2>6. Front'
    BY <2>1, <2>4, <2>5, PublisherResident, Zenon DEF BInv, Front
  <2> QED BY <2>1, <2>5, <2>6, StreamerLevels, Zenon
<1>5. CASE PublishWake \/ \E g \in Gens : WakerFires(g)
  <2>1. /\ UNCHANGED <<deleted, cur, tail, got, skipped>>
        /\ pub' = pub \/ pub' = NoPub
        /\ rd' = rd \/ \E g : broadcast(g)
    BY <1>5 DEF PublishWake, WakerFires
  <2>2. \A r \in Readers : /\ rd'[r].pc = rd[r].pc /\ rd'[r].g = rd[r].g
                           /\ rd'[r].pos = rd[r].pos /\ rd'[r].tail = rd[r].tail
                           /\ rd'[r].next = rd[r].next
    BY <2>1, BroadcastKeeps, Zenon
  <2>3. Front'
    BY <2>1, AtRest, Zenon DEF BInv, Front
  <2> QED BY <2>1, <2>2, <2>3, StreamerLevels, TailNumbers, Zenon
<1>6. CASE Retire \/ Delete
  <2>1. /\ UNCHANGED <<tail, rd, got, skipped, pub>> /\ cur' = 0
        /\ deleted' = TRUE \/ pub.pc = "idle"
    BY <1>6 DEF Retire, Delete
  <2>2. Front'
    BY <2>1, Zenon DEF BInv, Front
  <2> QED BY <2>1, <2>2, StreamerLevels, TailNumbers, Zenon
<1> QED BY <1>1, <1>2, <1>3, <1>4, <1>5, <1>6 DEF Publish

\* A reader in state y after a load.
LEMMA Loads ==
  ASSUME NEW y \in Reading, NEW pc, NEW v, NEW b
  PROVE /\ LET x == [y EXCEPT !.pc = pc, !.g = v] IN
             x.pc = pc /\ x.g = v /\ x.pos = y.pos /\ x.tail = y.tail /\ x.next = y.next
        /\ LET x == [y EXCEPT !.pc = pc] IN
             x.pc = pc /\ x.g = y.g /\ x.pos = y.pos /\ x.tail = y.tail /\ x.next = y.next
        /\ LET x == [y EXCEPT !.pc = pc, !.tail = v] IN
             x.pc = pc /\ x.g = y.g /\ x.pos = y.pos /\ x.tail = v /\ x.next = y.next
        /\ LET x == [y EXCEPT !.pc = pc, !.closed = v] IN
             x.pc = pc /\ x.g = y.g /\ x.pos = y.pos /\ x.tail = y.tail /\ x.next = y.next
        /\ LET x == [y EXCEPT !.pc = pc, !.next = v, !.body = b] IN
             x.pc = pc /\ x.g = y.g /\ x.pos = y.pos /\ x.tail = y.tail /\ x.next = v
<1>1. y = [pc |-> y.pc, g |-> y.g, pos |-> y.pos, woken |-> y.woken, tail |-> y.tail,
           closed |-> y.closed, next |-> y.next, body |-> y.body]
  BY DEF Reading
<1>2. LET x == [y EXCEPT !.pc = pc, !.g = v] IN
        x.pc = pc /\ x.g = v /\ x.pos = y.pos /\ x.tail = y.tail /\ x.next = y.next
  BY <1>1
<1>3. LET x == [y EXCEPT !.pc = pc] IN
        x.pc = pc /\ x.g = y.g /\ x.pos = y.pos /\ x.tail = y.tail /\ x.next = y.next
  BY <1>1
<1>4. LET x == [y EXCEPT !.pc = pc, !.tail = v] IN
        x.pc = pc /\ x.g = y.g /\ x.pos = y.pos /\ x.tail = v /\ x.next = y.next
  BY <1>1
<1>5. LET x == [y EXCEPT !.pc = pc, !.closed = v] IN
        x.pc = pc /\ x.g = y.g /\ x.pos = y.pos /\ x.tail = y.tail /\ x.next = y.next
  BY <1>1
<1>6. LET x == [y EXCEPT !.pc = pc, !.next = v, !.body = b] IN
        x.pc = pc /\ x.g = y.g /\ x.pos = y.pos /\ x.tail = y.tail /\ x.next = v
  BY <1>1
<1> QED BY <1>2, <1>3, <1>4, <1>5, <1>6, Zenon

\* One reader moves to x and keeps its position.
LEMMA KeepsPosition ==
  ASSUME IInv, BInv, NEW r \in Readers, NEW x, rd' = [rd EXCEPT ![r] = x],
         x.pos = rd[r].pos,
         x.pc \in Counted \cup {"attached"} => x.pos <= tail[x.g],
         x.pc \in {"tail", "closed"} => x.tail <= tail[x.g],
         x.pc = "read" => x.next <= tail[x.g],
         UNCHANGED <<deleted, cur, tail, pub, got, skipped>>
  PROVE BInv'
<1>1. rd \in [Readers -> Reading]
  BY Shapes DEF IInv
<1>2. rd'[r] = x /\ \A q \in Readers : q # r => rd'[q] = rd[q]
  BY <1>1, Zenon
<1>3. Level(rd[r])
  BY DEF BInv, Levels
<1>4. Level(x)
  BY <1>3, Zenon DEF Level
<1>5. Front' /\ Levels'
  BY <1>2, <1>4, LevelMoves, Zenon
<1>6. \A q \in Readers : rd'[q].pos = rd[q].pos
  BY <1>2, Zenon
<1>7. Hands'
  BY <1>6, Zenon DEF BInv, Hands
<1> QED BY <1>5, <1>7 DEF BInv

\* A reader that holds a streamer is not ahead of it.
LEMMA Behind ==
  ASSUME IInv, BInv, NEW r \in Readers
  PROVE /\ rd[r] \in Reading
        /\ cur # 0 => rd[r].pos <= tail[cur]
        /\ rd[r].pc \in Counted \cup {"attached"} => rd[r].pos <= tail[rd[r].g]
        /\ rd[r].pc \in {"tail", "closed"} => rd[r].tail <= tail[rd[r].g]
        /\ rd[r].pc = "read" => rd[r].next <= tail[rd[r].g]
<1>1. rd[r] \in Reading
  BY Shapes DEF IInv
<1>2. Level(rd[r])
  BY DEF BInv, Levels
<1> QED BY <1>1, <1>2, Zenon DEF Level

\* A reader that starts over at its position.
LEMMA StartsOver ==
  ASSUME IInv, BInv, NEW r \in Readers, NEW pc \in {"loop", "eof", "gone", "park", "out"}, NEW g,
         NEW w, rd' = [rd EXCEPT ![r] = At(pc, g, rd[r].pos, w)],
         pc \in {"loop", "park"} => g = rd[r].g /\ rd[r].pc \in Counted \cup {"attached"},
         UNCHANGED <<deleted, cur, tail, pub, got, skipped>>
  PROVE BInv'
<1> DEFINE x == At(pc, g, rd[r].pos, w)
<1>1. x.pc = pc /\ x.g = g /\ x.pos = rd[r].pos
  BY DEF At
<1>2. rd' = [rd EXCEPT ![r] = x]
  OBVIOUS
<1> HIDE DEF x
<1>3. x.pc \in Counted \cup {"attached"} => x.pos <= tail[x.g]
  BY <1>1, Behind DEF Counted
<1>4. x.pc \notin {"tail", "closed", "read"}
  BY <1>1
<1> QED BY <1>1, <1>2, <1>3, <1>4, KeepsPosition, Zenon

\* The loads of a reader.
LEMMA LoadsLevel ==
  ASSUME IInv, BInv, NEW r \in Readers,
         Attach(r) \/ Count(r) \/ LoadChan(r) \/ LoadTail(r) \/ LoadClosed(r)
  PROVE BInv'
<1> DEFINE y == rd[r]
<1>1. UNCHANGED <<deleted, cur, tail, pub, got, skipped>>
  BY DEF Attach, Count, LoadChan, LoadTail, LoadClosed, Streamers
<1>2. CASE \E pc \in {"loop", "gone"} : Goto(r, pc) /\ (pc = "loop" => y.pc = "attached")
  <2>1. PICK pc \in {"loop", "gone"} : Goto(r, pc) /\ (pc = "loop" => y.pc = "attached")
    BY <1>2
  <2>2. rd' = [rd EXCEPT ![r] = At(pc, y.g, y.pos, FALSE)]
    BY <2>1, Zenon DEF Goto
  <2>3. pc \in {"loop", "eof", "gone", "park", "out"} /\ pc # "park"
    OBVIOUS
  <2>4. "attached" \in Counted \cup {"attached"}
    OBVIOUS
  <2> QED BY <1>1, <2>1, <2>2, <2>3, <2>4, StartsOver, Zenon
<1>3. CASE cur # 0 /\ rd' = [rd EXCEPT ![r].pc = "attached", ![r].g = cur]
  <2> DEFINE x == [y EXCEPT !.pc = "attached", !.g = cur]
  <2>1. rd' = [rd EXCEPT ![r] = x]
    BY <1>3, Zenon
  <2>2. x.pc = "attached" /\ x.g = cur /\ x.pos = y.pos
    BY Behind, Loads
  <2> HIDE DEF x
  <2>3. x.pos <= tail[x.g] /\ x.pc \notin {"tail", "closed", "read"}
    BY <1>3, <2>2, Behind
  <2> QED BY <1>1, <2>1, <2>2, <2>3, KeepsPosition, Zenon
<1>4. CASE LoadChan(r)
  <2> DEFINE x == [y EXCEPT !.pc = "chan"]
  <2>1. rd' = [rd EXCEPT ![r] = x] /\ y.pc = "loop"
    BY <1>4, Zenon DEF LoadChan
  <2>2. x.pc = "chan" /\ x.g = y.g /\ x.pos = y.pos
    BY Behind, Loads
  <2> HIDE DEF x
  <2>3. x.pos <= tail[x.g] /\ x.pc \notin {"tail", "closed", "read"}
    BY <2>1, <2>2, Behind DEF Counted
  <2> QED BY <1>1, <2>1, <2>2, <2>3, KeepsPosition, Zenon
<1>5. CASE LoadTail(r)
  <2> DEFINE x == [y EXCEPT !.pc = "tail", !.tail = tail[y.g]]
  <2>1. rd' = [rd EXCEPT ![r] = x] /\ y.pc = "chan"
    BY <1>5, Zenon DEF LoadTail
  <2>2. x.pc = "tail" /\ x.g = y.g /\ x.pos = y.pos /\ x.tail = tail[y.g]
    BY Behind, Loads
  <2> HIDE DEF x
  <2>3. y.g \in Gens
    BY <2>1, OfStreamer DEF Counted
  <2>4. x.tail <= tail[x.g]
    BY <2>2, <2>3, TailNumbers, Zenon
  <2>5. x.pos <= tail[x.g] /\ x.pc # "read"
    BY <2>1, <2>2, Behind DEF Counted
  <2> QED BY <1>1, <2>1, <2>2, <2>4, <2>5, KeepsPosition, Zenon
<1>6. CASE LoadClosed(r)
  <2> DEFINE x == [y EXCEPT !.pc = "closed", !.closed = closed[y.g]]
  <2>1. rd' = [rd EXCEPT ![r] = x] /\ y.pc = "tail"
    BY <1>6, Zenon DEF LoadClosed
  <2>2. x.pc = "closed" /\ x.g = y.g /\ x.pos = y.pos /\ x.tail = y.tail
    BY Behind, Loads
  <2> HIDE DEF x
  <2>3. x.tail <= tail[x.g]
    BY <2>1, <2>2, Behind
  <2>4. x.pos <= tail[x.g] /\ x.pc # "read"
    BY <2>1, <2>2, Behind DEF Counted
  <2> QED BY <1>1, <2>1, <2>2, <2>3, <2>4, KeepsPosition, Zenon
<1>7. CASE Attach(r)
  BY <1>2, <1>3, <1>7 DEF Attach
<1>8. CASE Count(r)
  BY <1>2, <1>8 DEF Count
<1> QED BY <1>4, <1>5, <1>6, <1>7, <1>8

\* The read goes no further than the tail that was loaded.
LEMMA ReadLevel ==
  ASSUME IInv, BInv, NEW r \in Readers, Read(r)
  PROVE BInv'
<1> DEFINE y == rd[r]
           hit == cacheHit(cache[y.g], y.pos, y.tail)
           stored == IF y.pos >= y.tail THEN y.pos ELSE Min(y.tail, y.pos + MaxRead)
           n == IF hit THEN y.tail ELSE stored
           b == IF hit THEN cachePayloads(cache[y.g], y.pos, y.tail)
                ELSE [i \in 1..(stored - y.pos) |-> y.pos + i - 1]
           x == [y EXCEPT !.pc = "read", !.next = n, !.body = b]
<1>1. UNCHANGED <<deleted, cur, tail, pub, got, skipped>> /\ y.pc = "closed"
  BY DEF Read, Streamers
<1>2. rd' = [rd EXCEPT ![r] = x]
  BY Zenon DEF Read
<1>3. y.pos \in Nat /\ y.tail \in Nat /\ MaxRead \in Nat
  BY Behind, ReadingFields, LiveReadAssumption
<1>4. n = y.tail \/ n = y.pos \/ (n \in Nat /\ n <= y.tail)
  <2>1. stored = y.pos \/ (stored \in Nat /\ stored <= y.tail)
    BY <1>3 DEF Min
  <2> HIDE DEF hit, stored
  <2> QED BY <2>1, Zenon
<1> HIDE DEF n, b
<1>5. x.pc = "read" /\ x.g = y.g /\ x.pos = y.pos /\ x.next = n
  BY Behind, Loads
<1> HIDE DEF x
<1>6. y.pos <= tail[y.g] /\ y.tail <= tail[y.g]
  BY <1>1, Behind DEF Counted
<1>7. y.g \in Gens
  BY <1>1, OfStreamer DEF Counted
<1>8. tail[y.g] \in Nat
  BY <1>7, TailNumbers, Zenon
<1>9. n <= tail[y.g]
  BY <1>3, <1>4, <1>6, <1>8
<1> QED BY <1>1, <1>2, <1>5, <1>6, <1>9, KeepsPosition, Zenon

\* One reader moves to x, and its client's records and gaps become s and k.
LEMMA Resumes ==
  ASSUME IInv, BInv, NEW r \in Readers, NEW x, NEW s, NEW k, rd' = [rd EXCEPT ![r] = x],
         got' = [got EXCEPT ![r] = s], skipped' = [skipped EXCEPT ![r] = k],
         Level(x), Handed(s, k, x.pos), Kind[r] # "poll" => k = {},
         UNCHANGED <<deleted, cur, tail, pub>>
  PROVE BInv'
<1>1. /\ rd \in [Readers -> Reading] /\ got \in [Readers -> Seq(0..MaxLog)]
      /\ skipped \in [Readers -> SUBSET (0..MaxLog)]
  BY Shapes DEF IInv
<1>2. /\ rd'[r] = x /\ got'[r] = s /\ skipped'[r] = k
      /\ \A q \in Readers : q # r => rd'[q] = rd[q] /\ got'[q] = got[q] /\ skipped'[q] = skipped[q]
  BY <1>1, Zenon
<1>3. Front' /\ Levels'
  BY <1>2, LevelMoves, Zenon
<1>4. Hands'
  BY <1>2, Zenon DEF BInv, Hands
<1> QED BY <1>3, <1>4 DEF BInv

\* Serve with a delivery: the reader moves past the records it was handed.
LEMMA DeliverHands ==
  ASSUME IInv, BInv, NEW r \in Readers, NEW pc \in {"eof", "loop", "out", "attached"},
         rd[r].pc = "read", got' = [got EXCEPT ![r] = @ \o rd[r].body],
         rd' = [rd EXCEPT ![r] = At(pc, IF pc = "out" THEN 0 ELSE rd[r].g, rd[r].next, FALSE)],
         UNCHANGED <<deleted, cur, tail, pub, skipped>>
  PROVE BInv'
<1> DEFINE y == rd[r]
           g == IF pc = "out" THEN 0 ELSE y.g
           x == At(pc, g, y.next, FALSE)
<1>1. y \in Reading /\ Honest(y) /\ y.g \in Gens /\ y.next <= tail[y.g]
  BY Behind, OfStreamer DEF IInv, Reads, Counted
<1>2. /\ y.pos \in Nat /\ y.next \in Nat /\ y.body \in Seq(0..MaxLog) /\ y.pos <= y.next
      /\ y.body = [i \in 1..(y.next - y.pos) |-> y.pos + i - 1]
  BY <1>1, ReadingFields DEF Honest
<1>3. /\ got[r] \in Seq(0..MaxLog) /\ Handed(got[r], skipped[r], y.pos)
      /\ Kind[r] # "poll" => skipped[r] = {}
  BY Shapes, Zenon DEF IInv, BInv, Hands
<1>4. Handed(got[r] \o y.body, skipped[r], y.next)
  BY <1>2, <1>3, HandMore, Zenon
<1>5. x.pc = pc /\ x.g = g /\ x.pos = y.next
  BY DEF At
<1>6. cur # 0 => y.next <= tail[cur]
  <2>1. cur # 0 => cur \in Gens
    BY DEF IInv, TypeOK, Gens
  <2>2. cur # 0 => tail[y.g] <= tail[cur]
    BY <1>1, Zenon DEF BInv, Front
  <2>3. \A a, b, c \in Nat : a <= b /\ b <= c => a <= c
    OBVIOUS
  <2> QED BY <1>1, <1>2, <2>1, <2>2, <2>3, TailNumbers, Zenon
<1>7. rd' = [rd EXCEPT ![r] = x]
  OBVIOUS
<1> HIDE DEF x
<1>8. Level(x)
  BY <1>1, <1>5, <1>6 DEF Level, Counted
<1> DEFINE s == got[r] \o y.body
           k == skipped[r]
<1>9. got' = [got EXCEPT ![r] = s] /\ skipped' = [skipped EXCEPT ![r] = k]
  BY Shapes, Zenon DEF IInv
<1>10. UNCHANGED <<deleted, cur, tail, pub>> /\ Handed(s, k, x.pos)
  BY <1>4, <1>5
<1>11. Kind[r] # "poll" => k = {}
  BY <1>3
<1> HIDE DEF s, k
<1> QED BY <1>7, <1>8, <1>9, <1>10, <1>11, Resumes, Zenon

\* Serve: the stopped check, then delivery, end of stream, or parking.
LEMMA ServeHands ==
  ASSUME IInv, BInv, NEW r \in Readers, Serve(r)
  PROVE BInv'
<1> DEFINE y == rd[r]
<1>1. UNCHANGED <<deleted, cur, tail, pub, skipped>> /\ y.pc = "read"
  BY DEF Serve, Streamers
<1>2. y.pc \in Counted \cup {"attached"}
  BY <1>1 DEF Counted
<1>3. CASE \E pc \in {"gone", "eof"} : Goto(r, pc) /\ UNCHANGED got
  <2>1. PICK pc \in {"gone", "eof"} : Goto(r, pc) /\ UNCHANGED got
    BY <1>3
  <2>2. rd' = [rd EXCEPT ![r] = At(pc, y.g, y.pos, FALSE)]
    BY <2>1, Zenon DEF Goto
  <2>3. pc \in {"loop", "eof", "gone", "park", "out"} /\ pc \notin {"loop", "park"}
    OBVIOUS
  <2> QED BY <1>1, <2>1, <2>2, <2>3, StartsOver, Zenon
<1>4. CASE Park(r) /\ UNCHANGED got
  <2>1. rd' = [rd EXCEPT ![r] = At("park", y.g, y.pos, y.woken)]
    BY <1>4, Zenon DEF Park
  <2> QED BY <1>1, <1>2, <1>4, <2>1, StartsOver, Zenon
<1>5. CASE /\ got' = [got EXCEPT ![r] = @ \o y.body]
           /\ LET pc == AfterDelivery(r, y.closed /\ y.next = y.tail)
              IN rd' = [rd EXCEPT ![r] = At(pc, IF pc = "out" THEN 0 ELSE y.g, y.next, FALSE)]
  <2> DEFINE pc == AfterDelivery(r, y.closed /\ y.next = y.tail)
  <2>1. pc \in {"eof", "loop", "out", "attached"}
    BY DEF AfterDelivery
  <2> HIDE DEF pc
  <2> QED BY <1>1, <1>5, <2>1, DeliverHands, Zenon DEF pc
<1> QED BY <1>3, <1>4, <1>5, Zenon DEF Serve

\* Wakeup and Leave: the client goes on from where it is.
LEMMA GoesOn ==
  ASSUME IInv, BInv, NEW r \in Readers, Wakeup(r) \/ Leave(r)
  PROVE BInv'
<1> DEFINE y == rd[r]
<1>1. UNCHANGED <<deleted, cur, tail, pub, got, skipped>> /\ y.pc = "park"
  BY DEF Wakeup, Leave, Streamers
<1>2. y.pc \in Counted \cup {"attached"}
  BY <1>1 DEF Counted
<1>3. \/ rd' = [rd EXCEPT ![r] = At("loop", y.g, y.pos, FALSE)]
      \/ rd' = [rd EXCEPT ![r] = At("gone", y.g, y.pos, FALSE)]
      \/ rd' = [rd EXCEPT ![r] = At("out", 0, y.pos, FALSE)]
  BY Zenon DEF Wakeup, Leave, Goto, NewReader
<1>4. "gone" \notin {"loop", "park"} /\ "out" \notin {"loop", "park"}
  OBVIOUS
<1> QED BY <1>1, <1>2, <1>3, <1>4, StartsOver, Zenon

\* Timeout: the client resumes behind the records published since it looked.
LEMMA TimeoutSkips ==
  ASSUME IInv, BInv, NEW r \in Readers, Timeout(r)
  PROVE BInv'
<1> DEFINE y == rd[r]
           now == tail[y.g]
           k == skipped[r] \cup y.pos..(now - 1)
           x == At("out", 0, now, FALSE)
<1>1. /\ rd' = [rd EXCEPT ![r] = x] /\ skipped' = [skipped EXCEPT ![r] = k]
      /\ got' = got /\ Kind[r] = "poll" /\ y.pc = "park"
  BY Zenon DEF Timeout, NewReader
<1>2. UNCHANGED <<deleted, cur, tail, pub>>
  BY DEF Timeout, Streamers
<1>3. y \in Reading /\ y.g \in Gens /\ y.pos <= now
  BY <1>1, Behind, OfStreamer DEF Counted
<1>4. y.pos \in Nat /\ now \in Nat
  BY <1>3, ReadingFields, TailNumbers
<1>5. got \in [Readers -> Seq(0..MaxLog)] /\ Handed(got[r], skipped[r], y.pos)
  BY Shapes, Zenon DEF IInv, BInv, Hands
<1> HIDE DEF now
<1>6. Handed(got[r], k, now)
  BY <1>3, <1>4, <1>5, HandSkip, Zenon
<1>7. got' = [got EXCEPT ![r] = got[r]]
  BY <1>1, <1>5, Zenon
<1>8. x.pc = "out" /\ x.pos = now
  BY DEF At
<1>9. cur # 0 => now <= tail[cur]
  BY <1>3, Zenon DEF BInv, Front, now
<1> HIDE DEF x
<1>10. Level(x)
  BY <1>8, <1>9 DEF Level, Counted
<1> HIDE DEF k
<1> QED BY <1>1, <1>2, <1>6, <1>7, <1>8, <1>10, Resumes, Zenon

\* The initial states.
LEMMA InitLevel == Init => BInv
<1> SUFFICES ASSUME Init PROVE BInv
  OBVIOUS
<1>1. \A r \in Readers : /\ rd[r].pc = "out" /\ rd[r].pos = 0 /\ got[r] = << >>
                         /\ skipped[r] = {}
  BY DEF Init, NewReader, At
<1>2. Front /\ cur = 0
  BY AtRest DEF Init, Front
<1>3. Levels
  BY <1>1, <1>2 DEF Levels, Level, Counted
<1>4. Handed(<< >>, {}, 0)
  BY DEF Handed
<1>5. Hands
  BY <1>1, <1>4, Zenon DEF Hands
<1> QED BY <1>2, <1>3, <1>5 DEF BInv

\* Every step keeps the readers level and what they were handed in order.
LEMMA NextLevel == IInv /\ BInv /\ IInv' /\ [Next]_vars => BInv'
<1> SUFFICES ASSUME IInv, BInv, IInv', [Next]_vars PROVE BInv'
  OBVIOUS
<1>1. CASE \E r \in Readers : ReaderStep(r) \/ Timeout(r) \/ Leave(r)
  BY <1>1, LoadsLevel, ReadLevel, ServeHands, GoesOn, TimeoutSkips, ZenonT(30) DEF ReaderStep
<1>2. CASE UNCHANGED vars
  <2>1. UNCHANGED <<deleted, cur, tail, pub, rd, got, skipped>>
    BY <1>2 DEF vars
  <2> QED BY <2>1 DEF BInv, Front, Levels, Level, Hands
<1> QED BY <1>1, <1>2, StreamerDelivers, ZenonT(30) DEF Next

\* The second invariant holds throughout.
LEMMA Deliveries == Spec => []BInv
<1>1. Init => BInv
  BY InitLevel
<1>2. IInv /\ BInv /\ IInv' /\ [Next]_vars => BInv'
  BY NextLevel
<1> QED BY <1>1, <1>2, Invariance, PTL DEF Spec

\* livewaker.go, "never drops or reorders data": a reader was handed the records below
\* its position in order and each once, from the cache or the store, across reconnects,
\* respawns and deletion; what it misses is what a long-poll 204 told it to resume
\* behind.
THEOREM DeliversInOrder == Spec => []InOrderDelivery
<1>1. IInv /\ BInv => InOrderDelivery
  BY Zenon DEF IInv, Reads, Honest, BInv, Hands, Handed, InOrderDelivery
<1> QED BY <1>1, Invariance, Deliveries, PTL

\* streamer.go applyReader, "it never misses data": a reader parked behind the tail or
\* the closure its streamer has published holds a channel that is closed, or that a
\* deferred wake, the publisher or the stop of the stream is about to close.
THEOREM ParkedIsWoken == Spec => []NoLostWakeup
<1>1. IInv => NoLostWakeup
  BY Zenon DEF IInv, Reads, Current, Wakes, NoLostWakeup
<1> QED BY <1>1, Invariance, PTL
=============================================================================
