# A TLA+ model of yasdb

yasdb is a durable-streams server: append-only streams over HTTP (and as an
embedded Go library) on top of a key-value store. This directory models the parts
of it where concurrency, crashes and failures meet, checks them with TLC on small
instances, and proves some of the results for all instances with TLAPS.

## The system

| Part | Code | State | Operations |
|---|---|---|---|
| Producer validation | `internal/ds/producer.go` | per id: epoch, last seq | `validateProducer` |
| Streamer, one goroutine per stream | `streamer.go` | request channel, writer view, reader view | burst, plan, publish, retire |
| Committer and notifier | `commit.go`, `durability.go` | shared queue, waiters, poller | commit, flush, subscribe, poll, fire, close |
| Stores | `storage.go` (SlateDB), `pwalstore.go` | key space, durable watermark | Get, Scan, Commit, CommitAsync, DurableSeq |
| Live readers | `read.go`, `public.go`, `livecache.go`, `livewaker.go` | waiter channel, cache, timers | long-poll, SSE, `LiveCursor` |
| Lifecycle | `handlers.go`, `fork.go`, `expiry.go`, `deleter.go`, `server.go` | meta, ids, reference counts, tombstones, deletion cursors | create, fork, delete, expire, sweep, resume |
| Residency | `server.go`, `registry.go`, `handlers.go`, run loop of `streamer.go` | registry, spawn locks, each streamer's channel and `mu`, expiry index | get or spawn, submit, retire, stop, touch, sweep |
| Library layer | `yasdb/`, `public.go`, `internal/state/` | writer slots and first error, chunk channel, materialized entities | `Writer`, `Chunks`, `Materialize`, `TailState` |

An append travels: handler, the streamer's channel, a burst planned against a
pending view, one atomic batch to the store (directly in sync mode, through the
shared queue in notifier mode), the durability callback, the reader-visible tail and
the reply. Readers never lock: they load the waiter channel, the tail and the closure
flag, read cache or store, and park. Creation, forking, deletion and expiry hold one
mutex, and touch a stream's goroutine only through the registry and its spawn lock.

What makes it hard: bursts pipelined behind a store that is visible before it is
durable; retries of appends whose fate is unknown; a streamer that retires or is
respawned while others hold it; a shutdown racing four goroutines; deletes that span
several batches with bursts in flight; and fsync pipelines that complete out of order.
`PROJECT.json` lists each hazard at its line.

## Modules

| Module | Models | State and actions |
|---|---|---|
| `Producer` | `validateProducer` on integers `0..MaxU`, `lastSeq + 1` wrapping | operators |
| `ProducerSession` | one producer id presenting any header at any time | `Present`, `Refuse` |
| `Streamer` | one stream: submit, burst, plan, commit in both modes, publish, retire, respawn, crash | store = the sequence `hist` of states its batches produced, `dur` the durable one |
| `DurableLog` | what a stream promises: an append-only log, a durable prefix, acknowledgements inside it | `Write`, `Flush`, `Ack`, `Lose` |
| `StreamerRefinement` | `Streamer` implements `DurableLog` | refinement mapping |
| `Committer` | several streams' bursts through the shared queue, notifier and poller, store errors, shutdown | one variable per goroutine, one action per critical section |
| `PWal` | the sharded write-ahead log: concurrent `CommitAsync`, group fsync, watermark, reopening after a process kill or a power failure | shard files as record sequences, `synced` the prefix on the disk, `opened` the length at open |
| `LiveRead` | readers against publication, every atomic load and store a step, timeouts and reconnection | generations of streamer objects, `got` and `skipped` what a client has and was told to pass over |
| `Lifecycle` | create, fork, soft and hard delete, expiry, cascade, background deletion, late bursts, crash | one variable per key family, one action per batch |
| `ForkReads` | catch-up reads of `Lifecycle`'s streams, stitched over the fork chain | operators and recursive functions |
| `Residency` | one path: concurrent appends through the bounded channel, spawning and retiring, the library's `Writer`, create, delete, sliding TTL, clock and sweeper, refused commits | `objs` every streamer ever spawned, `registry` the resident one, `del` the operation that holds `metaMu`; one action per critical section |
| `ReadRange` | page assembly under the byte limit, binary and JSON, and the cached read | operators |
| `Materializer` | validation and fold of State Protocol messages, and what a history means | operators |
| `Library` | `ProducerSession`, `ReadRange` and `Materializer` composed: a producer writes what `Chunks`, or `Materialize` and `TailState`, read | `log`, the reader's position and channel, the tail its live cursor loaded, its streamer's last state if that retired, what the application has |

Data is abstracted to what the properties distinguish. A record is the request and
index it came from (`Streamer`), its seq (`LiveRead`, `Lifecycle`) or its commit
(`PWal`), a byte its record and index (`ReadRange`). Content types are "matches or not"
(`Streamer`) or one of two names (`Residency`), `Stream-Seq` its rank. A deadline may
pass at any time in `Lifecycle`, and is a number of seconds in `Residency`, which in
turn leaves to `Streamer` and `Committer` what happens between handing a burst over and
its batch becoming durable. Definitions named `x_something` are variants with a plausible bug;
`PROJECT.json` says which property catches each.

The `MC` modules give the request sets, the kinds of reader, the bodies, the settings
and the symmetry for TLC; the other modules are run as they are. `MCResidency` chooses a
setting (mode, TTL, channel capacity, faults, bounds) in the initial state, so that one
run covers them all.

## Runs

| Run | Instance | Shows |
|---|---|---|
| `MCLibrary` | integers `0..2`, bodies of 0 to 3 bytes, pages of 2, a channel of 2 | accepted once in any order of retries, every byte delivered once and in order, closed only after all below the loaded tail, entities as the history means them, cached page = stored page; a consumer that resumes gets everything, or all that its cursor's retired streamer had (fair) |
| `MCStreamer_notifier` | 3 clients, 4 appends, bursts of 2, refused commits, 1 crash, fair | acknowledged is durable and readable, nothing stored twice (at most once: see `ExactlyOnce` below), producer state rides its records, no regression, everyone is answered, refinement of `DurableLog` |
| `MCStreamer_sync` | 2 clients, 5 appends, refused commits, 1 crash | a refused burst leaves no trace, `Stream-Seq` orders the log |
| `MCCommitter` | 2 streams of 2 bursts, batches of 2, store errors, close, fair | one answer per burst, in commit order, durable, none stranded |
| `MCPWal` | 2 callers, 2 shards, 4 commits, fsync errors, 3 kills or power failures | watermark, unique numbers, acknowledged survives |
| `MCLiveRead` | long-poll and SSE, 2 records, cache of 1, 2 generations, close, delete | in-order delivery with the skips of a 204 accounted for, no lost wakeup |
| `MCLifecycle` | 3 paths, 3 streams, 2 records each, 1 burst in flight, expiry, 1 crash | counts cover forks, reads complete, fresh ids, resumable deletion |
| `MCResidency` | 2 posters, up to 3 appends, 2 streams on the path, channel of 1 or 2, TTL of 2 s, 1 refusal, fair | one writer per stream, acknowledged records stay, no zombie, an honest 404, an honest `Flush`, no early expiry in sync mode; every append returns unless sender and streamer block each other, an idle stream expires |

Why the bounds are enough to be interesting: two clients fold into one burst and a
third pipelines behind it; four appends let a producer retry, advance and change
epoch; two generations are a retirement and a respawn; three streams make a fork of a
fork and a source with two forks; three crashes let a power failure take what was read back
after a kill, and a third recovery meet what was written since; a cache of one evicts at once. Bodies of 0 to 3 bytes against pages of
2 give records that are empty, fit, fill a page exactly and are cut. Three appends let
a streamer retire between the second and the third with the first still in flight; two
streams on a path are a deletion and a recreation; a TTL of 2 s has a granularity of
1 s, so equality with the stored deadline happens. A larger instance gave the
same result: `MCResidency` with three appends in its first and its `Writer` setting (0.9
million states).

Deadlock is checked where the system never stops (`Streamer`).
The other instances end when their bounded work, or the server, is done.

### Fairness

`Streamer!FairSpec` and `Committer!FairSpec` assume weak fairness of the server's own
goroutines and of the engine's flush: the Go scheduler runs a runnable goroutine, and
SlateDB flushes on a timer. The poller's exit has strong fairness, because its select
chooses at random between a ready tick and a closed stop channel. No fairness is
assumed of clients, failures or crashes.

`Residency!Fairness` is weak fairness of what runs by itself: append calls under way,
streamers, committer, delete in progress, sweeper ticker, clock. It is stated once, of
their disjunction: every behaviour has finitely many of these steps, so this is the same
as fairness of each. The dormancy timer, users' calls and ending contexts are not in it.
`Library!LSpec` assumes that the reader's goroutine runs, and that its consumer keeps
receiving and resumes after an overrun, as the comment above `Chunks` asks; nothing of
writers, `Close`, `Delete` or cancellation.

### Disagreements between code and comments

Four runs expect a violation of what a comment or document says.

- `MCPWal_torn`: a torn record is not truncated when a shard is reopened, and what is
  acknowledged behind it is lost at the next open.
- `MCLiveRead_eof`: tail and closure flag are stored and loaded in the same order, so a
  reader can be told the stream ended before it got the last records.
- `MCLifecycle_fork_expiry`: expiry deletes a source under its forks.
- `MCResidency_hang`: with more concurrent appends than the channel holds, a sender blocks
  on the full channel holding `mu` while the streamer, whose dormancy timer fired, waits
  for `mu` in `tryRetire`; nothing on the path is answered again.

Further properties are stated in the modules and fail under the settings named here;
the passing runs do not include them.

- `Streamer!AckedOffsetDurable`, notifier mode: a duplicate is answered before its
  original is durable. Sync mode with `CommitMayFail`: a retry folded into a refused
  burst with its original is answered 204.
- `Streamer!DenseLog`, notifier mode with `CommitMayFail`: the writer view stays ahead
  of a refused burst and the next one is stored behind a hole.
- `Streamer!ExactlyOnce` and `ProducerMatchesLog` with `GetMayFail`: a failed lookup is
  cached as an unknown producer; `WriterSeqOrdered`, likewise: as an empty Stream-Seq.
- `Committer!NoCallAfterClose`: shutdown does not join the poller.
- `PWal!SeqsUnique` with `TornWrites`: the counter resumes behind the last record before
  the torn one, and the numbers of the records behind it are given out again.
- `PWal!ReplayedIsDurable`, one kill: opening marks everything it read back as durable
  (`pwalstore.go:365-368`) and fsyncs none of it, and after a kill it may be in the page
  cache only. With three crashes `AckedSurvives` fails without its `=> lost`: a power
  failure takes such records, their numbers are issued again, and a later commit of the
  same key with a smaller number is hidden at the next open.
- `LiveRead!NothingSkipped`: the 204 of a long-poll timeout announces the tail of now with
  Up-To-Date, not the one the reader looked at (`read.go:312-314`), so a publication that
  races the timer makes the client resume behind records it never got.
- `Library!FullyDrained`: the case of `MCLiveRead_eof` as a consumer of `Chunks` sees it,
  against `channel.go:45-46`.
- `Library!AlwaysWoken`: a `LiveCursor` is not counted between two `Next` calls, so its
  streamer may retire, and it then waits on an object no append wakes.
- `Lifecycle!DeletedStaysDeleted` with `MetaBursts`: a burst that changes meta (a close, a
  sliding deadline) and is in flight across a DELETE writes the deleted stream's meta back,
  or over that of a stream created at the path meanwhile, against `DESIGN.md:127-132`.
- `PWal!SeqFollowsCommitOrder`: choosing the shard and numbering the record are not
  one step, so commits that follow one another may be numbered the other way round.
- `Residency!WindowCovered` without its mode condition, setting `Window`: in notifier
  mode a queued burst lands after a read's refresh and sets the stored deadline back.
- `Residency!AckedStored` without `n = 1`, setting `Retyped`: a body flattened for one
  stream is acknowledged by its successor of another type, with no records.
- `Residency!OneWriter` without `~tomb`, setting `Resident`: a soft-deleted path becomes
  resident again, as `getOrSpawn` does not look at the tombstone. With `"delete"` among
  the faults also as it stands: a refused delete has stopped the streamer, and the next
  one runs beside its burst in flight; `AckedStored`, `WindowCovered` and
  `FlushMeansStored` then fail too.
- `Residency!NoZombie`, setting `Window` with a delete and a recreation: a streamer that
  was stopped with a touch pending may take the touch first, and writes the deleted
  stream's meta over the new one's (the cause is that of `DeletedStaysDeleted` above). A second
  delete then stops the new stream's streamer but removes the old one's keys, a touch
  pending in that streamer brings its meta back, and with the next spawn `OneWriter` fails.
- `Materialize` ends with an error on a message that does not decode, where its comment
  says that a malformed message is skipped; `Library!Replay` models it as it is.

Some properties that hold say less than their subject may suggest:

- `Streamer!ExactlyOnce` is at most once: it is about what is stored. In notifier mode a
  burst the store refuses leaves the producer's state in the writer view, and the retry is
  answered as a duplicate and lost; that is `AckedOffsetDurable` above.
- `PWal!WatermarkSound` lets the watermark cover what was in the file at open, and
  `AckedSurvives` excepts an index entry once such records were lost (`lost`).
- `LiveRead!InOrderDelivery` accounts for the records a 204 passes over in `skipped`, which
  only a timeout adds to and which stays empty for SSE and cursors.
- `Library!EndIsHonest` is about the tail the cursor loaded, `EverythingArrives` about a
  streamer that has not retired.
- `Residency!AnsweredUnlessStuck` excepts the state `Stuck` that `MCResidency_hang` reaches,
  and nothing else: in every other behaviour each call returns.
  `IdleStreamExpires` is checked where the path cannot get stuck: a delete waits for `mu` too.

## Proofs

TLAPS proves these for every value of the constants.

| Theorem | Property | Module |
|---|---|---|
| `ExactlyOnce`, `DuplicatesAreHonest`, `NoHoles`, `Fencing` | `AcceptedOnce`, `DuplicateIffAccepted`, `AcceptedDense`, `EpochFenced` | `LifecycleProducer_proofs` |
| `TypeCorrect` | `TypeOK` | `Streamer_proofs` |
| `AcknowledgedIsDurable` | `AckedDurable` | `Streamer_proofs` |
| `AcknowledgedIsReadable` | `ReadAfterAck` | `Streamer_proofs` |
| `PublishedForward` | `TailNeverRegresses` | `Streamer_proofs` |
| `DurableGrows` | no step loses a durable record or lowers the durable tail | `Streamer_proofs` |
| `RefinesDurableLog` | `ImplementsDurableLog` | `StreamerRefinement_proofs` |
| `DurableStays` | `DurableIsFinal` | `StreamerRefinement_proofs` |
| `LogHasNoHoles` | `DenseLog`, in sync mode or without refused batches | `StreamerRefinement_proofs` |
| `StoredOnce`, `ProducersMatchLog`, `SeqOrdersLog` | `ExactlyOnce`, `ProducerMatchesLog`, `WriterSeqOrdered`, without failed lookups | `StreamerRefinement_proofs` |
| `EachAnsweredOnce`, `OkMeansDurable` | `AnsweredOnce`, `OkIsDurable` | `Committer_proofs` |
| `CommitsInOrder`, `ResolvesInOrder`, `QuietAfterClose` | `CommitOrder`, `ResolveOrder`, `NoCommitAfterClose` | `Committer_proofs` |
| `PublishedForward` | what a stream's readers see never goes back | `Committer_proofs` |
| `DeliversInOrder`, `ParkedIsWoken` | `InOrderDelivery`, `NoLostWakeup` | `LiveRead_proofs` |
| `HonestNotFound` | `NotFoundIsHonest` | `Residency_proofs` |
| `ResidentIsCurrent` | `NoZombie`, if `Steady` | `Residency_proofs` |
| `SingleWriter`, `AcknowledgedStays`, `WindowIsStored`, `FlushIsDurable` | `OneWriter`, `AckedStored`, `WindowCovered`, `FlushMeansStored`, if `Undisturbed` | `Residency_proofs` |
| `CountsCoverForks`, `DeletedIsNeverBack`, `LiveStreamsAreIntact` | `RefCountCoversForks`, `DeletedStaysDeleted`, `LiveIsIntact`, while bursts carry no metadata | `LifecycleProducer_proofs` |
| `DeletionIsResumable` | `DeletionResumable` | `LifecycleProducer_proofs` |
| `WatermarkIsDurable` | `WatermarkSound` | `PWal_proofs` |
| `UniqueSeqs`, `AcknowledgedSurvives` | `SeqsUnique`, `AckedSurvives`, without torn writes | `PWal_proofs` |

Assumptions: `MaxUAssumption` (the integer type has a largest value); for the streamer
also `RequestsAssumption` (requests have the shape the handler builds, and an empty one
closes, which `handlePost` enforces; the one exception, a body flattened for a stream
that is then recreated, is in `Residency`), `BoundsAssumption`, `ModeAssumption` and
`NoneAssumption` (`None` is not a value). `CommitMayFail` and `GetMayFail` are free, so
the streamer theorems hold with a store that refuses batches and fails lookups, unless
they say otherwise: `LogHasNoHoles` has the hypothesis `NoRefusedJob`, and `StoredOnce`,
`ProducersMatchLog` and `SeqOrdersLog` have `~GetMayFail`, without which they are false
(see above). For
`Residency`, `ResidencyAssumption`: `None` is neither a poster nor a meta, and a setting
has a TTL in seconds, a content type and the two kinds of delete; mode, channel capacity,
faults and the numbers of calls, deletes and streams are free. `Steady` says that the path
has no TTL, or was not recreated; `Undisturbed`, that moreover deletes are not among the
batches the store may refuse. TLC refutes the properties without them, as listed above. For `PWal`,
`PWalAssumption` (at least one shard) and `TornAssumption` (neither a torn record nor an
absent index entry is a record); `WatermarkIsDurable` holds with failing fsyncs and torn
writes, `UniqueSeqs` and `AcknowledgedSurvives` have the hypothesis `~TornWrites`. For
`Committer`, `CommitterAssumption` (a batch bound of at least one); for `LiveRead`,
`LiveReadAssumption` (a reader is one of the three kinds, a read and the cache hold at
least one record, and the readers are finitely many). For `Lifecycle`,
`LifecycleAssumption` (the bounds are naturals, a deletion chunk holds at least one
record, `None` is not a value); the paths may be infinitely many. Its first three
theorems have the hypothesis `~MetaBursts`: a burst that also rewrites meta (a close, a
sliding deadline) and lands after the delete brings the old meta back, as listed
above, and with it the old source and the old id, so none of the
three would hold. `DeletionIsResumable` needs no hypothesis.

The streamer argument rests on one inductive invariant, `IInv`. `AckedDurable` alone is
not inductive: it says nothing of the bursts on their way. `IInv` follows a burst:

- `Planning`: it starts at the writer's tail, and each accepted response owns a slice
  of its records (`JobOK`);
- `Queued`: in the shared queue, bursts are ordered, disjoint, above the store's tail
  and below the writer's;
- `Waiting`: in the store, the state its batch produced holds it (`Landed`), and the
  waiting bursts are ordered above the readers' tail;
- `Growing`: every store state extends the earlier ones, because a batch lands at or
  above the tail and no record lies there;
- `Acked`: answered appends are in the durable state and below the readers' tail.

`Views` and `Control` relate the three tails and say what is empty when. A refused
batch only removes a job, which leaves a gap between bursts and so breaks none of
these. The type invariant is proved together with the rest: that a batch leaves a
well-formed store needs the length of the burst's records. `IInv` was checked with TLC
on the `Streamer` instances, both modes, with and without `GetMayFail`, before the proof.

The refinement adds `RInv`, about closing. `DurableLog` writes only to an open log, so a
batch must never reach a closed store, and that depends on everything between planning
and the store:

- `Frozen`: no later store state fills an offset that an earlier one left out below its
  tail (`Complete`), and a closed one is followed by nothing (`Sealed`). A crash to an
  earlier state is then a loss of a suffix, and holes keep their place in the log;
- `PlanClosing`: a burst planned on a closed view is empty, so it is never committed;
- `QueueClosing`: the burst that closes is the last in the shared queue, and a closed
  store has nothing queued behind it;
- `ViewClosing`: the writer's view is closed no later than the store, except inside a
  sync commit, which blocks the goroutine.

`StoreSteps` then sorts every step into the four kinds `DurableLog` has, and each kind is
shown to be the abstract action under the refinement mapping. `LogHasNoHoles` adds
`Linked`: store tail, queued bursts and writer's tail follow one another without a gap.
`RInv` was checked with TLC on both `Streamer` instances, `Linked` on the sync instance and
on the notifier instance without refusals.

A producer's (epoch, seq) and Stream-Seq are one idea: a position an append claims under
a label, ordered as pairs. `OInv` says where every label stands on the way to the store:

- `SortedStore`: in every store state the records' positions ascend, and the state kept
  beside the records has reached them all;
- `SortedQueue`: a queued burst moves on from the store and from every burst before it,
  and the writer's view is not behind it. So a refused burst can be dropped from the
  middle of the queue: what remains still ascends;
- `SortedView`: what the writer's view has cached is not behind the store, and the burst
  being planned moves on from it. No queued burst touches a label the view has not loaded,
  so a first lookup finds the current value in the store.

`ExactlyOnce` and `WriterSeqOrdered` are `SortedStore` for the two kinds of label.
`ProducerMatchesLog` needs the other direction too: the state is that of a stored record.
`BInv` carries it from planning to the store. A burst that touches a producer without a
record of it closes the stream, because an append without records does. `OInv` and `BInv`
were checked with TLC on both `Streamer` instances.

`HonestNotFound` says that no append is answered 404 merely because its streamer
retired. A 404 comes from `getOrSpawn`, which sees the store, or from the drain of a
stopped streamer, which sees nothing, so the invariant (`IInv` in `Residency_steps`) has to
follow every call to the channel it waits in:

- `Placed`: a waiting call is in one channel or one burst, so an answer reaches one call;
- `Locked`: a sender blocked on a full channel holds `mu` of a streamer that has not
  died, so nobody enters a channel after `tryRetire` or a delete looked at it;
- `Halted`: a streamer is stopped only after it died, and what its channel still holds
  was under way when the stream was removed;
- `Removed`: while the path has no stream, or a delete is past the registry, no call
  under way counts on the stream.

The other `Residency` theorems add `WInv`, about the path and its writer. `OneWriter` alone
is not inductive: whether a second streamer may be spawned depends on bursts the first one
has handed over, and they outlive its goroutine.

- `OnPath`: the stored meta, the resident streamer and the delete that holds the path
  agree on the stream;
- `HolderOnly`: of the streamers of a stream that is there, only the holder (the
  resident one, or the one a delete is stopping) runs or has a burst in flight;
- `Counted`: a streamer's `pending` is the number of its bursts in flight, so that
  `tryRetire` leaves none behind; with sync commits it waits for its only one;
- `Ordered`: each burst lies past the one before it of the same streamer, below what the
  streamer assigns next, and will store what it accepted, until the deadline it planned;
- `HolderAhead`, `JobAhead`: the holder and every burst lie past the stored tail, so a
  burst that lands writes over nothing, and a new streamer starts behind it all;
- `AnswerOK`: an acknowledged append lies below the stored tail, as it was sent, and
  (sync) its window ends before the stored deadline.

`FInv` follows a `Writer`'s calls: each that began is under way or answered, and those
before the last nil `Flush` succeeded. `Counted` needs facts about the sizes of sets of
indexes (`Sizes`), a hypothesis of the lemmas that need them, which `IndexSets` proves once
from the library's facts about finite sets.

`Residency_steps` has the invariants, shows that every step preserves `IInv`, and that those
which neither spawn nor plan nor commit preserve `WInv`. `Residency_proofs` has the rest and
the theorems. All three invariants were checked with TLC on the settings of
`MCResidency` and on settings that combine TTL, recreation and faults (1 million states).

`WatermarkIsDurable` needs the numbers on their way to the watermark: what is pending or
in a flush is in the shard's file (`Written`), so that the fsync before `mark` covers it,
and what was marked out of order is fsynced or was there at open too (`Marked`). That `mark` finds its prefix,
and that reopening marks only what it replays, are lemmas about the operators, by a
smallest element instead of an induction. `UniqueSeqs` adds `Numbered`: the `j`-th record
of shard `i` has number `seqOf(i, j - 1)`, and the counter is the length of the file;
`resumeLocal` restores it after a crash. `AcknowledgedSurvives` needs `AInv`: replay keeps,
of two records for a key, the one with the larger number, and numbers do not follow the
order of commits. But an acknowledged number means that every smaller number is in the part
of its file that was fsynced or there at open (`Trust`, `Filled`), as long as no power
failure cut into the latter (`lost`), so a commit that begins after the acknowledgement gets a larger one
(`Later`), and replay never hides it behind one it followed. That the acknowledged
record itself is fsynced (`Told`) needs no such condition: what is not acknowledged yet was
written since the last open (`Fresh`), so only a flush's fsync can have marked it. All three invariants were
also checked with TLC, `IInv` with torn writes.

The `Committer` theorems share one invariant over the five places a burst can be in
(`Held`: the poller's callbacks, the notifier's waiters, a flush, the queue, the jobs a
close drained). `Queues` says that each place is in order and the places are in order
among themselves, which `ResolveOrder` needs and which shutdown could break; `Answers`
that a burst is in one of them or answered once; `Stored` and `WriteOrder` say which batch
holds it. `Control` says what is empty in each state of the flush, the poller and the
closer.

In `LiveRead`, what a reader loaded may be older than what its streamer published only
if a wake of the channel it holds is on its way (`Current`, `Wakes`): the channel is
closed already, the trailing timer runs, the publisher is before its wake, or the
streamer was stopped. That must hold from the load of the tail on, not only when the
reader parks. `Windows` and `Honest` say that the cache and the records in a reader's
hands are consecutive records of the log, with `Spawned` about who refers to which
streamer. That is enough for `ParkedIsWoken`. `DeliversInOrder` adds `BInv`, because a 204
moves a client to its streamer's tail: the resident streamer is
the one that publishes and has the largest tail (`Front`); no reader is ahead of the streamer
it reads from or of the resident one (`Levels`), so a timeout never moves it back; and what it
was handed is the log below its position, less what was skipped (`Hands`). `IInv` was checked with TLC on instances with all three kinds of reader.

A `Lifecycle` stream is spread over key families, memory and bursts in flight, and a
crash cuts between any two batches. The invariant has four parts:

- `DInv`: ids are handed out upwards and the stored counter is never behind (`Numbered`),
  so no id on disk, in memory or in flight is new, and a restart cannot reuse one. With
  finitely many records per stream (`Bounded`) a chunk and its next cursor exist, and the
  chunk takes exactly the records below that cursor. This part is `DeletionIsResumable`;
- `Addressed`: path and id point at each other, a resident carries the stored meta, and
  so does a burst in flight unless its stream was deleted;
- `Counted`: a count covers the forks and, while a delete holds `metaMu` between
  removing a fork and dropping its reference, that reference too (`Owed`). Without
  `Owed` the decrement would take a count below the forks that are left;
- `Intact`: below the stored tail everything is stored; below a resident's tail,
  everything is stored or in a burst in flight; below a burst's first seq, everything is
  stored or in a burst before it (`Backed`). So bursts of one stream land in order, and
  none opens a gap: `LiveIsIntact` says it of the store alone and is not inductive. The
  deleter works on deleted ids only, so by `Addressed` it never meets a live stream.

The invariant was checked with TLC on 3 paths with forks of forks and on 2 paths with a
crash, both with 2 bursts in flight; `DInv` also with `MetaBursts`, to a depth of 16 steps.

Only model-checked:

- liveness (`EveryAppendAnswered`, `EveryJobAnswered`, `AnsweredUnlessStuck`,
  `IdleStreamExpires`, `EverythingArrives`), which the prover does not reach;
- `ForkInheritance` and everything in `Library`: what `resolveSegments`, a page or the
  materializer's fold computes needs induction over the data, which stays with TLC;
- the `Residency` invariants where `Steady` or `Undisturbed` does not hold and the run's
  bounds still allow them: the setting `Unwritten`, whose delete is refused once.

## Not modelled

- Byte encodings of keys, meta, offsets, cursors and JSON: the modules use the values.
- HTTP headers, status lines, ETags and SSE framing.
- Store errors in `Lifecycle`: its batches and lookups succeed. `loadRefCount`
  (`fork.go:95-102`) reads a failed `Get` as a count of 0, which would let a delete take a
  source from under its forks; the properties assume that lookup succeeds.
- In `Library`, the background deleter under a cursor whose streamer retired: the records
  below the retired tail are taken to be there while it reads them.
- The SlateDB engine itself: external, modelled from how it is used.
- Admin listing, metrics, bulk provisioning, the Maelstrom adapter, the benchmarks:
  they only read, or drive tests.

## Plan

In order:

1. Several paths in `Residency`: spawn locks and registry shards are hashed, and a
   cascade takes one after the other.
2. Payloads in `Lifecycle`, for appends to a soft-deleted path and forks that read them.
3. A `Cursor` over a path that is deleted and recreated (`public.go:241`).
4. Liveness of `PWal` (holes after a restart), once the code says who ends the wait.
5. Failed lookups in `Lifecycle`.
