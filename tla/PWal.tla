-------------------------------- MODULE PWal --------------------------------
(***************************************************************************)
(* The sharded write-ahead-log store (internal/ds/pwalstore.go) and the    *)
(* contiguous watermark behind its DurableSeq (contigwatermark.go):        *)
(* concurrent CommitAsync callers, one fsync pipeline per shard, process   *)
(* kills that leave the page cache as it is, power failures that keep any  *)
(* prefix of each shard file beyond what was fsynced, and reopening.       *)
(*                                                                         *)
(* A commit's value for every key it writes is the commit itself, so the   *)
(* index maps a key to the commit whose record it points at.  Byte offsets *)
(* and the record encoding are abstracted: a shard file is a sequence of   *)
(* whole records, with Torn for a record a crash cut short.                *)
(***************************************************************************)
EXTENDS Integers, Sequences, FiniteSets

CONSTANTS
  Callers,       \* goroutines that call CommitAsync
  Keys,
  NumShards,
  MaxCommits,    \* bound: commits in a behaviour
  MaxCrashes,    \* bound: kills and power failures in a behaviour
  FsyncMayFail,  \* fsync may return an error
  TornWrites,    \* a power failure may leave part of a record at the end of a file
  None, Torn

ASSUME PWalAssumption ==
  /\ NumShards \in Nat \ {0}
  /\ MaxCommits \in Nat
  /\ MaxCrashes \in Nat
  /\ FsyncMayFail \in BOOLEAN
  /\ TornWrites \in BOOLEAN

\* Neither a torn record nor an absent index entry is a record.
ASSUME TornAssumption ==
  {Torn, None} \cap [id : Nat, seq : Int, keys : SUBSET Keys, after : SUBSET Nat, afterAck : SUBSET Nat] = {}

Shards == 0..(NumShards - 1)

VARIABLES
  issued,     \* number of commits begun
  nextShard,  \* round-robin selector
  caller,     \* caller -> [pc, shard, rec]
  file,       \* shard -> records written
  synced,     \* shard -> length of the prefix of its file that is on the disk
  opened,     \* history: shard -> length its file had when the store was opened
  localSeq,   \* shard -> next local sequence number
  pending,    \* shard -> seqs written but in no flush yet
  flush,      \* shard -> [pc, seqs] of its runFlush goroutine
  index,      \* key -> commit, or None
  wm,         \* contigWatermark: [set, value]
  err,        \* sticky firstErr
  returned,   \* history: commits CommitAsync returned
  acked,      \* history: commits seen durable through DurableSeq
  lost,       \* history: a power failure took records the store had read back
  crashes

vars == <<issued, nextShard, caller, file, synced, opened, localSeq, pending, flush,
          index, wm, err, returned, acked, lost, crashes>>

NoFlush == [pc |-> "none", seqs |-> {}]
NoCall == [pc |-> "idle", shard |-> 0, rec |-> None]

Init ==
  /\ issued = 0
  /\ nextShard = 0
  /\ caller = [p \in Callers |-> NoCall]
  /\ file = [i \in Shards |-> << >>]
  /\ synced = [i \in Shards |-> 0]
  /\ opened = [i \in Shards |-> 0]
  /\ localSeq = [i \in Shards |-> 0]
  /\ pending = [i \in Shards |-> {}]
  /\ flush = [i \in Shards |-> NoFlush]
  /\ index = [k \in Keys |-> None]
  /\ wm = [set |-> {}, value |-> 0]
  /\ err = FALSE
  /\ returned = {}
  /\ acked = {}
  /\ lost = FALSE
  /\ crashes = 0

\* contigWatermark.mark: fold seqs in, then extend the contiguous prefix.
mark_noRecheck(m, seqs) ==
  LET v == IF m.value + 1 \in seqs THEN m.value + Cardinality(seqs) ELSE m.value
  IN  [set |-> {s \in m.set \cup seqs : s > v}, value |-> v]
mark(m, seqs) ==
  LET all == m.set \cup seqs
      v == CHOOSE n \in m.value..(m.value + Cardinality(all)) :
             (m.value + 1)..n \subseteq all /\ n + 1 \notin all
  IN  [set |-> all \ ((m.value + 1)..v), value |-> v]

\* Global sequence number of shard i's local one.
seqOf(i, local) == local * NumShards + i + 1

-----------------------------------------------------------------------------
\* CommitAsync: refuse after an error, else take the next shard.
Begin(p, K) ==
  /\ caller[p].pc = "idle"
  /\ ~err
  /\ issued < MaxCommits
  /\ issued' = issued + 1
  /\ nextShard' = (nextShard + 1) % NumShards
  /\ caller' = [caller EXCEPT ![p] =
       [pc |-> "stage", shard |-> nextShard,
        rec |-> [id |-> issued + 1, seq |-> 0, keys |-> K,
                 after |-> {r.id : r \in returned},
                 afterAck |-> {r.id : r \in acked}]]]
  /\ UNCHANGED <<file, synced, localSeq, pending, flush, index, wm, err, returned,
                 acked, opened, lost, crashes>>

\* stage, under the shard's mutex: number the record, write it, and start the
\* flush goroutine unless one is running.
Stage(p) ==
  /\ caller[p].pc = "stage"
  /\ LET i == caller[p].shard
         seq == seqOf(i, localSeq[i])
         rec == [caller[p].rec EXCEPT !.seq = seq]
     IN  /\ localSeq' = [localSeq EXCEPT ![i] = @ + 1]
         /\ file' = [file EXCEPT ![i] = Append(@, rec)]
         /\ caller' = [caller EXCEPT ![p] = [pc |-> "index", shard |-> i, rec |-> rec]]
         /\ \/ /\ flush[i].pc # "none"
               /\ pending' = [pending EXCEPT ![i] = @ \cup {seq}]
               /\ UNCHANGED flush
            \/ /\ flush[i].pc = "none"
               /\ flush' = [flush EXCEPT ![i] = [pc |-> "sync", seqs |-> pending[i] \cup {seq}]]
               /\ pending' = [pending EXCEPT ![i] = {}]
  /\ UNCHANGED <<issued, nextShard, synced, index, wm, err, returned, acked, opened, lost,
                 crashes>>

\* The rest of CommitAsync, under the store's mutex: point the keys at the record.
Index(p) ==
  /\ caller[p].pc = "index"
  /\ index' = [k \in Keys |-> IF k \in caller[p].rec.keys THEN caller[p].rec ELSE index[k]]
  /\ returned' = returned \cup {caller[p].rec}
  /\ caller' = [caller EXCEPT ![p] = NoCall]
  /\ UNCHANGED <<issued, nextShard, file, synced, localSeq, pending, flush, wm, err,
                 acked, opened, lost, crashes>>

\* runFlush: fsync covers the whole file; the seqs staged before it are marked.
Fsync(i) ==
  /\ flush[i].pc = "sync"
  /\ synced' = [synced EXCEPT ![i] = Len(file[i])]
  /\ wm' = mark(wm, flush[i].seqs)
  /\ flush' = [flush EXCEPT ![i].pc = "loop"]
  /\ UNCHANGED <<issued, nextShard, caller, file, localSeq, pending, index, err,
                 returned, acked, opened, lost, crashes>>

FsyncFails_marks(i) ==
  /\ flush[i].pc = "sync"
  /\ FsyncMayFail
  /\ wm' = mark(wm, flush[i].seqs)
  /\ flush' = [flush EXCEPT ![i].pc = "loop"]
  /\ UNCHANGED <<issued, nextShard, caller, file, synced, localSeq, pending, index,
                 err, returned, acked, opened, lost, crashes>>
FsyncFails(i) ==
  /\ flush[i].pc = "sync"
  /\ FsyncMayFail
  /\ err' = TRUE
  /\ flush' = [flush EXCEPT ![i].pc = "loop"]
  /\ UNCHANGED <<issued, nextShard, caller, file, synced, localSeq, pending, index,
                 wm, returned, acked, opened, lost, crashes>>

\* ... then loop onto what was staged meanwhile, or exit.
FlushLoop(i) ==
  /\ flush[i].pc = "loop"
  /\ flush' = [flush EXCEPT ![i] = IF pending[i] = {} THEN NoFlush
                                   ELSE [pc |-> "sync", seqs |-> pending[i]]]
  /\ pending' = [pending EXCEPT ![i] = {}]
  /\ UNCHANGED <<issued, nextShard, caller, file, synced, localSeq, index, wm, err,
                 returned, acked, opened, lost, crashes>>

\* DurableSeq reaches a commit: Commit returns, or the notifier answers.
Ack(r) ==
  /\ r \in returned \ acked
  /\ ~err
  /\ r.seq <= wm.value
  /\ acked' = acked \cup {r}
  /\ UNCHANGED <<issued, nextShard, caller, file, synced, localSeq, pending, flush,
                 index, wm, err, returned, opened, lost, crashes>>

-----------------------------------------------------------------------------
(* Crash and reopen. *)

\* decodePWALShard: the records before the first torn one.
decode(f) ==
  LET n == CHOOSE m \in 0..Len(f) :
             (\A j \in 1..m : f[j] # Torn) /\ (m < Len(f) => f[m + 1] = Torn)
  IN  SubSeq(f, 1, n)

\* The records OpenPWALStore replays from the shard files fs.
replayed(fs) == UNION {{decode(fs[i])[j] : j \in 1..Len(decode(fs[i]))} : i \in Shards}

\* Replay in ascending seq: a key ends at the largest seq that wrote it.
replayIndex_firstWins(fs) ==
  [k \in Keys |->
     LET mine == {r \in replayed(fs) : k \in r.keys}
     IN  IF mine = {} THEN None ELSE CHOOSE r \in mine : \A q \in mine : q.seq >= r.seq]
replayIndex(fs) ==
  [k \in Keys |->
     LET mine == {r \in replayed(fs) : k \in r.keys}
     IN  IF mine = {} THEN None ELSE CHOOSE r \in mine : \A q \in mine : q.seq <= r.seq]

resumeLocal_last(i, f) ==
  IF f = << >> THEN -1 ELSE (f[Len(f)].seq - i - 1) \div NumShards
\* The local counter resumes behind the shard's last replayed record.
resumeLocal(i, f) ==
  IF f = << >> THEN 0 ELSE (f[Len(f)].seq - i - 1) \div NumShards + 1

\* OpenPWALStore on the shard files fs: counters, index and watermark are rebuilt
\* from what decodes.  All of it is marked durable, none of it is fsynced, and
\* nothing truncates a torn record: the file is reopened for append behind it.
Open(fs) ==
  /\ crashes < MaxCrashes
  /\ crashes' = crashes + 1
  /\ file' = fs
  /\ opened' = [i \in Shards |-> Len(fs[i])]
  /\ localSeq' = [i \in Shards |-> resumeLocal(i, decode(fs[i]))]
  /\ index' = replayIndex(fs)
  /\ wm' = mark([set |-> {}, value |-> 0], {r.seq : r \in replayed(fs)})
  /\ nextShard' = 0
  /\ caller' = [p \in Callers |-> NoCall]
  /\ pending' = [i \in Shards |-> {}]
  /\ flush' = [i \in Shards |-> NoFlush]
  /\ err' = FALSE
  /\ returned' = acked
  /\ UNCHANGED <<issued, acked>>

\* The process dies and the machine goes on: every write is still in the page
\* cache, and no more of it on the disk than before.
Kill == Open(file) /\ UNCHANGED <<synced, lost>>

\* The machine dies.  Each file keeps what is on the disk and some of what follows,
\* the last of it possibly torn; what is found afterwards is on the disk.
PowerLoss ==
  \E keep \in [Shards -> 0..MaxCommits], torn \in [Shards -> BOOLEAN] :
    LET fs == [i \in Shards |-> SubSeq(file[i], 1, keep[i])
                                  \o (IF torn[i] THEN <<Torn>> ELSE << >>)]
    IN  /\ \A i \in Shards :
             /\ keep[i] \in synced[i]..Len(file[i])
             /\ torn[i] => TornWrites /\ keep[i] < Len(file[i])
        /\ Open(fs)
        /\ synced' = [i \in Shards |-> Len(fs[i])]
        /\ lost' = (lost \/ \E i \in Shards : keep[i] < opened[i])

Next ==
  \/ \E p \in Callers, K \in SUBSET Keys \ {{}} : Begin(p, K)
  \/ \E p \in Callers : Stage(p) \/ Index(p)
  \/ \E i \in Shards : Fsync(i) \/ FsyncFails(i) \/ FlushLoop(i)
  \/ \E r \in returned : Ack(r)
  \/ Kill \/ PowerLoss

Spec == Init /\ [][Next]_vars

-----------------------------------------------------------------------------
Commits == [id : 1..MaxCommits, seq : Nat, keys : SUBSET Keys,
            after : SUBSET (1..MaxCommits), afterAck : SUBSET (1..MaxCommits)]

\* The shapes of the shard files, the watermark and the callers' local state.
TypeOK ==
  /\ issued \in 0..MaxCommits /\ crashes \in 0..MaxCrashes
  /\ nextShard \in Shards
  /\ caller \in [Callers -> [pc : {"idle", "stage", "index"}, shard : Shards,
                             rec : Commits \cup {None}]]
  /\ file \in [Shards -> Seq(Commits \cup {Torn})]
  /\ synced \in [Shards -> Nat] /\ opened \in [Shards -> Nat] /\ lost \in BOOLEAN
  /\ localSeq \in [Shards -> Nat]
  /\ pending \in [Shards -> SUBSET Nat]
  /\ flush \in [Shards -> [pc : {"none", "sync", "loop"}, seqs : SUBSET Nat]]
  /\ index \in [Keys -> Commits \cup {None}]
  /\ wm \in [set : SUBSET Nat, value : Nat]
  /\ err \in BOOLEAN
  /\ returned \subseteq Commits /\ acked \subseteq Commits

\* DurableSeq never covers a sequence number without its record: it was fsynced, or
\* it was in the file when the store was opened, however the shards' flushes complete
\* relative to each other (pwalstore.go: "the largest N such that every commit up to
\* and including N is durable").
WatermarkSound ==
  \A q \in 1..wm.value : \E i \in Shards : \E j \in 1..Len(file[i]) :
    /\ file[i][j] # Torn /\ file[i][j].seq = q
    /\ j <= synced[i] \/ j <= opened[i]

\* What the comment in OpenPWALStore says ("Everything replayed from a shard file was
\* fsynced there ... so it is all durable").  It does not hold: after a kill the
\* replayed records may be in the page cache only.
ReplayedIsDurable ==
  \A q \in 1..wm.value :
    \E i \in Shards : \E j \in 1..synced[i] : file[i][j] # Torn /\ file[i][j].seq = q

\* No two commits share a sequence number, across shards and restarts
\* (pwalshard: "unique across shards").
SeqsUnique ==
  \A i, j \in Shards : \A a \in 1..Len(file[i]), b \in 1..Len(file[j]) :
    (<<i, a>> # <<j, b>> /\ file[i][a] # Torn /\ file[j][b] # Torn)
      => file[i][a].seq # file[j][b].seq

\* What was acknowledged durable is on the disk, through any number of kills and power
\* failures, so its keys are in the index; and a key does not show a commit that was
\* acknowledged before that one began, unless a power failure took records that an
\* earlier open had read back and counted as durable: their numbers are then issued
\* again (storage.go: "A durable batch only returns once the data is persisted").
AckedSurvives ==
  \A a \in acked :
    /\ \E i \in Shards : \E j \in 1..synced[i] : file[i][j] = a
    /\ \A k \in a.keys : index[k] # None /\ (index[k].id \in a.afterAck => lost)

\* Commits that follow one another get ascending sequence numbers: what the
\* notifier orders its callbacks by (durability.go: "callbacks totally ordered by
\* target, which the notifier committer relies on").
SeqFollowsCommitOrder ==
  \A a, b \in returned : a.id \in b.after => a.seq < b.seq
=============================================================================
