----------------------------- MODULE Lifecycle ------------------------------
(***************************************************************************)
(* Creating, forking, deleting and expiring streams: the registry and      *)
(* spawn locks (internal/ds/server.go, registry.go), createStream and      *)
(* deleteStream (handlers.go), createFork (fork.go), hard and soft delete, *)
(* reference counts and the sweeper (expiry.go), resumable background      *)
(* deletion (deleter.go), bursts still in flight when their stream goes,   *)
(* and crashes.                                                            *)
(*                                                                         *)
(* Every batch here is committed with awaitDurable, so a crash loses only  *)
(* memory: residents, in-flight bursts and the rest of a multi-batch       *)
(* delete.  metaMu is held across all batches of one delete.  A stream's   *)
(* own records are the set of their seqs.                                  *)
(***************************************************************************)
EXTENDS Integers, Sequences, FiniteSets

CONSTANTS
  Paths,
  None,
  MaxId,       \* bound: streams created
  MaxTail,     \* bound: records per stream
  Bodies,      \* bound: numbers of records a PUT may bring
  Chunk,       \* deleteChunk
  MaxBursts,   \* bound: bursts in flight
  MaxCrashes,  \* bound: crashes
  MayExpire,   \* streams may carry an expiry deadline
  MetaBursts   \* bursts may rewrite meta (a close, a sliding deadline)

Ids == 1..MaxId
Metas == [id : Ids, from : 0..MaxId, off : 0..MaxTail, expires : BOOLEAN]
Residents == [meta : Metas, tail : Nat]
Bursts == [path : Paths, meta : Metas, seq : Nat, withMeta : BOOLEAN]

ASSUME LifecycleAssumption ==
  /\ MaxId \in Nat /\ MaxTail \in Nat /\ MaxBursts \in Nat /\ MaxCrashes \in Nat
  /\ Bodies \subseteq Nat /\ Chunk \in Nat \ {0}
  /\ MayExpire \in BOOLEAN /\ MetaBursts \in BOOLEAN
  /\ None \notin Paths \cup Nat \cup Metas \cup Residents

VARIABLES
  meta,     \* path -> meta, or None
  idmap,    \* id -> path, or None
  tail,     \* id -> stored tail (0 when the key is absent)
  recs,     \* id -> seqs of its own records
  ref,      \* id -> reference count (0 when the key is absent)
  tomb,     \* paths with a soft-delete tombstone
  delete,   \* id -> DeletePending cursor, or None
  counter,  \* the stored id counter
  nextID,
  reg,      \* path -> resident streamer [meta, tail], or None
  bursts,   \* bursts handed to the committer, not yet written, oldest first
  mu,       \* metaMu: [pc, id]; pc is "free", or the next step of a delete
  gone,     \* history: ids whose delete was committed
  expired,  \* history: those of them that expired
  late,     \* history: <<id, seq>> written after the id's delete
  crashes

disk == <<meta, idmap, tail, recs, ref, tomb, delete, counter>>
vars == <<meta, idmap, tail, recs, ref, tomb, delete, counter, nextID, reg, bursts,
          mu, gone, expired, late, crashes>>
hist == <<gone, expired, late>>

Free == [pc |-> "free", id |-> 0]

Init ==
  /\ meta = [p \in Paths |-> None]
  /\ idmap = [i \in Ids |-> None]
  /\ tail = [i \in Ids |-> 0]
  /\ recs = [i \in Ids |-> {}]
  /\ ref = [i \in Ids |-> 0]
  /\ tomb = {}
  /\ delete = [i \in Ids |-> None]
  /\ counter = 1 /\ nextID = 1
  /\ reg = [p \in Paths |-> None]
  /\ bursts = << >>
  /\ mu = Free
  /\ gone = {} /\ expired = {} /\ late = {}
  /\ crashes = 0

-----------------------------------------------------------------------------
\* The batch that makes stream m addressable at path p with n first records.
advanced_no(i) == counter
advanced(i) == i + 1
Establish(p, m, n) ==
  /\ meta' = [meta EXCEPT ![p] = m]
  /\ idmap' = [idmap EXCEPT ![m.id] = p]
  /\ tail' = [tail EXCEPT ![m.id] = m.off + n]
  /\ recs' = [recs EXCEPT ![m.id] = @ \cup m.off..(m.off + n - 1)]
  /\ counter' = advanced(m.id)
  /\ nextID' = m.id + 1

\* createStream of an absent path (an existing one is answered and left alone).
CreateStream(p, n, expires) ==
  /\ mu = Free
  /\ p \notin tomb
  /\ meta[p] = None
  /\ nextID <= MaxId
  /\ expires => MayExpire
  /\ Establish(p, [id |-> nextID, from |-> 0, off |-> 0, expires |-> expires], n)
  /\ UNCHANGED <<ref, tomb, delete, reg, bursts, mu, hist, crashes>>

\* One more reference.
bumped_no(i) == ref[i]
bumped(i) == ref[i] + 1

\* createFork of the stream at src, diverging at seq off; the source's reference
\* count rides the same batch.  Its
\* deadline is the source's, its own, or none (a TTL of 0).
CreateFork(p, src, off, n, x) ==
  /\ mu = Free
  /\ p \notin tomb /\ src \notin tomb
  /\ meta[src] # None
  /\ off \in 0..tail[meta[src].id]
  /\ meta[p] = None
  /\ nextID <= MaxId
  /\ off + n <= MaxTail
  /\ x => MayExpire
  /\ Establish(p, [id |-> nextID, from |-> meta[src].id, off |-> off,
                   expires |-> x], n)
  /\ ref' = [ref EXCEPT ![meta[src].id] = bumped(meta[src].id)]
  /\ UNCHANGED <<tomb, delete, reg, bursts, mu, hist, crashes>>

\* deleteStreamLocked's batch: retire the streamer, clear everything addressable,
\* leave the deletion cursor.  A fork then owes its source a dropForkRef.
HardDelete(p, m) ==
  /\ meta' = [meta EXCEPT ![p] = None]
  /\ idmap' = [idmap EXCEPT ![m.id] = None]
  /\ tail' = [tail EXCEPT ![m.id] = 0]
  /\ ref' = [ref EXCEPT ![m.id] = 0]
  /\ tomb' = tomb \ {p}
  /\ delete' = [delete EXCEPT ![m.id] = 0]
  /\ reg' = [reg EXCEPT ![p] = None]
  /\ gone' = gone \cup {m.id}
  /\ mu' = IF m.from = 0 THEN Free ELSE [pc |-> "drop", id |-> m.from]

\* deleteStream of an unreferenced stream ...
DeleteStream(p) ==
  /\ mu = Free
  /\ p \notin tomb
  /\ meta[p] # None
  /\ ref[meta[p].id] = 0
  /\ HardDelete(p, meta[p])
  /\ UNCHANGED <<recs, counter, nextID, bursts, expired, late, crashes>>

\* ... and of one with outstanding forks: softDeleteLocked.
SoftDelete(p) ==
  /\ mu = Free
  /\ p \notin tomb
  /\ meta[p] # None
  /\ ref[meta[p].id] > 0
  /\ tomb' = tomb \cup {p}
  /\ reg' = [reg EXCEPT ![p] = None]
  /\ UNCHANGED <<meta, idmap, tail, recs, ref, delete, counter, nextID, bursts, mu, hist, crashes>>

\* expireIfDue on a current deadline that has passed.
Expire(i) ==
  /\ mu = Free
  /\ idmap[i] # None
  /\ meta[idmap[i]] # None
  /\ meta[idmap[i]].id = i
  /\ meta[idmap[i]].expires
  /\ HardDelete(idmap[i], meta[idmap[i]])
  /\ expired' = expired \cup {i}
  /\ UNCHANGED <<recs, counter, nextID, bursts, late, crashes>>

\* dropForkRef: the decremented count is a batch of its own; at zero a soft-deleted
\* source goes next.
count_early(i) == 0
count(i) == IF ref[i] > 0 THEN ref[i] - 1 ELSE 0
DropForkRef ==
  /\ mu.pc = "drop"
  /\ LET i == mu.id IN
       /\ ref' = [ref EXCEPT ![i] = count(i)]
       /\ mu' = IF /\ count(i) = 0
                   /\ idmap[i] # None /\ meta[idmap[i]] # None
                   /\ idmap[i] \in tomb
                  THEN [pc |-> "cascade", id |-> i] ELSE Free
  /\ UNCHANGED <<meta, idmap, tail, recs, tomb, delete, counter, nextID, reg, bursts, hist, crashes>>

\* The recursive deleteStreamLocked(srcPath, meta).
Cascade ==
  /\ mu.pc = "cascade"
  /\ HardDelete(idmap[mu.id], meta[idmap[mu.id]])
  /\ UNCHANGED <<recs, counter, nextID, bursts, expired, late, crashes>>

\* backgroundDelete, also after a restart (resumeDeletions): one chunk of records
\* from the cursor on, the cursor moving in the same batch ...
ToDelete_after(i) == {q \in recs[i] : q > delete[i]}
ToDelete(i) == {q \in recs[i] : q >= delete[i]}
without_prefix(i, K) == [j \in Ids |-> IF j \in {i, i + 1} THEN recs[j] \ K ELSE recs[j]]
without(i, K) == [recs EXCEPT ![i] = @ \ K]
DeleteChunk(i) ==
  /\ delete[i] # None
  /\ ToDelete(i) # {}
  /\ LET K == {q \in ToDelete(i) : Cardinality({r \in ToDelete(i) : r < q}) < Chunk}
     IN  /\ recs' = without(i, K)
         /\ delete' = [delete EXCEPT ![i] = 1 + CHOOSE q \in K : \A r \in K : r <= q]
  /\ UNCHANGED <<meta, idmap, tail, ref, tomb, counter, nextID, reg, bursts, mu, hist, crashes>>

\* ... until none is left and the marker is cleared.
DeleteDone(i) ==
  /\ delete[i] # None
  /\ ToDelete(i) = {}
  /\ delete' = [delete EXCEPT ![i] = None]
  /\ UNCHANGED <<meta, idmap, tail, recs, ref, tomb, counter, nextID, reg, bursts, mu, hist, crashes>>

-----------------------------------------------------------------------------
(* Streamers. *)

\* getOrSpawn: from meta, under the path's spawn lock; no look at the tombstone.
Spawn(p) ==
  /\ reg[p] = None
  /\ meta[p] # None
  /\ reg' = [reg EXCEPT ![p] = [meta |-> meta[p], tail |-> tail[meta[p].id]]]
  /\ UNCHANGED <<disk, nextID, bursts, mu, hist, crashes>>

\* A burst of one record is planned and handed to the committer; from here on it is
\* written whatever happens to the stream.
Append_(p, withMeta) ==
  /\ reg[p] # None
  /\ reg[p].tail < MaxTail
  /\ Len(bursts) < MaxBursts
  /\ withMeta => MetaBursts
  /\ reg' = [reg EXCEPT ![p].tail = @ + 1]
  /\ bursts' = Append(bursts, [path |-> p, meta |-> reg[p].meta, seq |-> reg[p].tail,
                               withMeta |-> withMeta])
  /\ UNCHANGED <<disk, nextID, mu, hist, crashes>>

\* s without its element i.
Without(s, i) == [k \in 1..(Len(s) - 1) |-> s[IF k < i THEN k ELSE k + 1]]

\* A burst is written: record, tail and, when it changed, meta.  Bursts of one stream
\* are written in order.
WriteBurst(i) ==
  /\ LET b == bursts[i] IN
       /\ \A j \in 1..(i - 1) : bursts[j].meta.id # b.meta.id
       /\ recs' = [recs EXCEPT ![b.meta.id] = @ \cup {b.seq}]
       /\ tail' = [tail EXCEPT ![b.meta.id] = b.seq + 1]
       /\ meta' = IF b.withMeta THEN [meta EXCEPT ![b.path] = b.meta] ELSE meta
       /\ late' = IF b.meta.id \in gone THEN late \cup {<<b.meta.id, b.seq>>} ELSE late
  /\ bursts' = Without(bursts, i)
  /\ UNCHANGED <<idmap, ref, tomb, delete, counter, nextID, reg, mu, gone, expired, crashes>>

\* tryRetire: nothing outstanding.
Retire(p) ==
  /\ reg[p] # None
  /\ \A i \in 1..Len(bursts) : bursts[i].meta.id # reg[p].meta.id
  /\ reg' = [reg EXCEPT ![p] = None]
  /\ UNCHANGED <<disk, nextID, bursts, mu, hist, crashes>>

\* The process dies and restarts: NewServer rereads the id counter and resumes
\* deletions; an interrupted multi-batch delete is not continued.
Crash ==
  /\ crashes < MaxCrashes
  /\ crashes' = crashes + 1
  /\ reg' = [p \in Paths |-> None]
  /\ bursts' = << >>
  /\ mu' = Free
  /\ nextID' = counter
  /\ UNCHANGED <<disk, hist>>

-----------------------------------------------------------------------------
Next ==
  \/ \E p \in Paths, n \in Bodies, x \in BOOLEAN : CreateStream(p, n, x)
  \/ \E p, src \in Paths, off \in 0..MaxTail, n \in Bodies, x \in BOOLEAN :
        CreateFork(p, src, off, n, x)
  \/ \E p \in Paths : DeleteStream(p) \/ SoftDelete(p) \/ Spawn(p) \/ Retire(p)
  \/ \E p \in Paths, m \in BOOLEAN : Append_(p, m)
  \/ \E i \in Ids : Expire(i) \/ DeleteChunk(i) \/ DeleteDone(i)
  \/ DropForkRef \/ Cascade
  \/ \E i \in 1..Len(bursts) : WriteBurst(i)
  \/ Crash

Spec == Init /\ [][Next]_vars

-----------------------------------------------------------------------------
\* The shapes of the key families and of the registry.
TypeOK ==
  /\ meta \in [Paths -> Metas \cup {None}]
  /\ idmap \in [Ids -> Paths \cup {None}]
  /\ tail \in [Ids -> Nat] /\ recs \in [Ids -> SUBSET Nat]
  /\ ref \in [Ids -> Nat]
  /\ tomb \subseteq Paths /\ delete \in [Ids -> Nat \cup {None}]
  /\ counter \in Nat \ {0} /\ nextID \in Nat \ {0}
  /\ reg \in [Paths -> Residents \cup {None}]
  /\ bursts \in Seq(Bursts)
  /\ mu \in [pc : {"free", "drop", "cascade"}, id : 0..MaxId]
  /\ expired \subseteq gone /\ gone \subseteq Ids
  /\ late \subseteq gone \X Nat /\ crashes \in Nat

Live == {p \in Paths : meta[p] # None}

Forks(i) == {p \in Live : meta[p].from = i}

\* A source's stored count is never below its live forks, in any crash state
\* (fork.go: "Bump the source's reference count").
RefCountCoversForks ==
  \A p \in Live : ref[meta[p].id] >= Cardinality(Forks(meta[p].id))

\* A path is addressable under one id, ids are never reused and a stream is never
\* addressable once its delete committed (DESIGN.md: "DELETE clears the addressable
\* metadata immediately ... recreating the path is safe and gets a fresh id").
DeletedStaysDeleted ==
  \A p \in Live : /\ meta[p].id \notin gone /\ meta[p].id < nextID
                  /\ idmap[meta[p].id] = p

\* A live stream is never being eaten by the background deleter, and all of its
\* published records are there (deleter.go, getOrSpawn's "ghost records").
LiveIsIntact ==
  \A p \in Live : /\ delete[meta[p].id] = None
                  /\ meta[p].off..(tail[meta[p].id] - 1) \subseteq recs[meta[p].id]

\* Every record a stream had when it was deleted is either gone or still ahead of
\* its deletion cursor: no crash strands one (deleter.go: "makes deletion resumable
\* rather than restartable").
DeletionResumable ==
  \A i \in gone : \A q \in recs[i] :
    <<i, q>> \in late \/ (delete[i] # None /\ q >= delete[i])
=============================================================================
