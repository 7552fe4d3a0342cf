----------------------------- MODULE ForkReads ------------------------------
(***************************************************************************)
(* Catch-up reads of the streams of Lifecycle: a fork's inherited records  *)
(* are found in the streams it was forked from (internal/ds/fork.go,       *)
(* resolveSegments) and stitched to its own (read.go).                     *)
(***************************************************************************)
EXTENDS Lifecycle

LOCAL INSTANCE SequencesExt    \* FlattenSeq, SetToSortSeq
LOCAL INSTANCE FiniteSetsExt   \* Min, Max

(* Reads: pure functions of the store. *)

loadMetaByID(i) == IF idmap[i] = None THEN None ELSE meta[idmap[i]]

\* resolveSegments for x = <<stream m, startSeq, endSeq>>: the runs of seqs, and whose
\* they are, along the fork chain.  A source that vanished contributes nothing.
resolveSegments[x \in Metas \X (0..MaxTail) \X (0..MaxTail)] ==
  LET m == x[1]
      start == x[2]
      end == x[3]
      src == loadMetaByID(m.from)
  IN  IF start >= end THEN << >>
      ELSE IF m.from = 0 THEN <<[id |-> m.id, start |-> start, end |-> end]>>
      ELSE (IF start < m.off /\ src # None
              THEN resolveSegments[<<[src EXCEPT !.id = m.from], start, Min({end, m.off})>>]
              ELSE << >>)
           \o (IF end > m.off
                 THEN <<[id |-> m.id, start |-> Max({start, m.off}), end |-> end]>>
                 ELSE << >>)

\* readSegments*: what the scans of the segments find, in key order, however the
\* byte limit splits it over reads.
readSegments(segs) ==
  FlattenSeq([k \in 1..Len(segs) |->
    SetToSortSeq({q \in recs[segs[k].id] : segs[k].start <= q /\ q < segs[k].end}, <)])

readRange(m, start, end) == readSegments(resolveSegments[<<m, start, end>>])

\* The first ancestor of m that is gone, or 0.
vanished[m \in Metas] ==
  IF m.from = 0 THEN 0
  ELSE IF loadMetaByID(m.from) = None THEN m.from
  ELSE vanished[loadMetaByID(m.from)]

\* Every catch-up read of m delivers the rest of the stream.
Complete(m) ==
  \A from \in 0..tail[m.id] :
    readRange(m, from, tail[m.id]) = [k \in 1..(tail[m.id] - from) |-> from + k - 1]

-----------------------------------------------------------------------------
\* A catch-up reader that starts at any seq of any live stream, soft-deleted sources
\* included, gets every record from there to the tail, in order and once, stitched
\* over the whole chain of forks, in every crash state, unless an ancestor expired
\* (read.go: "Reads stitch a fork's inherited source segments with its own data").
ForkInheritance ==
  \A p \in Live : vanished[meta[p]] \notin expired => Complete(meta[p])

\* The same without the exception: fork.go's "This should not happen: forks keep
\* sources alive".  expireIfDue does not look at the reference count.
ForksKeepSourcesAlive == \A p \in Live : Complete(meta[p])
=============================================================================
