-------------------------- MODULE Residency_steps ---------------------------
(***************************************************************************)
(* What holds of a path, its streamers and the calls that use them: the    *)
(* inductive invariants behind the theorems of Residency_proofs, the facts *)
(* about sequences they use, and why the steps keep them.  Here: every step*)
(* for the first invariant, and for the second those that neither spawn a  *)
(* streamer nor plan or commit a burst.                                    *)
(***************************************************************************)
EXTENDS Residency, TLAPS

\* Content types a stream can be created with; Types adds the absent header.
ContentTypes == UNION {e.types : e \in Settings}
Types == ContentTypes \cup {None}

\* A resident streamer, an append call, a stored meta, a delete in progress.
Streamers ==
  [id : Nat, ct : ContentTypes, deadline : Nat, wtail : Nat, reqs : Seq(Posters), touch : BOOLEAN,
   pending : Int, dead : BOOLEAN, stop : BOOLEAN, mu : Posters \cup {None},
   pc : {"select", "commit", "retire", "exit"}]

Calls ==
  [pc : {"idle", "resolve", "spawn", "respawn", "submit", "send", "wait"},
   k : Nat, ct : Types, n : {0, 1}, st : Nat, there : BOOLEAN]

Metas == [id : Nat, ct : ContentTypes, deadline : Nat]

Dels ==
  [pc : {"idle", "remove", "stop", "commit"}, kind : {"", "hard", "soft"},
   id : Nat, deadline : Nat, obj : Nat]

\* A sequence, whatever its elements.
IsSeq(s) == s \in Seq({s[i] : i \in DOMAIN s})

\* The calls in a streamer's channel, and those in a burst that was handed over.
Queued(st) == {st.reqs[i] : i \in DOMAIN st.reqs}
InFlight(job) == {job.batch[i].p : i \in DOMAIN job.batch}

\* A burst names a streamer that was spawned and a stream that was created.
JobOK(job) ==
  /\ job.obj \in Objs
  /\ job.id \in DOMAIN tail
  /\ job.ct \in ContentTypes
  /\ job.end \in Nat /\ job.deadline \in Nat

\* The types of the state the proof looks at.
TypeOK ==
  /\ env \in Settings /\ now \in Nat /\ sent \in Nat
  /\ tail \in Seq(Nat)
  /\ meta # None => meta \in Metas /\ meta.id \in DOMAIN tail
  /\ objs \in Seq(Streamers) /\ \A o \in Objs : objs[o].id \in DOMAIN tail
  /\ IsSeq(jobs) /\ \A i \in DOMAIN jobs : JobOK(jobs[i])
  /\ post \in [Posters -> Calls]
  /\ del \in Dels

\* Who holds a streamer holds one that was spawned.
Pointers ==
  /\ registry \in 0..Len(objs) /\ reader \in 0..Len(objs)
  /\ del.pc = "stop" => del.obj \in Objs
  /\ \A p \in Posters : post[p].pc \in {"submit", "send"} => post[p].st \in Objs

\* A call is in one place, a channel or a burst, and then it waits.
Placed ==
  /\ \A o \in Objs : \A p \in Queued(objs[o]) : p \in Posters /\ post[p].pc = "wait"
  /\ \A i \in DOMAIN jobs : \A p \in InFlight(jobs[i]) : p \in Posters /\ post[p].pc = "wait"
  /\ \A o, q \in Objs : o # q => Queued(objs[o]) \cap Queued(objs[q]) = {}
  /\ \A i \in DOMAIN jobs, o \in Objs : InFlight(jobs[i]) \cap Queued(objs[o]) = {}
  /\ \A i, j \in DOMAIN jobs : i # j => InFlight(jobs[i]) \cap InFlight(jobs[j]) = {}

\* A blocked sender holds the mu of its streamer, which has not died.
Locked ==
  \A p \in Posters : post[p].pc = "send" =>
    objs[post[p].st].mu = p /\ ~objs[post[p].st].dead

\* A stopped streamer is dead, and no call in its channel can still count on the
\* stream: it was removed while the call was under way.
Halted ==
  \A o \in Objs : objs[o].stop =>
    objs[o].dead /\ \A p \in Queued(objs[o]) : ~post[p].there

\* Nor can any call while the path has no stream, or one being removed.
Removed ==
  meta = None \/ del.pc \in {"stop", "commit"} => \A p \in Posters : ~post[p].there

\* The inductive invariant.
IInv ==
  TypeOK /\ Pointers /\ Placed /\ Locked /\ Halted /\ Removed /\ NotFoundIsHonest

\* What a step leaves in the stored meta of a path it does not delete.
MetaKept ==
  /\ meta' # None => meta' \in Metas /\ meta'.id \in DOMAIN tail'
  /\ meta' = None => meta = None

-----------------------------------------------------------------------------
\* A sequence over S is one over any larger set.
LEMMA SeqWeaken ==
  ASSUME NEW S, NEW T, S \subseteq T, NEW s \in Seq(S)
  PROVE s \in Seq(T)
OBVIOUS

\* Every sequence is one over its own elements.
LEMMA SeqOfItself ==
  ASSUME NEW T, NEW s \in Seq(T)
  PROVE IsSeq(s) /\ Len(s) \in Nat /\ DOMAIN s = 1..Len(s)
<1>1. Len(s) \in Nat /\ DOMAIN s = 1..Len(s)
  OBVIOUS
<1>2. s \in [1..Len(s) -> {s[i] : i \in DOMAIN s}]
  BY <1>1
<1>3. s \in Seq({s[i] : i \in DOMAIN s})
  BY <1>1, <1>2, SMTT(30)
<1> QED BY <1>1, <1>3 DEF IsSeq

\* The indexes of a sequence and of the streamers, and the number of open bursts.
LEMMA Indexes == \A T : \A s \in Seq(T) : \A i \in DOMAIN s : i \in Nat
OBVIOUS

LEMMA ObjIndex == \A o \in 0..Len(objs) : o # 0 => o \in Objs
BY DEF Objs

LEMMA PendingInt == \A st \in Streamers : st.pending \in Int /\ st.pending - 1 \in Int
BY DEF Streamers

\* Sequence t is s with e behind.
Appended(s, e, t) ==
  /\ IsSeq(t)
  /\ Len(s) \in Nat /\ DOMAIN s = 1..Len(s)
  /\ DOMAIN t = 1..(Len(s) + 1)
  /\ \A i \in 1..Len(s) : t[i] = s[i]
  /\ t[Len(s) + 1] = e

\* What Append does to a sequence of anything.
LEMMA AppendAny ==
  ASSUME NEW s, IsSeq(s), NEW e
  PROVE Appended(s, e, Append(s, e))
<1> DEFINE R == {s[i] : i \in DOMAIN s}
           T == R \cup {e}
<1>1. s \in Seq(R)
  BY DEF IsSeq
<1>2. s \in Seq(T) /\ e \in T
  BY <1>1, SeqWeaken
<1> HIDE DEF T, R
<1>3. /\ Append(s, e) \in Seq(T)
      /\ Len(Append(s, e)) = Len(s) + 1
      /\ \A i \in 1..Len(s) : Append(s, e)[i] = s[i]
      /\ Append(s, e)[Len(s) + 1] = e
  BY <1>2
<1>4. IsSeq(Append(s, e)) /\ DOMAIN Append(s, e) = 1..Len(Append(s, e))
  BY <1>3, SeqOfItself, Zenon
<1> QED BY <1>2, <1>3, <1>4 DEF Appended

\* Taking element i out leaves the others.
LEMMA RemoveAt ==
  ASSUME NEW s, IsSeq(s), NEW i \in DOMAIN s
  PROVE /\ IsSeq(Without(s, i))
        /\ \A k \in DOMAIN Without(s, i) : \E m \in DOMAIN s \ {i} : Without(s, i)[k] = s[m]
        /\ \A k, l \in DOMAIN Without(s, i) : k # l =>
             \E m, n \in DOMAIN s \ {i} :
               m # n /\ Without(s, i)[k] = s[m] /\ Without(s, i)[l] = s[n]
<1> DEFINE R == {s[j] : j \in DOMAIN s}
           f(k) == IF k < i THEN k ELSE k + 1
           u == [k \in 1..(Len(s) - 1) |-> s[f(k)]]
<1>1. s \in Seq(R)
  BY DEF IsSeq
<1>2. Len(s) \in Nat /\ DOMAIN s = 1..Len(s) /\ i \in 1..Len(s)
  BY <1>1
<1> HIDE DEF R
<1>3. \A k \in 1..(Len(s) - 1) : f(k) \in DOMAIN s \ {i}
  BY <1>2
<1>4. \A k, l \in 1..(Len(s) - 1) : k # l => f(k) # f(l)
  BY <1>2
<1> HIDE DEF f
<1>5. \A k \in DOMAIN s : s[k] \in R
  BY DEF R
<1>6. u \in [1..(Len(s) - 1) -> R] /\ Len(s) - 1 \in Nat
  BY <1>2, <1>3, <1>5
<1>7. u \in Seq(R)
  BY <1>6
<1>8. IsSeq(u)
  BY <1>7, SeqOfItself, Zenon
<1>9. Without(s, i) = u
  BY DEF Without, f
<1> QED BY <1>3, <1>4, <1>8, <1>9, SMTT(30)

\* A step that rewrites one streamer leaves the others.
LEMMA Replaced ==
  ASSUME objs \in Seq(Streamers), NEW o \in Objs, NEW n \in Streamers,
         objs' = [objs EXCEPT ![o] = n]
  PROVE /\ objs' \in Seq(Streamers)
        /\ Len(objs) \in Nat /\ Len(objs') = Len(objs) /\ Objs' = Objs
        /\ objs'[o] = n
        /\ \A q \in Objs \ {o} : objs'[q] = objs[q]
BY DEF Objs

\* A streamer that changes stays on its stream.
LEMMA SameIds ==
  ASSUME NEW o \in Objs, NEW n, NEW T, n.id = objs[o].id,
         objs'[o] = n, \A q \in Objs \ {o} : objs'[q] = objs[q],
         \A q \in Objs : objs[q].id \in T
  PROVE  \A q \in Objs : objs'[q].id \in T
<1> SUFFICES ASSUME NEW q \in Objs PROVE objs'[q].id \in T
  BY Zenon
<1>1. CASE q = o
  BY <1>1, Zenon
<1>2. CASE q # o
  BY <1>2, Zenon
<1> QED BY <1>1, <1>2, Zenon

\* A spawn adds one streamer and leaves the others.
LEMMA Added ==
  ASSUME objs \in Seq(Streamers), NEW n \in Streamers, objs' = Append(objs, n)
  PROVE /\ objs' \in Seq(Streamers)
        /\ Len(objs) \in Nat /\ Len(objs') = Len(objs) + 1
        /\ Len(objs') \in Objs' /\ Objs' = Objs \cup {Len(objs')} /\ Len(objs') \notin Objs
        /\ objs'[Len(objs')] = n
        /\ \A q \in Objs : objs'[q] = objs[q]
<1>1. /\ objs' \in Seq(Streamers)
      /\ Len(objs') = Len(objs) + 1
      /\ \A i \in 1..Len(objs) : objs'[i] = objs[i]
      /\ objs'[Len(objs) + 1] = n
  OBVIOUS
<1> QED BY <1>1 DEF Objs

\* Channels that shrink and calls that go on waiting keep Placed.
LEMMA StillPlaced ==
  ASSUME Placed, Objs' = Objs, jobs' = jobs,
         \A o \in Objs : Queued(objs'[o]) \subseteq Queued(objs[o]),
         \A p \in Posters : post[p].pc = "wait" => post'[p].pc = "wait"
  PROVE Placed'
BY Zenon DEF Placed

\* A call that has returned holds nothing.
LEMMA IdleCall ==
  Idle \in Calls /\ Idle.pc = "idle" /\ Idle.there = FALSE
<1>1. None \in Types
  BY DEF Types
<1>2. 0 \in Nat /\ 0 \in {0, 1}
  OBVIOUS
<1>3. FALSE \in BOOLEAN
  OBVIOUS
<1>4. "idle" \in {"idle", "resolve", "spawn", "respawn", "submit", "send", "wait"}
  OBVIOUS
<1>5. Idle \in Calls
  BY <1>1, <1>2, <1>3, <1>4 DEF Idle, Calls
<1> QED BY <1>5 DEF Idle

\* The clock, the Writer's caller, the sweeper's scan.
LEMMA QuietStep ==
  ASSUME IInv, now' \in Nat,
         UNCHANGED <<env, sent, tail, meta, objs, jobs, registry, post, answers, reader, del>>
  PROVE IInv'
<1>1. TypeOK'
  BY DEF IInv, TypeOK, JobOK, Objs
<1>2. Pointers' /\ Locked' /\ Halted' /\ Removed' /\ NotFoundIsHonest'
  BY DEF IInv, Pointers, Locked, Halted, Removed, NotFoundIsHonest, Objs
<1>3. Placed'
  BY Zenon DEF IInv, Placed, Objs
<1> QED BY <1>1, <1>2, <1>3 DEF IInv

\* The types of one streamer and of what is read with it.
LEMMA TheStreamer ==
  ASSUME IInv, NEW o \in Objs
  PROVE /\ objs \in Seq(Streamers) /\ objs[o] \in Streamers
        /\ objs[o].id \in DOMAIN tail /\ objs[o].ct \in ContentTypes
        /\ objs[o].deadline \in Nat /\ objs[o].wtail \in Nat /\ objs[o].reqs \in Seq(Posters)
        /\ env \in Settings /\ now \in Nat
        /\ registry \in 0..Len(objs) /\ reader \in 0..Len(objs)
<1>1. objs \in Seq(Streamers) /\ objs[o] \in Streamers
  BY DEF IInv, TypeOK, Objs
<1>2. \A st \in Streamers : /\ st.ct \in ContentTypes /\ st.deadline \in Nat
                            /\ st.wtail \in Nat /\ st.reqs \in Seq(Posters)
  BY DEF Streamers
<1> QED BY <1>1, <1>2 DEF IInv, TypeOK, Pointers

-----------------------------------------------------------------------------
(* Append calls and reads that touch the stream. *)

\* Calls that are not queued move, and new streamers may be there.
LEMMA CallStep ==
  ASSUME IInv, UNCHANGED <<env, now, tail, meta, jobs, del>>,
         sent' \in Nat, NotFoundIsHonest',
         objs' \in Seq(Streamers), Objs \subseteq Objs',
         \A o \in Objs : objs'[o] = objs[o],
         \A o \in Objs' \ Objs :
           objs'[o].id \in DOMAIN tail /\ objs'[o].reqs = << >> /\ ~objs'[o].stop,
         registry' \in 0..Len(objs'), reader' \in 0..Len(objs'),
         post' \in [Posters -> Calls],
         \A p \in Posters :
           \/ post'[p] = post[p]
           \/ /\ post[p].pc # "wait" /\ post'[p].pc # "send"
              /\ post'[p].pc = "submit" => post'[p].st \in Objs'
              /\ post'[p].there => post[p].there \/ (meta # None /\ spawnLockFree)
  PROVE IInv'
<1> USE DEF IInv
<1>1. TypeOK'
  <2>1. \A o \in Objs' : objs'[o].id \in DOMAIN tail
    BY ZenonT(30) DEF TypeOK
  <2>2. \A i \in DOMAIN jobs : JobOK(jobs[i])'
    BY ZenonT(30) DEF TypeOK, JobOK
  <2> QED BY <2>1, <2>2 DEF TypeOK
<1>2. \A o \in Objs' : Queued(objs'[o]) # {} => o \in Objs /\ objs'[o] = objs[o]
  BY DEF Queued
<1>3. \A p \in Posters : post[p].pc = "wait" => post'[p] = post[p]
  OBVIOUS
<1>4. Pointers'
  BY DEF Pointers
<1>5. Placed'
  <2>1. \A o \in Objs' : \A p \in Queued(objs'[o]) : p \in Posters /\ post'[p].pc = "wait"
    BY <1>2, <1>3, ZenonT(30) DEF Placed
  <2>2. \A i \in DOMAIN jobs : \A p \in InFlight(jobs[i]) : p \in Posters /\ post'[p].pc = "wait"
    BY <1>3 DEF Placed
  <2>3. \A o, q \in Objs' : o # q => Queued(objs'[o]) \cap Queued(objs'[q]) = {}
    BY <1>2, Zenon DEF Placed
  <2>4. \A i \in DOMAIN jobs, o \in Objs' : InFlight(jobs[i]) \cap Queued(objs'[o]) = {}
    BY <1>2, ZenonT(30) DEF Placed
  <2> QED BY <2>1, <2>2, <2>3, <2>4, Zenon DEF Placed
<1>6. Locked'
  BY SMTT(30) DEF Locked, Pointers
<1>7. Halted'
  BY <1>2, <1>3 DEF Halted, Placed
<1>8. Removed'
  BY DEF Removed, spawnLockFree
<1> QED BY <1>1, <1>4, <1>5, <1>6, <1>7, <1>8

\* A call enters the channel of a streamer that is not dead.
LEMMA EnqueueStep ==
  ASSUME IInv, UNCHANGED <<env, now, sent, tail, meta, jobs, registry, answers, reader, del>>,
         NEW p \in Posters, NEW o \in Objs, NEW n \in Streamers, NEW c \in Calls,
         post[p].pc # "wait", post' = [post EXCEPT ![p] = c],
         c.pc = "wait", c.there = post[p].there,
         objs' = [objs EXCEPT ![o] = n],
         n.id = objs[o].id, ~n.stop, Queued(n) = Queued(objs[o]) \cup {p},
         \A q \in Posters \ {p} : post[q].pc = "send" => post[q].st # o
  PROVE IInv'
<1> USE DEF IInv
<1>1. /\ objs' \in Seq(Streamers) /\ Len(objs') = Len(objs) /\ Objs' = Objs
      /\ objs'[o] = n /\ \A q \in Objs \ {o} : objs'[q] = objs[q]
  BY Replaced, Zenon DEF TypeOK
<1>2. post' \in [Posters -> Calls] /\ post'[p] = c /\ \A q \in Posters \ {p} : post'[q] = post[q]
  BY DEF TypeOK
<1>3. TypeOK'
  <2>1. \A q \in Objs : objs'[q].id \in DOMAIN tail
    <3>1. \A q \in Objs : objs[q].id \in DOMAIN tail
      BY Zenon DEF TypeOK
    <3> QED BY <1>1, <3>1, SameIds, ZenonT(30)
  <2>2. \A i \in DOMAIN jobs : JobOK(jobs[i])'
    BY <1>1 DEF TypeOK, JobOK
  <2> QED BY <1>1, <1>2, <2>1, <2>2 DEF TypeOK
<1>4. Pointers'
  BY <1>1, <1>2 DEF Pointers
<1>5. /\ \A q \in Objs : p \notin Queued(objs[q])
      /\ \A i \in DOMAIN jobs : p \notin InFlight(jobs[i])
  BY DEF Placed
<1>6. Placed'
  <2>1. \A q \in Objs : \A r \in Queued(objs'[q]) : r \in Posters /\ post'[r].pc = "wait"
    BY <1>1, <1>2 DEF Placed
  <2>2. \A i \in DOMAIN jobs : \A r \in InFlight(jobs[i]) : r \in Posters /\ post'[r].pc = "wait"
    BY <1>2, <1>5 DEF Placed
  <2>3. \A x, y \in Objs : x # y => Queued(objs'[x]) \cap Queued(objs'[y]) = {}
    <3> SUFFICES ASSUME NEW x \in Objs, NEW y \in Objs, x # y, NEW r,
                        r \in Queued(objs'[x]), r \in Queued(objs'[y])
                 PROVE  FALSE
      BY Zenon
    <3>1. Queued(objs'[o]) = Queued(objs[o]) \cup {p}
      BY <1>1, Zenon
    <3>2. \A q \in Objs \ {o} : Queued(objs'[q]) = Queued(objs[q])
      BY <1>1, Zenon
    <3>3. r \in Queued(objs[x]) /\ r \in Queued(objs[y])
      BY <1>5, <3>1, <3>2, ZenonT(30)
    <3>4. Queued(objs[x]) \cap Queued(objs[y]) = {}
      BY Zenon DEF Placed
    <3> QED BY <3>3, <3>4, Zenon
  <2>4. \A i \in DOMAIN jobs, q \in Objs : InFlight(jobs[i]) \cap Queued(objs'[q]) = {}
    BY <1>1, <1>5 DEF Placed
  <2> QED BY <1>1, <2>1, <2>2, <2>3, <2>4, Zenon DEF Placed
<1>7. Locked'
  BY <1>1, <1>2 DEF Locked, Pointers
<1>8. Halted'
  BY <1>1, <1>2, <1>5 DEF Halted, Placed
<1>9. Removed'
  BY <1>2 DEF Removed
<1>10. NotFoundIsHonest'
  BY DEF NotFoundIsHonest
<1> QED BY <1>3, <1>4, <1>6, <1>7, <1>8, <1>9, <1>10

\* A call blocks on the full channel of a streamer, whose mu it holds.
LEMMA BlockStep ==
  ASSUME IInv, UNCHANGED <<env, now, sent, tail, meta, jobs, registry, answers, reader, del>>,
         NEW p \in Posters, NEW o \in Objs, NEW n \in Streamers, NEW c \in Calls,
         post[p].pc # "wait", post' = [post EXCEPT ![p] = c],
         c.pc = "send", c.st = o, c.there = post[p].there,
         objs' = [objs EXCEPT ![o] = n],
         n.id = objs[o].id, ~n.stop, ~n.dead, n.mu = p, n.reqs = objs[o].reqs,
         \A q \in Posters \ {p} : post[q].pc = "send" => post[q].st # o
  PROVE IInv'
<1> USE DEF IInv
<1>1. /\ objs' \in Seq(Streamers) /\ Len(objs') = Len(objs) /\ Objs' = Objs
      /\ objs'[o] = n /\ \A q \in Objs \ {o} : objs'[q] = objs[q]
  BY Replaced, Zenon DEF TypeOK
<1>2. post' \in [Posters -> Calls] /\ post'[p] = c /\ \A q \in Posters \ {p} : post'[q] = post[q]
  BY DEF TypeOK
<1>3. TypeOK'
  <2>1. \A q \in Objs : objs'[q].id \in DOMAIN tail
    <3>1. \A q \in Objs : objs[q].id \in DOMAIN tail
      BY Zenon DEF TypeOK
    <3> QED BY <1>1, <3>1, SameIds, ZenonT(30)
  <2>2. \A i \in DOMAIN jobs : JobOK(jobs[i])'
    BY <1>1 DEF TypeOK, JobOK
  <2> QED BY <1>1, <1>2, <2>1, <2>2, ZenonT(30) DEF TypeOK
<1>4. Pointers'
  BY <1>1, <1>2 DEF Pointers
<1>5. \A q \in Objs : Queued(objs'[q]) = Queued(objs[q])
  BY <1>1 DEF Queued
<1>6. Placed'
  BY <1>1, <1>2, <1>5, StillPlaced
<1>7. Locked'
  BY <1>1, <1>2 DEF Locked, Pointers
<1>8. Halted'
  BY <1>1, <1>2, <1>5 DEF Halted, Placed
<1>9. Removed'
  BY <1>2 DEF Removed
<1>10. NotFoundIsHonest'
  BY DEF NotFoundIsHonest
<1> QED BY <1>3, <1>4, <1>6, <1>7, <1>8, <1>9, <1>10

\* A call that has found its streamer goes on to submit.
LEMMA CallHinted ==
  ASSUME post \in [Posters -> Calls], NEW p \in Posters, NEW o \in Nat, NEW st \in Streamers,
         Hinted(p, o, st)
  PROVE \E c \in Calls :
          post' = [post EXCEPT ![p] = c] /\ c.pc = "submit" /\ c.st = o /\ c.there = post[p].there
<1> DEFINE ct == IF env.writer THEN st.ct ELSE post[p].ct
           m == IF st.ct = ct THEN 1 ELSE 0
           c == [post[p] EXCEPT !.pc = "submit", !.st = o, !.ct = ct, !.n = m]
<1>1. post[p] \in Calls
  OBVIOUS
<1>2. ct \in Types
  BY <1>1 DEF Calls, Streamers, Types
<1>3. m \in {0, 1}
  OBVIOUS
<1>4. post' = [post EXCEPT ![p].pc = "submit", ![p].st = o, ![p].ct = ct, ![p].n = m]
  BY DEF Hinted
<1> HIDE DEF ct, m
<1>5. post' = [post EXCEPT ![p] = c]
  BY <1>4, Zenon
<1>6. c \in Calls /\ c.pc = "submit" /\ c.st = o /\ c.there = post[p].there
  BY <1>1, <1>2, <1>3, Zenon DEF Calls
<1> QED BY <1>5, <1>6, Zenon

\* A call moves and no streamer is new.
LEMMA OneCall ==
  ASSUME IInv, UNCHANGED <<env, now, tail, meta, objs, jobs, registry, reader, del>>,
         sent' \in Nat, NotFoundIsHonest',
         NEW p \in Posters, NEW c \in Calls, post' = [post EXCEPT ![p] = c],
         post[p].pc # "wait", c.pc # "send", c.pc = "submit" => c.st \in Objs,
         c.there => post[p].there \/ (meta # None /\ spawnLockFree)
  PROVE IInv'
<1>1. /\ post' \in [Posters -> Calls] /\ post'[p] = c
      /\ \A q \in Posters \ {p} : post'[q] = post[q]
  BY DEF IInv, TypeOK
<1>2. /\ objs' \in Seq(Streamers) /\ Objs' = Objs /\ Len(objs') = Len(objs)
      /\ registry' \in 0..Len(objs') /\ reader' \in 0..Len(objs')
  BY DEF IInv, TypeOK, Pointers, Objs
<1> QED BY <1>1, <1>2, CallStep

\* A handler that starts an append.
LEMMA BeginInv ==
  ASSUME IInv, UNCHANGED <<env, now, tail, meta, objs, jobs, registry, answers, reader, del>>,
         NEW p \in Posters, post[p].pc = "idle", NEW ct \in Types, Begin(p, ct)
  PROVE IInv'
<1> DEFINE b == meta # None /\ spawnLockFree
           c == [pc |-> "resolve", k |-> sent + 1, ct |-> ct, n |-> 0, st |-> 0, there |-> b]
<1>1. sent + 1 \in Nat /\ sent' \in Nat /\ b \in BOOLEAN
  BY DEF IInv, TypeOK, Begin
<1>2. c \in Calls /\ c.pc = "resolve" /\ c.there = b
  BY <1>1 DEF Calls
<1>3. post' = [post EXCEPT ![p] = c]
  BY DEF Begin
<1>4. NotFoundIsHonest'
  BY DEF IInv, NotFoundIsHonest
<1> HIDE DEF c
<1> QED BY <1>1, <1>2, <1>3, <1>4, OneCall, Zenon

\* A call is answered before it was queued.
LEMMA ReturnInv ==
  ASSUME IInv, UNCHANGED <<env, now, sent, tail, meta, objs, jobs, registry, reader, del>>,
         NEW p \in Posters, post[p].pc # "wait", NEW status, Return(p, status),
         status = "notfound" => ~post[p].there
  PROVE IInv'
<1>1. post' = [post EXCEPT ![p] = Idle] /\ answers' = answers \cup {Reply(p, status)}
  BY DEF Return
<1>2. Reply(p, status).status = status /\ Reply(p, status).there = post[p].there
  BY DEF Reply
<1>3. NotFoundIsHonest'
  BY <1>1, <1>2 DEF IInv, NotFoundIsHonest
<1>4. sent' \in Nat
  BY DEF IInv, TypeOK
<1> QED BY <1>1, <1>3, <1>4, IdleCall, OneCall, Zenon

\* The POST handler.
LEMMA PostInv ==
  ASSUME IInv, NEW p \in Posters, Post(p)
  PROVE IInv'
<1>1. UNCHANGED <<env, now, tail, meta, objs, jobs, registry, answers, reader, del>>
  BY DEF Post, storeVars, runVars, otherVars
<1>2. PICK ct \in env.types : Begin(p, ct)
  BY DEF Post
<1>3. ct \in Types /\ post[p].pc = "idle"
  BY DEF IInv, TypeOK, Types, ContentTypes, Post
<1> QED BY <1>1, <1>2, <1>3, BeginInv

\* Writer.Write.
LEMMA WriteInv ==
  ASSUME IInv, Write
  PROVE IInv'
<1>1. UNCHANGED <<env, now, tail, meta, objs, jobs, registry, answers, reader, del>>
  BY DEF Write, storeVars, runVars, otherVars
<1>2. CASE \E p \in Posters : post[p].pc = "idle" /\ Begin(p, None)
  <2>1. PICK p \in Posters : post[p].pc = "idle" /\ Begin(p, None)
    BY <1>2
  <2>2. None \in Types
    BY DEF Types
  <2> QED BY <1>1, <2>1, <2>2, BeginInv
<1>3. CASE UNCHANGED <<post, sent>>
  <2>1. now' \in Nat
    BY <1>1 DEF IInv, TypeOK
  <2> QED BY <1>1, <1>3, <2>1, QuietStep
<1> QED BY <1>2, <1>3 DEF Write

\* resolveForAppend.
LEMMA ResolveInv ==
  ASSUME IInv, NEW p \in Posters, Resolve(p)
  PROVE IInv'
<1>1. /\ UNCHANGED <<env, now, sent, tail, meta, objs, jobs, registry, reader, del>>
      /\ post[p].pc = "resolve" /\ sent' \in Nat /\ post \in [Posters -> Calls]
  BY DEF Resolve, storeVars, runVars, otherVars, IInv, TypeOK
<1>2. ASSUME UNCHANGED answers PROVE NotFoundIsHonest'
  BY <1>2 DEF IInv, NotFoundIsHonest
<1>3. CASE registry # 0 /\ Hinted(p, registry, objs[registry]) /\ UNCHANGED answers
  <2>1. registry \in Objs /\ registry \in Nat /\ objs[registry] \in Streamers
    BY <1>3 DEF IInv, TypeOK, Pointers, Objs
  <2>2. PICK c \in Calls : /\ post' = [post EXCEPT ![p] = c] /\ c.pc = "submit"
                           /\ c.st = registry /\ c.there = post[p].there
    BY <1>1, <1>3, <2>1, CallHinted
  <2> QED BY <1>1, <1>2, <1>3, <2>1, <2>2, OneCall, Zenon
<1>4. CASE registry = 0 /\ tomb /\ Return(p, "gone")
  BY <1>1, <1>4, ReturnInv
<1>5. CASE registry = 0 /\ ~tomb /\ post' = [post EXCEPT ![p].pc = "spawn"] /\ UNCHANGED answers
  <2>1. PICK c \in Calls : /\ post' = [post EXCEPT ![p] = c] /\ c.pc = "spawn"
                           /\ c.there = post[p].there
    <3> DEFINE d == [post[p] EXCEPT !.pc = "spawn"]
    <3>1. post' = [post EXCEPT ![p] = d] /\ post[p] \in Calls
      BY <1>1, <1>5
    <3>2. d \in Calls /\ d.pc = "spawn" /\ d.there = post[p].there
      BY <3>1, Zenon DEF Calls
    <3> QED BY <3>1, <3>2, Zenon
  <2> QED BY <1>1, <1>2, <1>5, <2>1, OneCall, Zenon
<1> QED BY <1>3, <1>4, <1>5 DEF Resolve

\* A caller gives up before its request is queued.
LEMMA CancelInv ==
  ASSUME IInv, NEW p \in Posters, AppendCancelled(p)
  PROVE IInv'
<1>1. /\ UNCHANGED <<env, now, sent, tail, meta, objs, jobs, registry, reader, del>>
      /\ post[p].pc = "resolve" /\ Return(p, "cancelled")
  BY DEF AppendCancelled, storeVars, runVars, otherVars
<1> QED BY <1>1, ReturnInv

\* What getOrSpawn leaves, and when it finds nothing.
LEMMA GetOrSpawn ==
  ASSUME IInv, getOrSpawn
  PROVE /\ objs' \in Seq(Streamers) /\ Objs \subseteq Objs'
        /\ \A o \in Objs : objs'[o] = objs[o]
        /\ \A o \in Objs' \ Objs :
             objs'[o].id \in DOMAIN tail /\ objs'[o].reqs = << >> /\ ~objs'[o].stop
        /\ registry' \in 0..Len(objs') /\ 0..Len(objs) \subseteq 0..Len(objs')
        /\ registry' # 0 => registry' \in Objs'
        /\ registry' = 0 => meta = None /\ UNCHANGED <<objs, registry>>
<1> USE DEF IInv
<1>1. CASE UNCHANGED <<objs, registry>> /\ (registry # 0 \/ meta = None)
  BY <1>1 DEF TypeOK, Pointers, Objs
<1>2. CASE meta # None /\ objs' = Append(objs, newStreamer) /\ registry' = Len(objs) + 1
  <2>1. meta \in Metas /\ meta.id \in DOMAIN tail /\ tail[meta.id] \in Nat
    BY <1>2 DEF TypeOK
  <2>2. << >> \in Seq(Posters) /\ 0 \in Int /\ meta.id \in Nat /\ meta.ct \in ContentTypes /\ meta.deadline \in Nat
    BY <2>1, SMTT(30) DEF Metas
  <2>3. /\ newStreamer \in Streamers /\ newStreamer.id = meta.id
        /\ newStreamer.reqs = << >> /\ newStreamer.stop = FALSE
    BY <2>1, <2>2 DEF newStreamer, Streamers
  <2> HIDE DEF newStreamer
  <2>4. objs \in Seq(Streamers)
    BY DEF TypeOK
  <2>5. /\ objs' \in Seq(Streamers)
        /\ Len(objs) \in Nat /\ Len(objs') = Len(objs) + 1
        /\ Len(objs') \in Objs' /\ Objs' = Objs \cup {Len(objs')} /\ Len(objs') \notin Objs
        /\ objs'[Len(objs')] = newStreamer
        /\ \A q \in Objs : objs'[q] = objs[q]
    BY <1>2, <2>3, <2>4, Added, Zenon
  <2>6. \A o \in Objs' \ Objs : objs'[o] = newStreamer
    BY <2>5
  <2>7. registry' = Len(objs') /\ 0..Len(objs) \subseteq 0..Len(objs')
    BY <1>2, <2>5
  <2> QED BY <2>1, <2>3, <2>5, <2>6, <2>7
<1> QED BY <1>1, <1>2 DEF getOrSpawn

\* getOrSpawn on behalf of an append; its 404 comes from a path without a stream.
LEMMA SpawnInv ==
  ASSUME IInv, NEW p \in Posters, Spawn(p)
  PROVE IInv'
<1>1. /\ UNCHANGED <<env, now, sent, tail, meta, jobs, reader, del>>
      /\ post[p].pc \in {"spawn", "respawn"} /\ getOrSpawn
      /\ sent' \in Nat /\ post \in [Posters -> Calls]
  BY DEF Spawn, storeVars, otherVars, IInv, TypeOK
<1>2. /\ objs' \in Seq(Streamers) /\ Objs \subseteq Objs'
      /\ \A o \in Objs : objs'[o] = objs[o]
      /\ \A o \in Objs' \ Objs :
           objs'[o].id \in DOMAIN tail /\ objs'[o].reqs = << >> /\ ~objs'[o].stop
      /\ registry' \in 0..Len(objs') /\ 0..Len(objs) \subseteq 0..Len(objs')
      /\ registry' # 0 => registry' \in Objs'
      /\ registry' = 0 => meta = None /\ UNCHANGED <<objs, registry>>
  BY <1>1, GetOrSpawn, ZenonT(30)
<1>3. CASE registry' = 0 /\ Return(p, "notfound")
  <2>1. ~post[p].there
    BY <1>2, <1>3, ZenonT(30) DEF IInv, Removed
  <2> QED BY <1>1, <1>2, <1>3, <2>1, ReturnInv, ZenonT(30)
<1>4. CASE registry' # 0 /\ UNCHANGED answers
  <2>1. registry' \in Nat /\ registry' \in Objs' /\ objs'[registry'] \in Streamers
    BY <1>2, <1>4 DEF Objs
  <2>2. PICK c \in Calls : /\ post' = [post EXCEPT ![p] = c] /\ c.pc = "submit"
                           /\ c.st = registry' /\ c.there = post[p].there
    <3>1. CASE Hinted(p, registry', objs'[registry'])
      BY <1>1, <2>1, <3>1, CallHinted
    <3>2. CASE post' = [post EXCEPT ![p].pc = "submit", ![p].st = registry']
      <4> DEFINE r == registry'
                 d == [post[p] EXCEPT !.pc = "submit", !.st = r]
      <4>1. r \in Nat
        BY <2>1
      <4>2. post' = [post EXCEPT ![p] = d] /\ post[p] \in Calls
        BY <1>1, <3>2, Zenon
      <4> HIDE DEF r
      <4>3. d \in Calls /\ d.pc = "submit" /\ d.st = r /\ d.there = post[p].there
        BY <4>1, <4>2, Zenon DEF Calls
      <4> QED BY <4>2, <4>3, Zenon DEF r
    <3> QED BY <1>4, <3>1, <3>2 DEF Spawn
  <2>3. /\ post' \in [Posters -> Calls] /\ post'[p] = c
        /\ \A q \in Posters \ {p} : post'[q] = post[q]
    BY <1>1, <2>2, ZenonT(30)
  <2>4. NotFoundIsHonest' /\ reader' \in 0..Len(objs')
    BY <1>1, <1>2, <1>4 DEF IInv, NotFoundIsHonest, Pointers
  <2>5. \A q \in Posters :
          \/ post'[q] = post[q]
          \/ /\ post[q].pc # "wait" /\ post'[q].pc # "send"
             /\ post'[q].pc = "submit" => post'[q].st \in Objs'
             /\ post'[q].there => post[q].there \/ (meta # None /\ spawnLockFree)
    BY <1>1, <2>1, <2>2, <2>3, ZenonT(30)
  <2> QED BY <1>1, <1>2, <2>3, <2>4, <2>5, CallStep, ZenonT(30)
<1> QED BY <1>3, <1>4 DEF Spawn

\* getOrSpawn on behalf of a read that touches the stream.
LEMMA TouchResolveInv ==
  ASSUME IInv, TouchResolve
  PROVE IInv'
<1>1. /\ UNCHANGED <<env, now, sent, tail, meta, jobs, post, answers, del>>
      /\ getOrSpawn /\ reader' = registry'
      /\ sent' \in Nat /\ post' \in [Posters -> Calls]
  BY Zenon DEF TouchResolve, storeVars, callVars, IInv, TypeOK
<1>2. NotFoundIsHonest'
  BY <1>1 DEF IInv, NotFoundIsHonest
<1> QED BY <1>1, <1>2, GetOrSpawn, CallStep

\* The channel after a send holds the sender and those before it.
LEMMA AppendQueued ==
  ASSUME NEW s \in Seq(Posters), NEW p \in Posters
  PROVE /\ Append(s, p) \in Seq(Posters)
        /\ {Append(s, p)[i] : i \in DOMAIN Append(s, p)} = {s[i] : i \in DOMAIN s} \cup {p}
<1>1. Append(s, p) \in Seq(Posters)
  OBVIOUS
<1>2. IsSeq(s)
  BY SeqOfItself
<1>3. /\ Len(s) \in Nat /\ DOMAIN s = 1..Len(s)
      /\ DOMAIN Append(s, p) = 1..(Len(s) + 1)
      /\ \A i \in 1..Len(s) : Append(s, p)[i] = s[i]
      /\ Append(s, p)[Len(s) + 1] = p
  <2>1. Appended(s, p, Append(s, p))
    BY <1>2, AppendAny, Zenon
  <2> QED BY <2>1, Zenon DEF Appended
<1> QED BY <1>1, <1>3

\* submitAppend: queued, blocked on a full channel, or sent back to getOrSpawn.
LEMMA SubmitInv ==
  ASSUME IInv, NEW p \in Posters, submitAppend(p)
  PROVE IInv'
<1> DEFINE o == post[p].st
<1>1. /\ UNCHANGED <<env, now, sent, tail, meta, jobs, registry, reader, answers, del>>
      /\ post[p].pc = "submit" /\ objs[o].mu = None
      /\ sent' \in Nat /\ post \in [Posters -> Calls] /\ post[p] \in Calls
  BY DEF submitAppend, storeVars, otherVars, IInv, TypeOK
<1>2. /\ o \in Objs /\ objs \in Seq(Streamers) /\ objs[o] \in Streamers
      /\ objs[o].reqs \in Seq(Posters)
  <2>1. o \in Objs
    BY <1>1, ZenonT(30) DEF IInv, Pointers
  <2> HIDE DEF o
  <2> QED BY <2>1, TheStreamer, Zenon
<1>3. \A q \in Posters \ {p} : post[q].pc = "send" => post[q].st # o
  BY <1>1, ResidencyAssumption, SMTT(30) DEF IInv, Locked
<1>4. ~objs[o].dead => ~objs[o].stop
  BY <1>2 DEF IInv, Halted
<1>5. CASE post' = [post EXCEPT ![p].pc = "respawn"] /\ UNCHANGED objs
  <2> DEFINE d == [post[p] EXCEPT !.pc = "respawn"]
  <2>1. post' = [post EXCEPT ![p] = d]
    BY <1>1, <1>5
  <2>2. d \in Calls /\ d.pc = "respawn" /\ d.there = post[p].there
    BY <1>1, Zenon DEF Calls
  <2>3. NotFoundIsHonest'
    BY <1>1 DEF IInv, NotFoundIsHonest
  <2> HIDE DEF d
  <2> QED BY <1>1, <1>5, <2>1, <2>2, <2>3, OneCall, Zenon
<1>6. CASE /\ ~objs[o].dead
           /\ objs' = [objs EXCEPT ![o].reqs = Append(@, p)]
           /\ post' = [post EXCEPT ![p].pc = "wait"]
  <2> DEFINE d == [post[p] EXCEPT !.pc = "wait"]
             a == Append(objs[o].reqs, p)
             n == [objs[o] EXCEPT !.reqs = a]
  <2>0. ~objs[o].dead /\ ~objs[o].stop
    BY <1>4, <1>6
  <2>1. post' = [post EXCEPT ![p] = d]
    BY <1>1, <1>6
  <2>2. d \in Calls /\ d.pc = "wait" /\ d.there = post[p].there
    BY <1>1, Zenon DEF Calls
  <2>3. objs' = [objs EXCEPT ![o] = n]
    BY <1>2, <1>6 DEF Objs
  <2>4. a \in Seq(Posters) /\ {a[i] : i \in DOMAIN a} = Queued(objs[o]) \cup {p}
    BY <1>2, AppendQueued, Zenon DEF Queued
  <2> HIDE DEF o, d, a
  <2>5. n \in Streamers /\ n.id = objs[o].id /\ n.stop = objs[o].stop /\ n.reqs = a
    BY <1>2, <2>4, Zenon DEF Streamers
  <2> HIDE DEF n
  <2>6. Queued(n) = Queued(objs[o]) \cup {p}
    BY <2>4, <2>5, Zenon DEF Queued
  <2> QED BY <1>1, <1>2, <1>3, <2>0, <2>1, <2>2, <2>3, <2>5, <2>6, EnqueueStep, Zenon
<1>7. CASE /\ ~objs[o].dead
           /\ objs' = [objs EXCEPT ![o].mu = p]
           /\ post' = [post EXCEPT ![p].pc = "send"]
  <2> DEFINE d == [post[p] EXCEPT !.pc = "send"]
             n == [objs[o] EXCEPT !.mu = p]
  <2>0. ~objs[o].dead /\ ~objs[o].stop
    BY <1>4, <1>7
  <2>1. post' = [post EXCEPT ![p] = d]
    BY <1>1, <1>7
  <2>2. d \in Calls /\ d.pc = "send" /\ d.st = o /\ d.there = post[p].there
    BY <1>1, Zenon DEF Calls
  <2>3. objs' = [objs EXCEPT ![o] = n]
    BY <1>2, <1>7 DEF Objs
  <2> HIDE DEF o, d
  <2>4. /\ n \in Streamers /\ n.id = objs[o].id /\ n.stop = objs[o].stop
        /\ n.dead = objs[o].dead /\ n.reqs = objs[o].reqs /\ n.mu = p
    BY <1>2, Zenon DEF Streamers
  <2> HIDE DEF n
  <2> QED BY <1>1, <1>2, <1>3, <2>0, <2>1, <2>2, <2>3, <2>4, BlockStep, Zenon
<1> QED BY <1>5, <1>6, <1>7 DEF submitAppend

\* The blocked sender gets its slot.
LEMMA SendInv ==
  ASSUME IInv, NEW p \in Posters, Send(p)
  PROVE IInv'
<1> DEFINE o == post[p].st
           d == [post[p] EXCEPT !.pc = "wait"]
           a == Append(objs[o].reqs, p)
           n == [objs[o] EXCEPT !.reqs = a, !.mu = None]
<1>1. /\ UNCHANGED <<env, now, sent, tail, meta, jobs, registry, reader, answers, del>>
      /\ post[p].pc = "send" /\ post \in [Posters -> Calls] /\ post[p] \in Calls
  BY DEF Send, storeVars, otherVars, IInv, TypeOK
<1>2. /\ o \in Objs /\ objs \in Seq(Streamers) /\ objs[o] \in Streamers
      /\ objs[o].reqs \in Seq(Posters)
  <2>1. o \in Objs
    BY <1>1 DEF IInv, Pointers
  <2> HIDE DEF o
  <2> QED BY <2>1, TheStreamer
<1>3. \A q \in Posters \ {p} : post[q].pc = "send" => post[q].st # o
  BY <1>1, ZenonT(30) DEF IInv, Locked
<1>4. ~objs[o].stop
  BY <1>1, <1>2 DEF IInv, Halted, Locked
<1>5. post' = [post EXCEPT ![p] = d]
  BY <1>1 DEF Send
<1>6. d \in Calls /\ d.pc = "wait" /\ d.there = post[p].there
  BY <1>1, Zenon DEF Calls
<1>7. objs' = [objs EXCEPT ![o] = n]
  BY <1>2, Zenon DEF Send, Objs
<1>8. a \in Seq(Posters) /\ {a[i] : i \in DOMAIN a} = Queued(objs[o]) \cup {p}
  BY <1>2, AppendQueued, Zenon DEF Queued
<1> HIDE DEF o, d, a
<1>9. n \in Streamers /\ n.id = objs[o].id /\ n.stop = objs[o].stop /\ n.reqs = a
  BY <1>2, <1>8, Zenon DEF Streamers
<1> HIDE DEF n
<1>10. Queued(n) = Queued(objs[o]) \cup {p}
  BY <1>8, <1>9, Zenon DEF Queued
<1> QED BY <1>1, <1>2, <1>3, <1>4, <1>5, <1>6, <1>7, <1>9, <1>10, EnqueueStep, Zenon

-----------------------------------------------------------------------------
(* Create, delete and expiry. *)

\* Create, and what delete and expiry do before and after they hold a streamer.
LEMMA StoreStep ==
  ASSUME IInv, UNCHANGED <<env, now, sent, objs, jobs, registry, post, answers, reader>>,
         tail' \in Seq(Nat), DOMAIN tail \subseteq DOMAIN tail',
         meta' # None => meta' \in Metas /\ meta'.id \in DOMAIN tail',
         del' \in Dels, del'.pc # "stop", Removed'
  PROVE IInv'
<1> USE DEF IInv
<1>1. TypeOK'
  <2>1. Objs' = Objs
    BY ZenonT(30) DEF Objs
  <2>2. \A i \in DOMAIN jobs : JobOK(jobs[i])'
    BY <2>1, ZenonT(30) DEF TypeOK, JobOK
  <2> QED BY <2>1, <2>2 DEF TypeOK
<1>2. Pointers' /\ Locked' /\ Halted' /\ NotFoundIsHonest'
  BY DEF Pointers, Locked, Halted, NotFoundIsHonest, Objs
<1>3. Placed'
  BY Zenon DEF Placed, Objs
<1> QED BY <1>1, <1>2, <1>3, ZenonT(30)

\* From here no call may rely on the stream, and none is answered for it.
LEMMA RemoveEntryInv ==
  ASSUME IInv, RemoveEntry
  PROVE IInv'
<1> USE DEF IInv
<1>1. /\ post' \in [Posters -> Calls]
      /\ \A p \in Posters : post'[p].pc = post[p].pc /\ post'[p].st = post[p].st /\ ~post'[p].there
  <2>1. \A c \in Calls : LET d == [c EXCEPT !.there = FALSE]
                         IN d \in Calls /\ d.pc = c.pc /\ d.st = c.st /\ d.there = FALSE
    BY Zenon DEF Calls
  <2>2. \A p \in Posters : post[p] \in Calls
    BY DEF TypeOK
  <2> QED BY <2>1, <2>2, Zenon DEF RemoveEntry
<1>2. /\ del' \in Dels /\ del'.pc \in {"stop", "commit"}
      /\ del'.pc = "stop" => del'.obj \in Objs
  <2>2. del \in Dels /\ registry \in Nat /\ (registry # 0 => registry \in Objs)
    BY DEF TypeOK, Pointers, Objs
  <2>3. PICK x \in {"stop", "commit"} :
          /\ del' = [del EXCEPT !.pc = x, !.obj = registry]
          /\ x = "stop" => registry # 0
    <3> DEFINE x == IF registry = 0 THEN "commit" ELSE "stop"
    <3>1. del' = [del EXCEPT !.pc = x, !.obj = registry]
      BY DEF RemoveEntry
    <3>2. x \in {"stop", "commit"} /\ (x = "stop" => registry # 0)
      OBVIOUS
    <3> QED BY <3>1, <3>2, Zenon
  <2> DEFINE e == [del EXCEPT !.pc = x, !.obj = registry]
  <2>5. x \in {"stop", "commit"} /\ del' = e
    BY <2>3
  <2>6. e \in Dels /\ e.pc = x /\ e.obj = registry
    <3> QED BY <2>2, <2>5, Zenon DEF Dels
  <2> HIDE DEF e
  <2>4. del' \in Dels /\ del'.pc = x /\ del'.obj = registry
    BY <2>5, <2>6
  <2> QED BY <2>2, <2>3, <2>4
<1>3. UNCHANGED <<env, now, sent, tail, meta, objs, jobs, answers, reader>> /\ registry' = 0
  BY ZenonT(30) DEF RemoveEntry, storeVars
<1>4. TypeOK'
  <2>1. Objs' = Objs
    BY <1>3, Zenon DEF Objs
  <2>2. \A i \in DOMAIN jobs : JobOK(jobs[i])'
    BY <1>3, <2>1, Zenon DEF TypeOK, JobOK
  <2>3. registry' \in Nat
    BY <1>3
  <2> QED BY <1>1, <1>2, <1>3, <2>1, <2>2, <2>3, Zenon DEF TypeOK
<1>5. Pointers'
  BY <1>1, <1>2, <1>3 DEF Pointers, Objs
<1>6. Placed'
  BY <1>1, <1>3, StillPlaced, ZenonT(30) DEF Objs
<1>7. Locked'
  BY <1>1, <1>3, ZenonT(30) DEF Locked
<1>8. Halted'
  BY <1>1, <1>3, ZenonT(30) DEF Halted, Placed, Objs
<1>9. Removed' /\ NotFoundIsHonest'
  BY <1>1, <1>3 DEF Removed, NotFoundIsHonest
<1> QED BY <1>4, <1>5, <1>6, <1>7, <1>8, <1>9

\* A streamer is stopped only inside a delete, so no call in its channel can
\* count on the stream.
LEMMA StopStreamerInv ==
  ASSUME IInv, StopStreamer
  PROVE IInv'
<1> USE DEF IInv
<1> DEFINE o == del.obj
<1>1. o \in Objs /\ objs[o] \in Streamers /\ objs[o].mu = None
  BY DEF StopStreamer, Pointers, TypeOK, Objs
<1>2. UNCHANGED <<env, now, sent, tail, meta, jobs, registry, post, answers, reader>>
  BY DEF StopStreamer, storeVars, callVars
<1>3. \A p \in Posters : ~post[p].there
  BY DEF Removed, StopStreamer
<1>4. del' \in Dels /\ del'.pc = "commit"
  <2>1. \A d \in Dels : LET e == [d EXCEPT !.pc = "commit"] IN e \in Dels /\ e.pc = "commit"
    BY Zenon DEF Dels
  <2> QED BY <2>1 DEF StopStreamer, TypeOK
<1>5. PICK b \in BOOLEAN : objs' = [objs EXCEPT ![o].stop = b, ![o].dead = TRUE]
  BY <1>1, Zenon DEF StopStreamer, Streamers
<1> HIDE DEF o
<1>6. PICK n \in Streamers :
        /\ objs' = [objs EXCEPT ![o] = n]
        /\ n.id = objs[o].id /\ n.reqs = objs[o].reqs /\ n.mu = None /\ n.dead
  <2> DEFINE n == [objs[o] EXCEPT !.stop = b, !.dead = TRUE]
  <2>1. objs' = [objs EXCEPT ![o] = n]
    BY <1>1, <1>5, Zenon DEF Objs
  <2>2. n \in Streamers /\ n.id = objs[o].id /\ n.reqs = objs[o].reqs /\ n.mu = objs[o].mu /\ n.dead = TRUE
    BY <1>1, Zenon DEF Streamers
  <2> QED BY <1>1, <2>1, <2>2, Zenon
<1>7. /\ objs' \in Seq(Streamers) /\ Len(objs') = Len(objs) /\ Objs' = Objs
      /\ objs'[o] = n /\ \A q \in Objs \ {o} : objs'[q] = objs[q]
  BY <1>1, <1>6, Replaced, Zenon DEF TypeOK
<1>8. TypeOK'
  <2>1. \A q \in Objs : objs'[q].id \in DOMAIN tail
    BY <1>1, <1>6, <1>7, ZenonT(30) DEF TypeOK
  <2>2. \A i \in DOMAIN jobs : JobOK(jobs[i])'
    BY <1>2, <1>7, ZenonT(30) DEF TypeOK, JobOK
  <2> QED BY <1>2, <1>4, <1>7, <2>1, <2>2, ZenonT(30) DEF TypeOK
<1>9. Pointers'
  BY <1>2, <1>4, <1>7, ZenonT(30) DEF Pointers
<1>10. \A q \in Objs : Queued(objs'[q]) = Queued(objs[q])
  <2>1. \A q \in Objs : objs'[q].reqs = objs[q].reqs
    BY <1>6, <1>7, Zenon
  <2> QED BY <2>1, Zenon DEF Queued
<1>11. Placed'
  <2>1. \A q \in Objs : Queued(objs'[q]) \subseteq Queued(objs[q])
    BY <1>10, Zenon
  <2>2. Placed /\ Objs' = Objs /\ jobs' = jobs /\ post' = post
    BY <1>2, <1>7, Zenon
  <2> QED BY <2>1, <2>2, StillPlaced, Zenon
<1>12. Locked'
  <2> SUFFICES ASSUME NEW p \in Posters, post[p].pc = "send"
               PROVE objs'[post[p].st].mu = p /\ ~objs'[post[p].st].dead
    BY <1>2, Zenon DEF Locked
  <2>1. post[p].st \in Objs /\ objs[post[p].st].mu = p /\ ~objs[post[p].st].dead
    BY Zenon DEF Locked, Pointers
  <2>2. post[p].st # o
    BY <1>1, <2>1, ResidencyAssumption, ZenonT(30)
  <2> QED BY <1>7, <2>1, <2>2, Zenon
<1>13. Halted'
  BY <1>2, <1>3, <1>6, <1>7, <1>10, ZenonT(30) DEF Halted, Placed
<1>14. Removed' /\ NotFoundIsHonest'
  BY <1>2, <1>3, ZenonT(30) DEF Removed, NotFoundIsHonest
<1> QED BY <1>8, <1>9, <1>11, <1>12, <1>13, <1>14

\* A create takes a path that has no stream.
LEMMA CreateInv ==
  ASSUME IInv, CreateStream
  PROVE IInv'
<1> USE DEF IInv
<1>1. UNCHANGED <<env, now, sent, objs, jobs, registry, post, answers, reader, del>>
  BY ZenonT(30) DEF CreateStream, runVars, callVars, otherVars
<1>2. /\ tail \in Seq(Nat) /\ tail' = Append(tail, 0) /\ tail' \in Seq(Nat)
      /\ Len(tail) + 1 \in Nat /\ Len(tail) + 1 \in DOMAIN tail' /\ DOMAIN tail \subseteq DOMAIN tail'
  BY DEF CreateStream, TypeOK
<1>3. initialDeadline \in Nat
  BY ResidencyAssumption DEF initialDeadline, TypeOK
<1>4. PICK ct \in env.types : meta' = [id |-> Len(tail) + 1, ct |-> ct, deadline |-> initialDeadline]
  BY DEF CreateStream
<1>5. ct \in ContentTypes
  BY DEF ContentTypes, TypeOK
<1>6. meta' \in Metas /\ meta'.id = Len(tail) + 1
  BY <1>2, <1>3, <1>4, <1>5, ZenonT(30) DEF Metas
<1>7. Removed'
  BY <1>1, ZenonT(30) DEF Removed, CreateStream
<1>8. del' \in Dels /\ del'.pc # "stop"
  BY <1>1, ZenonT(30) DEF TypeOK, CreateStream
<1> QED BY <1>1, <1>2, <1>6, <1>7, <1>8, StoreStep, ZenonT(30)

\* A delete begins: metaMu is held, nothing has been removed.
LEMMA DeleteBegins ==
  ASSUME IInv, UNCHANGED <<env, now, sent, tail, meta, objs, jobs, registry, post, answers, reader>>,
         del' \in Dels, del'.pc = "remove"
  PROVE IInv'
<1>1. Removed'
  BY ZenonT(30) DEF IInv, Removed
<1> QED BY <1>1, StoreStep, Zenon DEF IInv, TypeOK

\* Delete takes metaMu and reads the meta.
LEMMA DeleteInv ==
  ASSUME IInv, deleteStream
  PROVE IInv'
<1>1. UNCHANGED <<env, now, sent, tail, meta, objs, jobs, registry, post, answers, reader>>
  BY ZenonT(30) DEF deleteStream, storeVars, runVars, callVars
<1>2. CASE UNCHANGED del
  BY <1>1, <1>2, QuietStep, ZenonT(30) DEF IInv, TypeOK
<1>3. CASE /\ meta # None
           /\ \E kind \in env.kinds :
                del' = [pc |-> "remove", kind |-> kind, id |-> meta.id,
                        deadline |-> meta.deadline, obj |-> 0]
  <2>1. PICK kind \in env.kinds :
          del' = [pc |-> "remove", kind |-> kind, id |-> meta.id, deadline |-> meta.deadline, obj |-> 0]
    BY <1>3, ZenonT(30)
  <2>2. kind \in {"", "hard", "soft"}
    <3>1. env \in Settings
      BY Zenon DEF IInv, TypeOK
    <3> QED BY <3>1, ResidencyAssumption, Zenon
  <2>3. meta.id \in Nat /\ meta.deadline \in Nat
    BY <1>3, ZenonT(30) DEF IInv, TypeOK, Metas
  <2>4. del' \in Dels /\ del'.pc = "remove"
    BY <2>1, <2>2, <2>3, ZenonT(30) DEF Dels
  <2> QED BY <1>1, <2>4, DeleteBegins, ZenonT(30)
<1> QED BY <1>2, <1>3, ZenonT(30) DEF deleteStream

\* So does the sweeper, for a meta that has expired.
LEMMA ExpireInv ==
  ASSUME IInv, NEW e, expireIfDue(e)
  PROVE IInv'
<1>1. UNCHANGED <<env, now, sent, tail, meta, objs, jobs, registry, post, answers, reader>>
  BY ZenonT(30) DEF expireIfDue, runVars, callVars
<1>2. CASE UNCHANGED del
  BY <1>1, <1>2, QuietStep, ZenonT(30) DEF IInv, TypeOK
<1>3. CASE /\ meta # None /\ meta.id = e[2] /\ meta.deadline = e[1]
           /\ del' = [pc |-> "remove", kind |-> "hard", id |-> e[2], deadline |-> e[1], obj |-> 0]
  <2>1. e[2] \in Nat /\ e[1] \in Nat
    <3>1. meta \in Metas
      BY <1>3 DEF IInv, TypeOK
    <3>2. meta.id \in Nat /\ meta.deadline \in Nat
      BY <3>1, Zenon DEF Metas
    <3> QED BY <1>3, <3>2, Zenon
  <2>2. del' \in Dels /\ del'.pc = "remove"
    BY <1>3, <2>1, ZenonT(30) DEF Dels
  <2> QED BY <1>1, <2>2, <1>3, DeleteBegins, Zenon
<1> QED BY <1>2, <1>3, ZenonT(30) DEF expireIfDue

\* The purge is committed and metaMu released.
LEMMA CommitDeleteInv ==
  ASSUME IInv, CommitDelete
  PROVE IInv'
<1> USE DEF IInv
<1>1. /\ UNCHANGED <<env, now, sent, objs, jobs, registry, post, answers, reader>>
      /\ del' = NoDelete /\ del.pc = "commit"
  BY ZenonT(30) DEF CommitDelete, runVars, callVars
<1>2. del' \in Dels /\ del'.pc = "idle"
  BY <1>1, ZenonT(30) DEF NoDelete, Dels
<1>3. Removed'
  BY <1>1, ZenonT(30) DEF Removed
<1>4. /\ tail' \in Seq(Nat) /\ DOMAIN tail \subseteq DOMAIN tail'
      /\ meta' = meta \/ meta' = None
  <2>1. CASE tail' = [tail EXCEPT ![del.id] = 0] /\ meta' = None
    <3>1. tail \in Seq(Nat) /\ 0 \in Nat
      BY DEF TypeOK
    <3>2. /\ [tail EXCEPT ![del.id] = 0] \in Seq(Nat)
          /\ DOMAIN [tail EXCEPT ![del.id] = 0] = DOMAIN tail
      <4> DEFINE f == [tail EXCEPT ![del.id] = 0]
      <4>1. tail \in [1..Len(tail) -> Nat] /\ Len(tail) \in Nat
        BY <3>1
      <4>2. f \in [1..Len(tail) -> Nat]
        BY <3>1, <4>1, Zenon
      <4> HIDE DEF f
      <4>3. f \in Seq(Nat)
        BY <4>1, <4>2
      <4> QED BY <4>1, <4>2, <4>3 DEF f
    <3> QED BY <2>1, <3>2, ZenonT(30)
  <2>2. CASE UNCHANGED <<tail, meta>>
    BY <2>2, ZenonT(30) DEF TypeOK
  <2> QED BY <2>1, <2>2 DEF CommitDelete
<1>5. meta' # None => meta' \in Metas /\ meta'.id \in DOMAIN tail'
  BY <1>4 DEF TypeOK
<1> QED BY <1>1, <1>2, <1>3, <1>4, <1>5, StoreStep, ZenonT(30)

-----------------------------------------------------------------------------
(* The run loop and the committer. *)

\* A streamer's goroutine, or a read, moves no request.
LEMMA RunnerStep ==
  ASSUME IInv, UNCHANGED <<env, now, sent, tail, jobs, post, answers, del>>, MetaKept,
         NEW o \in Objs, NEW n \in Streamers, objs' = [objs EXCEPT ![o] = n],
         n.id = objs[o].id, n.reqs = objs[o].reqs, n.mu = objs[o].mu, n.stop = objs[o].stop,
         objs[o].dead => n.dead, n.dead => objs[o].dead \/ objs[o].mu = None,
         registry' \in 0..Len(objs), reader' \in 0..Len(objs)
  PROVE IInv'
<1> USE DEF IInv
<1>1. /\ objs' \in Seq(Streamers) /\ Len(objs') = Len(objs) /\ Objs' = Objs
      /\ objs'[o] = n /\ \A q \in Objs \ {o} : objs'[q] = objs[q]
  BY Replaced, Zenon DEF TypeOK
<1>2. TypeOK'
  <2>1. \A q \in Objs : objs'[q].id \in DOMAIN tail
    BY <1>1, ZenonT(30) DEF TypeOK
  <2>2. \A i \in DOMAIN jobs : JobOK(jobs[i])'
    BY <1>1 DEF TypeOK, JobOK
  <2> QED BY <1>1, <2>1, <2>2 DEF TypeOK, MetaKept
<1>3. Pointers'
  BY <1>1 DEF Pointers
<1>4. \A q \in Objs : Queued(objs'[q]) = Queued(objs[q])
  BY <1>1 DEF Queued
<1>5. Placed'
  BY <1>1, <1>4, StillPlaced, ZenonT(30)
<1>6. Locked'
  BY <1>1, ResidencyAssumption DEF Locked, Pointers
<1>7. Halted'
  BY <1>1, <1>4 DEF Halted
<1>8. Removed' /\ NotFoundIsHonest'
  BY DEF Removed, NotFoundIsHonest, MetaKept
<1> QED BY <1>2, <1>3, <1>5, <1>6, <1>7, <1>8, ZenonT(30)

\* The calls of S are answered and leave the queues and bursts they were in.
LEMMA AnswerStep ==
  ASSUME IInv, UNCHANGED <<env, now, sent, registry, reader, del>>, MetaKept, NotFoundIsHonest',
         tail' \in Seq(Nat), DOMAIN tail' = DOMAIN tail,
         NEW S, post' = [p \in Posters |-> IF p \in S THEN Idle ELSE post[p]],
         NEW o \in Objs, NEW n \in Streamers, objs' = [objs EXCEPT ![o] = n],
         n.id = objs[o].id, n.mu = objs[o].mu, n.stop = objs[o].stop, n.dead = objs[o].dead,
         Queued(n) \subseteq Queued(objs[o]), Queued(n) \cap S = {},
         \A q \in Objs \ {o} : Queued(objs[q]) \cap S = {},
         IsSeq(jobs'),
         \A k \in DOMAIN jobs' : \E m \in DOMAIN jobs :
           jobs'[k] = jobs[m] /\ InFlight(jobs[m]) \cap S = {},
         \A k, l \in DOMAIN jobs' : k # l =>
           \E x, y \in DOMAIN jobs : x # y /\ jobs'[k] = jobs[x] /\ jobs'[l] = jobs[y]
  PROVE IInv'
<1> USE DEF IInv
<1>1. /\ objs' \in Seq(Streamers) /\ Len(objs') = Len(objs) /\ Objs' = Objs
      /\ objs'[o] = n /\ \A q \in Objs \ {o} : objs'[q] = objs[q]
  BY Replaced, Zenon DEF TypeOK
<1>2. /\ post' \in [Posters -> Calls]
      /\ \A p \in Posters : p \notin S => post'[p] = post[p]
      /\ \A p \in Posters : post'[p].pc = "idle" \/ post'[p] = post[p]
      /\ \A p \in Posters : post'[p].there => post[p].there
  <2>1. post \in [Posters -> Calls] /\ Idle \in Calls /\ Idle.pc = "idle" /\ ~Idle.there
    BY IdleCall, Zenon DEF TypeOK
  <2>2. \A p \in Posters : post'[p] = IF p \in S THEN Idle ELSE post[p]
    BY Zenon
  <2>3. \A p \in Posters : post'[p] = Idle \/ (p \notin S /\ post'[p] = post[p])
    BY <2>2, Zenon
  <2>4. \A p \in Posters : post'[p] \in Calls
    BY <2>1, <2>3, Zenon
  <2>5. post' \in [Posters -> Calls]
    BY <2>2, <2>4, Zenon
  <2>6. \A p \in Posters : p \notin S => post'[p] = post[p]
    BY <2>2, Zenon
  <2> QED BY <2>1, <2>3, <2>5, <2>6, Zenon
<1>3. TypeOK'
  <2>1. \A q \in Objs : objs'[q].id \in DOMAIN tail
    <3>1. \A q \in Objs : objs[q].id \in DOMAIN tail
      BY Zenon DEF TypeOK
    <3> QED BY <1>1, <3>1, SameIds, ZenonT(30)
  <2>2. \A k \in DOMAIN jobs' : JobOK(jobs[k])'
    BY <1>1, ZenonT(30) DEF TypeOK, JobOK
  <2> QED BY <1>1, <1>2, <2>1, <2>2, Zenon DEF TypeOK, MetaKept
<1>4. Pointers'
  <2>1. "idle" \notin {"submit", "send"}
    OBVIOUS
  <2> QED BY <1>1, <1>2, <2>1, Zenon DEF Pointers
<1>5. \A q \in Objs : Queued(objs'[q]) \subseteq Queued(objs[q]) /\ Queued(objs'[q]) \cap S = {}
  BY <1>1, Zenon
<1>6. Placed'
  <2>1. \A q \in Objs : \A r \in Queued(objs'[q]) : r \in Posters /\ post'[r].pc = "wait"
    <3> SUFFICES ASSUME NEW q \in Objs, NEW r \in Queued(objs'[q])
                 PROVE r \in Posters /\ post'[r].pc = "wait"
      BY Zenon
    <3>1. r \in Queued(objs[q]) /\ r \notin S
      BY <1>5, Zenon
    <3>2. r \in Posters /\ post[r].pc = "wait"
      BY <3>1, Zenon DEF Placed
    <3> QED BY <1>2, <3>1, <3>2, Zenon
  <2>2. \A k \in DOMAIN jobs' : \A r \in InFlight(jobs'[k]) : r \in Posters /\ post'[r].pc = "wait"
    <3> SUFFICES ASSUME NEW k \in DOMAIN jobs', NEW r \in InFlight(jobs'[k])
                 PROVE r \in Posters /\ post'[r].pc = "wait"
      BY Zenon
    <3>1. PICK m \in DOMAIN jobs : jobs'[k] = jobs[m] /\ InFlight(jobs[m]) \cap S = {}
      BY Zenon
    <3>2. r \in InFlight(jobs[m]) /\ r \notin S
      BY <3>1, Zenon
    <3>3. r \in Posters /\ post[r].pc = "wait"
      BY <3>2, Zenon DEF Placed
    <3> QED BY <1>2, <3>2, <3>3, Zenon
  <2>3. \A x, y \in Objs : x # y => Queued(objs'[x]) \cap Queued(objs'[y]) = {}
    BY <1>5, Zenon DEF Placed
  <2>4. \A k \in DOMAIN jobs', q \in Objs : InFlight(jobs'[k]) \cap Queued(objs'[q]) = {}
    <3> SUFFICES ASSUME NEW k \in DOMAIN jobs', NEW q \in Objs
                 PROVE InFlight(jobs'[k]) \cap Queued(objs'[q]) = {}
      BY Zenon
    <3>1. PICK m \in DOMAIN jobs : jobs'[k] = jobs[m]
      BY Zenon
    <3>2. InFlight(jobs[m]) \cap Queued(objs[q]) = {} /\ InFlight(jobs'[k]) = InFlight(jobs[m])
      BY <3>1, Zenon DEF Placed
    <3> QED BY <1>5, <3>2, Zenon
  <2>5. \A k, l \in DOMAIN jobs' : k # l => InFlight(jobs'[k]) \cap InFlight(jobs'[l]) = {}
    <3> SUFFICES ASSUME NEW k \in DOMAIN jobs', NEW l \in DOMAIN jobs', k # l
                 PROVE InFlight(jobs'[k]) \cap InFlight(jobs'[l]) = {}
      BY Zenon
    <3>1. PICK x, y \in DOMAIN jobs : x # y /\ jobs'[k] = jobs[x] /\ jobs'[l] = jobs[y]
      BY Zenon
    <3>2. /\ InFlight(jobs[x]) \cap InFlight(jobs[y]) = {}
          /\ InFlight(jobs'[k]) = InFlight(jobs[x]) /\ InFlight(jobs'[l]) = InFlight(jobs[y])
      BY <3>1, Zenon DEF Placed
    <3> QED BY <3>2, Zenon
  <2> QED BY <1>1, <2>1, <2>2, <2>3, <2>4, <2>5, ZenonT(30) DEF Placed
<1>7. Locked'
  <2> SUFFICES ASSUME NEW p \in Posters, post'[p].pc = "send"
               PROVE objs'[post'[p].st].mu = p /\ ~objs'[post'[p].st].dead
    BY Zenon DEF Locked
  <2>1. "send" # "idle" /\ "send" \in {"submit", "send"}
    OBVIOUS
  <2>2. post'[p] = post[p]
    BY <1>2, <2>1, Zenon
  <2>3. post[p].st \in Objs /\ objs[post[p].st].mu = p /\ ~objs[post[p].st].dead
    BY <2>1, <2>2, ZenonT(30) DEF Locked, Pointers
  <2>4. objs'[post[p].st].mu = objs[post[p].st].mu /\ objs'[post[p].st].dead = objs[post[p].st].dead
    BY <1>1, <2>3, Zenon
  <2> QED BY <2>2, <2>3, <2>4, Zenon
<1>8. Halted'
  <2>1. \A q \in Objs : objs'[q].stop = objs[q].stop /\ objs'[q].dead = objs[q].dead
    BY <1>1, Zenon
  <2>2. \A q \in Objs : \A p \in Queued(objs'[q]) : p \in Queued(objs[q]) /\ p \in Posters
    BY <1>5, Zenon DEF Placed
  <2>3. ASSUME NEW q \in Objs, objs'[q].stop
        PROVE  objs'[q].dead /\ \A p \in Queued(objs'[q]) : ~post'[p].there
    <3>1. objs[q].dead /\ \A p \in Queued(objs[q]) : ~post[p].there
      BY <2>1, <2>3, Zenon DEF Halted
    <3> QED BY <1>2, <2>1, <2>2, <3>1, Zenon
  <2> QED BY <1>1, <2>3, Zenon DEF Halted
<1>9. Removed'
  BY <1>2, Zenon DEF Removed, MetaKept
<1> QED BY <1>3, <1>4, <1>6, <1>7, <1>8, <1>9, ZenonT(30)

\* The channel is drained into a burst.
LEMMA HandOver ==
  ASSUME IInv, UNCHANGED <<env, now, sent, tail, meta, registry, post, answers, reader, del>>,
         NEW o \in Objs, NEW n \in Streamers, objs' = [objs EXCEPT ![o] = n],
         n.id = objs[o].id, n.mu = objs[o].mu, n.stop = objs[o].stop, n.dead = objs[o].dead,
         Queued(n) = {},
         NEW job, JobOK(job), InFlight(job) = Queued(objs[o]), jobs' = Append(jobs, job)
  PROVE IInv'
<1> USE DEF IInv
<1>1. /\ objs' \in Seq(Streamers) /\ Len(objs') = Len(objs) /\ Objs' = Objs
      /\ objs'[o] = n /\ \A q \in Objs \ {o} : objs'[q] = objs[q]
  BY Replaced, Zenon DEF TypeOK
<1>2. /\ IsSeq(jobs')
      /\ \A k \in DOMAIN jobs' :
           IF k \in DOMAIN jobs THEN jobs'[k] = jobs[k] ELSE jobs'[k] = job
      /\ \A k, l \in DOMAIN jobs' : k # l => k \in DOMAIN jobs \/ l \in DOMAIN jobs
  <2>1. IsSeq(jobs)
    BY Zenon DEF TypeOK
  <2> QED
    <3>1. /\ IsSeq(Append(jobs, job))
          /\ Len(jobs) \in Nat /\ DOMAIN jobs = 1..Len(jobs)
          /\ DOMAIN Append(jobs, job) = 1..(Len(jobs) + 1)
          /\ \A i \in 1..Len(jobs) : Append(jobs, job)[i] = jobs[i]
          /\ Append(jobs, job)[Len(jobs) + 1] = job
      <4>1. Appended(jobs, job, Append(jobs, job))
        BY <2>1, AppendAny, Zenon
      <4> QED BY <4>1, Zenon DEF Appended
    <3> QED BY <3>1
<1>3. TypeOK'
  <2>1. \A q \in Objs : objs'[q].id \in DOMAIN tail
    <3>1. \A q \in Objs : objs[q].id \in DOMAIN tail
      BY Zenon DEF TypeOK
    <3> QED BY <1>1, <3>1, SameIds, ZenonT(30)
  <2>2. \A k \in DOMAIN jobs' : JobOK(jobs[k])'
    BY <1>1, <1>2, Zenon DEF TypeOK, JobOK
  <2> QED BY <1>1, <1>2, <2>1, <2>2, ZenonT(30) DEF TypeOK
<1>4. Pointers'
  BY <1>1, Zenon DEF Pointers
<1>5. Queued(objs'[o]) = {} /\ \A q \in Objs \ {o} : Queued(objs'[q]) = Queued(objs[q])
  BY <1>1, Zenon
<1>6. Placed'
  <2>1. \A q \in Objs : \A r \in Queued(objs'[q]) : r \in Posters /\ post'[r].pc = "wait"
    BY <1>5, Zenon DEF Placed
  <2>2. \A k \in DOMAIN jobs' : \A r \in InFlight(jobs'[k]) : r \in Posters /\ post'[r].pc = "wait"
    <3> SUFFICES ASSUME NEW k \in DOMAIN jobs', NEW r \in InFlight(jobs'[k])
                 PROVE r \in Posters /\ post[r].pc = "wait"
      BY Zenon
    <3>1. CASE k \in DOMAIN jobs
      <4>1. r \in InFlight(jobs[k])
        BY <1>2, <3>1, Zenon
      <4> QED BY <3>1, <4>1, Zenon DEF Placed
    <3>2. CASE k \notin DOMAIN jobs
      <4>1. r \in Queued(objs[o])
        BY <1>2, <3>2, Zenon
      <4> QED BY <4>1, Zenon DEF Placed
    <3> QED BY <3>1, <3>2, Zenon
  <2>3. \A x, y \in Objs : x # y => Queued(objs'[x]) \cap Queued(objs'[y]) = {}
    BY <1>5, Zenon DEF Placed
  <2>4. \A k \in DOMAIN jobs', q \in Objs : InFlight(jobs'[k]) \cap Queued(objs'[q]) = {}
    <3> SUFFICES ASSUME NEW k \in DOMAIN jobs', NEW q \in Objs
                 PROVE InFlight(jobs'[k]) \cap Queued(objs'[q]) = {}
      BY Zenon
    <3>1. CASE q = o
      BY <1>5, <3>1, ZenonT(30)
    <3>2. CASE q # o /\ k \in DOMAIN jobs
      <4>1. InFlight(jobs'[k]) = InFlight(jobs[k]) /\ Queued(objs'[q]) = Queued(objs[q])
        BY <1>2, <1>5, <3>2, Zenon
      <4> QED BY <3>2, <4>1, Zenon DEF Placed
    <3>3. CASE q # o /\ k \notin DOMAIN jobs
      <4>1. InFlight(jobs'[k]) = Queued(objs[o]) /\ Queued(objs'[q]) = Queued(objs[q])
        BY <1>2, <1>5, <3>3, Zenon
      <4> QED BY <3>3, <4>1, Zenon DEF Placed
    <3> QED BY <3>1, <3>2, <3>3, Zenon
  <2>5. \A k, l \in DOMAIN jobs' : k # l => InFlight(jobs'[k]) \cap InFlight(jobs'[l]) = {}
    <3> SUFFICES ASSUME NEW k \in DOMAIN jobs', NEW l \in DOMAIN jobs', k # l
                 PROVE InFlight(jobs'[k]) \cap InFlight(jobs'[l]) = {}
      BY Zenon
    <3> DEFINE F(i) == IF i \in DOMAIN jobs THEN InFlight(jobs[i]) ELSE Queued(objs[o])
    <3>1. InFlight(jobs'[k]) = F(k) /\ InFlight(jobs'[l]) = F(l)
      BY <1>2, Zenon
    <3>2. F(k) \cap F(l) = {}
      <4>1. CASE k \in DOMAIN jobs /\ l \in DOMAIN jobs
        BY <4>1, Zenon DEF Placed
      <4>2. CASE k \in DOMAIN jobs /\ l \notin DOMAIN jobs
        BY <4>2, Zenon DEF Placed
      <4>3. CASE k \notin DOMAIN jobs /\ l \in DOMAIN jobs
        BY <4>3, Zenon DEF Placed
      <4> QED BY <1>2, <4>1, <4>2, <4>3, Zenon
    <3> QED BY <3>1, <3>2, Zenon
  <2>6. Objs' = Objs
    BY <1>1, ZenonT(30)
  <2> QED BY <2>1, <2>2, <2>3, <2>4, <2>5, <2>6, ZenonT(30) DEF Placed
<1>7. Locked'
  <2>1. "send" \in {"submit", "send"}
    OBVIOUS
  <2>2. \A q \in Objs : objs'[q].mu = objs[q].mu /\ objs'[q].dead = objs[q].dead
    BY <1>1, Zenon
  <2>3. \A p \in Posters : post[p].pc = "send" =>
          post[p].st \in Objs /\ objs[post[p].st].mu = p /\ ~objs[post[p].st].dead
    BY <2>1, Zenon DEF Locked, Pointers
  <2>4. \A p \in Posters : post[p].pc = "send" =>
          objs'[post[p].st].mu = p /\ ~objs'[post[p].st].dead
    BY <2>2, <2>3, Zenon
  <2>5. post' = post
    BY Zenon
  <2> QED BY <2>4, <2>5, Zenon DEF Locked
<1>8. Halted'
  BY <1>1, <1>5, ZenonT(30) DEF Halted
<1>9. Removed' /\ NotFoundIsHonest'
  BY Zenon DEF Removed, NotFoundIsHonest
<1> QED BY <1>3, <1>4, <1>6, <1>7, <1>8, <1>9, ZenonT(30)

\* slideTTL returns a deadline.
LEMMA SlideType ==
  ASSUME env \in Settings, now \in Nat, NEW d \in Nat
  PROVE slideTTL(d) \in Nat
<1>1. env.ttl \in Nat
  BY ResidencyAssumption
<1>2. gran \in Nat
  BY <1>1 DEF gran
<1> QED BY <1>1, <1>2 DEF slideTTL

\* slideOps leaves a meta of a stream that was created, and removes none.
LEMMA SlideKeeps ==
  ASSUME IInv, NEW id \in DOMAIN tail, NEW ct \in ContentTypes, NEW old, NEW d \in Nat,
         slideOps(id, ct, old, d), DOMAIN tail' = DOMAIN tail
  PROVE MetaKept
<1>1. id \in Nat
  BY Indexes, Zenon DEF IInv, TypeOK
<1>2. CASE UNCHANGED meta
  BY <1>2, Zenon DEF MetaKept, IInv, TypeOK
<1>3. CASE meta' = [id |-> id, ct |-> ct, deadline |-> d]
  <2>1. meta' \in Metas /\ meta'.id = id
    BY <1>1, <1>3 DEF Metas
  <2>2. meta' # None
    BY <2>1, ResidencyAssumption DEF Metas, ContentTypes
  <2> QED BY <2>1, <2>2 DEF MetaKept
<1> QED BY <1>2, <1>3, Zenon DEF slideOps

\* The run loop takes a touch and may write a slid deadline.
LEMMA TouchedInv ==
  ASSUME IInv, NEW o \in Objs, Touched(o)
  PROVE IInv'
<1> DEFINE st == objs[o]
           d == slideTTL(st.deadline)
<1>1. UNCHANGED <<env, now, sent, tail, jobs, registry, post, answers, reader, del>>
  BY DEF Touched, callVars
<1>2. /\ objs \in Seq(Streamers) /\ st \in Streamers /\ st.id \in DOMAIN tail
      /\ st.ct \in ContentTypes /\ d \in Nat
      /\ registry' \in 0..Len(objs) /\ reader' \in 0..Len(objs)
  BY <1>1, TheStreamer, SlideType, Zenon
<1>3. CASE objs' = [objs EXCEPT ![o].touch = FALSE, ![o].deadline = d]
           /\ slideOps(st.id, st.ct, st.deadline, d)
  <2> DEFINE n == [st EXCEPT !.touch = FALSE, !.deadline = d]
  <2>1. objs' = [objs EXCEPT ![o] = n]
    BY <1>2, <1>3, Zenon DEF Objs
  <2>2. MetaKept
    BY <1>1, <1>2, <1>3, SlideKeeps
  <2> HIDE DEF st, d
  <2>3. /\ n \in Streamers /\ n.id = st.id /\ n.reqs = st.reqs /\ n.mu = st.mu
        /\ n.stop = st.stop /\ n.dead = st.dead
    BY <1>2, Zenon DEF Streamers
  <2> HIDE DEF n
  <2> QED BY <1>1, <1>2, <2>1, <2>2, <2>3, RunnerStep, Zenon DEF st
<1>4. CASE objs' = [objs EXCEPT ![o].touch = FALSE] /\ UNCHANGED meta
  <2> DEFINE n == [st EXCEPT !.touch = FALSE]
  <2>1. objs' = [objs EXCEPT ![o] = n]
    BY <1>2, <1>4 DEF Objs
  <2>2. MetaKept
    BY <1>1, <1>4 DEF MetaKept, IInv, TypeOK
  <2> HIDE DEF st
  <2>3. /\ n \in Streamers /\ n.id = st.id /\ n.reqs = st.reqs /\ n.mu = st.mu
        /\ n.stop = st.stop /\ n.dead = st.dead
    BY <1>2, Zenon DEF Streamers
  <2> HIDE DEF n
  <2> QED BY <1>1, <1>2, <2>1, <2>2, <2>3, RunnerStep, Zenon DEF st
<1> QED BY <1>3, <1>4, Zenon DEF Touched, refreshTTLOnRead

\* The retire timer fires.
LEMMA DormantInv ==
  ASSUME IInv, NEW o \in Objs, Dormant(o)
  PROVE IInv'
<1> DEFINE st == objs[o]
           n == [st EXCEPT !.pc = "retire"]
<1>1. UNCHANGED <<env, now, sent, tail, meta, jobs, registry, post, answers, reader, del>>
  BY DEF Dormant, storeVars, callVars, otherVars
<1>2. /\ objs \in Seq(Streamers) /\ st \in Streamers
      /\ registry' \in 0..Len(objs) /\ reader' \in 0..Len(objs)
  BY <1>1, TheStreamer
<1>3. objs' = [objs EXCEPT ![o] = n]
  BY <1>2 DEF Dormant, Objs
<1>4. MetaKept
  BY <1>1, Zenon DEF MetaKept, IInv, TypeOK
<1> HIDE DEF st
<1>5. /\ n \in Streamers /\ n.id = st.id /\ n.reqs = st.reqs /\ n.mu = st.mu
      /\ n.stop = st.stop /\ n.dead = st.dead
  BY <1>2, Zenon DEF Streamers
<1> HIDE DEF n
<1> QED BY <1>1, <1>2, <1>3, <1>4, <1>5, RunnerStep, Zenon DEF st

\* Retirement: only an empty channel is left behind.
LEMMA RetireInv ==
  ASSUME IInv, NEW o \in Objs, tryRetire(o)
  PROVE IInv'
<1> DEFINE st == objs[o]
           stay == [st EXCEPT !.pc = "select"]
           leave == [st EXCEPT !.pc = "exit", !.dead = TRUE]
           n == IF busy(st) THEN stay ELSE leave
<1>1. UNCHANGED <<env, now, sent, tail, meta, jobs, post, answers, reader, del>> /\ st.mu = None
  BY DEF tryRetire, storeVars, callVars, otherVars
<1>2. /\ objs \in Seq(Streamers) /\ st \in Streamers
      /\ registry' \in 0..Len(objs) /\ reader' \in 0..Len(objs)
  BY <1>1, TheStreamer DEF tryRetire
<1>3. objs' = [objs EXCEPT ![o] = n]
  BY DEF tryRetire
<1>4. MetaKept
  BY <1>1, Zenon DEF MetaKept, IInv, TypeOK
<1> HIDE DEF st
<1>5. /\ stay \in Streamers /\ stay.id = st.id /\ stay.reqs = st.reqs /\ stay.mu = st.mu
      /\ stay.stop = st.stop /\ stay.dead = st.dead
  BY <1>2, Zenon DEF Streamers
<1>6. /\ leave \in Streamers /\ leave.id = st.id /\ leave.reqs = st.reqs /\ leave.mu = st.mu
      /\ leave.stop = st.stop /\ leave.dead = TRUE
  BY <1>2, Zenon DEF Streamers
<1> HIDE DEF stay, leave
<1>7. /\ n \in Streamers /\ n.id = st.id /\ n.reqs = st.reqs /\ n.mu = st.mu
      /\ n.stop = st.stop /\ (st.dead => n.dead)
  BY <1>5, <1>6
<1> HIDE DEF n
<1> QED BY <1>1, <1>2, <1>3, <1>4, <1>7, RunnerStep, Zenon DEF st

\* A read signals the touch.
LEMMA TouchInv ==
  ASSUME IInv, touchStream
  PROVE IInv'
<1> DEFINE o == reader
           st == objs[o]
           b == st.touch \/ ~st.dead
           n == [st EXCEPT !.touch = b]
<1>0. o \in Objs
  BY DEF touchStream, IInv, Pointers, Objs
<1>1. UNCHANGED <<env, now, sent, tail, meta, jobs, registry, post, answers, del>> /\ reader' = 0
  BY DEF touchStream, storeVars, callVars
<1>2. /\ objs \in Seq(Streamers) /\ st \in Streamers /\ b \in BOOLEAN
      /\ registry' \in 0..Len(objs) /\ reader' \in 0..Len(objs)
  BY <1>0, <1>1, TheStreamer
<1>3. objs' = [objs EXCEPT ![o] = n]
  BY <1>0, <1>2, ZenonT(30) DEF touchStream, Objs
<1>4. MetaKept
  BY <1>1, Zenon DEF MetaKept, IInv, TypeOK
<1> HIDE DEF st, b
<1>5. /\ n \in Streamers /\ n.id = st.id /\ n.reqs = st.reqs /\ n.mu = st.mu
      /\ n.stop = st.stop /\ n.dead = st.dead
  BY <1>2, Zenon DEF Streamers
<1> HIDE DEF n, o
<1> QED BY <1>0, <1>1, <1>2, <1>3, <1>4, <1>5, RunnerStep, ZenonT(30) DEF st

\* Requests drained at stop are answered 404, and Halted makes that honest.
LEMMA StoppedInv ==
  ASSUME IInv, NEW o \in Objs, Stopped(o)
  PROVE IInv'
<1> DEFINE st == objs[o]
           S == Queued(st)
           n == [st EXCEPT !.pc = "exit", !.reqs = << >>]
<1>1. /\ UNCHANGED <<env, now, sent, tail, meta, jobs, registry, reader, del>> /\ st.stop
      /\ post' = [p \in Posters |-> IF p \in S THEN Idle ELSE post[p]]
      /\ answers' = answers \cup {Reply(p, "notfound") : p \in S}
      /\ objs' = [objs EXCEPT ![o].pc = "exit", ![o].reqs = << >>]
  BY DEF Stopped, Queued, storeVars, otherVars
<1>2. /\ objs \in Seq(Streamers) /\ st \in Streamers /\ << >> \in Seq(Posters)
      /\ tail' \in Seq(Nat) /\ DOMAIN tail' = DOMAIN tail
  BY <1>1, TheStreamer DEF IInv, TypeOK
<1>3. objs' = [objs EXCEPT ![o] = n]
  BY <1>1, <1>2, Zenon DEF Objs
<1>4. MetaKept
  BY <1>1, Zenon DEF MetaKept, IInv, TypeOK
<1>5. NotFoundIsHonest'
  <2>1. \A p \in S : Reply(p, "notfound").there = post[p].there
    BY DEF Reply
  <2>2. \A p \in S : ~post[p].there
    BY <1>1 DEF IInv, Halted
  <2> QED BY <1>1, <2>1, <2>2, ZenonT(30) DEF IInv, NotFoundIsHonest
<1>6. /\ IsSeq(jobs')
      /\ \A k \in DOMAIN jobs' : \E m \in DOMAIN jobs :
           jobs'[k] = jobs[m] /\ InFlight(jobs[m]) \cap S = {}
      /\ \A k, l \in DOMAIN jobs' : k # l =>
           \E x, y \in DOMAIN jobs : x # y /\ jobs'[k] = jobs[x] /\ jobs'[l] = jobs[y]
  BY <1>1, ZenonT(30) DEF IInv, TypeOK, Placed
<1>7. \A q \in Objs \ {o} : Queued(objs[q]) \cap S = {}
  BY DEF IInv, Placed
<1> HIDE DEF st
<1>8. /\ n \in Streamers /\ n.id = st.id /\ n.reqs = << >> /\ n.mu = st.mu
      /\ n.stop = st.stop /\ n.dead = st.dead
  BY <1>2, Zenon DEF Streamers
<1> HIDE DEF n
<1>9. Queued(n) = {}
  BY <1>8 DEF Queued
<1> HIDE DEF S
<1>10. Queued(n) \subseteq Queued(objs[o]) /\ Queued(n) \cap S = {}
  BY <1>9
<1> QED BY <1>1, <1>2, <1>3, <1>4, <1>5, <1>6, <1>7, <1>8, <1>10, AnswerStep, ZenonT(30) DEF st

\* replyAll answers exactly the requests of the burst, and none with 404.
LEMMA ReplyAll ==
  ASSUME IInv, NEW job, NEW good, replyAll(job, good)
  PROVE /\ post' = [p \in Posters |-> IF p \in InFlight(job) THEN Idle ELSE post[p]]
        /\ NotFoundIsHonest'
<1>1. post' = [p \in Posters |-> IF p \in InFlight(job) THEN Idle ELSE post[p]]
  <2>1. \A p : p \in InFlight(job) <=> \E i \in DOMAIN job.batch : job.batch[i].p = p
    BY ZenonT(30) DEF InFlight
  <2>2. post' = [p \in Posters |->
          IF \E i \in DOMAIN job.batch : job.batch[i].p = p THEN Idle ELSE post[p]]
    BY DEF replyAll
  <2> QED BY <2>1, <2>2, ZenonT(30)
<1>2. \A item : Status(item, good) # "notfound"
  BY ZenonT(30) DEF Status
<1>3. \A a \in answers' : a \in answers \/ a.status # "notfound"
  BY <1>2 DEF replyAll
<1>4. NotFoundIsHonest'
  BY <1>3 DEF IInv, NotFoundIsHonest
<1> QED BY <1>1, <1>4, ZenonT(30)

\* The run loop drains its channel and hands the burst over.
LEMMA BurstInv ==
  ASSUME IInv, NEW o \in Objs, Burst(o),
         JobOK(processBurst(o)), InFlight(processBurst(o)) = Queued(objs[o])
  PROVE IInv'
<1> DEFINE st == objs[o]
           job == processBurst(o)
           drained == [st EXCEPT !.reqs = << >>]
<1>1. UNCHANGED <<env, now, sent, tail, meta, registry, reader, del>>
  BY ZenonT(30) DEF Burst, storeVars, otherVars
<1>2. /\ objs \in Seq(Streamers) /\ st \in Streamers /\ << >> \in Seq(Posters)
      /\ tail' \in Seq(Nat) /\ DOMAIN tail' = DOMAIN tail
  <2>1. objs \in Seq(Streamers) /\ st \in Streamers
    BY TheStreamer, Zenon
  <2>2. << >> \in Seq(Posters)
    OBVIOUS
  <2>3. tail' \in Seq(Nat) /\ DOMAIN tail' = DOMAIN tail
    BY <1>1, Zenon DEF IInv, TypeOK
  <2> QED BY <2>1, <2>2, <2>3, Zenon
<1>3. JobOK(job) /\ InFlight(job) = Queued(objs[o])
  BY Zenon
<1>4. job.end \in Nat /\ job.deadline \in Nat
  BY <1>3 DEF JobOK
<1>5. \/ /\ objs' = [objs EXCEPT ![o] = drained] /\ replyAll(job, TRUE) /\ UNCHANGED jobs
      \/ /\ jobs' = Append(jobs, job)
         /\ objs' = [objs EXCEPT ![o] =
              IF env.mode = "sync" THEN [drained EXCEPT !.pc = "commit"]
              ELSE [applyWriter(drained, job) EXCEPT !.pending = @ + 1]]
         /\ UNCHANGED <<post, answers>>
  BY Zenon DEF Burst
<1> HIDE DEF job
<1>6. CASE objs' = [objs EXCEPT ![o] = drained] /\ replyAll(job, TRUE) /\ UNCHANGED jobs
  <2> DEFINE S == InFlight(job)
  <2>1. /\ post' = [p \in Posters |-> IF p \in S THEN Idle ELSE post[p]]
        /\ NotFoundIsHonest'
    BY <1>6, ReplyAll, Zenon
  <2>2. MetaKept
    BY <1>1, ZenonT(30) DEF MetaKept, IInv, TypeOK
  <2>3. /\ IsSeq(jobs')
        /\ \A k \in DOMAIN jobs' : \E m \in DOMAIN jobs :
             jobs'[k] = jobs[m] /\ InFlight(jobs[m]) \cap S = {}
        /\ \A k, l \in DOMAIN jobs' : k # l =>
             \E x, y \in DOMAIN jobs : x # y /\ jobs'[k] = jobs[x] /\ jobs'[l] = jobs[y]
    BY <1>3, <1>6, ZenonT(30) DEF IInv, TypeOK, Placed
  <2>4. \A q \in Objs \ {o} : Queued(objs[q]) \cap S = {}
    BY <1>3, ZenonT(30) DEF IInv, Placed
  <2> HIDE DEF st
  <2>5. /\ drained \in Streamers /\ drained.id = st.id /\ drained.reqs = << >>
        /\ drained.mu = st.mu /\ drained.stop = st.stop /\ drained.dead = st.dead
    BY <1>2, Zenon DEF Streamers
  <2>6. objs' = [objs EXCEPT ![o] = drained]
    BY <1>6, ZenonT(30)
  <2> HIDE DEF drained
  <2>7. Queued(drained) = {}
    BY <2>5 DEF Queued
  <2> HIDE DEF S
  <2>8. Queued(drained) \subseteq Queued(objs[o]) /\ Queued(drained) \cap S = {}
    BY <2>7, ZenonT(30)
  <2> QED BY <1>1, <1>2, <2>1, <2>2, <2>3, <2>4, <2>5, <2>6, <2>8, AnswerStep, ZenonT(30) DEF st
<1>7. CASE /\ jobs' = Append(jobs, job)
           /\ objs' = [objs EXCEPT ![o] =
                IF env.mode = "sync" THEN [drained EXCEPT !.pc = "commit"]
                ELSE [applyWriter(drained, job) EXCEPT !.pending = @ + 1]]
           /\ UNCHANGED <<post, answers>>
  <2> DEFINE x == st.pending + 1
             n1 == [st EXCEPT !.reqs = << >>, !.pc = "commit"]
             n2 == [st EXCEPT !.reqs = << >>, !.wtail = job.end, !.deadline = job.deadline,
                              !.pending = x]
             n == IF env.mode = "sync" THEN n1 ELSE n2
  <2>1. x \in Int
    <3>1. \A s \in Streamers : s.pending \in Int
      BY DEF Streamers
    <3> QED BY <1>2, <3>1
  <2>2. [drained EXCEPT !.pc = "commit"] = n1
    BY <1>2, Zenon DEF Streamers
  <2>3. [applyWriter(drained, job) EXCEPT !.pending = @ + 1] = n2
    BY <1>2, Zenon DEF Streamers, applyWriter
  <2>4. objs' = [objs EXCEPT ![o] = n]
    BY <1>7, <2>2, <2>3, Zenon
  <2> HIDE DEF st, x
  <2>5. /\ n1 \in Streamers /\ n1.id = st.id /\ n1.reqs = << >> /\ n1.mu = st.mu
        /\ n1.stop = st.stop /\ n1.dead = st.dead
    BY <1>2, Zenon DEF Streamers
  <2>6. /\ n2 \in Streamers /\ n2.id = st.id /\ n2.reqs = << >> /\ n2.mu = st.mu
        /\ n2.stop = st.stop /\ n2.dead = st.dead
    BY <1>2, <1>4, <2>1, Zenon DEF Streamers
  <2> HIDE DEF n1, n2
  <2>7. /\ n \in Streamers /\ n.id = st.id /\ n.reqs = << >> /\ n.mu = st.mu
        /\ n.stop = st.stop /\ n.dead = st.dead
    BY <2>5, <2>6, ZenonT(30)
  <2> HIDE DEF n
  <2>8. Queued(n) = {}
    BY <2>7 DEF Queued
  <2>9. jobs' = Append(jobs, job) /\ UNCHANGED <<post, answers>>
    BY <1>7, ZenonT(30)
  <2> QED BY <1>1, <1>3, <2>4, <2>7, <2>8, <2>9, HandOver, ZenonT(30) DEF st
<1> QED BY <1>5, <1>6, <1>7, Zenon

\* What both outcomes of a commit leave of the queue and of the calls.
LEMMA AfterCommit ==
  ASSUME IInv, NEW i \in DOMAIN jobs, NEW good, replyAll(jobs[i], good),
         jobs' = Without(jobs, i)
  PROVE LET S == InFlight(jobs[i])
        IN /\ post' = [p \in Posters |-> IF p \in S THEN Idle ELSE post[p]]
           /\ NotFoundIsHonest'
           /\ IsSeq(jobs')
           /\ \A k \in DOMAIN jobs' : \E m \in DOMAIN jobs :
                jobs'[k] = jobs[m] /\ InFlight(jobs[m]) \cap S = {}
           /\ \A k, l \in DOMAIN jobs' : k # l =>
                \E x, y \in DOMAIN jobs : x # y /\ jobs'[k] = jobs[x] /\ jobs'[l] = jobs[y]
           /\ \A q \in Objs : Queued(objs[q]) \cap S = {}
<1> DEFINE S == InFlight(jobs[i])
<1>1. /\ post' = [p \in Posters |-> IF p \in S THEN Idle ELSE post[p]]
      /\ NotFoundIsHonest'
  BY ReplyAll, ZenonT(30)
<1>2. /\ IsSeq(jobs')
      /\ \A k \in DOMAIN jobs' : \E m \in DOMAIN jobs \ {i} : jobs'[k] = jobs[m]
      /\ \A k, l \in DOMAIN jobs' : k # l =>
           \E m, n \in DOMAIN jobs \ {i} : m # n /\ jobs'[k] = jobs[m] /\ jobs'[l] = jobs[n]
  <2>1. IsSeq(jobs)
    BY ZenonT(30) DEF IInv, TypeOK
  <2> QED BY <2>1, RemoveAt, SMTT(30)
<1>3. \A m \in DOMAIN jobs \ {i} : InFlight(jobs[m]) \cap S = {}
  BY ZenonT(30) DEF IInv, Placed
<1>4. \A q \in Objs : Queued(objs[q]) \cap S = {}
  BY DEF IInv, Placed
<1> QED BY <1>1, <1>2, <1>3, <1>4, SMTT(30)

\* The commit succeeds.
LEMMA LandInv ==
  ASSUME IInv, NEW i \in DOMAIN jobs, Land(i)
  PROVE IInv'
<1> DEFINE job == jobs[i]
           o == job.obj
           st == objs[o]
           S == InFlight(job)
           x == st.pending - 1
           n1 == [st EXCEPT !.wtail = job.end, !.deadline = job.deadline, !.pc = "select"]
           n2 == [st EXCEPT !.pending = x]
           n == IF env.mode = "sync" THEN n1 ELSE n2
<1>1. /\ UNCHANGED <<env, now, sent, registry, reader, del>>
      /\ tail' = [tail EXCEPT ![job.id] = job.end]
      /\ slideOps(job.id, job.ct, job.old, job.deadline)
      /\ jobs' = Without(jobs, i) /\ replyAll(job, TRUE)
  BY Zenon DEF Land, otherVars
<1>2. /\ o \in Objs /\ job.id \in DOMAIN tail /\ job.ct \in ContentTypes
      /\ job.end \in Nat /\ job.deadline \in Nat
  BY DEF IInv, TypeOK, JobOK
<1>3. objs \in Seq(Streamers) /\ st \in Streamers /\ st.pending \in Int /\ x \in Int
  <2>1. objs \in Seq(Streamers) /\ st \in Streamers
    BY <1>2, TheStreamer
  <2> QED BY <2>1, PendingInt, Zenon
<1>4. tail' \in Seq(Nat) /\ DOMAIN tail' = DOMAIN tail
  <2>1. tail \in Seq(Nat)
    BY ZenonT(30) DEF IInv, TypeOK
  <2> QED BY <1>1, <1>2, <2>1, SMTT(30)
<1>5. MetaKept
  BY <1>1, <1>2, <1>4, SlideKeeps, ZenonT(30)
<1>6. /\ post' = [p \in Posters |-> IF p \in S THEN Idle ELSE post[p]]
      /\ NotFoundIsHonest'
      /\ IsSeq(jobs')
      /\ \A k \in DOMAIN jobs' : \E m \in DOMAIN jobs :
           jobs'[k] = jobs[m] /\ InFlight(jobs[m]) \cap S = {}
      /\ \A k, l \in DOMAIN jobs' : k # l =>
           \E y, z \in DOMAIN jobs : y # z /\ jobs'[k] = jobs[y] /\ jobs'[l] = jobs[z]
      /\ \A q \in Objs : Queued(objs[q]) \cap S = {}
  BY <1>1, AfterCommit, Zenon
<1>7. objs' = [objs EXCEPT ![o] = n]
  <2>1. [applyWriter(st, job) EXCEPT !.pc = "select"] = n1
    BY <1>3, Zenon DEF Streamers, applyWriter
  <2>2. durable(st, job) = n
    BY <2>1 DEF durable, released
  <2>3. objs' = [objs EXCEPT ![o] = durable(st, job)]
    BY DEF Land
  <2> QED BY <2>2, <2>3
<1> HIDE DEF st, x, o, job
<1>8. /\ n1 \in Streamers /\ n1.id = st.id /\ n1.reqs = st.reqs /\ n1.mu = st.mu
      /\ n1.stop = st.stop /\ n1.dead = st.dead
  BY <1>2, <1>3, Zenon DEF Streamers
<1>9. /\ n2 \in Streamers /\ n2.id = st.id /\ n2.reqs = st.reqs /\ n2.mu = st.mu
      /\ n2.stop = st.stop /\ n2.dead = st.dead
  BY <1>3, Zenon DEF Streamers
<1> HIDE DEF n1, n2
<1>10. /\ n \in Streamers /\ n.id = st.id /\ n.reqs = st.reqs /\ n.mu = st.mu
       /\ n.stop = st.stop /\ n.dead = st.dead
  BY <1>8, <1>9, ZenonT(30)
<1> HIDE DEF n, S
<1>11. Queued(n) \subseteq Queued(objs[o]) /\ Queued(n) \cap S = {}
  <2>1. Queued(n) = Queued(objs[o])
    BY <1>10, Zenon DEF Queued, st
  <2> QED BY <1>2, <1>6, <2>1, Zenon
<1> QED BY <1>1, <1>2, <1>4, <1>5, <1>6, <1>7, <1>10, <1>11, AnswerStep, ZenonT(30) DEF st

\* The store refuses the batch.
LEMMA LandRefusedInv ==
  ASSUME IInv, NEW i \in DOMAIN jobs, LandRefused(i)
  PROVE IInv'
<1> DEFINE job == jobs[i]
           o == job.obj
           st == objs[o]
           S == InFlight(job)
           x == st.pending - 1
           n1 == [st EXCEPT !.pc = "select"]
           n2 == [st EXCEPT !.pending = x]
           n == IF env.mode = "sync" THEN n1 ELSE n2
<1>1. /\ UNCHANGED <<env, now, sent, tail, meta, registry, reader, del>>
      /\ jobs' = Without(jobs, i) /\ replyAll(job, FALSE)
  BY Zenon DEF LandRefused, storeVars
<1>2. o \in Objs
  BY ZenonT(30) DEF IInv, TypeOK, JobOK
<1>3. objs \in Seq(Streamers) /\ st \in Streamers /\ st.pending \in Int /\ x \in Int
  <2>1. objs \in Seq(Streamers) /\ st \in Streamers
    BY <1>2, TheStreamer, ZenonT(30)
  <2>2. \A s \in Streamers : s.pending \in Int
    BY Zenon DEF Streamers
  <2>3. \A y \in Int : y - 1 \in Int
    OBVIOUS
  <2> QED BY <2>1, <2>2, <2>3, Zenon
<1>4. tail' \in Seq(Nat) /\ DOMAIN tail' = DOMAIN tail
  BY <1>1, ZenonT(30) DEF IInv, TypeOK
<1>5. MetaKept
  BY <1>1, Zenon DEF MetaKept, IInv, TypeOK
<1>6. /\ post' = [p \in Posters |-> IF p \in S THEN Idle ELSE post[p]]
      /\ NotFoundIsHonest'
      /\ IsSeq(jobs')
      /\ \A k \in DOMAIN jobs' : \E m \in DOMAIN jobs :
           jobs'[k] = jobs[m] /\ InFlight(jobs[m]) \cap S = {}
      /\ \A k, l \in DOMAIN jobs' : k # l =>
           \E y, z \in DOMAIN jobs : y # z /\ jobs'[k] = jobs[y] /\ jobs'[l] = jobs[z]
      /\ \A q \in Objs : Queued(objs[q]) \cap S = {}
  BY <1>1, AfterCommit, Zenon
<1>7. objs' = [objs EXCEPT ![o] = n]
  <2>1. released(st) = n
    BY DEF released
  <2>2. objs' = [objs EXCEPT ![o] = released(st)]
    BY DEF LandRefused
  <2> QED BY <2>1, <2>2
<1> HIDE DEF st, x, o, job
<1>8. /\ n1 \in Streamers /\ n1.id = st.id /\ n1.reqs = st.reqs /\ n1.mu = st.mu
      /\ n1.stop = st.stop /\ n1.dead = st.dead
  BY <1>3, ZenonT(30) DEF Streamers
<1>9. /\ n2 \in Streamers /\ n2.id = st.id /\ n2.reqs = st.reqs /\ n2.mu = st.mu
      /\ n2.stop = st.stop /\ n2.dead = st.dead
  BY <1>3, Zenon DEF Streamers
<1> HIDE DEF n1, n2
<1>10. /\ n \in Streamers /\ n.id = st.id /\ n.reqs = st.reqs /\ n.mu = st.mu
       /\ n.stop = st.stop /\ n.dead = st.dead
  BY <1>8, <1>9, Zenon
<1> HIDE DEF n, S
<1>11. Queued(n) \subseteq Queued(objs[o]) /\ Queued(n) \cap S = {}
  BY <1>2, <1>6, <1>10, SMTT(30) DEF Queued, st
<1> QED BY <1>1, <1>2, <1>4, <1>5, <1>6, <1>7, <1>10, <1>11, AnswerStep, ZenonT(30) DEF st

-----------------------------------------------------------------------------
(* The theorem. *)

\* The stream was just created and no streamer is resident.
LEMMA InitInv == Init => IInv
<1> SUFFICES ASSUME Init PROVE IInv BY ZenonT(30)
<1> USE ResidencyAssumption
<1>1. env \in Settings /\ env.ttl \in Nat /\ env.types # {}
  BY ZenonT(30) DEF Init
<1>2. initialDeadline \in Nat
  BY <1>1 DEF Init, initialDeadline
<1>3. (CHOOSE t \in env.types : TRUE) \in ContentTypes
  BY <1>1, ZenonT(30) DEF ContentTypes
<1>4. tail = <<0>> /\ tail \in Seq(Nat) /\ 1 \in DOMAIN tail
  BY DEF Init
<1>5. meta \in Metas /\ meta.id = 1
  BY <1>2, <1>3, ZenonT(30) DEF Init, Metas
<1>6. objs = << >> /\ objs \in Seq(Streamers) /\ Objs = {} /\ Len(objs) = 0
  BY DEF Init, Objs
<1>7. IsSeq(jobs) /\ DOMAIN jobs = {}
  <2>1. jobs \in Seq({}) /\ Len(jobs) = 0
    BY DEF Init
  <2>2. IsSeq(jobs) /\ DOMAIN jobs = 1..Len(jobs)
    BY <2>1, SeqOfItself, Zenon
  <2> QED BY <2>1, <2>2, SMTT(30)
<1>0. 0 \in Nat /\ 0 \in {0, 1}
  OBVIOUS
<1>8. Idle \in Calls
  BY IdleCall, ZenonT(30)
<1>9. post \in [Posters -> Calls] /\ \A p \in Posters : post[p] = Idle
  BY <1>8 DEF Init
<1>10. del \in Dels /\ del.pc = "idle"
  <2>1. del = NoDelete
    BY DEF Init
  <2>2. NoDelete \in Dels
    BY <1>0, Zenon DEF NoDelete, Dels
  <2>3. NoDelete.pc = "idle"
    BY ZenonT(30) DEF NoDelete
  <2> QED BY <2>1, <2>2, <2>3, ZenonT(30)
<1>11. TypeOK
  BY <1>1, <1>4, <1>5, <1>6, <1>7, <1>9, <1>10, ZenonT(30) DEF TypeOK, Init
<1>12. Idle.pc = "idle" /\ Idle.there = FALSE
  BY ZenonT(30) DEF Idle
<1>13. Pointers
  BY <1>6, <1>9, <1>10, <1>12, SMTT(30) DEF Pointers, Init
<1>14. Placed /\ Halted
  BY <1>6, <1>7, ZenonT(30) DEF Placed, Halted
<1>15. Locked /\ Removed
  BY <1>9, <1>10, <1>12, ZenonT(30) DEF Locked, Removed
<1>16. NotFoundIsHonest
  BY DEF Init, NotFoundIsHonest
<1> QED BY <1>11, <1>13, <1>14, <1>15, <1>16, ZenonT(30) DEF IInv

\* What the proofs use of the sizes of sets of indexes; IndexSets states that it
\* is so.
Sized(n, S) ==
  /\ Cardinality(S) \in Nat
  /\ Cardinality(S) = 0 => S = {}
  /\ \A x : x \notin S => Cardinality(S \cup {x}) = Cardinality(S) + 1
  /\ \A x \in S : Cardinality(S \ {x}) = Cardinality(S) - 1
  /\ \A T \in SUBSET S : /\ Cardinality(T) <= Cardinality(S)
                         /\ Cardinality(T) = Cardinality(S) => T = S
  /\ 1 \notin S => Cardinality({k \in 1..(n - 1) : k + 1 \in S}) = Cardinality(S)

Sizes == Cardinality({}) = 0 /\ \A n \in Nat : \A S \in SUBSET (1..n) : Sized(n, S)

\* A burst holds the requests drained for it.
LEMMA BurstJob ==
  ASSUME Sizes, IInv, NEW o \in Objs
  PROVE /\ JobOK(processBurst(o))
        /\ InFlight(processBurst(o)) = Queued(objs[o])
<1> DEFINE st == objs[o]
           batch == items(st)
           taken == {i \in DOMAIN batch : batch[i].ok}
           written == {i \in taken : batch[i].n = 1}
<1>1. /\ st.id \in DOMAIN tail /\ st.ct \in ContentTypes /\ st.deadline \in Nat
      /\ st.wtail \in Nat /\ st.reqs \in Seq(Posters) /\ env \in Settings /\ now \in Nat
  BY TheStreamer, ZenonT(30)
<1>2. Len(st.reqs) \in Nat /\ DOMAIN st.reqs = 1..Len(st.reqs)
  BY <1>1, SMTT(30)
<1>3. DOMAIN batch = 1..Len(st.reqs) /\ \A i \in 1..Len(st.reqs) : batch[i].p = st.reqs[i]
  BY ZenonT(30) DEF items
<1> HIDE DEF batch
<1>4. Cardinality(written) \in Nat
  <2>1. written \in SUBSET (1..Len(st.reqs))
    BY <1>3, Zenon
  <2> HIDE DEF written
  <2>2. Sized(Len(st.reqs), written)
    BY <1>2, <2>1, Zenon DEF Sizes
  <2> QED BY <2>2, Zenon DEF Sized
<1>5. slideTTL(st.deadline) \in Nat
  BY <1>1, SlideType, Zenon
<1>6. /\ processBurst(o).obj = o /\ processBurst(o).id = st.id /\ processBurst(o).ct = st.ct
      /\ processBurst(o).batch = batch
      /\ processBurst(o).end = st.wtail + Cardinality(written)
      /\ processBurst(o).deadline = IF taken = {} THEN st.deadline ELSE slideTTL(st.deadline)
  BY Zenon DEF processBurst, batch
<1> HIDE DEF taken, written
<1>7. JobOK(processBurst(o))
  BY <1>1, <1>4, <1>5, <1>6, SMTT(30) DEF JobOK
<1>8. InFlight(processBurst(o)) = Queued(st)
  BY <1>2, <1>3, <1>6, ZenonT(30) DEF InFlight, Queued
<1> QED BY <1>7, <1>8, ZenonT(30)

\* Every step keeps the invariant.
LEMMA NextInv ==
  Sizes /\ IInv /\ [Next]_vars => IInv'
<1> SUFFICES ASSUME Sizes, IInv, [Next]_vars PROVE IInv' BY ZenonT(30)
<1> DEFINE Quiet == /\ now' \in Nat
                    /\ UNCHANGED <<env, sent, tail, meta, objs, jobs, registry, post, answers, reader, del>>
<1>0. now \in Nat
  BY DEF IInv, TypeOK
<1>a. Quiet => IInv'
  BY QuietStep, Zenon
<1>1. CASE UNCHANGED vars
  <2>1. Quiet
    BY <1>0, <1>1, ZenonT(30) DEF vars, storeVars, runVars, callVars, otherVars
  <2> QED BY <1>a, <2>1, ZenonT(30)
<1>2. CASE WriteChecks \/ Flush \/ FlushDone \/ sweepOnce
  <2>1. Quiet
    BY <1>0, <1>2, ZenonT(30) DEF WriteChecks, Flush, FlushDone, sweepOnce, storeVars, runVars, callVars, otherVars
  <2> QED BY <1>a, <2>1
<1>3. CASE Tick
  <2>1. Quiet
    BY <1>0, <1>3 DEF Tick, storeVars, runVars, callVars, otherVars
  <2> QED BY <1>a, <2>1
<1> HIDE DEF Quiet
<1>4. CASE \E p \in Posters : Post(p) \/ Poster(p) \/ AppendCancelled(p)
  BY <1>4, PostInv, ResolveInv, SpawnInv, SubmitInv, SendInv, CancelInv, ZenonT(30) DEF Poster
<1>5. CASE \E o \in Objs : Runner(o) \/ Dormant(o)
  BY <1>5, BurstInv, BurstJob, TouchedInv, RetireInv, StoppedInv, DormantInv, ZenonT(30) DEF Runner
<1>6. CASE \E i \in DOMAIN jobs : Land(i) \/ LandRefused(i)
  BY <1>6, LandInv, LandRefusedInv, ZenonT(30)
<1>7. CASE \E e \in dues : expireIfDue(e)
  BY <1>7, ExpireInv, ZenonT(30)
<1>8. CASE Write \/ TouchResolve \/ touchStream \/ CreateStream \/ deleteStream \/ Deleter
  BY <1>8, WriteInv, TouchResolveInv, TouchInv, CreateInv, DeleteInv,
     RemoveEntryInv, StopStreamerInv, CommitDeleteInv, ZenonT(30) DEF Deleter
<1> QED BY <1>1, <1>2, <1>3, <1>4, <1>5, <1>6, <1>7, <1>8, ZenonT(30) DEF Next, Sweeper

-----------------------------------------------------------------------------
(* The path and its writer. *)

\* The path is not recreated under a TTL; and no delete is refused either.
Steady == env.ttl = 0 \/ Len(tail) = 1
Undisturbed == Steady /\ "delete" \notin env.faults

\* A stream that is there and not deleted softly.
Live(id) == id \in mapped /\ ~tomb

\* The streamer that has the path: the resident one, or the one being removed.
Holder == IF del.pc \in {"stop", "commit"} THEN del.obj ELSE registry

\* A streamer's goroutine runs, or a burst of it is in flight.
Active(o) == objs[o].pc # "exit" \/ \E i \in DOMAIN jobs : jobs[i].obj = o

\* The bursts of a streamer that are in flight.
JobsOf(o) == {i \in DOMAIN jobs : jobs[i].obj = o}

\* The path's meta, its streamer and the delete that holds the path agree.
OnPath ==
  /\ NoZombie
  /\ del.pc # "idle" => meta # None /\ meta.id = del.id
  /\ del.pc \in {"stop", "commit"} => registry = 0
  /\ \A id \in mapped : meta # None /\ meta.id = id

\* A streamer knows of its bursts in flight: by their number behind the shared
\* committer, by waiting for the only one when it commits for itself.
Counted ==
  /\ env.mode # "sync" => \A o \in Objs : objs[o].pending = Cardinality(JobsOf(o))
  /\ env.mode = "sync" =>
       /\ \A i \in DOMAIN jobs : objs[jobs[i].obj].pc = "commit"
       /\ \A i, j \in DOMAIN jobs : jobs[i].obj = jobs[j].obj => i = j

\* What a burst will store for a call it accepted, and until when.
ItemOK(job, x) ==
  /\ x.ok /\ x.n = 1 => x.seq \in DOMAIN job.puts /\ job.puts[x.seq] = post[x.p].k
  /\ x.ok /\ env.ttl > 0 => job.deadline > job.at + env.ttl

\* A burst lies below what its streamer assigns next, and slides its deadline.
JobShape(job) ==
  /\ job.id = objs[job.obj].id
  /\ job.at \in Nat /\ job.old \in Nat /\ job.old <= job.deadline
  /\ \A s \in DOMAIN job.puts : s \in Nat /\ s < job.end
  /\ \A b \in DOMAIN job.batch : ItemOK(job, job.batch[b])
  /\ env.ttl = 0 => job.deadline = job.old
  /\ env.mode # "sync" => job.end <= objs[job.obj].wtail
  /\ env.mode = "sync" => job.old = objs[job.obj].deadline

\* A later burst of the same streamer lies past an earlier one; all are so.
Behind(job, later) ==
  job.end <= later.end /\ \A s \in DOMAIN later.puts : job.end <= s

Ordered ==
  /\ \A i \in DOMAIN jobs : JobShape(jobs[i])
  /\ \A i, j \in DOMAIN jobs : i < j /\ jobs[i].obj = jobs[j].obj => Behind(jobs[i], jobs[j])

\* Only the holder of the path works on a stream that is there.
HolderOnly == \A o \in Objs : Live(objs[o].id) /\ Active(o) => o = Holder

\* Bursts of such a stream lie past its stored tail, and so does its holder,
\* who knows the stored deadline when it commits for itself.
JobAhead(job) ==
  Live(job.id) =>
    tail[job.id] <= job.end /\ \A s \in DOMAIN job.puts : tail[job.id] <= s

HolderAhead ==
  Holder # 0 /\ Live(objs[Holder].id) =>
    /\ tail[objs[Holder].id] <= objs[Holder].wtail
    /\ env.mode = "sync" => objs[Holder].deadline = meta.deadline

\* An acknowledged append lies below the stored tail of such a stream, and its
\* window within the stored deadline.
AnswerOK(a) ==
  a.status = "ok" =>
    /\ a.id \in DOMAIN tail /\ a.at \in Nat /\ (a.n = 1 => a.seq \in Nat)
    /\ Undisturbed /\ Live(a.id) =>
         /\ a.n = 1 => a.seq < tail[a.id] /\ Stored(a)
         /\ env.mode = "sync" /\ env.ttl > 0 => meta.deadline > a.at + env.ttl

\* The inductive invariant, beside IInv.
WInv ==
  /\ IsSeq(recs) /\ Len(recs) = Len(tail) /\ Len(tail) > 0
  /\ del.pc \in {"stop", "commit"} => del.obj \in 0..Len(objs)
  /\ Steady => OnPath
  /\ Counted /\ Ordered
  /\ Undisturbed => HolderOnly /\ HolderAhead /\ \A i \in DOMAIN jobs : JobAhead(jobs[i])
  /\ \A a \in answers : AnswerOK(a)

-----------------------------------------------------------------------------
\* Taking element i out keeps the order of the others, and leaves them all.
LEMMA RemoveKeepsOrder ==
  ASSUME NEW s, IsSeq(s), NEW i \in DOMAIN s
  PROVE /\ Len(s) \in Nat /\ DOMAIN s = 1..Len(s) /\ DOMAIN Without(s, i) = 1..(Len(s) - 1)
        /\ \A k \in 1..(Len(s) - 1) : k < i => Without(s, i)[k] = s[k]
        /\ \A k \in 1..(Len(s) - 1) : ~(k < i) => Without(s, i)[k] = s[k + 1]
        /\ \A k, l \in DOMAIN Without(s, i) : k < l =>
             \E m, n \in DOMAIN s \ {i} :
               m < n /\ Without(s, i)[k] = s[m] /\ Without(s, i)[l] = s[n]
<1> DEFINE R == {s[j] : j \in DOMAIN s}
           f(k) == IF k < i THEN k ELSE k + 1
<1>1. s \in Seq(R)
  BY DEF IsSeq
<1>2. Len(s) \in Nat /\ DOMAIN s = 1..Len(s) /\ i \in 1..Len(s)
  BY <1>1
<1>3. \A k \in 1..(Len(s) - 1) : f(k) \in DOMAIN s \ {i}
  BY <1>2
<1>4. \A k, l \in 1..(Len(s) - 1) : k < l => f(k) < f(l)
  BY <1>2
<1>5. Without(s, i) = [k \in 1..(Len(s) - 1) |-> s[f(k)]]
  BY DEF Without
<1>6. \A k \in 1..(Len(s) - 1) : (k < i => f(k) = k) /\ (~(k < i) => f(k) = k + 1)
  OBVIOUS
<1> HIDE DEF R, f
<1>7. /\ DOMAIN Without(s, i) = 1..(Len(s) - 1)
      /\ \A k \in 1..(Len(s) - 1) : Without(s, i)[k] = s[f(k)]
  BY <1>5, Zenon
<1> HIDE DEF Without
<1>8. \A k, l \in DOMAIN Without(s, i) : k < l =>
        \E m, n \in DOMAIN s \ {i} :
          m < n /\ Without(s, i)[k] = s[m] /\ Without(s, i)[l] = s[n]
  BY <1>3, <1>4, <1>7, Zenon
<1>9. /\ \A k \in 1..(Len(s) - 1) : k < i => Without(s, i)[k] = s[k]
      /\ \A k \in 1..(Len(s) - 1) : ~(k < i) => Without(s, i)[k] = s[k + 1]
  BY <1>6, <1>7, Zenon
<1> QED BY <1>2, <1>7, <1>8, <1>9, Zenon

-----------------------------------------------------------------------------
(* Steps that leave the store and the bursts in flight alone. *)

\* What the invariant reads of a streamer, other than where its goroutine is.
Same(n, st) ==
  n.id = st.id /\ n.pending = st.pending /\ n.wtail = st.wtail /\ n.deadline = st.deadline

\* The calls of bursts in flight keep their number, and no answer is a success.
CallsKept ==
  /\ \A i \in DOMAIN jobs : \A p \in InFlight(jobs[i]) : post'[p].k = post[p].k
  /\ \A a \in answers' : a \in answers \/ a.status # "ok"

\* A burst in flight has its shape still, for the streamers after the step.
LEMMA ShapeMoves ==
  ASSUME NEW job, JobShape(job), env' = env,
         objs'[job.obj].id = objs[job.obj].id,
         env.mode # "sync" => job.end <= objs'[job.obj].wtail,
         env.mode = "sync" => objs'[job.obj].deadline = objs[job.obj].deadline,
         \A p \in InFlight(job) : post'[p].k = post[p].k
  PROVE JobShape(job)'
<1>1. \A b \in DOMAIN job.batch : ItemOK(job, job.batch[b])'
  <2>1. \A b \in DOMAIN job.batch : ItemOK(job, job.batch[b])
    BY Zenon DEF JobShape
  <2>2. \A b \in DOMAIN job.batch : job.batch[b].p \in InFlight(job)
    BY Zenon DEF InFlight
  <2> QED BY <2>1, <2>2, ZenonT(30) DEF ItemOK
<1> QED BY <1>1, ZenonT(30) DEF JobShape

\* So does a step that leaves the burst's streamer as it was.
LEMMA ShapeKept ==
  ASSUME NEW job, JobShape(job), env' = env,
         Same(objs'[job.obj], objs[job.obj]),
         \A p \in InFlight(job) : post'[p].k = post[p].k
  PROVE JobShape(job)'
<1>1. env.mode # "sync" => job.end <= objs[job.obj].wtail
  BY Zenon DEF JobShape
<1> QED BY <1>1, ShapeMoves, Zenon DEF Same

\* Nor does such a step change what was acknowledged.
LEMMA AnswersKept ==
  ASSUME \A a \in answers : AnswerOK(a),
         UNCHANGED <<env, meta, tomb, mapped, recs, tail>>,
         \A a \in answers' : a \in answers \/ a.status # "ok"
  PROVE (\A a \in answers : AnswerOK(a))'
<1> SUFFICES ASSUME NEW a \in answers' PROVE AnswerOK(a)'
  BY Zenon
<1>1. CASE a \in answers
  BY <1>1, ZenonT(30) DEF AnswerOK, Undisturbed, Steady, Live, Stored
<1>2. CASE a.status # "ok"
  BY <1>2, ZenonT(30) DEF AnswerOK
<1> QED BY <1>1, <1>2

\* The invariant but for its answers, which the step may add to.
LEMMA KeepRest ==
  ASSUME IInv, WInv, UNCHANGED <<env, meta, tomb, mapped, recs, tail, jobs>>,
         Objs' = Objs, Len(objs') = Len(objs),
         \A i \in DOMAIN jobs : \A p \in InFlight(jobs[i]) : post'[p].k = post[p].k,
         (\A a \in answers : AnswerOK(a))',
         \A o \in Objs : /\ Same(objs'[o], objs[o])
                         /\ objs'[o].pc # "exit" => objs[o].pc # "exit"
                         /\ objs[o].pc = "commit" => objs'[o].pc = "commit",
         registry' \in {registry, 0},
         del'.pc \in {"stop", "commit"} => del'.obj \in 0..Len(objs),
         Steady => /\ del'.pc # "idle" => meta # None /\ meta.id = del'.id
                   /\ del'.pc \in {"stop", "commit"} => registry' = 0,
         Holder' \in {Holder, 0},
         \A o \in Objs : o = Holder /\ Active(o)' => o = Holder'
  PROVE WInv'
<1>1. (Steady => OnPath)'
  <2> SUFFICES ASSUME Steady PROVE OnPath'
    BY Zenon DEF Steady
  <2>1. OnPath
    BY Zenon DEF WInv
  <2>2. NoZombie'
    <3>1. registry \in 0..Len(objs)
      BY ZenonT(30) DEF IInv, Pointers
    <3>2. registry # 0 => registry \in Objs
      BY <3>1, ObjIndex, Zenon
    <3> QED BY <2>1, <3>2, ZenonT(30) DEF OnPath, NoZombie, Same
  <2> QED BY <2>1, <2>2, Zenon DEF OnPath
<1>2. \A i \in DOMAIN jobs : jobs[i].obj \in Objs
  BY Zenon DEF IInv, TypeOK, JobOK
<1>3. Counted'
  <2>1. Counted /\ \A o \in Objs : JobsOf(o)' = JobsOf(o)
    BY Zenon DEF WInv, JobsOf
  <2>2. ASSUME env.mode # "sync", NEW o \in Objs
        PROVE  objs'[o].pending = Cardinality(JobsOf(o)')
    BY <2>1, <2>2, Zenon DEF Counted, Same
  <2>3. ASSUME env.mode = "sync"
        PROVE  /\ \A i \in DOMAIN jobs : objs'[jobs[i].obj].pc = "commit"
               /\ \A i, j \in DOMAIN jobs : jobs[i].obj = jobs[j].obj => i = j
    BY <1>2, <2>1, <2>3, Zenon DEF Counted
  <2> QED BY <2>2, <2>3, Zenon DEF Counted
<1>4. Ordered'
  <2>1. \A i \in DOMAIN jobs : JobShape(jobs[i])'
    <3> SUFFICES ASSUME NEW i \in DOMAIN jobs PROVE JobShape(jobs[i])'
      BY Zenon
    <3>1. JobShape(jobs[i])
      BY Zenon DEF WInv, Ordered
    <3>2. Same(objs'[jobs[i].obj], objs[jobs[i].obj])
      BY <1>2, Zenon
    <3>3. \A p \in InFlight(jobs[i]) : post'[p].k = post[p].k
      BY Zenon
    <3> DEFINE job == jobs[i]
    <3>4. JobShape(job) /\ job' = job
      BY <3>1, Zenon
    <3> HIDE DEF job
    <3> QED BY <3>1, <3>2, <3>3, ShapeKept, Zenon
  <2> QED BY <2>1, Zenon DEF WInv, Ordered, Behind
<1>5. (Undisturbed => HolderOnly /\ HolderAhead /\ \A i \in DOMAIN jobs : JobAhead(jobs[i]))'
  <2> SUFFICES ASSUME Undisturbed
               PROVE (HolderOnly /\ HolderAhead /\ \A i \in DOMAIN jobs : JobAhead(jobs[i]))'
    BY Zenon DEF Undisturbed, Steady
  <2>1. HolderOnly /\ HolderAhead /\ \A i \in DOMAIN jobs : JobAhead(jobs[i])
    BY Zenon DEF WInv
  <2>2. \A o \in Objs : Active(o)' => Active(o)
    BY Zenon DEF Active
  <2>3. HolderOnly'
    <3> SUFFICES ASSUME NEW o \in Objs, Live(objs[o].id)', Active(o)' PROVE o = Holder'
      BY Zenon DEF HolderOnly
    <3>1. Live(objs[o].id)
      BY Zenon DEF Live, Same
    <3>2. o = Holder
      BY <2>1, <2>2, <3>1, Zenon DEF HolderOnly
    <3> QED BY <3>2, Zenon
  <2>4. HolderAhead'
    <3>1. SUFFICES ASSUME Holder' # 0, Live(objs[Holder].id)'
                   PROVE /\ tail[objs'[Holder'].id] <= objs'[Holder'].wtail
                         /\ env.mode = "sync" => objs'[Holder'].deadline = meta.deadline
      BY Zenon DEF HolderAhead
    <3>2. Holder' = Holder
      BY <3>1, Zenon
    <3>3. Holder \in Objs
      <4>1. registry \in 0..Len(objs)
        BY Zenon DEF IInv, Pointers
      <4>2. Holder \in 0..Len(objs)
        BY <4>1, Zenon DEF Holder, WInv
      <4>3. Holder # 0
        BY <3>1, <3>2, Zenon
      <4> QED BY <4>2, <4>3 DEF Objs
    <3>4. Same(objs'[Holder], objs[Holder])
      BY <3>3, Zenon
    <3> QED BY <2>1, <3>1, <3>2, <3>4, ZenonT(30) DEF HolderAhead, Same, Live
  <2>5. (\A i \in DOMAIN jobs : JobAhead(jobs[i]))'
    BY <2>1, Zenon DEF JobAhead, Live
  <2> QED BY <2>3, <2>4, <2>5, Zenon
<1>6. (\A a \in answers : AnswerOK(a))'
  BY Zenon
<1>7. /\ IsSeq(recs)' /\ (Len(recs) = Len(tail) /\ Len(tail) > 0)'
      /\ (del.pc \in {"stop", "commit"} => del.obj \in 0..Len(objs))'
  BY Zenon DEF WInv, IsSeq
<1> QED BY <1>1, <1>3, <1>4, <1>5, <1>6, <1>7, Zenon DEF WInv

\* Nor does it add a success.
LEMMA KeepStep ==
  ASSUME IInv, WInv, UNCHANGED <<env, meta, tomb, mapped, recs, tail, jobs>>,
         Objs' = Objs, Len(objs') = Len(objs), CallsKept,
         \A o \in Objs : /\ Same(objs'[o], objs[o])
                         /\ objs'[o].pc # "exit" => objs[o].pc # "exit"
                         /\ objs[o].pc = "commit" => objs'[o].pc = "commit",
         registry' \in {registry, 0},
         del'.pc \in {"stop", "commit"} => del'.obj \in 0..Len(objs),
         Steady => /\ del'.pc # "idle" => meta # None /\ meta.id = del'.id
                   /\ del'.pc \in {"stop", "commit"} => registry' = 0,
         Holder' \in {Holder, 0},
         \A o \in Objs : o = Holder /\ Active(o)' => o = Holder'
  PROVE WInv'
<1>1. (\A a \in answers : AnswerOK(a))'
  BY AnswersKept, Zenon DEF WInv, CallsKept
<1>2. \A i \in DOMAIN jobs : \A p \in InFlight(jobs[i]) : post'[p].k = post[p].k
  BY Zenon DEF CallsKept
<1> QED BY <1>1, <1>2, KeepRest, ZenonT(30)

\* Neither the registry nor the delete in progress moves, nor any goroutine.
LEMMA KeepCalls ==
  ASSUME IInv, WInv, UNCHANGED <<env, meta, tomb, mapped, recs, tail, jobs, registry, del>>,
         Objs' = Objs, Len(objs') = Len(objs), CallsKept,
         \A o \in Objs : Same(objs'[o], objs[o]) /\ objs'[o].pc = objs[o].pc
  PROVE WInv'
<1>1. Steady => /\ del'.pc # "idle" => meta # None /\ meta.id = del'.id
                /\ del'.pc \in {"stop", "commit"} => registry' = 0
  BY Zenon DEF WInv, OnPath
<1>2. del'.pc \in {"stop", "commit"} => del'.obj \in 0..Len(objs)
  BY Zenon DEF WInv
<1>3. Holder' = Holder
  BY Zenon DEF Holder
<1> QED BY <1>1, <1>2, <1>3, KeepStep, ZenonT(30)

\* Two calls are not the same one.
LEMMA OtherCalls ==
  ASSUME IInv, NEW p \in Posters, post[p].pc # "wait",
         \A q \in Posters \ {p} : post'[q] = post[q],
         \A a \in answers' : a \in answers \/ a.status # "ok"
  PROVE CallsKept
<1>1. \A i \in DOMAIN jobs : \A q \in InFlight(jobs[i]) : q \in Posters /\ post[q].pc = "wait"
  BY Zenon DEF IInv, Placed
<1> QED BY <1>1, Zenon DEF CallsKept

\* A call that returns without success.
LEMMA ReturnKept ==
  ASSUME IInv, NEW p \in Posters, NEW status, status # "ok", Return(p, status)
  PROVE /\ \A q \in Posters \ {p} : post'[q] = post[q]
        /\ \A a \in answers' : a \in answers \/ a.status # "ok"
<1>1. post \in [Posters -> Calls]
  BY Zenon DEF IInv, TypeOK
<1>2. Reply(p, status).status = status
  BY Zenon DEF Reply
<1> HIDE DEF Reply
<1> QED BY <1>1, <1>2, Zenon DEF Return

\* The streamers stay as they are.
LEMMA SameObjs ==
  ASSUME objs' = objs
  PROVE /\ Objs' = Objs /\ Len(objs') = Len(objs)
        /\ \A o \in Objs : Same(objs'[o], objs[o]) /\ objs'[o].pc = objs[o].pc
BY Zenon DEF Objs, Same

\* A call begins, gets its hint or its error, or its context ends.
LEMMA CallMoves ==
  ASSUME IInv, WInv, NEW p \in Posters,
         Post(p) \/ Resolve(p) \/ AppendCancelled(p)
  PROVE WInv'
<1>1. /\ UNCHANGED <<env, meta, tomb, mapped, recs, tail, jobs, registry, del>> /\ objs' = objs
      /\ post[p].pc # "wait"
  BY Zenon DEF Post, Resolve, AppendCancelled, storeVars, runVars, otherVars
<1>2. post \in [Posters -> Calls]
  BY Zenon DEF IInv, TypeOK
<1>3. /\ \A q \in Posters \ {p} : post'[q] = post[q]
      /\ \A a \in answers' : a \in answers \/ a.status # "ok"
  <2>1. CASE Post(p)
    BY <1>2, <2>1, Zenon DEF Post, Begin
  <2>2. CASE Resolve(p)
    <3>1. CASE Hinted(p, registry, objs[registry]) /\ UNCHANGED answers
      BY <1>2, <3>1, Zenon DEF Hinted
    <3>2. CASE Return(p, "gone")
      BY <3>2, ReturnKept, Zenon
    <3>3. CASE post' = [post EXCEPT ![p].pc = "spawn"] /\ UNCHANGED answers
      BY <1>2, <3>3, Zenon
    <3> QED BY <2>2, <3>1, <3>2, <3>3, Zenon DEF Resolve
  <2>3. CASE AppendCancelled(p)
    BY <2>3, ReturnKept, Zenon DEF AppendCancelled
  <2> QED BY <2>1, <2>2, <2>3, Zenon
<1>4. CallsKept
  BY <1>1, <1>3, OtherCalls, Zenon
<1> QED BY <1>1, <1>4, SameObjs, KeepCalls, Zenon

\* The Writer gets a slot for a call, or gives up.
LEMMA WriteKept ==
  ASSUME IInv, WInv, Write
  PROVE WInv'
<1>1. UNCHANGED <<env, meta, tomb, mapped, recs, tail, jobs, registry, del, answers>> /\ objs' = objs
  BY Zenon DEF Write, storeVars, runVars, otherVars
<1>2. CallsKept
  <2>1. CASE UNCHANGED <<post, sent>>
    BY <1>1, <2>1, Zenon DEF CallsKept
  <2>2. CASE \E p \in Posters : post[p].pc = "idle" /\ Begin(p, None)
    <3>1. PICK p \in Posters : post[p].pc = "idle" /\ Begin(p, None)
      BY <2>2, Zenon
    <3>2. post \in [Posters -> Calls]
      BY Zenon DEF IInv, TypeOK
    <3>3. \A q \in Posters \ {p} : post'[q] = post[q]
      BY <3>1, <3>2, Zenon DEF Begin
    <3> QED BY <1>1, <3>1, <3>3, OtherCalls, Zenon
  <2> QED BY <2>1, <2>2, Zenon DEF Write
<1> QED BY <1>1, <1>2, SameObjs, KeepCalls, Zenon

\* One streamer changes, in whatever way.
LEMMA OneStreamer ==
  ASSUME IInv, NEW o \in Objs, NEW n, objs' = [objs EXCEPT ![o] = n]
  PROVE /\ Objs' = Objs /\ Len(objs') = Len(objs) /\ objs'[o] = n
        /\ \A q \in Objs \ {o} : objs'[q] = objs[q]
<1> DEFINE T == Streamers \cup {n}
<1>1. objs \in Seq(Streamers)
  BY Zenon DEF IInv, TypeOK
<1>2. objs \in Seq(T) /\ n \in T
  BY <1>1, SeqWeaken, Zenon
<1> HIDE DEF T
<1> QED BY <1>2, SMTT(30) DEF Objs

\* It changes in nothing the invariant reads.
LEMMA OneSame ==
  ASSUME IInv, NEW o \in Objs, NEW n, objs' = [objs EXCEPT ![o] = n],
         Same(n, objs[o]), n.pc = objs[o].pc
  PROVE /\ Objs' = Objs /\ Len(objs') = Len(objs)
        /\ \A q \in Objs : Same(objs'[q], objs[q]) /\ objs'[q].pc = objs[q].pc
<1>1. /\ Objs' = Objs /\ Len(objs') = Len(objs) /\ objs'[o] = n
      /\ \A q \in Objs \ {o} : objs'[q] = objs[q]
  BY OneStreamer, Zenon
<1>2. \A st : Same(st, st)
  BY Zenon DEF Same
<1> QED BY <1>1, <1>2, Zenon

\* A call reaches the channel, or waits for room in it with mu held.
LEMMA SubmitMoves ==
  ASSUME IInv, WInv, NEW p \in Posters, submitAppend(p) \/ Send(p)
  PROVE WInv'
<1> DEFINE o == post[p].st
           a == Append(objs[o].reqs, p)
<1>1. /\ UNCHANGED <<env, meta, tomb, mapped, recs, tail, jobs, registry, del, answers>>
      /\ post[p].pc \in {"submit", "send"}
  BY Zenon DEF submitAppend, Send, storeVars, otherVars
<1>2. post \in [Posters -> Calls] /\ objs \in Seq(Streamers) /\ o \in Objs
  BY <1>1, Zenon DEF IInv, TypeOK, Pointers
<1>3. objs[o] \in Streamers
  BY <1>2, TheStreamer, Zenon
<1>4. CallsKept
  <2>1. \A q \in Posters \ {p} : post'[q] = post[q]
    BY <1>2, Zenon DEF submitAppend, Send
  <2> QED BY <1>1, <2>1, OtherCalls, Zenon
<1> DEFINE n1 == [objs[o] EXCEPT !.reqs = a]
           n2 == [objs[o] EXCEPT !.mu = p]
           n3 == [objs[o] EXCEPT !.reqs = a, !.mu = None]
<1>5. \/ objs' = objs
      \/ \E n \in {n1, n2, n3} : objs' = [objs EXCEPT ![o] = n]
  BY <1>2, ZenonT(30) DEF submitAppend, Send
<1>6. /\ Same(n1, objs[o]) /\ n1.pc = objs[o].pc
      /\ Same(n2, objs[o]) /\ n2.pc = objs[o].pc
      /\ Same(n3, objs[o]) /\ n3.pc = objs[o].pc
  <2> HIDE DEF o, a
  <2> QED BY <1>3, Zenon DEF Same, Streamers
<1> HIDE DEF n1, n2, n3, o
<1>7. CASE objs' = objs
  BY <1>1, <1>4, <1>7, SameObjs, KeepCalls, Zenon
<1>8. CASE \E n \in {n1, n2, n3} : objs' = [objs EXCEPT ![o] = n]
  <2>1. /\ Objs' = Objs /\ Len(objs') = Len(objs)
        /\ \A q \in Objs : Same(objs'[q], objs[q]) /\ objs'[q].pc = objs[q].pc
    BY <1>2, <1>6, <1>8, OneSame, Zenon
  <2> QED BY <1>1, <1>4, <2>1, KeepCalls, Zenon
<1> QED BY <1>5, <1>7, <1>8, Zenon

\* A read leaves its mark on the streamer.
LEMMA TouchMoves ==
  ASSUME IInv, WInv, touchStream
  PROVE WInv'
<1> DEFINE v == objs[reader].touch \/ ~objs[reader].dead
           n == [objs[reader] EXCEPT !.touch = v]
<1>1. /\ UNCHANGED <<env, meta, tomb, mapped, recs, tail, jobs, registry, del, answers, post>>
      /\ reader # 0
  BY Zenon DEF touchStream, storeVars, callVars
<1>2. reader \in Objs
  <2>1. reader \in 0..Len(objs)
    BY Zenon DEF IInv, Pointers
  <2> QED BY <1>1, <2>1 DEF Objs
<1>3. objs \in Seq(Streamers) /\ objs[reader] \in Streamers
  BY <1>2, TheStreamer, Zenon
<1>4. objs' = [objs EXCEPT ![reader] = n]
  BY Zenon DEF touchStream
<1> HIDE DEF v
<1>5. Same(n, objs[reader]) /\ n.pc = objs[reader].pc
  BY <1>3, Zenon DEF Same, Streamers
<1> HIDE DEF n
<1>6. /\ Objs' = Objs /\ Len(objs') = Len(objs)
      /\ \A q \in Objs : Same(objs'[q], objs[q]) /\ objs'[q].pc = objs[q].pc
  BY <1>2, <1>4, <1>5, OneSame, Zenon
<1>7. CallsKept
  BY <1>1, Zenon DEF CallsKept
<1> QED BY <1>1, <1>6, <1>7, KeepCalls, Zenon

\* The clock, the Writer's caller, the sweeper's scan.
LEMMA QuietKept ==
  ASSUME IInv, WInv,
         UNCHANGED <<env, meta, tomb, mapped, recs, tail, jobs, registry, del, answers, post, objs>>
  PROVE WInv'
<1>1. CallsKept
  BY Zenon DEF CallsKept
<1> QED BY <1>1, SameObjs, KeepCalls, Zenon

\* A delete, by a user or by the sweeper, begins on the stream the path has.
LEMMA DeleteKept ==
  ASSUME IInv, WInv, deleteStream \/ \E e \in dues : expireIfDue(e)
  PROVE WInv'
<1>1. /\ UNCHANGED <<env, meta, tomb, mapped, recs, tail, jobs, registry, answers, post>>
      /\ objs' = objs /\ del.pc = "idle"
  BY ZenonT(30) DEF deleteStream, expireIfDue, storeVars, runVars, callVars
<1>2. del' = del \/ (del'.pc = "remove" /\ meta # None /\ del'.id = meta.id)
  <2>1. CASE deleteStream
    <3>1. \/ del' = del
          \/ /\ meta # None
             /\ \E kind \in env.kinds :
                  del' = [pc |-> "remove", kind |-> kind, id |-> meta.id,
                          deadline |-> meta.deadline, obj |-> 0]
      BY <2>1, Zenon DEF deleteStream
    <3> QED BY <3>1
  <2>2. ASSUME NEW e \in dues, expireIfDue(e)
        PROVE  del' = del \/ (del'.pc = "remove" /\ meta # None /\ del'.id = meta.id)
    <3>1. \/ del' = del
          \/ /\ meta # None /\ meta.id = e[2]
             /\ del' = [pc |-> "remove", kind |-> "hard", id |-> e[2], deadline |-> e[1], obj |-> 0]
      BY <2>2 DEF expireIfDue
    <3> QED BY <3>1
  <2> QED BY <2>1, <2>2, Zenon
<1>3. CallsKept
  BY <1>1, Zenon DEF CallsKept
<1>4. del'.pc \notin {"stop", "commit"} /\ Holder' = Holder
  BY <1>1, <1>2, Zenon DEF Holder
<1>5. Steady => /\ del'.pc # "idle" => meta # None /\ meta.id = del'.id
                /\ del'.pc \in {"stop", "commit"} => registry' = 0
  BY <1>1, <1>2, <1>4, Zenon
<1> QED BY <1>1, <1>3, <1>4, <1>5, SameObjs, KeepStep, Zenon

\* removeStreamerLocked takes over the registry entry: the holder stays.
LEMMA RemoveEntryKept ==
  ASSUME IInv, WInv, RemoveEntry
  PROVE WInv'
<1> DEFINE to == IF registry = 0 THEN "commit" ELSE "stop"
<1>1. /\ UNCHANGED <<env, meta, tomb, mapped, recs, tail, jobs, answers>>
      /\ objs' = objs /\ del.pc = "remove" /\ registry' = 0
      /\ del' = [del EXCEPT !.pc = to, !.obj = registry]
      /\ post' = [p \in Posters |-> [post[p] EXCEPT !.there = FALSE]]
  BY Zenon DEF RemoveEntry, storeVars
<1>2. del \in Dels /\ post \in [Posters -> Calls] /\ registry \in 0..Len(objs)
  BY Zenon DEF IInv, TypeOK, Pointers
<1>3. to \in {"stop", "commit"}
  BY Zenon
<1> HIDE DEF to
<1>4. del'.pc = to /\ del'.id = del.id /\ del'.obj = registry
  BY <1>1, <1>2, Zenon DEF Dels
<1>5. CallsKept
  <2>1. \A i \in DOMAIN jobs : \A q \in InFlight(jobs[i]) : q \in Posters
    BY Zenon DEF IInv, Placed
  <2>2. \A c \in Calls : [c EXCEPT !.there = FALSE].k = c.k
    BY Zenon DEF Calls
  <2>3. \A q \in Posters : post'[q].k = post[q].k
    BY <1>1, <1>2, <2>2, Zenon
  <2> QED BY <1>1, <2>1, <2>3, Zenon DEF CallsKept
<1>6. Holder' = Holder
  BY <1>1, <1>3, <1>4, ZenonT(30) DEF Holder
<1>7. Steady => /\ del'.pc # "idle" => meta # None /\ meta.id = del'.id
                /\ del'.pc \in {"stop", "commit"} => registry' = 0
  <2>1. del.pc # "idle"
    BY <1>1
  <2> QED BY <1>1, <1>4, <2>1, Zenon DEF WInv, OnPath
<1> QED BY <1>1, <1>2, <1>4, <1>5, <1>6, <1>7, SameObjs, KeepStep, Zenon

\* removeStreamer marks the streamer dead: the holder stays until the commit.
LEMMA StopStreamerKept ==
  ASSUME IInv, WInv, StopStreamer
  PROVE WInv'
<1> DEFINE o == del.obj
           v == objs[o].stop \/ ~objs[o].dead
           n == [objs[o] EXCEPT !.stop = v, !.dead = TRUE]
<1>1. /\ UNCHANGED <<env, meta, tomb, mapped, recs, tail, jobs, registry, answers, post>>
      /\ del.pc = "stop" /\ del' = [del EXCEPT !.pc = "commit"]
  BY Zenon DEF StopStreamer, storeVars, callVars
<1>2. del \in Dels /\ o \in Objs
  BY <1>1, Zenon DEF IInv, TypeOK, Pointers
<1>3. objs \in Seq(Streamers) /\ objs[o] \in Streamers
  BY <1>2, TheStreamer, Zenon
<1>4. objs' = [objs EXCEPT ![o] = n]
  BY Zenon DEF StopStreamer
<1>5. del'.pc = "commit" /\ del'.id = del.id /\ del'.obj = del.obj
  BY <1>1, <1>2, Zenon DEF Dels
<1>6. Holder' = Holder
  BY <1>1, <1>5, ZenonT(30) DEF Holder
<1>7. Steady => /\ del'.pc # "idle" => meta # None /\ meta.id = del'.id
                /\ del'.pc \in {"stop", "commit"} => registry' = 0
  <2>1. del.pc # "idle"
    BY <1>1
  <2> QED BY <1>1, <1>5, <2>1, Zenon DEF WInv, OnPath
<1>8. del'.obj \in 0..Len(objs)
  BY <1>1, <1>5, Zenon DEF WInv
<1> HIDE DEF o, v
<1>9. Same(n, objs[o]) /\ n.pc = objs[o].pc
  BY <1>3, Zenon DEF Same, Streamers
<1> HIDE DEF n
<1>10. /\ Objs' = Objs /\ Len(objs') = Len(objs)
       /\ \A q \in Objs : Same(objs'[q], objs[q]) /\ objs'[q].pc = objs[q].pc
  BY <1>2, <1>4, <1>9, OneSame, Zenon
<1>11. CallsKept
  BY <1>1, Zenon DEF CallsKept
<1> QED BY <1>1, <1>6, <1>7, <1>8, <1>10, <1>11, KeepStep, ZenonT(30)

\* A goroutine moves on, away from a commit it does not wait for.
LEMMA RunKept ==
  ASSUME IInv, WInv, UNCHANGED <<env, meta, tomb, mapped, recs, tail, jobs, del>>, CallsKept,
         NEW o \in Objs, NEW n, objs' = [objs EXCEPT ![o] = n], Same(n, objs[o]),
         objs[o].pc \in {"select", "retire"},
         \/ registry' = registry
         \/ registry' = 0 /\ registry = o /\ ~Active(o)'
  PROVE WInv'
<1>1. /\ Objs' = Objs /\ Len(objs') = Len(objs) /\ objs'[o] = n
      /\ \A q \in Objs \ {o} : objs'[q] = objs[q]
  BY OneStreamer, Zenon
<1>2. \A st : Same(st, st)
  BY Zenon DEF Same
<1>3. objs[o].pc # "exit" /\ objs[o].pc # "commit"
  BY Zenon
<1>4. \A q \in Objs : /\ Same(objs'[q], objs[q])
                      /\ objs'[q].pc # "exit" => objs[q].pc # "exit"
                      /\ objs[q].pc = "commit" => objs'[q].pc = "commit"
  BY <1>1, <1>2, <1>3, Zenon
<1>5. Holder' \in {Holder, 0} /\ \A q \in Objs : q = Holder /\ Active(q)' => q = Holder'
  BY Zenon DEF Holder
<1>6. Steady => /\ del'.pc # "idle" => meta # None /\ meta.id = del'.id
                /\ del'.pc \in {"stop", "commit"} => registry' = 0
  BY Zenon DEF WInv, OnPath
<1>7. del'.pc \in {"stop", "commit"} => del'.obj \in 0..Len(objs)
  BY Zenon DEF WInv
<1> QED BY <1>1, <1>4, <1>5, <1>6, <1>7, KeepStep, ZenonT(30)

\* The dormancy timer.
LEMMA DormantKept ==
  ASSUME IInv, WInv, NEW o \in Objs, Dormant(o)
  PROVE WInv'
<1> DEFINE n == [objs[o] EXCEPT !.pc = "retire"]
<1>1. /\ UNCHANGED <<env, meta, tomb, mapped, recs, tail, jobs, registry, del, answers, post>>
      /\ objs[o].pc = "select" /\ objs' = [objs EXCEPT ![o] = n]
  BY Zenon DEF Dormant, storeVars, callVars, otherVars
<1>2. objs[o] \in Streamers
  BY TheStreamer, Zenon
<1>3. Same(n, objs[o])
  BY <1>2, Zenon DEF Same, Streamers
<1> HIDE DEF n
<1>4. CallsKept
  BY <1>1, Zenon DEF CallsKept
<1> QED BY <1>1, <1>3, <1>4, RunKept, Zenon

\* The indices of a streamer's bursts are finitely many.
LEMMA JobsOfFinite ==
  ASSUME Sizes, IInv, NEW o
  PROVE /\ Len(jobs) \in Nat /\ DOMAIN jobs = 1..Len(jobs)
        /\ JobsOf(o) \in SUBSET (1..Len(jobs))
        /\ Cardinality(JobsOf(o)) \in Nat
        /\ Cardinality(JobsOf(o)) = 0 => JobsOf(o) = {}
<1>1. IsSeq(jobs)
  BY Zenon DEF IInv, TypeOK
<1>2. Len(jobs) \in Nat /\ DOMAIN jobs = 1..Len(jobs)
  BY <1>1, SeqOfItself, Zenon DEF IsSeq
<1>3. JobsOf(o) \in SUBSET (1..Len(jobs))
  BY <1>2, Zenon DEF JobsOf
<1>4. Cardinality(JobsOf(o)) \in Nat /\ (Cardinality(JobsOf(o)) = 0 => JobsOf(o) = {})
  <2>1. Sized(Len(jobs), JobsOf(o))
    BY <1>2, <1>3, Zenon DEF Sizes
  <2> QED BY <2>1, Zenon DEF Sized
<1> QED BY <1>2, <1>3, <1>4, Zenon

\* tryRetire lets go of the path only when no burst of the streamer is in flight.
LEMMA RetireKept ==
  ASSUME Sizes, IInv, WInv, NEW o \in Objs, tryRetire(o)
  PROVE WInv'
<1> DEFINE st == objs[o]
           n1 == [st EXCEPT !.pc = "select"]
           n2 == [st EXCEPT !.pc = "exit", !.dead = TRUE]
           n == IF busy(st) THEN n1 ELSE n2
<1>1. /\ UNCHANGED <<env, meta, tomb, mapped, recs, tail, jobs, del, answers, post>>
      /\ st.pc = "retire" /\ objs' = [objs EXCEPT ![o] = n]
      /\ registry' = IF ~busy(st) /\ registry = o THEN 0 ELSE registry
  BY Zenon DEF tryRetire, storeVars, callVars, otherVars
<1>2. st \in Streamers
  BY TheStreamer, Zenon
<1>3. CallsKept
  BY <1>1, Zenon DEF CallsKept
<1>4. ~busy(st) => \A i \in DOMAIN jobs : jobs[i].obj # o
  <2> SUFFICES ASSUME ~busy(st) PROVE \A i \in DOMAIN jobs : jobs[i].obj # o
    BY Zenon
  <2>1. ~(st.pending > 0)
    BY Zenon DEF busy
  <2>2. CASE env.mode = "sync"
    <3>1. \A i \in DOMAIN jobs : objs[jobs[i].obj].pc = "commit"
      BY <2>2, Zenon DEF WInv, Counted
    <3>2. "retire" # "commit"
      OBVIOUS
    <3> QED BY <1>1, <3>1, <3>2, Zenon
  <2>3. CASE env.mode # "sync"
    <3>1. st.pending = Cardinality(JobsOf(o))
      BY <2>3, Zenon DEF WInv, Counted
    <3>2. Cardinality(JobsOf(o)) \in Nat /\ (Cardinality(JobsOf(o)) = 0 => JobsOf(o) = {})
      BY JobsOfFinite, Zenon
    <3>3. Cardinality(JobsOf(o)) = 0
      <4> DEFINE c == Cardinality(JobsOf(o))
      <4>1. c \in Nat /\ ~(c > 0)
        BY <2>1, <3>1, <3>2, Zenon
      <4> HIDE DEF c
      <4>2. c = 0
        BY <4>1
      <4> QED BY <4>2 DEF c
    <3> QED BY <3>2, <3>3, Zenon DEF JobsOf
  <2> QED BY <2>2, <2>3, Zenon
<1> HIDE DEF st
<1>5. Same(n1, st) /\ Same(n2, st) /\ n2.pc = "exit"
  BY <1>2, Zenon DEF Same, Streamers
<1> HIDE DEF n1, n2
<1>6. Same(n, st) /\ (~busy(st) => n.pc = "exit")
  BY <1>5, Zenon
<1> HIDE DEF n
<1>7. ~busy(st) => ~Active(o)'
  <2>1. objs'[o] = n
    BY <1>1, OneStreamer, Zenon
  <2> QED BY <1>1, <1>4, <1>6, <2>1, Zenon DEF Active
<1>8. \/ registry' = registry
      \/ registry' = 0 /\ registry = o /\ ~Active(o)'
  BY <1>1, <1>7, Zenon
<1>9. objs[o].pc \in {"select", "retire"} /\ Same(n, objs[o])
  BY <1>1, <1>6, Zenon DEF st
<1>10. UNCHANGED <<env, meta, tomb, mapped, recs, tail, jobs, del>> /\ objs' = [objs EXCEPT ![o] = n]
  BY <1>1, Zenon
<1> QED BY <1>3, <1>8, <1>9, <1>10, RunKept, Zenon

\* The stop case answers what is queued, and bursts in flight hold none of it.
LEMMA StoppedKept ==
  ASSUME IInv, WInv, NEW o \in Objs, Stopped(o)
  PROVE WInv'
<1> DEFINE n == [objs[o] EXCEPT !.pc = "exit", !.reqs = << >>]
           queued == {objs[o].reqs[i] : i \in DOMAIN objs[o].reqs}
<1>1. /\ UNCHANGED <<env, meta, tomb, mapped, recs, tail, jobs, registry, del>>
      /\ objs[o].pc = "select" /\ objs' = [objs EXCEPT ![o] = n]
      /\ answers' = answers \cup {Reply(p, "notfound") : p \in queued}
      /\ post' = [p \in Posters |-> IF p \in queued THEN Idle ELSE post[p]]
  BY Zenon DEF Stopped, storeVars, otherVars
<1>2. objs[o] \in Streamers
  BY TheStreamer, Zenon
<1>3. Same(n, objs[o])
  BY <1>2, Zenon DEF Same, Streamers
<1>4. CallsKept
  <2>1. \A i \in DOMAIN jobs : InFlight(jobs[i]) \cap queued = {}
    BY Zenon DEF IInv, Placed, Queued
  <2>2. \A i \in DOMAIN jobs : \A p \in InFlight(jobs[i]) : p \in Posters
    BY Zenon DEF IInv, Placed
  <2>3. \A p : Reply(p, "notfound").status # "ok"
    BY DEF Reply
  <2> HIDE DEF Reply, queued
  <2>4. \A i \in DOMAIN jobs : \A p \in InFlight(jobs[i]) : post'[p].k = post[p].k
    BY <1>1, <2>1, <2>2, Zenon
  <2>5. \A a \in answers' : a \in answers \/ a.status # "ok"
    BY <1>1, <2>3, Zenon
  <2> QED BY <2>4, <2>5, Zenon DEF CallsKept
<1> HIDE DEF n
<1> QED BY <1>1, <1>3, <1>4, RunKept, Zenon
=============================================================================
