-------------------------- MODULE Residency_proofs --------------------------
(***************************************************************************)
(* A 404 is never due to retirement, a stream has one writer, what it      *)
(* acknowledged stays, and a Flush that returns nil covers what was        *)
(* accepted before it: for any number of concurrent appends, retirements,  *)
(* deletes, recreations and expiries of the path, any channel capacity,    *)
(* TTL and commit mode, and a store that may refuse batches.               *)
(***************************************************************************)
EXTENDS Residency_steps

-----------------------------------------------------------------------------
(* Spawning, create, and the commit of a delete. *)

\* A streamer is spawned on a path nobody holds, from the meta stored for it.
LEMMA SpawnKept ==
  ASSUME Sizes, IInv, WInv, getOrSpawn, CallsKept,
         UNCHANGED <<env, meta, tomb, mapped, recs, tail, jobs, del>>
  PROVE WInv'
<1>1. CASE UNCHANGED <<objs, registry>>
  BY <1>1, SameObjs, KeepCalls, Zenon
<1>2. CASE /\ registry = 0 /\ spawnLockFree /\ meta # None
           /\ objs' = Append(objs, newStreamer) /\ registry' = Len(objs) + 1
  <2> DEFINE N == Len(objs')
  <2>1. meta \in Metas /\ meta.id \in DOMAIN tail /\ tail[meta.id] \in Nat
    BY <1>2 DEF IInv, TypeOK
  <2>2. << >> \in Seq(Posters) /\ 0 \in Int /\ meta.id \in Nat /\ meta.ct \in ContentTypes /\ meta.deadline \in Nat
    BY <2>1, SMTT(30) DEF Metas
  <2>3. /\ newStreamer \in Streamers /\ newStreamer.id = meta.id
        /\ newStreamer.pending = 0 /\ newStreamer.wtail = tail[meta.id]
        /\ newStreamer.deadline = meta.deadline
    BY <2>1, <2>2, Zenon DEF newStreamer, Streamers
  <2> HIDE DEF newStreamer
  <2>4. /\ Len(objs) \in Nat /\ N = Len(objs) + 1 /\ registry' = N
        /\ Objs' = Objs \cup {N} /\ N \notin Objs /\ objs'[N] = newStreamer
        /\ \A q \in Objs : objs'[q] = objs[q]
    <3>1. objs \in Seq(Streamers)
      BY Zenon DEF IInv, TypeOK
    <3> QED BY <1>2, <2>3, <3>1, Added, Zenon
  <2>5. N # 0 /\ 0 \notin Objs /\ 0..Len(objs) \subseteq 0..N
    BY <2>4 DEF Objs
  <2> HIDE DEF N
  <2>6. \A i \in DOMAIN jobs : jobs[i].obj \in Objs
    BY Zenon DEF IInv, TypeOK, JobOK
  <2>7. del.pc \notin {"stop", "commit"}
    BY <1>2, Zenon DEF spawnLockFree
  <2>8. (Steady => OnPath)'
    <3> SUFFICES ASSUME Steady PROVE OnPath'
      BY Zenon DEF Steady
    <3>1. OnPath
      BY Zenon DEF WInv
    <3>2. NoZombie'
      BY <1>2, <2>3, <2>4, Zenon DEF NoZombie
    <3> QED BY <2>7, <3>1, <3>2, Zenon DEF OnPath
  <2>9. Counted'
    <3>1. Counted
      BY Zenon DEF WInv
    <3>2. \A o : JobsOf(o)' = JobsOf(o)
      BY Zenon DEF JobsOf
    <3>3. JobsOf(N) = {}
      BY <2>4, <2>6, Zenon DEF JobsOf
    <3>4. Cardinality(JobsOf(N)) = 0
      <4>1. Cardinality({}) = 0
        BY Zenon DEF Sizes
      <4> QED BY <3>3, <4>1, Zenon
    <3>5. ASSUME env.mode # "sync", NEW o \in Objs'
          PROVE  objs'[o].pending = Cardinality(JobsOf(o)')
      <4>1. CASE o \in Objs
        BY <2>4, <3>1, <3>2, <3>5, <4>1, Zenon DEF Counted
      <4>2. CASE o = N
        BY <2>3, <2>4, <3>2, <3>4, <4>2, Zenon
      <4> QED BY <2>4, <3>5, <4>1, <4>2, Zenon
    <3>6. ASSUME env.mode = "sync"
          PROVE  /\ \A i \in DOMAIN jobs : objs'[jobs[i].obj].pc = "commit"
                 /\ \A i, j \in DOMAIN jobs : jobs[i].obj = jobs[j].obj => i = j
      BY <2>4, <2>6, <3>1, <3>6, Zenon DEF Counted
    <3> QED BY <3>5, <3>6, Zenon DEF Counted
  <2>10. Ordered'
    <3>1. \A i \in DOMAIN jobs : JobShape(jobs[i])'
      <4> SUFFICES ASSUME NEW i \in DOMAIN jobs PROVE JobShape(jobs[i])'
        BY Zenon
      <4>1. JobShape(jobs[i])
        BY Zenon DEF WInv, Ordered
      <4>2. Same(objs'[jobs[i].obj], objs[jobs[i].obj])
        BY <2>4, <2>6, Zenon DEF Same
      <4>3. \A p \in InFlight(jobs[i]) : post'[p].k = post[p].k
        BY Zenon DEF CallsKept
      <4> QED BY <4>1, <4>2, <4>3, ShapeKept, Zenon
    <3> QED BY <3>1, Zenon DEF WInv, Ordered, Behind
  <2>11. Holder = 0 /\ Holder' = N
    BY <1>2, <2>4, <2>7, Zenon DEF Holder
  <2>12. (Undisturbed => HolderOnly /\ HolderAhead /\ \A i \in DOMAIN jobs : JobAhead(jobs[i]))'
    <3> SUFFICES ASSUME Undisturbed
                 PROVE (HolderOnly /\ HolderAhead /\ \A i \in DOMAIN jobs : JobAhead(jobs[i]))'
      BY Zenon DEF Undisturbed, Steady
    <3>1. HolderOnly /\ \A i \in DOMAIN jobs : JobAhead(jobs[i])
      BY Zenon DEF WInv
    <3>2. HolderOnly'
      <4> SUFFICES ASSUME NEW o \in Objs, Live(objs[o].id)', Active(o)' PROVE FALSE
        BY <2>4, <2>11, Zenon DEF HolderOnly
      <4>1. Live(objs[o].id) /\ Active(o)
        BY <2>4, Zenon DEF Live, Active
      <4> QED BY <2>5, <2>11, <3>1, <4>1, Zenon DEF HolderOnly
    <3>3. HolderAhead'
      <4>1. tail[objs'[N].id] <= objs'[N].wtail
        BY <2>1, <2>3, <2>4
      <4>2. objs'[N].deadline = meta.deadline
        BY <2>3, <2>4
      <4> QED BY <2>11, <4>1, <4>2, Zenon DEF HolderAhead
    <3>4. (\A i \in DOMAIN jobs : JobAhead(jobs[i]))'
      BY <3>1, Zenon DEF JobAhead, Live
    <3> QED BY <3>2, <3>3, <3>4, Zenon
  <2>13. (\A a \in answers : AnswerOK(a))'
    BY AnswersKept, Zenon DEF WInv, CallsKept
  <2>14. /\ IsSeq(recs)' /\ (Len(recs) = Len(tail) /\ Len(tail) > 0)'
         /\ (del.pc \in {"stop", "commit"} => del.obj \in 0..Len(objs))'
    BY <2>7, Zenon DEF WInv, IsSeq
  <2> QED BY <2>8, <2>9, <2>10, <2>12, <2>13, <2>14, Zenon DEF WInv
<1> QED BY <1>1, <1>2, Zenon DEF getOrSpawn

\* getOrSpawn for an append, or for a read that touches the stream.
LEMMA SpawnMoves ==
  ASSUME Sizes, IInv, WInv, TouchResolve \/ \E p \in Posters : Spawn(p)
  PROVE WInv'
<1>1. UNCHANGED <<env, meta, tomb, mapped, recs, tail, jobs, del>> /\ getOrSpawn
  BY ZenonT(30) DEF TouchResolve, Spawn, storeVars, otherVars
<1>2. CallsKept
  <2>1. CASE TouchResolve
    BY <2>1, Zenon DEF TouchResolve, callVars, CallsKept
  <2>2. CASE \E p \in Posters : Spawn(p)
    <3>1. PICK p \in Posters : Spawn(p)
      BY <2>2, Zenon
    <3>2. post \in [Posters -> Calls] /\ post[p].pc # "wait"
      BY <3>1, Zenon DEF IInv, TypeOK, Spawn
    <3>3. /\ \A q \in Posters \ {p} : post'[q] = post[q]
          /\ \A a \in answers' : a \in answers \/ a.status # "ok"
      <4>1. CASE Return(p, "notfound")
        BY <4>1, ReturnKept, Zenon
      <4>2. CASE Hinted(p, registry', objs'[registry']) /\ UNCHANGED answers
        BY <3>2, <4>2, Zenon DEF Hinted
      <4>3. CASE post' = [post EXCEPT ![p].pc = "submit", ![p].st = registry'] /\ UNCHANGED answers
        BY <3>2, <4>3, Zenon
      <4> QED BY <3>1, <4>1, <4>2, <4>3, Zenon DEF Spawn
    <3> QED BY <3>2, <3>3, OtherCalls, Zenon
  <2> QED BY <2>1, <2>2, Zenon
<1> QED BY <1>1, <1>2, SpawnKept, Zenon

\* A path without a stream has no holder, and gets a stream nobody knows yet.
LEMMA CreateKept ==
  ASSUME IInv, WInv, CreateStream
  PROVE WInv'
<1> DEFINE id == Len(tail) + 1
<1>1. /\ UNCHANGED <<env, tomb, jobs, registry, del, answers, post>> /\ objs' = objs
      /\ del.pc = "idle" /\ meta = None /\ mapped' = mapped \cup {id}
      /\ recs' = Append(recs, << >>) /\ tail' = Append(tail, 0)
  BY Zenon DEF CreateStream, runVars, callVars, otherVars
<1>2. meta' # None /\ meta'.id = id
  <2>1. PICK ct \in env.types : meta' = [id |-> id, ct |-> ct, deadline |-> initialDeadline]
    BY Zenon DEF CreateStream
  <2>2. ct \in ContentTypes
    BY Zenon DEF IInv, TypeOK, ContentTypes
  <2>3. env.ttl \in Nat /\ now \in Nat /\ Len(tail) \in Nat
    BY ResidencyAssumption DEF IInv, TypeOK
  <2>4. initialDeadline \in Nat /\ id \in Nat
    BY <2>3, SMTT(30) DEF initialDeadline
  <2> HIDE DEF id
  <2>5. meta' \in Metas /\ meta'.id = id
    BY <2>1, <2>2, <2>4, Zenon DEF Metas
  <2> QED BY <2>5, ResidencyAssumption, Zenon DEF Metas, ContentTypes
<1>3. tail \in Seq(Nat) /\ IsSeq(recs) /\ Len(recs) = Len(tail) /\ Len(tail) > 0
  BY Zenon DEF IInv, TypeOK, WInv
<1>4. /\ Len(tail') = Len(tail) + 1 /\ Len(tail') > 0 /\ Len(tail') # 1
      /\ DOMAIN tail \subseteq DOMAIN tail' /\ id \notin DOMAIN tail
      /\ \A d \in DOMAIN tail : tail'[d] = tail[d]
  BY <1>1, <1>3
<1>5. IsSeq(recs') /\ Len(recs') = Len(tail')
  <2>1. IsSeq(recs') /\ DOMAIN recs' = 1..(Len(recs) + 1) /\ Len(recs) \in Nat
    BY <1>1, <1>3, AppendAny, Zenon DEF Appended
  <2>2. recs' \in Seq({recs'[k] : k \in DOMAIN recs'})
    BY <2>1, Zenon DEF IsSeq
  <2>3. DOMAIN recs' = 1..Len(recs') /\ Len(recs') \in Nat
    BY <2>2, SeqOfItself, Zenon
  <2>4. \A m, n \in Nat : 1..m = 1..n => m = n
    OBVIOUS
  <2>5. Len(recs) + 1 \in Nat
    BY <2>1
  <2>6. Len(recs') = Len(recs) + 1
    BY <2>1, <2>3, <2>4, <2>5, Zenon
  <2> QED BY <1>3, <1>4, <2>1, <2>6, Zenon
<1> HIDE DEF id
<1>6. Steady' => Steady /\ OnPath
  BY <1>1, <1>4, Zenon DEF Steady, WInv
<1>7. OnPath => registry = 0 /\ mapped' = {id}
  BY <1>1, Zenon DEF OnPath, NoZombie
<1>8. (Steady => OnPath)'
  BY <1>1, <1>2, <1>6, <1>7, Zenon DEF OnPath, NoZombie
<1>9. Counted' /\ Ordered'
  <2>1. Counted /\ Ordered
    BY Zenon DEF WInv
  <2>2. \A i \in DOMAIN jobs : JobShape(jobs[i])' = JobShape(jobs[i])
    BY <1>1, ZenonT(30) DEF JobShape, ItemOK
  <2> QED BY <1>1, <2>1, <2>2, Zenon DEF Counted, JobsOf, Objs, Ordered, Behind
<1>10. (Undisturbed => HolderOnly /\ HolderAhead /\ \A i \in DOMAIN jobs : JobAhead(jobs[i]))'
  <2>1. SUFFICES ASSUME Undisturbed'
                 PROVE (HolderOnly /\ HolderAhead /\ \A i \in DOMAIN jobs : JobAhead(jobs[i]))'
    BY Zenon
  <2>2. \A d \in DOMAIN tail : ~Live(d)'
    BY <1>4, <1>6, <1>7, <2>1, Zenon DEF Undisturbed, Live
  <2>3. \A o \in Objs : objs[o].id \in DOMAIN tail
    BY Zenon DEF IInv, TypeOK
  <2>4. HolderOnly'
    BY <1>1, <2>2, <2>3, Zenon DEF HolderOnly, Objs
  <2>5. HolderAhead'
    BY <1>1, <1>6, <1>7, <2>1, Zenon DEF HolderAhead, Holder, Undisturbed
  <2>6. (\A i \in DOMAIN jobs : JobAhead(jobs[i]))'
    <3>1. \A i \in DOMAIN jobs : jobs[i].id \in DOMAIN tail
      BY Zenon DEF IInv, TypeOK, JobOK
    <3> QED BY <1>1, <2>2, <3>1, Zenon DEF JobAhead
  <2> QED BY <2>4, <2>5, <2>6, Zenon
<1>11. (\A a \in answers : AnswerOK(a))'
  <2> SUFFICES ASSUME NEW a \in answers, a.status = "ok" PROVE AnswerOK(a)'
    BY <1>1, Zenon DEF AnswerOK
  <2>1. a.id \in DOMAIN tail /\ a.at \in Nat /\ (a.n = 1 => a.seq \in Nat)
    BY Zenon DEF WInv, AnswerOK
  <2>2. Undisturbed' => ~Live(a.id)'
    BY <1>4, <1>6, <1>7, <2>1, Zenon DEF Undisturbed, Live
  <2> QED BY <1>4, <2>1, <2>2, Zenon DEF AnswerOK
<1>12. (del.pc \in {"stop", "commit"} => del.obj \in 0..Len(objs))'
  BY <1>1, Zenon DEF WInv
<1> QED BY <1>4, <1>5, <1>8, <1>9, <1>10, <1>11, <1>12, Zenon DEF WInv

\* The commit of a delete leaves no stream that is there, whoever still writes.
LEMMA CommitDeleteKept ==
  ASSUME IInv, WInv, CommitDelete
  PROVE WInv'
<1>1. /\ UNCHANGED <<env, recs, jobs, registry, answers, post>> /\ objs' = objs
      /\ del.pc = "commit" /\ del' = NoDelete /\ del'.pc = "idle"
  BY Zenon DEF CommitDelete, runVars, callVars, NoDelete
<1>2. \/ meta' = None /\ mapped' = mapped \ {del.id} /\ tail' = [tail EXCEPT ![del.id] = 0]
      \/ tomb' = TRUE /\ UNCHANGED <<meta, mapped, tail>>
      \/ "delete" \in env.faults /\ UNCHANGED <<meta, mapped, tail>>
  BY Zenon DEF CommitDelete, Refuse
<1>3. tail \in Seq(Nat) /\ Len(recs) = Len(tail) /\ Len(tail) > 0 /\ IsSeq(recs)
  BY Zenon DEF IInv, TypeOK, WInv
<1>4. Len(tail') = Len(tail) /\ DOMAIN tail' = DOMAIN tail
  BY <1>2, <1>3
<1>5. Steady' => Steady /\ OnPath
  BY <1>1, <1>4, Zenon DEF Steady, WInv
<1>6. OnPath => registry = 0 /\ \A id \in mapped : id = del.id
  BY <1>1, Zenon DEF OnPath
<1>7. (Steady => OnPath)'
  <2> SUFFICES ASSUME Steady' PROVE OnPath'
    BY Zenon
  <2>1. registry' = 0
    BY <1>1, <1>5, <1>6, Zenon
  <2>2. \A id \in mapped' : meta' # None /\ meta'.id = id
    BY <1>2, <1>5, <1>6, Zenon DEF OnPath
  <2> QED BY <1>1, <2>1, <2>2, Zenon DEF OnPath, NoZombie
<1>8. Undisturbed' => \A d : ~Live(d)'
  BY <1>1, <1>2, <1>5, <1>6, Zenon DEF Undisturbed, Live
<1>9. Counted' /\ Ordered'
  <2>1. Counted /\ Ordered
    BY Zenon DEF WInv
  <2>2. \A i \in DOMAIN jobs : JobShape(jobs[i])' = JobShape(jobs[i])
    BY <1>1, ZenonT(30) DEF JobShape, ItemOK
  <2> QED BY <1>1, <2>1, <2>2, Zenon DEF Counted, JobsOf, Objs, Ordered, Behind
<1>10. (Undisturbed => HolderOnly /\ HolderAhead /\ \A i \in DOMAIN jobs : JobAhead(jobs[i]))'
  BY <1>8, Zenon DEF HolderOnly, HolderAhead, JobAhead
<1>11. (\A a \in answers : AnswerOK(a))'
  <2> SUFFICES ASSUME NEW a \in answers, a.status = "ok" PROVE AnswerOK(a)'
    BY <1>1, Zenon DEF AnswerOK
  <2>1. a.id \in DOMAIN tail /\ a.at \in Nat /\ (a.n = 1 => a.seq \in Nat)
    BY Zenon DEF WInv, AnswerOK
  <2> QED BY <1>4, <1>8, <2>1, Zenon DEF AnswerOK
<1>12. (del.pc \in {"stop", "commit"} => del.obj \in 0..Len(objs))'
  BY <1>1, Zenon
<1>13. IsSeq(recs)' /\ (Len(recs) = Len(tail) /\ Len(tail) > 0)'
  BY <1>1, <1>3, <1>4, Zenon DEF IsSeq
<1> QED BY <1>7, <1>9, <1>10, <1>11, <1>12, <1>13, Zenon DEF WInv

-----------------------------------------------------------------------------
(* The run loop plans a burst. *)

\* Of the accepted records of a channel, counted from its front, each next one
\* gets the next number and all are below their total.
LEMMA RecordsBefore ==
  ASSUME Sizes, NEW m \in Nat, NEW W \in SUBSET (1..m), NEW i \in W
  PROVE LET B(j) == {k \in W : k < j}
        IN /\ Cardinality(W) \in Nat /\ Cardinality(B(i)) \in Nat
           /\ Cardinality(B(i)) < Cardinality(W)
           /\ \A j \in W : i < j => Cardinality(B(i)) < Cardinality(B(j))
<1> DEFINE B(j) == {k \in W : k < j}
<1>0. \A S \in SUBSET W : Sized(m, S)
  BY Zenon DEF Sizes
<1>1. \A S \in SUBSET W : Cardinality(S) \in Nat
  BY <1>0, Zenon DEF Sized
<1>2. \A S \in SUBSET W : \A T \in SUBSET S :
        Cardinality(T) <= Cardinality(S) /\ (Cardinality(T) = Cardinality(S) => T = S)
  BY <1>0, Zenon DEF Sized
<1>3. \A S \in SUBSET W : B(i) \subseteq S /\ i \in S => Cardinality(B(i)) < Cardinality(S)
  <2> SUFFICES ASSUME NEW S \in SUBSET W, B(i) \subseteq S, i \in S
               PROVE Cardinality(B(i)) < Cardinality(S)
    BY Zenon
  <2>1. Cardinality(S) \in Nat /\ Cardinality(B(i)) \in Nat
    BY <1>1, Zenon
  <2>2. B(i) # S
    <3>1. i \notin B(i)
      BY SMTT(30)
    <3> QED BY <3>1, Zenon
  <2> HIDE DEF B
  <2>3. Cardinality(B(i)) <= Cardinality(S) /\ (Cardinality(B(i)) = Cardinality(S) => B(i) = S)
    BY <1>2, Zenon
  <2> QED BY <2>1, <2>2, <2>3
<1>4. \A j \in W : i < j => B(j) \in SUBSET W /\ B(i) \subseteq B(j) /\ i \in B(j)
  <2>1. W \subseteq Int
    BY SMTT(30)
  <2>2. \A x, y, z \in Int : x < y /\ y < z => x < z
    OBVIOUS
  <2> QED BY <2>1, <2>2, Zenon
<1>5. B(i) \in SUBSET W /\ W \in SUBSET W /\ B(i) \subseteq W
  BY Zenon
<1> HIDE DEF B
<1>6. Cardinality(W) \in Nat /\ Cardinality(B(i)) \in Nat
  BY <1>1, <1>5, Zenon
<1>7. Cardinality(B(i)) < Cardinality(W)
  BY <1>3, <1>5, Zenon
<1>8. \A j \in W : i < j => Cardinality(B(i)) < Cardinality(B(j))
  BY <1>3, <1>4, Zenon
<1> QED BY <1>6, <1>7, <1>8, Zenon DEF B

\* slideTTL moves a deadline past the window that starts now, and only forward.
LEMMA Slides ==
  ASSUME env \in Settings, now \in Nat, NEW d \in Nat
  PROVE /\ slideTTL(d) \in Nat /\ d <= slideTTL(d)
        /\ env.ttl = 0 => slideTTL(d) = d
        /\ env.ttl > 0 => slideTTL(d) > now + env.ttl
<1>1. env.ttl \in Nat
  BY ResidencyAssumption
<1>2. gran \in Nat /\ gran > 0
  BY <1>1 DEF gran
<1> HIDE DEF gran
<1> QED BY <1>1, <1>2 DEF slideTTL

\* The number of a call in the burst that drains it.
LEMMA BurstItems ==
  ASSUME Sizes, IInv, NEW o \in Objs
  PROVE LET st == objs[o]
            batch == items(st)
            W == {i \in DOMAIN batch : batch[i].ok /\ batch[i].n = 1}
        IN /\ Cardinality(W) \in Nat
           /\ \A i \in W : /\ batch[i].seq \in Nat
                           /\ st.wtail <= batch[i].seq
                           /\ batch[i].seq < st.wtail + Cardinality(W)
           /\ \A i, j \in W : batch[i].seq = batch[j].seq => i = j
<1> DEFINE st == objs[o]
           m == Len(st.reqs)
           batch == items(st)
           W == {i \in DOMAIN batch : batch[i].ok /\ batch[i].n = 1}
           good(j) == accepts(st, st.reqs[j])
           B(i) == {j \in W : j < i}
<1>1. st.wtail \in Nat /\ st.reqs \in Seq(Posters)
  BY TheStreamer, Zenon
<1>2. m \in Nat
  BY <1>1
<1>3. /\ DOMAIN batch = 1..m
      /\ \A i \in 1..m :
           /\ batch[i].ok = good(i) /\ batch[i].n = post[st.reqs[i]].n
           /\ batch[i].seq = st.wtail
                + Cardinality({j \in {j \in 1..(i - 1) : good(j)} : post[st.reqs[j]].n = 1})
  BY Zenon DEF items
<1> HIDE DEF batch, st, m, good
<1>4. W \in SUBSET (1..m)
  BY <1>3, Zenon
<1>5. \A i \in 1..m : {j \in {j \in 1..(i - 1) : good(j)} : post[st.reqs[j]].n = 1} = B(i)
  <2> SUFFICES ASSUME NEW i \in 1..m
               PROVE {j \in {j \in 1..(i - 1) : good(j)} : post[st.reqs[j]].n = 1} = B(i)
    BY Zenon
  <2>1. \A j : j \in 1..(i - 1) <=> j \in 1..m /\ j < i
    BY <1>2, SMTT(30)
  <2> QED BY <1>3, <2>1, Zenon
<1>6. \A i \in W : batch[i].seq = st.wtail + Cardinality(B(i))
  BY <1>3, <1>4, <1>5, Zenon
<1>7. \A i \in W : /\ Cardinality(W) \in Nat /\ Cardinality(B(i)) \in Nat
                   /\ Cardinality(B(i)) < Cardinality(W)
                   /\ \A j \in W : i < j => Cardinality(B(i)) < Cardinality(B(j))
  BY <1>2, <1>4, RecordsBefore, Zenon
<1>8. Cardinality(W) \in Nat
  <2>1. Sized(m, W)
    BY <1>2, <1>4, Zenon DEF Sizes
  <2> QED BY <2>1, Zenon DEF Sized
<1> DEFINE C(i) == Cardinality(B(i))
           w == Cardinality(W)
<1>9. /\ w \in Nat
      /\ \A i \in W : /\ batch[i].seq = st.wtail + C(i) /\ C(i) \in Nat /\ C(i) < w
                      /\ \A j \in W : i < j => C(i) < C(j)
  BY <1>6, <1>7, <1>8, Zenon
<1>10. W \subseteq Int
  BY <1>4
<1> HIDE DEF C, w, W
<1>11. \A i \in W : batch[i].seq \in Nat /\ st.wtail <= batch[i].seq /\ batch[i].seq < st.wtail + w
  BY <1>1, <1>9, SMTT(30)
<1>12. \A i, j \in W : batch[i].seq = batch[j].seq => i = j
  <2> SUFFICES ASSUME NEW i \in W, NEW j \in W, batch[i].seq = batch[j].seq PROVE i = j
    BY Zenon
  <2>1. C(i) = C(j)
    BY <1>1, <1>9
  <2>2. ~(i < j) /\ ~(j < i)
    BY <1>9, <2>1
  <2> QED BY <1>10, <2>2
<1> QED BY <1>8, <1>11, <1>12, Zenon DEF batch, st, W, w

\* A burst before it is handed over: past its streamer's tail, with a record
\* for each accepted call that has one, and the window of all it accepted.
Planned(o, job) ==
  /\ job.obj = o /\ job.id = objs[o].id /\ job.at = now /\ job.old = objs[o].deadline
  /\ job.end \in Nat /\ job.deadline \in Nat /\ job.old <= job.deadline
  /\ objs[o].wtail <= job.end
  /\ \A s \in DOMAIN job.puts : s \in Nat /\ objs[o].wtail <= s /\ s < job.end
  /\ \A b \in DOMAIN job.batch : ItemOK(job, job.batch[b])
  /\ env.ttl = 0 => job.deadline = job.old

\* processBurst plans such a burst.
LEMMA BurstShape ==
  ASSUME Sizes, IInv, NEW o \in Objs
  PROVE Planned(o, processBurst(o))
<1> DEFINE st == objs[o]
           batch == items(st)
           taken == {i \in DOMAIN batch : batch[i].ok}
           written == {i \in taken : batch[i].n = 1}
           W == {i \in DOMAIN batch : batch[i].ok /\ batch[i].n = 1}
           job == processBurst(o)
<1>1. /\ st.deadline \in Nat /\ st.wtail \in Nat /\ env \in Settings /\ now \in Nat
  BY TheStreamer, Zenon
<1>2. /\ job.obj = o /\ job.id = st.id /\ job.at = now /\ job.old = st.deadline
      /\ job.batch = batch
      /\ job.puts = [s \in {batch[i].seq : i \in written} |->
                      post[(batch[CHOOSE i \in written : batch[i].seq = s]).p].k]
      /\ job.end = st.wtail + Cardinality(written)
      /\ job.deadline = IF taken = {} THEN st.deadline ELSE slideTTL(st.deadline)
  BY Zenon DEF processBurst
<1>3. written = W
  BY Zenon
<1>4. /\ Cardinality(W) \in Nat
      /\ \A i \in W : /\ batch[i].seq \in Nat
                      /\ st.wtail <= batch[i].seq
                      /\ batch[i].seq < st.wtail + Cardinality(W)
      /\ \A i, j \in W : batch[i].seq = batch[j].seq => i = j
  BY BurstItems, Zenon
<1>5. /\ slideTTL(st.deadline) \in Nat /\ st.deadline <= slideTTL(st.deadline)
      /\ env.ttl = 0 => slideTTL(st.deadline) = st.deadline
      /\ env.ttl > 0 => slideTTL(st.deadline) > now + env.ttl
  BY <1>1, Slides, Zenon
<1>6. taken # {} => job.deadline = slideTTL(st.deadline)
  BY <1>2, Zenon
<1>7. \A b \in DOMAIN batch : batch[b].ok => taken # {}
  BY Zenon
<1>8. \A b \in DOMAIN batch : batch[b].ok /\ batch[b].n = 1 =>
        /\ batch[b].seq \in DOMAIN job.puts
        /\ job.puts[batch[b].seq] = post[batch[b].p].k
  <2> SUFFICES ASSUME NEW b \in W
               PROVE /\ batch[b].seq \in DOMAIN job.puts
                     /\ job.puts[batch[b].seq] = post[batch[b].p].k
    BY Zenon
  <2> DEFINE s == batch[b].seq
             c == CHOOSE i \in W : batch[i].seq = s
  <2> HIDE DEF batch, W
  <2>1. c \in W /\ batch[c].seq = s
    BY Zenon
  <2>2. c = b
    BY <1>4, <2>1, Zenon
  <2>3. s \in {batch[i].seq : i \in W}
    BY Zenon
  <2>4. s \in DOMAIN job.puts /\ job.puts[s] = post[batch[c].p].k
    <3> HIDE DEF written, job
    <3>1. job.puts = [t \in {batch[i].seq : i \in written} |->
                        post[(batch[CHOOSE i \in written : batch[i].seq = t]).p].k]
      BY <1>2, Zenon
    <3>2. job.puts = [t \in {batch[i].seq : i \in W} |->
                        post[(batch[CHOOSE i \in W : batch[i].seq = t]).p].k]
      BY <1>3, <3>1
    <3> HIDE DEF s
    <3> QED BY <2>3, <3>2, Zenon
  <2> QED BY <2>2, <2>4, Zenon
<1> HIDE DEF job, batch, st, written, taken
<1>9. \A b \in DOMAIN job.batch : ItemOK(job, job.batch[b])
  <2>1. \A b \in DOMAIN batch : batch[b].ok /\ env.ttl > 0 => job.deadline > job.at + env.ttl
    BY <1>2, <1>5, <1>6, <1>7, Zenon
  <2> QED BY <1>2, <1>8, <2>1, Zenon DEF ItemOK
<1>10. \A s \in DOMAIN job.puts : \E i \in W : s = batch[i].seq
  BY <1>2, <1>3, Zenon
<1> HIDE DEF W
<1>11. job.end = st.wtail + Cardinality(W)
  BY <1>2, <1>3, Zenon
<1>12. \A s \in DOMAIN job.puts : s \in Nat /\ st.wtail <= s /\ s < job.end
  BY <1>4, <1>10, <1>11, Zenon
<1>13. job.end \in Nat /\ st.wtail <= job.end
  BY <1>1, <1>4, <1>11
<1>14. /\ job.deadline \in Nat /\ job.old <= job.deadline
       /\ env.ttl = 0 => job.deadline = job.old
  <2>1. job.deadline = st.deadline \/ job.deadline = slideTTL(st.deadline)
    BY <1>2, Zenon
  <2> QED BY <1>1, <1>2, <1>5, <2>1
<1> QED BY <1>2, <1>9, <1>12, <1>13, <1>14, Zenon DEF job, st, Planned

\* The answers of a burst: those of its calls, with the numbers it planned.
LEMMA RepliesOf ==
  ASSUME NEW job, NEW good, replyAll(job, good), NEW a \in answers', a \notin answers
  PROVE \E b \in DOMAIN job.batch :
          /\ a.k = post[job.batch[b].p].k /\ a.status = Status(job.batch[b], good)
          /\ a.id = job.id /\ a.seq = job.batch[b].seq /\ a.n = job.batch[b].n /\ a.at = job.at
<1> DEFINE r(b) == [k |-> post[job.batch[b].p].k, status |-> Status(job.batch[b], good), id |-> job.id,
                    seq |-> job.batch[b].seq, n |-> job.batch[b].n,
                    there |-> post[job.batch[b].p].there, at |-> job.at]
<1>1. answers' = answers \cup {r(b) : b \in DOMAIN job.batch}
  BY Zenon DEF replyAll
<1>2. PICK b \in DOMAIN job.batch : a = r(b)
  <2> HIDE DEF r
  <2> QED BY <1>1, Zenon
<1> QED BY <1>2, Zenon

\* A burst with nothing to store is answered at once; it had no record.
LEMMA BurstAnswered ==
  ASSUME Sizes, IInv, WInv, NEW o \in Objs, Burst(o), nothing(processBurst(o)),
         objs' = [objs EXCEPT ![o] = [objs[o] EXCEPT !.reqs = << >>]],
         replyAll(processBurst(o), TRUE), UNCHANGED jobs
  PROVE WInv'
<1> DEFINE st == objs[o]
           job == processBurst(o)
           n == [st EXCEPT !.reqs = << >>]
<1>1. UNCHANGED <<env, meta, tomb, mapped, recs, tail, jobs, registry, del>> /\ st.pc = "select"
  BY Zenon DEF Burst, storeVars, otherVars
<1>2. st \in Streamers /\ now \in Nat /\ env \in Settings /\ st.id \in DOMAIN tail
  BY TheStreamer, Zenon
<1>3. /\ job.obj = o /\ job.id = st.id /\ job.at = now /\ job.old = st.deadline
      /\ \A b \in DOMAIN job.batch : ItemOK(job, job.batch[b])
  BY BurstShape, Zenon DEF Planned
<1>4. job.puts = << >> /\ job.deadline = job.old
  BY Zenon DEF nothing
<1>5. \A i \in DOMAIN jobs : \A p \in InFlight(jobs[i]) : post'[p].k = post[p].k
  <2>1. post' = [p \in Posters |-> IF p \in InFlight(job) THEN Idle ELSE post[p]]
    BY ReplyAll, Zenon
  <2>2. InFlight(job) = Queued(st)
    BY BurstJob, Zenon
  <2>3. \A i \in DOMAIN jobs : InFlight(jobs[i]) \cap Queued(st) = {}
    BY Zenon DEF IInv, Placed
  <2>4. \A i \in DOMAIN jobs : \A p \in InFlight(jobs[i]) : p \in Posters
    BY Zenon DEF IInv, Placed
  <2> HIDE DEF job
  <2> QED BY <2>1, <2>2, <2>3, <2>4, Zenon
<1>6. replyAll(job, TRUE)
  BY Zenon
<1>7. Undisturbed /\ Live(st.id) /\ env.mode = "sync" => st.deadline = meta.deadline
  <2> SUFFICES ASSUME Undisturbed, Live(st.id), env.mode = "sync" PROVE st.deadline = meta.deadline
    BY Zenon
  <2>1. Active(o)
    <3>1. st.pc # "exit"
      BY <1>1
    <3> QED BY <3>1, Zenon DEF Active
  <2>2. o = Holder
    BY <2>1, Zenon DEF WInv, HolderOnly
  <2>3. o # 0
    BY DEF Objs
  <2> QED BY <2>2, <2>3, Zenon DEF WInv, HolderAhead
<1> HIDE DEF job
<1>8. (\A a \in answers : AnswerOK(a))'
  <2> SUFFICES ASSUME NEW a \in answers' PROVE AnswerOK(a)'
    BY Zenon
  <2>1. CASE a \in answers
    <3>1. AnswerOK(a)
      BY <2>1, Zenon DEF WInv
    <3> QED BY <1>1, <3>1, Zenon DEF AnswerOK, Undisturbed, Steady, Live, Stored
  <2>2. CASE a \notin answers
    <3>1. PICK b \in DOMAIN job.batch :
            /\ a.k = post[job.batch[b].p].k /\ a.status = Status(job.batch[b], TRUE)
            /\ a.id = job.id /\ a.seq = job.batch[b].seq /\ a.n = job.batch[b].n /\ a.at = job.at
      BY <1>6, <2>2, RepliesOf, Zenon
    <3>2. a.status = "ok" => job.batch[b].ok
      BY <3>1 DEF Status
    <3>3. ItemOK(job, job.batch[b])
      BY <1>3, Zenon
    <3>4. DOMAIN job.puts = {}
      BY <1>4
    <3>5. a.status = "ok" => a.n # 1
      BY <3>1, <3>2, <3>3, <3>4, Zenon DEF ItemOK
    <3>6. a.status = "ok" /\ env.ttl > 0 => st.deadline > a.at + env.ttl
      BY <1>3, <1>4, <3>1, <3>2, <3>3, Zenon DEF ItemOK
    <3>7. a.id = st.id /\ a.at = now
      BY <1>3, <3>1, Zenon
    <3> HIDE DEF st
    <3> QED BY <1>1, <1>2, <1>7, <3>5, <3>6, <3>7, Zenon DEF AnswerOK, Undisturbed, Steady, Live
  <2> QED BY <2>1, <2>2, Zenon
<1>9. Same(n, st) /\ n.pc = st.pc
  <2> HIDE DEF st
  <2> QED BY <1>2, Zenon DEF Same, Streamers
<1>10. objs' = [objs EXCEPT ![o] = n]
  BY Zenon
<1> HIDE DEF n
<1>11. /\ Objs' = Objs /\ Len(objs') = Len(objs)
       /\ \A q \in Objs : Same(objs'[q], objs[q]) /\ objs'[q].pc = objs[q].pc
  BY <1>9, <1>10, OneSame, Zenon
<1>12. Steady => /\ del'.pc # "idle" => meta # None /\ meta.id = del'.id
                 /\ del'.pc \in {"stop", "commit"} => registry' = 0
  BY <1>1, Zenon DEF WInv, OnPath
<1>13. del'.pc \in {"stop", "commit"} => del'.obj \in 0..Len(objs)
  BY <1>1, Zenon DEF WInv
<1>14. Holder' = Holder
  BY <1>1, Zenon DEF Holder
<1> QED BY <1>1, <1>5, <1>8, <1>11, <1>12, <1>13, <1>14, KeepRest, ZenonT(30)

\* What handing a burst over leaves of the streamer.
Handed(n, st, job) ==
  /\ n.id = st.id
  /\ env.mode = "sync" => n.pc = "commit" /\ n.wtail = st.wtail /\ n.deadline = st.deadline
  /\ env.mode # "sync" => n.wtail = job.end /\ n.pending = st.pending + 1

\* A burst joins the queue behind the others of its streamer.
LEMMA BurstHanded ==
  ASSUME Sizes, IInv, WInv, UNCHANGED <<env, meta, tomb, mapped, recs, tail, registry, del, post, answers>>,
         NEW o \in Objs, objs[o].pc = "select", NEW n, objs' = [objs EXCEPT ![o] = n],
         NEW job, jobs' = Append(jobs, job), Planned(o, job), Handed(n, objs[o], job)
  PROVE WInv'
<1> DEFINE st == objs[o]
           N == Len(jobs) + 1
<1>1. /\ Objs' = Objs /\ Len(objs') = Len(objs) /\ objs'[o] = n
      /\ \A q \in Objs \ {o} : objs'[q] = objs[q]
  BY OneStreamer, Zenon
<1>2. /\ Len(jobs) \in Nat /\ DOMAIN jobs = 1..Len(jobs) /\ DOMAIN jobs' = 1..N
      /\ \A i \in DOMAIN jobs : jobs'[i] = jobs[i]
      /\ jobs'[N] = job
  <2>1. IsSeq(jobs)
    BY Zenon DEF IInv, TypeOK
  <2>2. Appended(jobs, job, Append(jobs, job))
    BY <2>1, AppendAny, Zenon
  <2>3. Appended(jobs, job, jobs')
    BY <2>2, Zenon
  <2> QED BY <2>3, Zenon DEF Appended
<1>3. /\ DOMAIN jobs' = DOMAIN jobs \cup {N} /\ N \notin DOMAIN jobs
      /\ \A i \in DOMAIN jobs : i < N /\ ~(N < i)
      /\ ~(N < N)
  BY <1>2
<1> HIDE DEF N
<1>4. \A i \in DOMAIN jobs : jobs[i].obj \in Objs /\ jobs[i].end \in Nat
  BY Zenon DEF IInv, TypeOK, JobOK
<1>5. Counted /\ Ordered /\ st.pc # "exit" /\ st.pc # "commit" /\ \A q \in Objs : q # 0
  <2>1. st.pc # "exit" /\ st.pc # "commit" /\ \A q \in Objs : q # 0
    BY DEF Objs
  <2> QED BY <2>1, Zenon DEF WInv
<1>0. /\ job.obj = o /\ job.id = st.id /\ job.at \in Nat
      /\ job.old = st.deadline /\ job.old \in Nat /\ job.old <= job.deadline
      /\ st.wtail \in Nat /\ job.end \in Nat /\ st.wtail <= job.end
      /\ \A s \in DOMAIN job.puts : s \in Nat /\ st.wtail <= s /\ s < job.end
      /\ \A b \in DOMAIN job.batch : ItemOK(job, job.batch[b])
      /\ env.ttl = 0 => job.deadline = job.old
  BY TheStreamer, Zenon DEF Planned
<1>00. /\ n.id = st.id
       /\ env.mode = "sync" => n.pc = "commit" /\ n.wtail = st.wtail /\ n.deadline = st.deadline
       /\ env.mode # "sync" => n.wtail = job.end /\ n.pending = st.pending + 1
  BY Zenon DEF Handed
<1>5a. \A q \in Objs : objs'[q].id = objs[q].id
  BY <1>1, <1>00, Zenon
<1>6. env.mode = "sync" => \A i \in DOMAIN jobs : jobs[i].obj # o
  BY <1>5, Zenon DEF Counted
<1>7. (Steady => OnPath)'
  <2> SUFFICES ASSUME Steady PROVE OnPath'
    BY Zenon DEF Steady
  <2>1. OnPath
    BY Zenon DEF WInv
  <2>2. registry # 0 => registry \in Objs
    <3>1. registry \in 0..Len(objs)
      BY Zenon DEF IInv, Pointers
    <3> QED BY <3>1 DEF Objs
  <2>3. NoZombie'
    BY <1>5a, <2>1, <2>2, Zenon DEF OnPath, NoZombie
  <2> QED BY <2>1, <2>3, Zenon DEF OnPath
<1>8. Counted'
  <2>1. ASSUME env.mode # "sync", NEW q \in Objs
        PROVE  objs'[q].pending = Cardinality(JobsOf(q)')
    <3>1. /\ objs[q].pending = Cardinality(JobsOf(q)) /\ Len(jobs) \in Nat
          /\ JobsOf(q) \in SUBSET (1..Len(jobs))
      BY <1>5, <2>1, JobsOfFinite, Zenon DEF Counted
    <3>2. CASE q = o
      <4>1. JobsOf(q)' = JobsOf(q) \cup {N} /\ N \notin JobsOf(q)
        BY <1>0, <1>2, <1>3, <3>2, Zenon DEF JobsOf
      <4>2. Cardinality(JobsOf(q)') = Cardinality(JobsOf(q)) + 1
        <5>1. Sized(Len(jobs), JobsOf(q))
          BY <3>1, Zenon DEF Sizes
        <5>2. Cardinality(JobsOf(q) \cup {N}) = Cardinality(JobsOf(q)) + 1
          BY <4>1, <5>1, Zenon DEF Sized
        <5> QED BY <4>1, <5>2, Zenon
      <4> QED BY <1>00, <1>1, <2>1, <3>1, <3>2, <4>2, Zenon
    <3>3. CASE q # o
      <4>1. JobsOf(q)' = JobsOf(q)
        BY <1>0, <1>2, <1>3, <3>3, Zenon DEF JobsOf
      <4> QED BY <1>1, <2>1, <3>1, <3>3, <4>1, Zenon
    <3> QED BY <3>2, <3>3, Zenon
  <2>2. ASSUME env.mode = "sync"
        PROVE  /\ \A i \in DOMAIN jobs' : objs'[jobs'[i].obj].pc = "commit"
               /\ \A i, j \in DOMAIN jobs' : jobs'[i].obj = jobs'[j].obj => i = j
    <3>1. \A i \in DOMAIN jobs : /\ objs[jobs[i].obj].pc = "commit" /\ jobs'[i] = jobs[i]
                                 /\ jobs[i].obj \in Objs \ {o}
      BY <1>2, <1>4, <1>5, <1>6, <2>2, Zenon DEF Counted
    <3>2. \A i, j \in DOMAIN jobs : jobs[i].obj = jobs[j].obj => i = j
      BY <1>5, <2>2, Zenon DEF Counted
    <3>3. ASSUME NEW i \in DOMAIN jobs' PROVE objs'[jobs'[i].obj].pc = "commit"
      <4>1. CASE i \in DOMAIN jobs
        BY <1>1, <3>1, <4>1, ZenonT(30)
      <4>2. CASE i = N
        BY <1>0, <1>00, <1>1, <1>2, <2>2, <4>2, Zenon
      <4> QED BY <1>3, <3>3, <4>1, <4>2, Zenon
    <3>4. /\ \A i \in DOMAIN jobs : jobs'[i].obj # o
          /\ jobs'[N].obj = o
      BY <1>0, <1>2, <3>1, Zenon
    <3>5. ASSUME NEW i \in DOMAIN jobs', NEW j \in DOMAIN jobs', jobs'[i].obj = jobs'[j].obj
          PROVE  i = j
      <4>1. CASE i \in DOMAIN jobs /\ j \in DOMAIN jobs
        BY <3>1, <3>2, <3>5, <4>1, Zenon
      <4>2. CASE i = N \/ j = N
        BY <1>3, <3>4, <3>5, <4>2, Zenon
      <4> QED BY <1>3, <3>5, <4>1, <4>2, Zenon
    <3> QED BY <3>3, <3>5, Zenon
  <2> QED BY <1>1, <2>1, <2>2, Zenon DEF Counted
<1>9. (\A i \in DOMAIN jobs : JobShape(jobs[i]))'
  <2>1. ASSUME NEW i \in DOMAIN jobs PROVE JobShape(jobs[i])'
    <3>1. JobShape(jobs[i]) /\ jobs'[i] = jobs[i] /\ jobs[i].obj \in Objs
      BY <1>2, <1>4, <1>5, Zenon DEF Ordered
    <3>2. objs'[jobs[i].obj].id = objs[jobs[i].obj].id
      BY <1>5a, <3>1, Zenon
    <3>3. env.mode # "sync" => jobs[i].end <= objs'[jobs[i].obj].wtail
      <4> SUFFICES ASSUME env.mode # "sync" PROVE jobs[i].end <= objs'[jobs[i].obj].wtail
        BY Zenon
      <4>1. jobs[i].end <= objs[jobs[i].obj].wtail
        BY <3>1, Zenon DEF JobShape
      <4>2. CASE jobs[i].obj # o
        BY <1>1, <3>1, <4>1, <4>2, Zenon
      <4>3. CASE jobs[i].obj = o
        <5>1. objs'[jobs[i].obj].wtail = job.end /\ jobs[i].end <= st.wtail
          BY <1>00, <1>1, <4>1, <4>3, Zenon
        <5> QED BY <1>0, <1>4, <5>1
      <4> QED BY <4>2, <4>3, Zenon
    <3>4. env.mode = "sync" => objs'[jobs[i].obj].deadline = objs[jobs[i].obj].deadline
      BY <1>00, <1>1, <3>1, Zenon
    <3>5. \A p \in InFlight(jobs[i]) : post'[p].k = post[p].k
      BY Zenon
    <3> QED BY <3>1, <3>2, <3>3, <3>4, <3>5, ShapeMoves, Zenon
  <2>2. JobShape(job)'
    <3>1. \A b \in DOMAIN job.batch : ItemOK(job, job.batch[b])'
      BY <1>0, Zenon DEF ItemOK
    <3>2. env.mode # "sync" => job.end <= objs'[o].wtail
      BY <1>0, <1>00, <1>1
    <3>3. env.mode = "sync" => job.old = objs'[o].deadline
      BY <1>0, <1>00, <1>1, Zenon
    <3> QED BY <1>0, <1>5a, <3>1, <3>2, <3>3, Zenon DEF JobShape
  <2>3. ASSUME NEW i \in DOMAIN jobs' PROVE JobShape(jobs[i])'
    BY <1>2, <1>3, <2>1, <2>2, Zenon
  <2> QED BY <2>3, Zenon
<1>10. Ordered'
  <2>1. ASSUME NEW i \in DOMAIN jobs', NEW j \in DOMAIN jobs', i < j, jobs'[i].obj = jobs'[j].obj
        PROVE  Behind(jobs[i], jobs[j])'
    <3>1. i \in DOMAIN jobs
      BY <1>3, <2>1, Zenon
    <3>2. CASE j \in DOMAIN jobs
      BY <1>2, <1>5, <2>1, <3>1, <3>2, Zenon DEF Ordered, Behind
    <3>3. CASE j = N
      <4>1. jobs[i].obj = o /\ env.mode # "sync"
        BY <1>0, <1>2, <1>6, <2>1, <3>1, <3>3, Zenon
      <4>2. jobs[i].end <= st.wtail /\ jobs[i].end \in Nat
        BY <1>4, <1>5, <3>1, <4>1, Zenon DEF Ordered, JobShape
      <4>3. \A x, y, z \in Nat : x <= y /\ y <= z => x <= z
        OBVIOUS
      <4>4. jobs[i].end <= job.end /\ \A s \in DOMAIN job.puts : jobs[i].end <= s
        BY <1>0, <4>2, <4>3, Zenon
      <4> QED BY <1>2, <3>1, <3>3, <4>4, Zenon DEF Behind
    <3> QED BY <1>3, <2>1, <3>2, <3>3, Zenon
  <2> QED BY <1>9, <2>1, Zenon DEF Ordered
<1>11. Holder' = Holder
  BY Zenon DEF Holder
<1>11a. mapped' = mapped /\ tomb' = tomb
  BY Zenon
<1>12. (Undisturbed => HolderOnly /\ HolderAhead /\ \A i \in DOMAIN jobs : JobAhead(jobs[i]))'
  <2> SUFFICES ASSUME Undisturbed
               PROVE (HolderOnly /\ HolderAhead /\ \A i \in DOMAIN jobs : JobAhead(jobs[i]))'
    BY Zenon DEF Undisturbed, Steady
  <2>1. HolderOnly /\ HolderAhead /\ \A i \in DOMAIN jobs : JobAhead(jobs[i])
    BY Zenon DEF WInv
  <2>2. \A q \in Objs : Active(q)' => Active(q)
    <3> SUFFICES ASSUME NEW q \in Objs \ {o}, Active(q)' PROVE Active(q)
      BY <1>5, Zenon DEF Active
    <3>1. objs'[q] = objs[q]
      BY <1>1, Zenon
    <3>2. CASE \E i \in DOMAIN jobs' : jobs'[i].obj = q
      <4>1. PICK i \in DOMAIN jobs' : jobs'[i].obj = q
        BY <3>2, Zenon
      <4>2. i \in DOMAIN jobs
        BY <1>0, <1>2, <1>3, <4>1, Zenon
      <4> QED BY <1>2, <4>1, <4>2, Zenon DEF Active
    <3> QED BY <3>1, <3>2, Zenon DEF Active
  <2>4. HolderOnly'
    <3> SUFFICES ASSUME NEW q \in Objs, Live(objs[q].id)', Active(q)' PROVE q = Holder'
      BY <1>1, Zenon DEF HolderOnly
    <3>1. Live(objs[q].id)
      <4>1. Live(objs'[q].id)
        BY <1>11a DEF Live
      <4> QED BY <1>5a, <4>1, Zenon
    <3> QED BY <1>11, <2>1, <2>2, <3>1, Zenon DEF HolderOnly
  <2>5. Live(st.id) => o = Holder
    BY <1>5, <2>1, Zenon DEF HolderOnly, Active
  <2>6. st.id \in DOMAIN tail /\ tail \in Seq(Nat)
    BY Zenon DEF IInv, TypeOK
  <2>7. tail[st.id] \in Nat
    BY <2>6
  <2>8. Live(st.id) => tail[st.id] <= st.wtail /\ (env.mode = "sync" => st.deadline = meta.deadline)
    BY <1>5, <2>1, <2>5, Zenon DEF HolderAhead
  <2>9. Live(st.id) => tail[st.id] <= job.end /\ \A s \in DOMAIN job.puts : tail[st.id] <= s
    <3>1. \A x, y, z \in Nat : x <= y /\ y <= z => x <= z
      OBVIOUS
    <3> QED BY <1>0, <2>7, <2>8, <3>1, Zenon
  <2>10. (\A i \in DOMAIN jobs : JobAhead(jobs[i]))'
    BY <1>0, <1>2, <1>3, <2>1, <2>9, Zenon DEF JobAhead, Live
  <2>11. HolderAhead'
    <3>0. SUFFICES ASSUME Holder' # 0, Live(objs[Holder].id)'
                   PROVE /\ tail[objs'[Holder'].id] <= objs'[Holder'].wtail
                         /\ env.mode = "sync" => objs'[Holder'].deadline = meta.deadline
      BY Zenon DEF HolderAhead
    <3>1. Holder # 0 /\ Live(objs'[Holder].id)
      <4>1. Live(objs'[Holder'].id)
        BY <1>11a, <3>0 DEF Live
      <4> QED BY <1>11, <3>0, <4>1, Zenon
    <3>2. Holder \in Objs
      <4>1. registry \in 0..Len(objs)
        BY Zenon DEF IInv, Pointers
      <4>2. Holder \in 0..Len(objs)
        BY <4>1, Zenon DEF Holder, WInv
      <4> QED BY <3>1, <4>2 DEF Objs
    <3>3. CASE Holder # o
      BY <1>1, <1>11, <2>1, <3>1, <3>2, <3>3, Zenon DEF HolderAhead
    <3>4. CASE Holder = o
      <4>1. objs'[Holder'] = n /\ n.id = st.id /\ Live(st.id)
        BY <1>00, <1>1, <1>11, <3>1, <3>4, Zenon
      <4> QED BY <1>00, <2>8, <2>9, <4>1, Zenon
    <3> QED BY <3>3, <3>4, Zenon
  <2> QED BY <2>4, <2>10, <2>11, Zenon
<1>13. (\A a \in answers : AnswerOK(a))'
  BY AnswersKept, Zenon DEF WInv
<1>14. /\ IsSeq(recs)' /\ (Len(recs) = Len(tail) /\ Len(tail) > 0)'
       /\ (del.pc \in {"stop", "commit"} => del.obj \in 0..Len(objs))'
  BY <1>1, Zenon DEF WInv, IsSeq
<1> QED BY <1>7, <1>8, <1>10, <1>12, <1>13, <1>14, Zenon DEF WInv

\* The run loop drains its channel.
LEMMA BurstKept ==
  ASSUME Sizes, IInv, WInv, NEW o \in Objs, Burst(o)
  PROVE WInv'
<1> DEFINE st == objs[o]
           job == processBurst(o)
           drained == [st EXCEPT !.reqs = << >>]
<1>1. /\ UNCHANGED <<env, meta, tomb, mapped, recs, tail, registry, del>> /\ st.pc = "select"
      /\ \/ /\ nothing(job) /\ objs' = [objs EXCEPT ![o] = drained] /\ replyAll(job, TRUE)
            /\ UNCHANGED jobs
         \/ /\ jobs' = Append(jobs, job)
            /\ objs' = [objs EXCEPT ![o] =
                 IF env.mode = "sync" THEN [drained EXCEPT !.pc = "commit"]
                 ELSE [applyWriter(drained, job) EXCEPT !.pending = @ + 1]]
            /\ UNCHANGED <<post, answers>>
  BY Zenon DEF Burst, storeVars, otherVars
<1>2. CASE /\ nothing(job) /\ objs' = [objs EXCEPT ![o] = drained] /\ replyAll(job, TRUE)
           /\ UNCHANGED jobs
  BY <1>2, BurstAnswered, Zenon
<1>3. CASE /\ jobs' = Append(jobs, job)
           /\ objs' = [objs EXCEPT ![o] =
                IF env.mode = "sync" THEN [drained EXCEPT !.pc = "commit"]
                ELSE [applyWriter(drained, job) EXCEPT !.pending = @ + 1]]
           /\ UNCHANGED <<post, answers>>
  <2>1. Planned(o, job)
    BY BurstShape, Zenon
  <2>2. st \in Streamers /\ st.wtail \in Nat /\ st.deadline \in Nat /\ now \in Nat
    BY TheStreamer, Zenon
  <2> HIDE DEF job, st
  <2> DEFINE x == st.pending + 1
             n1 == [st EXCEPT !.reqs = << >>, !.pc = "commit"]
             n2 == [st EXCEPT !.reqs = << >>, !.wtail = job.end, !.deadline = job.deadline,
                              !.pending = x]
             n == IF env.mode = "sync" THEN n1 ELSE n2
  <2>3. [drained EXCEPT !.pc = "commit"] = n1
    BY <2>2, Zenon DEF Streamers
  <2>4. [applyWriter(drained, job) EXCEPT !.pending = @ + 1] = n2
    BY <2>2, Zenon DEF Streamers, applyWriter
  <2>5. objs' = [objs EXCEPT ![o] = n]
    BY <1>3, <2>3, <2>4, Zenon
  <2> HIDE DEF x
  <2>6. n1.id = st.id /\ n1.pc = "commit" /\ n1.wtail = st.wtail /\ n1.deadline = st.deadline
    BY <2>2, Zenon DEF Streamers
  <2>7. n2.id = st.id /\ n2.wtail = job.end /\ n2.pending = x
    BY <2>2, Zenon DEF Streamers
  <2> HIDE DEF n1, n2
  <2>8. Handed(n, st, job)
    BY <2>6, <2>7, Zenon DEF x, Handed
  <2> HIDE DEF n
  <2>10. jobs' = Append(jobs, job) /\ UNCHANGED <<post, answers>>
    BY <1>3, Zenon
  <2> QED BY <1>1, <2>1, <2>2, <2>5, <2>8, <2>10, BurstHanded, ZenonT(30) DEF st
<1> QED BY <1>1, <1>2, <1>3, Zenon

\* With one stream ever on the path, every number of a stream is its number.
LEMMA OneStream ==
  ASSUME IInv, WInv, Steady, env.ttl # 0
  PROVE \A x, y \in DOMAIN tail : x = y
<1>1. tail \in Seq(Nat) /\ Len(tail) = 1
  BY Zenon DEF IInv, TypeOK, Steady
<1>2. DOMAIN tail = 1..1
  BY <1>1
<1> QED BY <1>2

\* The path agrees still when no stream comes or goes.
LEMMA PathKept ==
  ASSUME IInv, WInv, UNCHANGED <<env, mapped, registry, del>>, Len(tail') = Len(tail),
         \A q \in Objs : objs'[q].id = objs[q].id,
         \/ meta' = meta
         \/ meta' # None /\ meta'.id \in DOMAIN tail /\ env.ttl # 0
  PROVE (Steady => OnPath)'
<1> SUFFICES ASSUME Steady PROVE OnPath'
  BY Zenon DEF Steady
<1>1. OnPath
  BY Zenon DEF WInv
<1>2. registry # 0 => registry \in Objs
  <2>1. registry \in 0..Len(objs)
    BY Zenon DEF IInv, Pointers
  <2> QED BY <2>1 DEF Objs
<1>3. meta # None => meta' # None /\ meta'.id = meta.id
  <2>1. meta # None => meta.id \in DOMAIN tail
    BY Zenon DEF IInv, TypeOK
  <2>2. env.ttl # 0 => \A x, y \in DOMAIN tail : x = y
    BY OneStream, Zenon
  <2> QED BY <2>1, <2>2, Zenon
<1>4. NoZombie'
  BY <1>1, <1>2, <1>3, Zenon DEF OnPath, NoZombie
<1> QED BY <1>1, <1>3, <1>4, Zenon DEF OnPath

\* A streamer that slides the deadline for a read stores what it knows.
LEMMA SlidStreamer ==
  ASSUME IInv, WInv, UNCHANGED <<env, tomb, mapped, recs, tail, jobs, registry, del, post, answers>>,
         NEW o \in Objs, objs[o].pc = "select", NEW n, objs' = [objs EXCEPT ![o] = n],
         n.pc = "select", n.id = objs[o].id, n.pending = objs[o].pending, n.wtail = objs[o].wtail,
         n.deadline \in Nat, objs[o].deadline <= n.deadline, env.ttl # 0,
         meta' # None, meta'.id = objs[o].id, meta'.deadline = n.deadline
  PROVE WInv'
<1> DEFINE st == objs[o]
<1>1. /\ Objs' = Objs /\ Len(objs') = Len(objs) /\ objs'[o] = n
      /\ \A q \in Objs \ {o} : objs'[q] = objs[q]
  BY OneStreamer, Zenon
<1>2. /\ \A q \in Objs : /\ objs'[q].id = objs[q].id /\ objs'[q].pending = objs[q].pending
                         /\ objs'[q].wtail = objs[q].wtail /\ objs'[q].pc = objs[q].pc
  BY <1>1, Zenon
<1>3. Counted /\ Ordered /\ st.pc # "exit" /\ st.pc # "commit" /\ \A q \in Objs : q # 0
  <2>1. st.pc # "exit" /\ st.pc # "commit" /\ \A q \in Objs : q # 0
    BY DEF Objs
  <2> QED BY <2>1, Zenon DEF WInv
<1>4. \A i \in DOMAIN jobs : jobs[i].obj \in Objs
  BY Zenon DEF IInv, TypeOK, JobOK
<1>5. env.mode = "sync" => \A i \in DOMAIN jobs : jobs[i].obj # o
  BY <1>3, Zenon DEF Counted
<1>7. /\ st.id \in DOMAIN tail /\ st.deadline \in Nat
      /\ \A q \in Objs : objs[q].id \in DOMAIN tail
      /\ meta # None => meta.id \in DOMAIN tail
      /\ registry \in 0..Len(objs)
  BY TheStreamer, Zenon DEF IInv, TypeOK
<1>8. (Steady => OnPath)'
  BY <1>1, <1>2, <1>7, PathKept, Zenon
<1>9. Counted'
  <2>1. \A q : JobsOf(q)' = JobsOf(q)
    BY Zenon DEF JobsOf
  <2>2. ASSUME env.mode # "sync", NEW q \in Objs
        PROVE  objs'[q].pending = Cardinality(JobsOf(q)')
    BY <1>2, <1>3, <2>1, <2>2, Zenon DEF Counted
  <2>3. ASSUME env.mode = "sync"
        PROVE  /\ \A i \in DOMAIN jobs : objs'[jobs[i].obj].pc = "commit"
               /\ \A i, j \in DOMAIN jobs : jobs[i].obj = jobs[j].obj => i = j
    BY <1>2, <1>3, <1>4, <2>3, Zenon DEF Counted
  <2> QED BY <1>1, <2>2, <2>3, Zenon DEF Counted
<1>10. Ordered'
  <2>1. ASSUME NEW i \in DOMAIN jobs PROVE JobShape(jobs[i])'
    <3>1. JobShape(jobs[i]) /\ jobs'[i] = jobs[i] /\ jobs[i].obj \in Objs
      BY <1>3, <1>4, Zenon DEF Ordered
    <3>2. /\ objs'[jobs[i].obj].id = objs[jobs[i].obj].id
          /\ env.mode # "sync" => jobs[i].end <= objs'[jobs[i].obj].wtail
      BY <1>2, <3>1, Zenon DEF JobShape
    <3>3. env.mode = "sync" => objs'[jobs[i].obj].deadline = objs[jobs[i].obj].deadline
      BY <1>1, <1>5, <3>1, Zenon
    <3>4. \A p \in InFlight(jobs[i]) : post'[p].k = post[p].k
      BY Zenon
    <3> QED BY <3>1, <3>2, <3>3, <3>4, ShapeMoves, Zenon
  <2> QED BY <1>3, <2>1, Zenon DEF Ordered, Behind
<1>11. Holder' = Holder /\ mapped' = mapped /\ tomb' = tomb
  BY Zenon DEF Holder
<1>12. Undisturbed /\ Live(st.id) => o = Holder /\ (env.mode = "sync" => st.deadline = meta.deadline)
  <2> SUFFICES ASSUME Undisturbed, Live(st.id)
               PROVE o = Holder /\ (env.mode = "sync" => st.deadline = meta.deadline)
    BY Zenon
  <2>1. HolderOnly /\ HolderAhead
    BY Zenon DEF WInv
  <2>2. o = Holder
    BY <1>3, <2>1, Zenon DEF HolderOnly, Active
  <2> QED BY <1>3, <2>1, <2>2, Zenon DEF HolderAhead
<1>13. (Undisturbed => HolderOnly /\ HolderAhead /\ \A i \in DOMAIN jobs : JobAhead(jobs[i]))'
  <2> SUFFICES ASSUME Undisturbed
               PROVE (HolderOnly /\ HolderAhead /\ \A i \in DOMAIN jobs : JobAhead(jobs[i]))'
    BY Zenon DEF Undisturbed, Steady
  <2>1. HolderOnly /\ HolderAhead /\ \A i \in DOMAIN jobs : JobAhead(jobs[i])
    BY Zenon DEF WInv
  <2>2. \A q \in Objs : Active(q)' => Active(q)
    BY <1>2, Zenon DEF Active
  <2>3. HolderOnly'
    <3> SUFFICES ASSUME NEW q \in Objs, Live(objs[q].id)', Active(q)' PROVE q = Holder'
      BY <1>1, Zenon DEF HolderOnly
    <3>1. Live(objs[q].id)
      <4>1. Live(objs'[q].id)
        BY <1>11 DEF Live
      <4> QED BY <1>2, <4>1, Zenon
    <3> QED BY <1>11, <2>1, <2>2, <3>1, Zenon DEF HolderOnly
  <2>4. HolderAhead'
    <3>0. SUFFICES ASSUME Holder' # 0, Live(objs[Holder].id)'
                   PROVE /\ tail[objs'[Holder'].id] <= objs'[Holder'].wtail
                         /\ env.mode = "sync" => objs'[Holder'].deadline = meta'.deadline
      BY Zenon DEF HolderAhead
    <3>1. Holder # 0 /\ Live(objs'[Holder].id)
      <4>1. Live(objs'[Holder'].id)
        BY <1>11, <3>0 DEF Live
      <4> QED BY <1>11, <3>0, <4>1, Zenon
    <3>2. Holder \in Objs
      <4>1. Holder \in 0..Len(objs)
        BY <1>7, Zenon DEF Holder, WInv
      <4> QED BY <3>1, <4>1 DEF Objs
    <3>3. objs'[Holder].id = st.id
      <4>1. \A x, y \in DOMAIN tail : x = y
        BY OneStream, Zenon DEF Undisturbed
      <4> QED BY <1>2, <1>7, <3>2, <4>1, Zenon
    <3>4. Holder = o
      BY <1>12, <3>1, <3>3, Zenon
    <3>5. tail[st.id] <= st.wtail
      BY <2>1, <3>1, <3>3, <3>4, Zenon DEF HolderAhead
    <3> QED BY <1>1, <1>11, <3>4, <3>5, Zenon
  <2>5. (\A i \in DOMAIN jobs : JobAhead(jobs[i]))'
    BY <2>1, Zenon DEF JobAhead, Live
  <2> QED BY <2>3, <2>4, <2>5, Zenon
<1>14. (\A a \in answers : AnswerOK(a))'
  <2> SUFFICES ASSUME NEW a \in answers PROVE AnswerOK(a)'
    BY Zenon
  <2>1. AnswerOK(a)
    BY Zenon DEF WInv
  <2>2. ASSUME a.status = "ok", Undisturbed, Live(a.id), env.mode = "sync", env.ttl > 0
        PROVE  meta'.deadline > a.at + env.ttl
    <3>1. a.id \in DOMAIN tail /\ a.at \in Nat /\ meta.deadline > a.at + env.ttl
      BY <2>1, <2>2, Zenon DEF AnswerOK
    <3>2. a.id = st.id
      BY <1>7, <2>2, <3>1, OneStream, Zenon DEF Undisturbed
    <3>3. st.deadline = meta.deadline
      BY <1>12, <2>2, <3>2, Zenon
    <3>4. env.ttl \in Nat /\ meta.deadline \in Nat /\ meta.deadline <= meta'.deadline
      BY <1>7, <3>3, ResidencyAssumption, Zenon DEF IInv, TypeOK
    <3> QED BY <3>1, <3>4
  <2> QED BY <2>1, <2>2, Zenon DEF AnswerOK, Undisturbed, Steady, Live, Stored
<1>15. /\ IsSeq(recs)' /\ (Len(recs) = Len(tail) /\ Len(tail) > 0)'
       /\ (del.pc \in {"stop", "commit"} => del.obj \in 0..Len(objs))'
  BY <1>1, Zenon DEF WInv, IsSeq
<1> QED BY <1>8, <1>9, <1>10, <1>13, <1>14, <1>15, Zenon DEF WInv

\* refreshTTLOnRead.
LEMMA TouchedKept ==
  ASSUME IInv, WInv, NEW o \in Objs, Touched(o)
  PROVE WInv'
<1> DEFINE st == objs[o]
           d == slideTTL(st.deadline)
           n1 == [st EXCEPT !.touch = FALSE]
           n2 == [st EXCEPT !.touch = FALSE, !.deadline = d]
<1>1. /\ UNCHANGED <<env, tomb, mapped, recs, tail, jobs, registry, del, post, answers>>
      /\ st.pc = "select"
      /\ \/ objs' = [objs EXCEPT ![o] = n1] /\ UNCHANGED meta
         \/ objs' = [objs EXCEPT ![o] = n2] /\ d = st.deadline /\ UNCHANGED meta
         \/ /\ objs' = [objs EXCEPT ![o] = n2] /\ d # st.deadline
            /\ meta' = [id |-> st.id, ct |-> st.ct, deadline |-> d]
  BY ZenonT(30) DEF Touched, refreshTTLOnRead, slideOps, callVars
<1>2. st \in Streamers /\ st.deadline \in Nat /\ now \in Nat /\ env \in Settings
      /\ st.id \in DOMAIN tail /\ st.ct \in ContentTypes
  BY TheStreamer, Zenon
<1>3. d \in Nat /\ st.deadline <= d /\ (env.ttl = 0 => d = st.deadline)
  BY <1>2, Slides, Zenon
<1> HIDE DEF d, st
<1>4. /\ Same(n1, st) /\ (d = st.deadline => Same(n2, st))
      /\ n2.pc = st.pc /\ n2.id = st.id /\ n2.pending = st.pending /\ n2.wtail = st.wtail
      /\ n2.deadline = d
  BY <1>2, Zenon DEF Same, Streamers
<1>5. CallsKept
  BY <1>1, Zenon DEF CallsKept
<1> HIDE DEF n1, n2
<1>6. CASE \E n \in {n1, n2} : objs' = [objs EXCEPT ![o] = n] /\ Same(n, st) /\ UNCHANGED meta
  BY <1>1, <1>5, <1>6, RunKept, Zenon DEF st
<1>7. CASE /\ objs' = [objs EXCEPT ![o] = n2] /\ d # st.deadline
           /\ meta' = [id |-> st.id, ct |-> st.ct, deadline |-> d]
  <2>1. st.id \in Nat
    BY <1>2, Zenon DEF Streamers
  <2>2. meta' # None /\ meta'.id = st.id /\ meta'.deadline = d
    <3>1. meta' \in Metas /\ meta'.id = st.id /\ meta'.deadline = d
      BY <1>2, <1>3, <1>7, <2>1, Zenon DEF Metas
    <3> QED BY <3>1, ResidencyAssumption, Zenon DEF Metas, ContentTypes
  <2>3. env.ttl # 0
    BY <1>3, <1>7, Zenon
  <2>4. objs[o].pc = "select"
    BY <1>1, Zenon DEF st
  <2>5. n2.pc = "select" /\ n2.id = objs[o].id /\ n2.pending = objs[o].pending
        /\ n2.wtail = objs[o].wtail /\ n2.deadline \in Nat /\ objs[o].deadline <= n2.deadline
        /\ meta'.id = objs[o].id /\ meta'.deadline = n2.deadline
    BY <1>1, <1>3, <1>4, <2>2, Zenon DEF st
  <2> QED BY <1>1, <1>7, <2>2, <2>3, <2>4, <2>5, SlidStreamer, ZenonT(30)
<1> QED BY <1>1, <1>4, <1>6, <1>7, Zenon

-----------------------------------------------------------------------------
(* The outcome of a commit. *)

\* What the end of a commit leaves of the streamer.
Freed(n, st) ==
  /\ n.id = st.id
  /\ env.mode = "sync" => n.pc = "select"
  /\ env.mode # "sync" => /\ n.pc = st.pc /\ n.pending = st.pending - 1
                          /\ n.wtail = st.wtail /\ n.deadline = st.deadline

\* The head of the queue is gone: one burst less for its streamer.
LEMMA OneLess ==
  ASSUME Sizes, IInv, WInv, env.mode # "sync", 1 \in DOMAIN jobs, jobs' = Without(jobs, 1), NEW q \in Objs
  PROVE Cardinality(JobsOf(q)') = IF jobs[1].obj = q THEN objs[q].pending - 1 ELSE objs[q].pending
<1> DEFINE L == Len(jobs)
           S == JobsOf(q) \ {1}
           T == {k \in 1..(L - 1) : k + 1 \in S}
<1>1. IsSeq(jobs)
  BY Zenon DEF IInv, TypeOK
<1>2. /\ L \in Nat /\ DOMAIN jobs = 1..L /\ DOMAIN jobs' = 1..(L - 1)
      /\ \A k \in 1..(L - 1) : ~(k < 1) => jobs'[k] = jobs[k + 1]
  <2> DEFINE W == Without(jobs, 1)
  <2>1. /\ L \in Nat /\ DOMAIN jobs = 1..L /\ DOMAIN W = 1..(L - 1)
        /\ \A k \in 1..(L - 1) : ~(k < 1) => W[k] = jobs[k + 1]
    BY <1>1, RemoveKeepsOrder, ZenonT(30)
  <2>2. jobs' = W
    BY Zenon
  <2> HIDE DEF W
  <2> QED BY <2>1, <2>2, Zenon
<1>3. \A k \in 1..(L - 1) : ~(k < 1) /\ k + 1 \in 1..L /\ k + 1 # 1
  BY <1>2
<1>4. JobsOf(q)' = T
  BY <1>2, <1>3, Zenon DEF JobsOf
<1>5. /\ JobsOf(q) \in SUBSET (1..L)
      /\ Cardinality(JobsOf(q)) \in Nat /\ objs[q].pending = Cardinality(JobsOf(q))
  BY JobsOfFinite, Zenon DEF WInv, Counted
<1>6. Cardinality(T) = Cardinality(S)
  <2>1. S \in SUBSET (1..L) /\ 1 \notin S
    BY <1>5, Zenon
  <2> HIDE DEF S
  <2>2. Sized(L, S)
    BY <1>2, <2>1, Zenon DEF Sizes
  <2> QED BY <2>1, <2>2, Zenon DEF Sized
<1>7. CASE jobs[1].obj = q
  <2>1. 1 \in JobsOf(q)
    BY <1>7, Zenon DEF JobsOf
  <2>2. Cardinality(S) = Cardinality(JobsOf(q)) - 1
    <3>1. Sized(L, JobsOf(q))
      BY <1>2, <1>5, Zenon DEF Sizes
    <3> QED BY <2>1, <3>1, Zenon DEF Sized
  <2> QED BY <1>4, <1>5, <1>6, <1>7, <2>2, Zenon
<1>8. CASE jobs[1].obj # q
  <2>1. S = JobsOf(q)
    BY <1>8, Zenon DEF JobsOf
  <2> QED BY <1>4, <1>5, <1>6, <1>8, <2>1, Zenon
<1> QED BY <1>7, <1>8, Zenon

\* What is left when element i is taken out: others, one each, in their order.
Remains(u, s, i) ==
  /\ \A k \in DOMAIN u : \E m \in DOMAIN s \ {i} : u[k] = s[m]
  /\ \A k, l \in DOMAIN u : k # l =>
       \E x, y \in DOMAIN s \ {i} : x # y /\ u[k] = s[x] /\ u[l] = s[y]
  /\ \A k, l \in DOMAIN u : k < l =>
       \E x, y \in DOMAIN s \ {i} : x < y /\ u[k] = s[x] /\ u[l] = s[y]

\* Without takes out that element.
LEMMA TakenOut ==
  ASSUME NEW s, IsSeq(s), NEW i \in DOMAIN s
  PROVE Remains(Without(s, i), s, i)
<1> DEFINE u == Without(s, i)
<1>1. /\ \A k \in DOMAIN u : \E m \in DOMAIN s \ {i} : u[k] = s[m]
      /\ \A k, l \in DOMAIN u : k # l =>
           \E x, y \in DOMAIN s \ {i} : x # y /\ u[k] = s[x] /\ u[l] = s[y]
  <2> HIDE DEF u
  <2>1. u = Without(s, i)
    BY DEF u
  <2> QED BY <2>1, RemoveAt
<1>2. \A k, l \in DOMAIN u : k < l =>
        \E x, y \in DOMAIN s \ {i} : x < y /\ u[k] = s[x] /\ u[l] = s[y]
  BY RemoveKeepsOrder, Zenon
<1> QED BY <1>1, <1>2, Zenon DEF Remains

\* A burst leaves the queue, and its calls are answered.
LEMMA LeavesQueue ==
  ASSUME Sizes, IInv, WInv, env' = env, NEW i \in DOMAIN jobs, i = 1 \/ env.mode = "sync",
         jobs' = Without(jobs, i), NEW good, replyAll(jobs[i], good),
         NEW n, objs' = [objs EXCEPT ![jobs[i].obj] = n], Freed(n, objs[jobs[i].obj])
  PROVE /\ Counted' /\ Ordered'
        /\ \A q \in Objs : Active(q)' => Active(q)
        /\ \A k \in DOMAIN jobs' : \E m \in DOMAIN jobs \ {i} : jobs'[k] = jobs[m]
<1> DEFINE o == jobs[i].obj
           st == objs[o]
<1>1. o \in Objs /\ \A m \in DOMAIN jobs : jobs[m].obj \in Objs
  BY Zenon DEF IInv, TypeOK, JobOK
<1>2. /\ Objs' = Objs /\ Len(objs') = Len(objs) /\ objs'[o] = n
      /\ \A q \in Objs \ {o} : objs'[q] = objs[q]
  BY <1>1, OneStreamer, Zenon
<1>3. IsSeq(jobs) /\ Counted /\ Ordered
  BY Zenon DEF IInv, TypeOK, WInv
<1>4. /\ \A k \in DOMAIN jobs' : \E m \in DOMAIN jobs \ {i} : jobs'[k] = jobs[m]
      /\ \A k, l \in DOMAIN jobs' : k # l =>
           \E x, y \in DOMAIN jobs \ {i} : x # y /\ jobs'[k] = jobs[x] /\ jobs'[l] = jobs[y]
      /\ \A k, l \in DOMAIN jobs' : k < l =>
           \E x, y \in DOMAIN jobs \ {i} : x < y /\ jobs'[k] = jobs[x] /\ jobs'[l] = jobs[y]
  <2>1. Remains(Without(jobs, i), jobs, i)
    BY <1>3, TakenOut, Zenon
  <2>2. Remains(jobs', jobs, i)
    BY <2>1, Zenon
  <2> QED BY <2>2, Zenon DEF Remains
<1>6. /\ n.id = st.id
      /\ env.mode # "sync" => /\ n.pc = st.pc /\ n.pending = st.pending - 1
                              /\ n.wtail = st.wtail /\ n.deadline = st.deadline
  BY Zenon DEF Freed
<1>7. env.mode = "sync" => \A m \in DOMAIN jobs \ {i} : jobs[m].obj # o
  BY <1>3, Zenon DEF Counted
<1>8. Counted'
  <2>1. ASSUME env.mode # "sync", NEW q \in Objs
        PROVE  objs'[q].pending = Cardinality(JobsOf(q)')
    <3>1. i = 1
      BY <2>1, Zenon
    <3>2. Cardinality(JobsOf(q)') = IF o = q THEN objs[q].pending - 1 ELSE objs[q].pending
      BY <2>1, <3>1, OneLess, Zenon
    <3> QED BY <1>2, <1>6, <2>1, <3>2, Zenon
  <2>2. ASSUME env.mode = "sync", NEW k \in DOMAIN jobs'
        PROVE  objs'[jobs'[k].obj].pc = "commit"
    <3>1. PICK m \in DOMAIN jobs \ {i} : jobs'[k] = jobs[m]
      BY <1>4, <2>2, Zenon
    <3>2. objs[jobs[m].obj].pc = "commit" /\ jobs[m].obj \in Objs \ {o}
      BY <1>1, <1>3, <1>7, <2>2, <3>1, Zenon DEF Counted
    <3> QED BY <1>2, <3>1, <3>2, Zenon
  <2>3. ASSUME env.mode = "sync", NEW k \in DOMAIN jobs', NEW l \in DOMAIN jobs', k # l
        PROVE  jobs'[k].obj # jobs'[l].obj
    <3>1. PICK x, y \in DOMAIN jobs \ {i} : x # y /\ jobs'[k] = jobs[x] /\ jobs'[l] = jobs[y]
      BY <1>4, <2>3, Zenon
    <3> QED BY <1>3, <2>3, <3>1, Zenon DEF Counted
  <2> QED BY <1>2, <2>1, <2>2, <2>3, Zenon DEF Counted
<1>9. ASSUME NEW m \in DOMAIN jobs \ {i}, NEW job, job = jobs[m] PROVE JobShape(job)'
  <2>1. JobShape(job) /\ job.obj \in Objs
    BY <1>1, <1>3, <1>9, Zenon DEF Ordered
  <2>2. objs'[job.obj].id = objs[job.obj].id
    BY <1>2, <1>6, <2>1, Zenon
  <2>3. env.mode # "sync" => job.end <= objs'[job.obj].wtail
    BY <1>2, <1>6, <2>1, Zenon DEF JobShape
  <2>4. env.mode = "sync" => objs'[job.obj].deadline = objs[job.obj].deadline
    BY <1>2, <1>7, <1>9, <2>1, Zenon
  <2>5. \A p \in InFlight(job) : post'[p].k = post[p].k
    <3>1. post' = [p \in Posters |-> IF p \in InFlight(jobs[i]) THEN Idle ELSE post[p]]
      BY ReplyAll, Zenon
    <3>2. InFlight(job) \cap InFlight(jobs[i]) = {} /\ \A p \in InFlight(job) : p \in Posters
      BY <1>9, Zenon DEF IInv, Placed
    <3> QED BY <3>1, <3>2, Zenon
  <2> QED BY <2>1, <2>2, <2>3, <2>4, <2>5, ShapeMoves, Zenon
<1>10. Ordered'
  <2>1. ASSUME NEW k \in DOMAIN jobs' PROVE JobShape(jobs[k])'
    <3>1. PICK m \in DOMAIN jobs \ {i} : jobs'[k] = jobs[m]
      BY <1>4, <2>1, Zenon
    <3>2. ASSUME NEW job, job = jobs[m] PROVE JobShape(job)'
      BY <1>9, <3>1, <3>2, Zenon
    <3> QED BY <3>1, <3>2, Zenon
  <2>2. ASSUME NEW k \in DOMAIN jobs', NEW l \in DOMAIN jobs', k < l, jobs'[k].obj = jobs'[l].obj
        PROVE  Behind(jobs[k], jobs[l])'
    <3>1. PICK x, y \in DOMAIN jobs \ {i} : x < y /\ jobs'[k] = jobs[x] /\ jobs'[l] = jobs[y]
      BY <1>4, <2>2, Zenon
    <3>2. Behind(jobs[x], jobs[y])
      BY <1>3, <2>2, <3>1, Zenon DEF Ordered
    <3> QED BY <3>1, <3>2, Zenon DEF Behind
  <2> QED BY <2>1, <2>2, Zenon DEF Ordered
<1>11. ASSUME NEW q \in Objs, Active(q)' PROVE Active(q)
  <2>1. CASE q = o
    BY <2>1, Zenon DEF Active
  <2>2. CASE q # o /\ objs'[q].pc # "exit"
    BY <1>2, <2>2, Zenon DEF Active
  <2>3. CASE \E k \in DOMAIN jobs' : jobs'[k].obj = q
    <3>1. PICK k \in DOMAIN jobs' : jobs'[k].obj = q
      BY <2>3, Zenon
    <3>2. PICK m \in DOMAIN jobs \ {i} : jobs'[k] = jobs[m]
      BY <1>4, <3>1, Zenon
    <3>3. m \in DOMAIN jobs /\ jobs[m].obj = q
      BY <3>1, <3>2, Zenon
    <3> QED BY <3>3, Zenon DEF Active
  <2> QED BY <1>11, <2>1, <2>2, <2>3, Zenon DEF Active
<1> QED BY <1>4, <1>8, <1>10, <1>11, Zenon

\* The store refuses a burst: none of its calls succeeded, its numbers are lost.
LEMMA LandRefusedKept ==
  ASSUME Sizes, IInv, WInv, NEW i \in DOMAIN jobs, LandRefused(i)
  PROVE WInv'
<1> DEFINE job == jobs[i]
           o == job.obj
           st == objs[o]
           x == st.pending - 1
           n1 == [st EXCEPT !.pc = "select"]
           n2 == [st EXCEPT !.pending = x]
           n == IF env.mode = "sync" THEN n1 ELSE n2
<1>1. /\ UNCHANGED <<env, meta, tomb, mapped, recs, tail, registry, del>>
      /\ jobs' = Without(jobs, i) /\ replyAll(job, FALSE) /\ (i = 1 \/ env.mode = "sync")
      /\ objs' = [objs EXCEPT ![o] = released(st)]
  BY Zenon DEF LandRefused, storeVars
<1>2. o \in Objs
  BY Zenon DEF IInv, TypeOK, JobOK
<1>3. st \in Streamers
  BY <1>2, TheStreamer, Zenon
<1>4. objs' = [objs EXCEPT ![o] = n]
  BY <1>1, Zenon DEF released
<1> HIDE DEF st, x, o
<1>5. /\ n1.id = st.id /\ n1.pc = "select" /\ n1.wtail = st.wtail /\ n1.deadline = st.deadline
      /\ n2.id = st.id /\ n2.pc = st.pc /\ n2.wtail = st.wtail /\ n2.deadline = st.deadline
      /\ n2.pending = x
  BY <1>3, Zenon DEF Streamers
<1> HIDE DEF n1, n2
<1>6. Freed(n, st) /\ n.id = st.id /\ n.wtail = st.wtail /\ n.deadline = st.deadline
  BY <1>5, Zenon DEF Freed, x
<1> HIDE DEF n
<1>7. /\ Objs' = Objs /\ Len(objs') = Len(objs) /\ objs'[o] = n
      /\ \A q \in Objs \ {o} : objs'[q] = objs[q]
  BY <1>2, <1>4, OneStreamer, Zenon
<1>8. \A q \in Objs : /\ objs'[q].id = objs[q].id /\ objs'[q].wtail = objs[q].wtail
                      /\ objs'[q].deadline = objs[q].deadline
  BY <1>6, <1>7, Zenon DEF st
<1>9. /\ Counted' /\ Ordered'
      /\ \A q \in Objs : Active(q)' => Active(q)
      /\ \A k \in DOMAIN jobs' : \E m \in DOMAIN jobs \ {i} : jobs'[k] = jobs[m]
  BY <1>1, <1>4, <1>6, LeavesQueue, Zenon DEF o, st
<1>10. (Steady => OnPath)'
  BY <1>1, <1>8, PathKept, Zenon
<1>11. Holder' = Holder /\ mapped' = mapped /\ tomb' = tomb
  BY <1>1, Zenon DEF Holder
<1>12. (Undisturbed => HolderOnly /\ HolderAhead /\ \A k \in DOMAIN jobs : JobAhead(jobs[k]))'
  <2> SUFFICES ASSUME Undisturbed
               PROVE (HolderOnly /\ HolderAhead /\ \A k \in DOMAIN jobs : JobAhead(jobs[k]))'
    BY <1>1, Zenon DEF Undisturbed, Steady
  <2>1. HolderOnly /\ HolderAhead /\ \A k \in DOMAIN jobs : JobAhead(jobs[k])
    BY Zenon DEF WInv
  <2>2. HolderOnly'
    <3> SUFFICES ASSUME NEW q \in Objs, Live(objs[q].id)', Active(q)' PROVE q = Holder'
      BY <1>7, Zenon DEF HolderOnly
    <3>1. Live(objs[q].id)
      <4>1. Live(objs'[q].id)
        BY <1>11 DEF Live
      <4> QED BY <1>8, <4>1, Zenon
    <3> QED BY <1>9, <1>11, <2>1, <3>1, Zenon DEF HolderOnly
  <2>3. HolderAhead'
    <3>0. SUFFICES ASSUME Holder' # 0, Live(objs[Holder].id)'
                   PROVE /\ tail'[objs'[Holder'].id] <= objs'[Holder'].wtail
                         /\ env.mode = "sync" => objs'[Holder'].deadline = meta'.deadline
      BY <1>1, Zenon DEF HolderAhead
    <3>1. Holder # 0 /\ Live(objs'[Holder].id)
      <4>1. Live(objs'[Holder'].id)
        BY <1>11, <3>0 DEF Live
      <4> QED BY <1>11, <3>0, <4>1, Zenon
    <3>2. Holder \in Objs
      <4>1. registry \in 0..Len(objs)
        BY Zenon DEF IInv, Pointers
      <4>2. Holder \in 0..Len(objs)
        BY <4>1, Zenon DEF Holder, WInv
      <4> QED BY <3>1, <4>2 DEF Objs
    <3>3. /\ tail[objs[Holder].id] <= objs[Holder].wtail
          /\ env.mode = "sync" => objs[Holder].deadline = meta.deadline
      BY <1>8, <2>1, <3>1, <3>2, Zenon DEF HolderAhead
    <3> QED BY <1>1, <1>8, <1>11, <3>2, <3>3, Zenon
  <2>4. (\A k \in DOMAIN jobs : JobAhead(jobs[k]))'
    BY <1>1, <1>9, <2>1, Zenon DEF JobAhead, Live
  <2> QED BY <2>2, <2>3, <2>4, Zenon
<1>13. (\A a \in answers : AnswerOK(a))'
  <2>1. ASSUME NEW a \in answers', a \notin answers PROVE a.status # "ok"
    <3>0. replyAll(job, FALSE)
      BY <1>1, Zenon
    <3> HIDE DEF job
    <3>1. PICK b \in DOMAIN job.batch :
            /\ a.k = post[job.batch[b].p].k /\ a.status = Status(job.batch[b], FALSE)
            /\ a.id = job.id /\ a.seq = job.batch[b].seq /\ a.n = job.batch[b].n /\ a.at = job.at
      BY <2>1, <3>0, RepliesOf, Zenon
    <3> QED BY <3>1 DEF Status
  <2> QED BY <1>1, <2>1, AnswersKept, Zenon DEF WInv
<1>14. /\ IsSeq(recs)' /\ (Len(recs) = Len(tail) /\ Len(tail) > 0)'
       /\ (del.pc \in {"stop", "commit"} => del.obj \in 0..Len(objs))'
  BY <1>1, <1>7, Zenon DEF WInv, IsSeq
<1> QED BY <1>9, <1>10, <1>12, <1>13, <1>14, Zenon DEF WInv

\* What a landed burst leaves in the store: its records on top of those there,
\* its end, and its deadline where that moved.
Landed(job) ==
  /\ DOMAIN tail' = DOMAIN tail /\ Len(tail') = Len(tail)
  /\ IsSeq(recs') /\ Len(recs') = Len(recs)
  /\ tail'[job.id] = job.end
  /\ \A id \in DOMAIN tail \ {job.id} : tail'[id] = tail[id] /\ recs'[id] = recs[id]
  /\ \A s \in DOMAIN job.puts : s \in DOMAIN recs'[job.id] /\ recs'[job.id][s] = job.puts[s]
  /\ \A s \in DOMAIN recs[job.id] \ DOMAIN job.puts :
       s \in DOMAIN recs'[job.id] /\ recs'[job.id][s] = recs[job.id][s]
  /\ \/ meta' = meta /\ job.deadline = job.old
     \/ /\ meta' # None /\ meta'.id = job.id /\ meta'.deadline = job.deadline
        /\ job.deadline # job.old

\* The streamer after its burst landed.
Settled(n, st, job) ==
  /\ Freed(n, st)
  /\ env.mode = "sync" => n.wtail = job.end /\ n.deadline = job.deadline

\* Replacing one element of a sequence of anything.
LEMMA ReplaceAny ==
  ASSUME NEW s, IsSeq(s), NEW i \in DOMAIN s, NEW e
  PROVE LET u == [s EXCEPT ![i] = e]
        IN /\ IsSeq(u) /\ Len(u) = Len(s) /\ DOMAIN u = DOMAIN s /\ u[i] = e
           /\ \A j \in DOMAIN s \ {i} : u[j] = s[j]
<1> DEFINE R == {s[j] : j \in DOMAIN s}
           T == R \cup {e}
           u == [s EXCEPT ![i] = e]
<1>1. s \in Seq(R)
  BY DEF IsSeq
<1>2. s \in Seq(T) /\ e \in T
  BY <1>1, SeqWeaken
<1> HIDE DEF T, R
<1>3. u \in Seq(T) /\ Len(u) = Len(s) /\ DOMAIN u = DOMAIN s /\ u[i] = e
      /\ \A j \in DOMAIN s \ {i} : u[j] = s[j]
  BY <1>2
<1>4. IsSeq(u)
  <2> HIDE DEF u
  <2> QED BY <1>3, SeqOfItself, Zenon
<1> QED BY <1>3, <1>4, Zenon

\* Land stores the burst's records, tail and deadline.
LEMMA LandStores ==
  ASSUME IInv, WInv, NEW i \in DOMAIN jobs, Land(i)
  PROVE Landed(jobs[i])
<1> DEFINE job == jobs[i]
           log == Put(job.puts, recs[job.id])
<1>1. /\ recs' = [recs EXCEPT ![job.id] = log]
      /\ tail' = [tail EXCEPT ![job.id] = job.end]
      /\ slideOps(job.id, job.ct, job.old, job.deadline)
  BY Zenon DEF Land
<1>2. job.id \in DOMAIN tail /\ job.ct \in ContentTypes /\ job.end \in Nat /\ job.deadline \in Nat
  BY Zenon DEF IInv, TypeOK, JobOK
<1>3. tail \in Seq(Nat) /\ IsSeq(recs) /\ Len(recs) = Len(tail)
  BY Zenon DEF IInv, TypeOK, WInv
<1>4. IsSeq(tail) /\ DOMAIN recs = DOMAIN tail /\ job.id \in Nat
  <2>1. IsSeq(tail) /\ DOMAIN tail = 1..Len(tail)
    BY <1>3, SeqOfItself, Zenon
  <2>2. DOMAIN recs = 1..Len(recs)
    BY <1>3, SeqOfItself, Zenon DEF IsSeq
  <2>3. Len(tail) \in Nat
    BY <1>3
  <2>4. job.id \in Nat
    BY <1>2, <2>1, <2>3, SMTT(30)
  <2> QED BY <1>3, <2>1, <2>2, <2>4, Zenon
<1>5. /\ \A s \in DOMAIN job.puts : s \in DOMAIN log /\ log[s] = job.puts[s]
      /\ \A s \in DOMAIN recs[job.id] \ DOMAIN job.puts : s \in DOMAIN log /\ log[s] = recs[job.id][s]
  <2> HIDE DEF job
  <2> QED BY Zenon DEF Put
<1> HIDE DEF log, job
<1>6. /\ DOMAIN tail' = DOMAIN tail /\ Len(tail') = Len(tail) /\ tail'[job.id] = job.end
      /\ \A id \in DOMAIN tail \ {job.id} : tail'[id] = tail[id]
  <2> DEFINE u == [tail EXCEPT ![job.id] = job.end]
  <2>1. /\ DOMAIN u = DOMAIN tail /\ Len(u) = Len(tail) /\ u[job.id] = job.end
        /\ \A id \in DOMAIN tail \ {job.id} : u[id] = tail[id]
    <3>1. tail \in Seq(Nat) /\ job.id \in DOMAIN tail /\ job.end \in Nat
      BY <1>2, <1>3, Zenon
    <3> QED BY <3>1
  <2> HIDE DEF u
  <2> QED BY <1>1, <2>1, Zenon DEF u
<1>7. /\ IsSeq(recs') /\ Len(recs') = Len(recs) /\ recs'[job.id] = log
      /\ \A id \in DOMAIN tail \ {job.id} : recs'[id] = recs[id]
  BY <1>1, <1>2, <1>3, <1>4, ReplaceAny, Zenon
<1>8. \/ meta' = meta /\ job.deadline = job.old
      \/ /\ meta' # None /\ meta'.id = job.id /\ meta'.deadline = job.deadline
         /\ job.deadline # job.old
  <2>1. CASE job.deadline = job.old
    BY <1>1, <2>1, Zenon DEF slideOps
  <2>2. CASE job.deadline # job.old
    <3>1. meta' = [id |-> job.id, ct |-> job.ct, deadline |-> job.deadline]
      BY <1>1, <2>2, Zenon DEF slideOps
    <3>2. meta' \in Metas /\ meta'.id = job.id /\ meta'.deadline = job.deadline
      BY <1>2, <1>4, <3>1, Zenon DEF Metas
    <3>3. meta' # None
      BY <3>2, ResidencyAssumption, Zenon DEF Metas, ContentTypes
    <3> QED BY <2>2, <3>2, <3>3, Zenon
  <2> QED BY <2>1, <2>2, Zenon
<1>9. Landed(job)
  BY <1>5, <1>6, <1>7, <1>8, Zenon DEF Landed
<1> QED BY <1>9, Zenon DEF job

\* durable.
LEMMA LandSettles ==
  ASSUME IInv, NEW i \in DOMAIN jobs, Land(i)
  PROVE \E n : /\ objs' = [objs EXCEPT ![jobs[i].obj] = n]
               /\ Settled(n, objs[jobs[i].obj], jobs[i])
<1> DEFINE job == jobs[i]
           o == job.obj
           st == objs[o]
           x == st.pending - 1
           n1 == [st EXCEPT !.wtail = job.end, !.deadline = job.deadline, !.pc = "select"]
           n2 == [st EXCEPT !.pending = x]
           n == IF env.mode = "sync" THEN n1 ELSE n2
<1>1. objs' = [objs EXCEPT ![o] = durable(st, job)]
  BY Zenon DEF Land
<1>2. st \in Streamers
  <2>1. o \in Objs
    BY Zenon DEF IInv, TypeOK, JobOK
  <2> QED BY <2>1, TheStreamer, Zenon
<1>3. durable(st, job) = n
  <2>1. [applyWriter(st, job) EXCEPT !.pc = "select"] = n1
    BY <1>2, Zenon DEF Streamers, applyWriter
  <2> QED BY <2>1, Zenon DEF durable, released
<1> HIDE DEF st, x, o, job
<1>4. /\ n1.id = st.id /\ n1.pc = "select" /\ n1.wtail = job.end /\ n1.deadline = job.deadline
      /\ n2.id = st.id /\ n2.pc = st.pc /\ n2.wtail = st.wtail /\ n2.deadline = st.deadline
      /\ n2.pending = x
  BY <1>2, Zenon DEF Streamers
<1> HIDE DEF n1, n2
<1>5. Settled(n, st, job)
  BY <1>4, Zenon DEF Settled, Freed, x
<1> HIDE DEF n
<1> QED BY <1>1, <1>3, <1>5, Zenon DEF st, o, job

\* A burst of a stream that is there is its holder's, and lies past its tail.
LEMMA LandingIsAhead ==
  ASSUME Sizes, IInv, WInv, Undisturbed, NEW i \in DOMAIN jobs, Live(jobs[i].id)
  PROVE LET job == jobs[i]
        IN /\ job.obj = Holder /\ Holder \in Objs /\ Holder # 0 /\ objs[job.obj].id = job.id
           /\ tail[job.id] <= job.end /\ \A s \in DOMAIN job.puts : tail[job.id] <= s
           /\ env.mode = "sync" => job.old = meta.deadline
           /\ \A m \in DOMAIN jobs \ {i} : jobs[m].id = job.id /\ (i = 1 \/ env.mode = "sync") =>
                Behind(job, jobs[m])
<1> DEFINE job == jobs[i]
<1>1. \A m \in DOMAIN jobs : jobs[m].obj \in Objs /\ JobShape(jobs[m])
  BY Zenon DEF IInv, TypeOK, JobOK, WInv, Ordered
<1>2. HolderOnly /\ HolderAhead /\ JobAhead(job)
  BY Zenon DEF WInv
<1>3. \A m \in DOMAIN jobs : jobs[m].id = job.id => jobs[m].obj = Holder
  <2> SUFFICES ASSUME NEW m \in DOMAIN jobs, jobs[m].id = job.id PROVE jobs[m].obj = Holder
    BY Zenon
  <2>1. objs[jobs[m].obj].id = job.id /\ Active(jobs[m].obj)
    BY <1>1, Zenon DEF JobShape, Active
  <2> QED BY <1>1, <1>2, <2>1, Zenon DEF HolderOnly
<1>4. Holder # 0 /\ job.obj = Holder /\ Holder \in Objs
  <2>1. job.obj = Holder /\ Holder \in Objs
    BY <1>1, <1>3, Zenon
  <2> QED BY <2>1 DEF Objs
<1>5. objs[job.obj].id = job.id
  BY <1>1, Zenon DEF JobShape
<1>6. env.mode = "sync" => job.old = meta.deadline
  BY <1>1, <1>2, <1>4, <1>5, Zenon DEF HolderAhead, JobShape
<1>7. ASSUME NEW m \in DOMAIN jobs \ {i}, jobs[m].id = job.id, i = 1 \/ env.mode = "sync"
      PROVE  Behind(job, jobs[m])
  <2>1. jobs[m].obj = job.obj
    BY <1>3, <1>7, Zenon
  <2>2. env.mode # "sync"
    BY <1>7, <2>1, Zenon DEF WInv, Counted
  <2>3. i < m
    <3>1. DOMAIN jobs = 1..Len(jobs) /\ Len(jobs) \in Nat
      BY JobsOfFinite, Zenon
    <3> QED BY <1>7, <2>2, <3>1
  <2> QED BY <2>1, <2>3, Zenon DEF WInv, Ordered
<1> QED BY <1>2, <1>4, <1>5, <1>6, <1>7, Zenon DEF JobAhead

\* The burst becomes durable.
LEMMA LandKept ==
  ASSUME Sizes, IInv, WInv, NEW i \in DOMAIN jobs, Land(i)
  PROVE WInv'
<1> DEFINE job == jobs[i]
           o == job.obj
           st == objs[o]
<1>1. /\ UNCHANGED <<env, tomb, mapped, registry, del>>
      /\ jobs' = Without(jobs, i) /\ replyAll(job, TRUE) /\ (i = 1 \/ env.mode = "sync")
  BY Zenon DEF Land, otherVars
<1>2. o \in Objs /\ job.id \in DOMAIN tail /\ job.end \in Nat /\ job.deadline \in Nat
  BY Zenon DEF IInv, TypeOK, JobOK
<1>3. PICK n : objs' = [objs EXCEPT ![o] = n] /\ Settled(n, st, job)
  BY LandSettles, Zenon
<1>4. Landed(job)
  BY LandStores, Zenon
<1>5. JobShape(job)
  BY Zenon DEF WInv, Ordered
<1>6. /\ Counted' /\ Ordered'
      /\ \A q \in Objs : Active(q)' => Active(q)
      /\ \A k \in DOMAIN jobs' : \E m \in DOMAIN jobs \ {i} : jobs'[k] = jobs[m]
  <2>1. Freed(n, st)
    BY <1>3, Zenon DEF Settled
  <2> QED BY <1>1, <1>3, <2>1, LeavesQueue, Zenon
<1>7. /\ Objs' = Objs /\ Len(objs') = Len(objs) /\ objs'[o] = n
      /\ \A q \in Objs \ {o} : objs'[q] = objs[q]
  BY <1>2, <1>3, OneStreamer, Zenon
<1>8. /\ n.id = st.id /\ st.id = job.id
      /\ env.mode = "sync" => n.wtail = job.end /\ n.deadline = job.deadline
      /\ env.mode # "sync" => n.wtail = st.wtail
      /\ \A q \in Objs : objs'[q].id = objs[q].id
  BY <1>3, <1>5, <1>7, Zenon DEF Settled, Freed, JobShape
<1>9. /\ \/ meta' = meta /\ job.deadline = job.old
         \/ meta' # None /\ meta'.id = job.id /\ meta'.deadline = job.deadline /\ env.ttl # 0
      /\ DOMAIN tail' = DOMAIN tail /\ Len(tail') = Len(tail)
  BY <1>4, <1>5, Zenon DEF Landed, JobShape
<1>10. (Steady => OnPath)'
  BY <1>1, <1>2, <1>8, <1>9, PathKept, Zenon
<1>11. Holder' = Holder /\ mapped' = mapped /\ tomb' = tomb
  BY <1>1, Zenon DEF Holder
<1>12. ASSUME Undisturbed, Live(job.id)
       PROVE  /\ o = Holder
              /\ tail[job.id] <= job.end /\ \A s \in DOMAIN job.puts : tail[job.id] <= s
              /\ env.mode = "sync" => job.old = meta.deadline /\ meta'.deadline = job.deadline
              /\ \A m \in DOMAIN jobs \ {i} : jobs[m].id = job.id => Behind(job, jobs[m])
  <2>1. /\ o = Holder
        /\ tail[job.id] <= job.end /\ \A s \in DOMAIN job.puts : tail[job.id] <= s
        /\ env.mode = "sync" => job.old = meta.deadline
        /\ \A m \in DOMAIN jobs \ {i} : jobs[m].id = job.id => Behind(job, jobs[m])
    BY <1>1, <1>12, LandingIsAhead, Zenon
  <2> QED BY <1>9, <2>1, Zenon
<1>13. ASSUME Undisturbed, NEW id \in DOMAIN tail, id # job.id
       PROVE  meta' = meta /\ tail'[id] = tail[id] /\ recs'[id] = recs[id]
  <2>1. env.ttl = 0
    BY <1>2, <1>13, OneStream, Zenon DEF Undisturbed
  <2> QED BY <1>4, <1>9, <1>13, <2>1, Zenon DEF Landed
<1> HIDE DEF job, o
<1>14. (Undisturbed => HolderOnly /\ HolderAhead /\ \A k \in DOMAIN jobs : JobAhead(jobs[k]))'
  <2> SUFFICES ASSUME Undisturbed
               PROVE (HolderOnly /\ HolderAhead /\ \A k \in DOMAIN jobs : JobAhead(jobs[k]))'
    BY <1>1, <1>9, Zenon DEF Undisturbed, Steady
  <2>1. HolderOnly /\ HolderAhead /\ \A k \in DOMAIN jobs : JobAhead(jobs[k])
    BY Zenon DEF WInv
  <2>2. HolderOnly'
    <3> SUFFICES ASSUME NEW q \in Objs, Live(objs[q].id)', Active(q)' PROVE q = Holder'
      BY <1>7, Zenon DEF HolderOnly
    <3>1. Live(objs[q].id)
      <4>1. Live(objs'[q].id)
        BY <1>11 DEF Live
      <4> QED BY <1>8, <4>1, Zenon
    <3> QED BY <1>6, <1>11, <2>1, <3>1, Zenon DEF HolderOnly
  <2>3. HolderAhead'
    <3>0. SUFFICES ASSUME Holder' # 0, Live(objs[Holder].id)'
                   PROVE /\ tail'[objs'[Holder'].id] <= objs'[Holder'].wtail
                         /\ env.mode = "sync" => objs'[Holder'].deadline = meta'.deadline
      BY <1>1, Zenon DEF HolderAhead
    <3>1. Holder # 0 /\ Live(objs'[Holder].id)
      <4>1. Live(objs'[Holder'].id)
        BY <1>11, <3>0 DEF Live
      <4> QED BY <1>11, <3>0, <4>1, Zenon
    <3>2. Holder \in Objs
      <4>1. registry \in 0..Len(objs)
        BY Zenon DEF IInv, Pointers
      <4>2. Holder \in 0..Len(objs)
        BY <4>1, Zenon DEF Holder, WInv
      <4> QED BY <3>1, <4>2 DEF Objs
    <3>3. Live(objs[Holder].id) /\ objs[Holder].id \in DOMAIN tail
      BY <1>8, <3>1, <3>2, Zenon DEF IInv, TypeOK
    <3>4. CASE objs[Holder].id = job.id
      <4>1. o = Holder /\ (env.mode = "sync" => meta'.deadline = job.deadline)
        BY <1>12, <3>3, <3>4, Zenon
      <4>2. objs'[Holder'] = n /\ n.id = job.id /\ tail'[job.id] = job.end
        BY <1>4, <1>7, <1>8, <1>11, <4>1, Zenon DEF Landed
      <4>3. job.end <= n.wtail
        <5>1. CASE env.mode = "sync"
          <6>1. job.end <= job.end
            BY <1>2
          <6> QED BY <1>8, <5>1, <6>1, Zenon
        <5>2. CASE env.mode # "sync"
          BY <1>5, <1>8, <5>2, Zenon DEF JobShape, o
        <5> QED BY <5>1, <5>2, Zenon
      <4> QED BY <1>8, <4>1, <4>2, <4>3, Zenon
    <3>5. CASE objs[Holder].id # job.id
      <4>1. Holder # o
        BY <1>8, <3>5, Zenon
      <4>2. objs'[Holder'] = objs[Holder]
        BY <1>7, <1>11, <3>2, <4>1, Zenon
      <4>3. meta' = meta /\ tail'[objs[Holder].id] = tail[objs[Holder].id]
        BY <1>13, <3>3, <3>5, Zenon
      <4>4. /\ tail[objs[Holder].id] <= objs[Holder].wtail
            /\ env.mode = "sync" => objs[Holder].deadline = meta.deadline
        BY <2>1, <3>1, <3>3, Zenon DEF HolderAhead
      <4> QED BY <4>2, <4>3, <4>4, Zenon
    <3> QED BY <3>4, <3>5, Zenon
  <2>4. ASSUME NEW k \in DOMAIN jobs' PROVE JobAhead(jobs[k])'
    <3>1. PICK m \in DOMAIN jobs \ {i} : jobs'[k] = jobs[m]
      BY <1>6, <2>4, Zenon
    <3>2. JobAhead(jobs[m]) /\ jobs[m].id \in DOMAIN tail
      BY <2>1, Zenon DEF IInv, TypeOK, JobOK
    <3>3. ASSUME Live(jobs[m].id)
          PROVE  /\ tail'[jobs[m].id] <= jobs[m].end
                 /\ \A s \in DOMAIN jobs[m].puts : tail'[jobs[m].id] <= s
      <4>1. CASE jobs[m].id # job.id
        BY <1>13, <3>2, <3>3, <4>1, Zenon DEF JobAhead
      <4>2. CASE jobs[m].id = job.id
        <5>1. Behind(job, jobs[m])
          BY <1>12, <3>3, <4>2, Zenon
        <5>2. tail'[job.id] = job.end
          BY <1>4, Zenon DEF Landed
        <5> QED BY <4>2, <5>1, <5>2, Zenon DEF Behind
      <4> QED BY <4>1, <4>2, Zenon
    <3> QED BY <1>11, <3>1, <3>3, Zenon DEF JobAhead, Live
  <2> QED BY <2>2, <2>3, <2>4, Zenon
<1>14a. /\ env' = env /\ DOMAIN tail' = DOMAIN tail
        /\ Undisturbed' => Undisturbed
        /\ \A id : Live(id)' => Live(id)
  <2>1. env' = env /\ DOMAIN tail' = DOMAIN tail /\ Len(tail') = Len(tail)
    BY <1>1, <1>9, Zenon
  <2>2. Undisturbed' => Undisturbed
    BY <2>1, Zenon DEF Undisturbed, Steady
  <2>3. \A id : Live(id)' => Live(id)
    BY <1>11, Zenon DEF Live
  <2> QED BY <2>1, <2>2, <2>3, Zenon
<1>15. ASSUME NEW a \in answers PROVE AnswerOK(a)'
  <2>1. AnswerOK(a)
    BY Zenon DEF WInv
  <2> SUFFICES ASSUME a.status = "ok" PROVE AnswerOK(a)'
    BY Zenon DEF AnswerOK
  <2>2. a.id \in DOMAIN tail /\ a.at \in Nat /\ (a.n = 1 => a.seq \in Nat)
    BY <2>1, Zenon DEF AnswerOK
  <2>3. ASSUME Undisturbed, Live(a.id)
        PROVE  /\ a.n = 1 => a.seq < tail'[a.id] /\ Stored(a)'
               /\ env.mode = "sync" /\ env.ttl > 0 => meta'.deadline > a.at + env.ttl
    <3>1. /\ a.n = 1 => a.seq < tail[a.id] /\ Stored(a)
          /\ env.mode = "sync" /\ env.ttl > 0 => meta.deadline > a.at + env.ttl
      BY <2>1, <2>3, Zenon DEF AnswerOK
    <3>2. CASE a.id # job.id
      BY <1>13, <2>2, <2>3, <3>1, <3>2, Zenon DEF Stored
    <3>3. CASE a.id = job.id
      <4>1. /\ tail[a.id] <= job.end /\ \A s \in DOMAIN job.puts : tail[a.id] <= s
            /\ env.mode = "sync" => job.old = meta.deadline /\ meta'.deadline = job.deadline
        BY <1>12, <2>3, <3>3, Zenon
      <4>2. /\ tail[a.id] \in Nat /\ env.ttl \in Nat
            /\ \A s \in DOMAIN job.puts : s \in Nat
            /\ job.old \in Nat /\ job.old <= job.deadline
        <5>1. tail \in Seq(Nat) /\ env \in Settings
          BY Zenon DEF IInv, TypeOK
        <5>2. tail[a.id] \in Nat /\ env.ttl \in Nat
          BY <2>2, <5>1, ResidencyAssumption
        <5> QED BY <1>5, <5>2, Zenon DEF JobShape
      <4>3. a.n = 1 => a.seq < job.end /\ a.seq \notin DOMAIN job.puts
        <5>1. \A x, y, z \in Nat : x < y /\ y <= z => x < z
          OBVIOUS
        <5>2. \A x, y \in Nat : ~(x < y /\ y <= x)
          OBVIOUS
        <5> QED BY <1>2, <2>2, <3>1, <4>1, <4>2, <5>1, <5>2, Zenon
      <4>4. a.n = 1 => a.seq < tail'[a.id] /\ Stored(a)'
        BY <1>4, <3>1, <3>3, <4>3, Zenon DEF Landed, Stored
      <4>5. env.mode = "sync" /\ env.ttl > 0 => meta'.deadline > a.at + env.ttl
        <5> SUFFICES ASSUME env.mode = "sync", env.ttl > 0 PROVE job.deadline > a.at + env.ttl
          BY <4>1, Zenon
        <5>1. job.old > a.at + env.ttl
          BY <3>1, <4>1, Zenon
        <5> QED BY <1>2, <2>2, <4>2, <5>1
      <4> QED BY <4>4, <4>5, Zenon
    <3> QED BY <3>2, <3>3, Zenon
  <2> QED BY <1>14a, <2>2, <2>3, Zenon DEF AnswerOK
<1>16. ASSUME NEW a \in answers', a \notin answers PROVE AnswerOK(a)'
  <2>1. PICK b \in DOMAIN job.batch :
          /\ a.k = post[job.batch[b].p].k /\ a.status = Status(job.batch[b], TRUE)
          /\ a.id = job.id /\ a.seq = job.batch[b].seq /\ a.n = job.batch[b].n /\ a.at = job.at
    BY <1>1, <1>16, RepliesOf, Zenon
  <2>2. a.status = "ok" => job.batch[b].ok
    BY <2>1 DEF Status
  <2> SUFFICES ASSUME a.status = "ok" PROVE AnswerOK(a)'
    BY Zenon DEF AnswerOK
  <2>3. ItemOK(job, job.batch[b]) /\ job.at \in Nat /\ \A s \in DOMAIN job.puts : s \in Nat /\ s < job.end
    BY <1>5, Zenon DEF JobShape
  <2>4. a.n = 1 => a.seq \in DOMAIN job.puts /\ job.puts[a.seq] = a.k
    BY <2>1, <2>2, <2>3, Zenon DEF ItemOK
  <2>5. a.n = 1 => a.seq < tail'[a.id] /\ Stored(a)'
    BY <1>4, <2>1, <2>3, <2>4, Zenon DEF Landed, Stored
  <2>6. env.ttl > 0 => job.deadline > a.at + env.ttl
    BY <2>1, <2>2, <2>3, Zenon DEF ItemOK
  <2>7. Undisturbed /\ Live(a.id) /\ env.mode = "sync" => meta'.deadline = job.deadline
    BY <1>12, <2>1, Zenon
  <2>8. a.id \in DOMAIN tail /\ a.at \in Nat /\ (a.n = 1 => a.seq \in Nat)
    BY <1>2, <2>1, <2>3, <2>4, Zenon
  <2> QED BY <1>14a, <2>5, <2>6, <2>7, <2>8, Zenon DEF AnswerOK
<1>17. (\A a \in answers : AnswerOK(a))'
  BY <1>15, <1>16, Zenon
<1>18. /\ IsSeq(recs)' /\ (Len(recs) = Len(tail) /\ Len(tail) > 0)'
       /\ (del.pc \in {"stop", "commit"} => del.obj \in 0..Len(objs))'
  BY <1>1, <1>4, <1>7, Zenon DEF WInv, Landed, IsSeq
<1> QED BY <1>6, <1>10, <1>14, <1>17, <1>18, Zenon DEF WInv

-----------------------------------------------------------------------------
(* The invariant holds initially, and every step keeps it. *)

\* The stream was just created: nobody has the path, nothing is in flight.
LEMMA InitWriter == Init => WInv
<1> SUFFICES ASSUME Init PROVE WInv BY Zenon
<1>1. IInv
  BY InitInv, Zenon
<1>2. /\ registry = 0 /\ jobs = << >> /\ objs = << >> /\ answers = {} /\ mapped = {1}
      /\ del = NoDelete /\ recs = <<<< >>>> /\ tail = <<0>>
  BY Zenon DEF Init
<1>3. DOMAIN jobs = {} /\ Objs = {} /\ Len(tail) = 1 /\ Len(recs) = 1 /\ recs \in Seq({<< >>})
  BY <1>2 DEF Objs
<1>4. IsSeq(recs) /\ Len(recs) = Len(tail) /\ Len(tail) > 0
  <2>1. IsSeq(recs)
    BY <1>3, SeqOfItself, Zenon
  <2>2. Len(recs) = Len(tail) /\ Len(tail) > 0
    BY <1>3
  <2> QED BY <2>1, <2>2
<1>5. del.pc = "idle" /\ del.pc \notin {"stop", "commit"}
  <2>1. "idle" \notin {"stop", "commit"}
    OBVIOUS
  <2> QED BY <1>2, <2>1, Zenon DEF NoDelete
<1>6. meta # None /\ meta.id = 1
  <2>1. env \in Settings /\ env.types # {} /\ env.ttl \in Nat
    BY ResidencyAssumption, Zenon DEF Init
  <2>2. (CHOOSE t \in env.types : TRUE) \in ContentTypes
    BY <2>1, Zenon DEF ContentTypes
  <2>3. initialDeadline \in Nat
    BY <2>1 DEF Init, initialDeadline
  <2>4. 1 \in Nat
    OBVIOUS
  <2>5. meta \in Metas /\ meta.id = 1
    BY <2>2, <2>3, <2>4, Zenon DEF Init, Metas
  <2> QED BY <2>5, ResidencyAssumption, Zenon DEF Metas, ContentTypes
<1>7. OnPath
  BY <1>2, <1>5, <1>6, Zenon DEF OnPath, NoZombie
<1>8. Counted /\ Ordered /\ HolderOnly
  BY <1>3, Zenon DEF Counted, Ordered, HolderOnly
<1>9. HolderAhead
  BY <1>2, <1>5, Zenon DEF HolderAhead, Holder
<1> QED BY <1>2, <1>3, <1>4, <1>5, <1>7, <1>8, <1>9, Zenon DEF WInv

\* Every step keeps the invariant.
LEMMA NextWriter ==
  Sizes /\ IInv /\ WInv /\ [Next]_vars => WInv'
<1> SUFFICES ASSUME Sizes, IInv, WInv, [Next]_vars PROVE WInv' BY Zenon
<1> DEFINE Quiet ==
      UNCHANGED <<env, meta, tomb, mapped, recs, tail, jobs, registry, del, answers, post, objs>>
<1>a. Quiet => WInv'
  BY QuietKept, Zenon
<1>1. CASE UNCHANGED vars
  <2>1. Quiet
    BY <1>1, Zenon DEF vars, storeVars, runVars, callVars, otherVars
  <2> QED BY <1>a, <2>1, Zenon
<1>2. CASE WriteChecks \/ Flush \/ FlushDone \/ sweepOnce \/ Tick
  <2>1. Quiet
    BY <1>2, ZenonT(30) DEF WriteChecks, Flush, FlushDone, sweepOnce, Tick, storeVars, runVars, callVars, otherVars
  <2> QED BY <1>a, <2>1, Zenon
<1> HIDE DEF Quiet
<1>3. CASE \E p \in Posters : Post(p) \/ Poster(p) \/ AppendCancelled(p)
  BY <1>3, CallMoves, SpawnMoves, SubmitMoves, ZenonT(30) DEF Poster
<1>4. CASE \E o \in Objs : Runner(o) \/ Dormant(o)
  BY <1>4, BurstKept, TouchedKept, RetireKept, StoppedKept, DormantKept, ZenonT(30) DEF Runner
<1>5. CASE \E i \in DOMAIN jobs : Land(i) \/ LandRefused(i)
  BY <1>5, LandKept, LandRefusedKept, ZenonT(30)
<1>6. CASE deleteStream \/ \E e \in dues : expireIfDue(e)
  BY <1>6, DeleteKept, Zenon
<1>7. CASE Write \/ TouchResolve \/ touchStream \/ CreateStream \/ Deleter
  BY <1>7, WriteKept, SpawnMoves, TouchMoves, CreateKept, RemoveEntryKept, StopStreamerKept,
     CommitDeleteKept, ZenonT(30) DEF Deleter
<1> QED BY <1>1, <1>2, <1>3, <1>4, <1>5, <1>6, <1>7, ZenonT(30) DEF Next, Sweeper

-----------------------------------------------------------------------------
(* What a nil Flush covers. *)

\* A Writer's call has its record from its hint on, and so has its burst.
HasRecord(c) == c.pc \in {"submit", "send", "respawn", "wait"} => c.n = 1
AllRecords(job) == \A b \in DOMAIN job.batch : job.batch[b].n = 1

\* Every call that began is under way or answered; those a Flush covered were
\* answered with success.
FInv ==
  /\ upto \in Nat /\ (~env.writer => writer = "ready" /\ upto = 0)
  /\ \A k \in 1..sent : \/ \E p \in Posters : post[p].pc # "idle" /\ post[p].k = k
                        \/ \E a \in answers : a.k = k
  /\ env.writer => /\ \A p \in Posters : HasRecord(post[p])
                   /\ \A i \in DOMAIN jobs : AllRecords(jobs[i])
                   /\ \A a \in answers : a.status = "ok" => a.n = 1
  /\ \A k \in 1..upto : \E a \in answers : a.k = k /\ a.status = "ok"

\* No call is forgotten, and none succeeds without its record.
LEMMA FlushKept ==
  ASSUME FInv, UNCHANGED <<env, sent, upto>>, ~env.writer => writer' = "ready",
         answers \subseteq answers',
         \A p \in Posters : post[p].pc # "idle" =>
           \/ post'[p].pc # "idle" /\ post'[p].k = post[p].k
           \/ \E a \in answers' : a.k = post[p].k,
         env.writer => /\ \A p \in Posters : HasRecord(post'[p])
                       /\ \A i \in DOMAIN jobs' : AllRecords(jobs'[i])
                       /\ \A a \in answers' : a \in answers \/ a.status # "ok" \/ a.n = 1
  PROVE FInv'
<1>1. \A k \in 1..sent : \/ \E p \in Posters : post'[p].pc # "idle" /\ post'[p].k = k
                         \/ \E a \in answers' : a.k = k
  <2> SUFFICES ASSUME NEW k \in 1..sent
               PROVE \/ \E p \in Posters : post'[p].pc # "idle" /\ post'[p].k = k
                     \/ \E a \in answers' : a.k = k
    BY Zenon
  <2>1. CASE \E a \in answers : a.k = k
    BY <2>1, Zenon
  <2>2. CASE \E p \in Posters : post[p].pc # "idle" /\ post[p].k = k
    BY <2>2, Zenon
  <2> QED BY <2>1, <2>2, Zenon DEF FInv
<1>2. \A k \in 1..upto : \E a \in answers' : a.k = k /\ a.status = "ok"
  BY Zenon DEF FInv
<1>3. env.writer => \A a \in answers' : a.status = "ok" => a.n = 1
  BY Zenon DEF FInv
<1>4. \A c : HasRecord(c)' <=> HasRecord(c)
  BY Zenon DEF HasRecord
<1>5. \A job : AllRecords(job)' <=> AllRecords(job)
  BY Zenon DEF AllRecords
<1>6. upto \in Nat /\ (~env.writer => upto = 0)
  BY Zenon DEF FInv
<1> QED BY <1>1, <1>2, <1>3, <1>4, <1>5, <1>6, Zenon DEF FInv

\* Nothing happens to the calls.
LEMMA FlushQuiet ==
  ASSUME FInv, UNCHANGED <<env, sent, upto, post, jobs, answers>>, ~env.writer => writer' = "ready"
  PROVE FInv'
<1>1. env.writer => /\ \A p \in Posters : HasRecord(post'[p])
                    /\ \A i \in DOMAIN jobs' : AllRecords(jobs'[i])
                    /\ \A a \in answers' : a \in answers \/ a.status # "ok" \/ a.n = 1
  BY Zenon DEF FInv
<1> QED BY <1>1, FlushKept, Zenon

\* One call moves, or is answered without success.
LEMMA FlushCall ==
  ASSUME FInv, UNCHANGED <<env, sent, upto, writer, jobs>>, NEW p \in Posters,
         \A q \in Posters \ {p} : post'[q] = post[q],
         answers \subseteq answers', \A a \in answers' : a \in answers \/ a.status # "ok",
         \/ post'[p].pc # "idle" /\ post'[p].k = post[p].k
         \/ \E a \in answers' : a.k = post[p].k,
         env.writer => HasRecord(post'[p])
  PROVE FInv'
<1>1. env.writer => /\ \A q \in Posters : HasRecord(post'[q])
                    /\ \A i \in DOMAIN jobs' : AllRecords(jobs'[i])
                    /\ \A a \in answers' : a \in answers \/ a.status # "ok" \/ a.n = 1
  BY Zenon DEF FInv
<1>2. \A q \in Posters : post[q].pc # "idle" =>
        \/ post'[q].pc # "idle" /\ post'[q].k = post[q].k
        \/ \E a \in answers' : a.k = post[q].k
  BY Zenon
<1>3. ~env.writer => writer' = "ready"
  BY Zenon DEF FInv
<1> QED BY <1>1, <1>2, <1>3, FlushKept, Zenon

\* A call that returns is answered.
LEMMA FlushReturn ==
  ASSUME IInv, FInv, UNCHANGED <<env, sent, upto, writer, jobs>>, NEW p \in Posters,
         NEW status, status # "ok", Return(p, status)
  PROVE FInv'
<1>1. /\ \A q \in Posters \ {p} : post'[q] = post[q]
      /\ \A a \in answers' : a \in answers \/ a.status # "ok"
  BY ReturnKept, Zenon
<1>2. Reply(p, status) \in answers' /\ answers \subseteq answers'
  BY Zenon DEF Return
<1>3. Reply(p, status).k = post[p].k
  BY Zenon DEF Reply
<1>4. post'[p] = Idle
  BY Zenon DEF Return, IInv, TypeOK
<1>5. HasRecord(post'[p])
  <2>1. Idle.pc = "idle"
    BY IdleCall, Zenon
  <2> QED BY <1>4, <2>1 DEF HasRecord
<1> QED BY <1>1, <1>2, <1>3, <1>5, FlushCall, Zenon

\* A call begins.
LEMMA FlushBegin ==
  ASSUME IInv, FInv, UNCHANGED <<env, upto, jobs, answers>>, ~env.writer => writer' = "ready",
         NEW p \in Posters, NEW ct, post[p].pc = "idle", Begin(p, ct)
  PROVE FInv'
<1>1. /\ \A q \in Posters \ {p} : post'[q] = post[q]
      /\ post'[p].pc = "resolve" /\ post'[p].k = sent + 1
      /\ sent' = sent + 1 /\ sent \in Nat
  BY Zenon DEF Begin, IInv, TypeOK
<1>2. \A k \in 1..sent' : k \in 1..sent \/ k = sent + 1
  BY <1>1
<1>3. \A k \in 1..sent' : \/ \E q \in Posters : post'[q].pc # "idle" /\ post'[q].k = k
                          \/ \E a \in answers' : a.k = k
  <2> SUFFICES ASSUME NEW k \in 1..sent'
               PROVE \/ \E q \in Posters : post'[q].pc # "idle" /\ post'[q].k = k
                     \/ \E a \in answers : a.k = k
    BY Zenon
  <2>1. CASE k = sent + 1
    <3>1. post'[p].pc # "idle"
      BY <1>1
    <3> QED BY <1>1, <2>1, <3>1, Zenon
  <2>2. CASE k \in 1..sent
    <3>1. CASE \E q \in Posters : post[q].pc # "idle" /\ post[q].k = k
      <4>1. PICK q \in Posters : post[q].pc # "idle" /\ post[q].k = k
        BY <3>1, Zenon
      <4>2. q # p
        BY <4>1, Zenon
      <4> QED BY <1>1, <4>1, <4>2, Zenon
    <3> QED BY <2>2, <3>1, Zenon DEF FInv
  <2> QED BY <1>2, <2>1, <2>2, Zenon
<1>4. HasRecord(post'[p])
  BY <1>1 DEF HasRecord
<1>5. env.writer => \A q \in Posters : HasRecord(post'[q])
  BY <1>1, <1>4, Zenon DEF FInv
<1>6. \A c : HasRecord(c)' <=> HasRecord(c)
  BY Zenon DEF HasRecord
<1>7. \A job : AllRecords(job)' <=> AllRecords(job)
  BY Zenon DEF AllRecords
<1> QED BY <1>3, <1>5, <1>6, <1>7, Zenon DEF FInv

\* A burst's calls are answered.
LEMMA FlushReplied ==
  ASSUME IInv, FInv, UNCHANGED <<env, sent, upto, writer>>,
         NEW job, NEW good, replyAll(job, good), env.writer => AllRecords(job),
         env.writer => \A i \in DOMAIN jobs' : AllRecords(jobs'[i])
  PROVE FInv'
<1> DEFINE r(b) == [k |-> post[job.batch[b].p].k, status |-> Status(job.batch[b], good), id |-> job.id,
                    seq |-> job.batch[b].seq, n |-> job.batch[b].n,
                    there |-> post[job.batch[b].p].there, at |-> job.at]
<1>1. answers' = answers \cup {r(b) : b \in DOMAIN job.batch}
  BY Zenon DEF replyAll
<1>2. \A b \in DOMAIN job.batch : r(b).k = post[job.batch[b].p].k /\ r(b).n = job.batch[b].n
  BY Zenon
<1> HIDE DEF r
<1>3. answers \subseteq answers' /\ \A b \in DOMAIN job.batch : r(b) \in answers'
  BY <1>1, Zenon
<1>4. post' = [p \in Posters |-> IF p \in InFlight(job) THEN Idle ELSE post[p]]
  BY ReplyAll, Zenon
<1>5. \A p \in Posters : post[p].pc # "idle" =>
        \/ post'[p].pc # "idle" /\ post'[p].k = post[p].k
        \/ \E a \in answers' : a.k = post[p].k
  <2> SUFFICES ASSUME NEW p \in Posters, post[p].pc # "idle"
               PROVE \/ post'[p].pc # "idle" /\ post'[p].k = post[p].k
                     \/ \E a \in answers' : a.k = post[p].k
    BY Zenon
  <2>1. CASE p \in InFlight(job)
    <3>1. PICK b \in DOMAIN job.batch : job.batch[b].p = p
      BY <2>1, Zenon DEF InFlight
    <3> QED BY <1>2, <1>3, <3>1, Zenon
  <2>2. CASE p \notin InFlight(job)
    BY <1>4, <2>2, Zenon
  <2> QED BY <2>1, <2>2, Zenon
<1>6. env.writer => \A p \in Posters : HasRecord(post'[p])
  <2>1. Idle.pc = "idle"
    BY IdleCall, Zenon
  <2>2. HasRecord(Idle)
    BY <2>1 DEF HasRecord
  <2>3. \A p \in Posters : post'[p] = Idle \/ post'[p] = post[p]
    BY <1>4, Zenon
  <2> QED BY <2>2, <2>3, Zenon DEF FInv
<1>7. env.writer => \A a \in answers' : a \in answers \/ a.status # "ok" \/ a.n = 1
  BY <1>1, <1>2, Zenon DEF AllRecords
<1>8. ~env.writer => writer' = "ready"
  BY Zenon DEF FInv
<1> QED BY <1>3, <1>5, <1>6, <1>7, <1>8, FlushKept, Zenon

\* A call resolves its streamer, submits or gives up.
LEMMA FlushPoster ==
  ASSUME IInv, FInv, NEW p \in Posters, Poster(p) \/ AppendCancelled(p)
  PROVE FInv'
<1>1. UNCHANGED <<env, sent, upto, writer, jobs>>
  BY ZenonT(30) DEF Poster, Resolve, Spawn, submitAppend, Send, AppendCancelled, storeVars, runVars, otherVars
<1>2. post \in [Posters -> Calls] /\ post[p] \in Calls
  BY Zenon DEF IInv, TypeOK
<1>3. CASE \E status : status # "ok" /\ Return(p, status)
  BY <1>1, <1>3, FlushReturn, Zenon
<1>4. CASE /\ UNCHANGED answers
           /\ \E c : /\ post' = [post EXCEPT ![p] = c]
                     /\ c.pc # "idle" /\ c.k = post[p].k /\ (env.writer => HasRecord(c))
  <2>1. PICK c : /\ post' = [post EXCEPT ![p] = c]
                 /\ c.pc # "idle" /\ c.k = post[p].k /\ (env.writer => HasRecord(c))
    BY <1>4, Zenon
  <2>2. post'[p] = c /\ \A q \in Posters \ {p} : post'[q] = post[q]
    BY <1>2, <2>1, Zenon
  <2> QED BY <1>1, <1>4, <2>1, <2>2, FlushCall, Zenon
<1>6. env.writer => HasRecord(post[p])
  BY Zenon DEF FInv
<1>7. ASSUME NEW pc \in {"spawn", "respawn", "wait", "send"}, post' = [post EXCEPT ![p].pc = pc],
             UNCHANGED answers, pc = "spawn" \/ post[p].pc \in {"submit", "send", "respawn", "wait"}
      PROVE  FInv'
  <2> DEFINE c == [post[p] EXCEPT !.pc = pc]
  <2>1. post' = [post EXCEPT ![p] = c]
    BY <1>7, Zenon
  <2>2. c.pc = pc /\ c.k = post[p].k /\ c.n = post[p].n
    BY <1>2, Zenon DEF Calls
  <2> HIDE DEF c
  <2>3. pc # "idle" /\ (pc = "spawn" => pc \notin {"submit", "send", "respawn", "wait"})
    BY <1>7
  <2>4. env.writer => HasRecord(c)
    BY <1>6, <1>7, <2>2, <2>3, Zenon DEF HasRecord
  <2> QED BY <1>4, <1>7, <2>1, <2>2, <2>3, <2>4, Zenon
<1>8. ASSUME NEW o, NEW st, Hinted(p, o, st), UNCHANGED answers PROVE FInv'
  <2> DEFINE ct == IF env.writer THEN st.ct ELSE post[p].ct
             r == IF st.ct = ct THEN 1 ELSE 0
             c == [post[p] EXCEPT !.pc = "submit", !.st = o, !.ct = ct, !.n = r]
  <2>1. post' = [post EXCEPT ![p] = c]
    BY <1>8, Zenon DEF Hinted
  <2>2. env.writer => r = 1
    BY Zenon
  <2> HIDE DEF ct, r
  <2>3. c.pc = "submit" /\ c.k = post[p].k /\ c.n = r
    BY <1>2, Zenon DEF Calls
  <2> HIDE DEF c
  <2>4. "submit" # "idle"
    OBVIOUS
  <2>5. env.writer => HasRecord(c)
    BY <2>2, <2>3, Zenon DEF HasRecord
  <2> QED BY <1>4, <1>8, <2>1, <2>3, <2>4, <2>5, Zenon
<1>9. CASE Resolve(p) \/ AppendCancelled(p)
  <2>1. "gone" # "ok" /\ "cancelled" # "ok"
    OBVIOUS
  <2> QED BY <1>3, <1>7, <1>8, <1>9, <2>1, Zenon DEF Resolve, AppendCancelled
<1>10. CASE Spawn(p)
  <2>1. "notfound" # "ok"
    OBVIOUS
  <2>2. CASE Return(p, "notfound")
    BY <1>3, <2>1, <2>2, Zenon
  <2>3. CASE Hinted(p, registry', objs'[registry']) /\ UNCHANGED answers
    BY <1>8, <2>3, Zenon
  <2>4. CASE /\ post[p].pc # "spawn" /\ UNCHANGED answers
             /\ post' = [post EXCEPT ![p].pc = "submit", ![p].st = registry']
    <3> DEFINE c == [post[p] EXCEPT !.pc = "submit", !.st = registry']
    <3>1. post' = [post EXCEPT ![p] = c]
      BY <2>4, Zenon
    <3>2. c.pc = "submit" /\ c.k = post[p].k /\ c.n = post[p].n
      BY <1>2, Zenon DEF Calls
    <3> HIDE DEF c
    <3>3. "submit" # "idle" /\ post[p].pc = "respawn"
      BY <1>10, <2>4 DEF Spawn
    <3>4. env.writer => HasRecord(c)
      BY <1>6, <3>2, <3>3, Zenon DEF HasRecord
    <3> QED BY <1>4, <2>4, <3>1, <3>2, <3>3, <3>4, Zenon
  <2> QED BY <1>10, <2>2, <2>3, <2>4, Zenon DEF Spawn
<1>11. CASE submitAppend(p) \/ Send(p)
  BY <1>7, <1>11, Zenon DEF submitAppend, Send
<1> QED BY <1>9, <1>10, <1>11, Zenon DEF Poster

\* The run loop drains its channel: every call in it waits.
LEMMA FlushBurst ==
  ASSUME IInv, FInv, NEW o \in Objs, Burst(o)
  PROVE FInv'
<1> DEFINE st == objs[o]
           job == processBurst(o)
<1>1. /\ UNCHANGED <<env, sent, upto, writer>>
      /\ \/ replyAll(job, TRUE) /\ UNCHANGED jobs
         \/ jobs' = Append(jobs, job) /\ UNCHANGED <<post, answers>>
  BY Zenon DEF Burst
<1>2. env.writer => AllRecords(job)
  <2>1. job.batch = items(st)
    BY Zenon DEF processBurst
  <2>2. DOMAIN items(st) = 1..Len(st.reqs) /\ \A b \in 1..Len(st.reqs) : items(st)[b].n = post[st.reqs[b]].n
    BY Zenon DEF items
  <2>3. DOMAIN st.reqs = 1..Len(st.reqs)
    <3>1. st.reqs \in Seq(Posters)
      BY TheStreamer, Zenon
    <3> QED BY <3>1
  <2>4. \A b \in DOMAIN st.reqs : st.reqs[b] \in Posters /\ post[st.reqs[b]].pc = "wait"
    BY Zenon DEF IInv, Placed, Queued
  <2> HIDE DEF job
  <2>5. env.writer => \A p \in Posters : post[p].pc = "wait" => post[p].n = 1
    BY Zenon DEF FInv, HasRecord
  <2> QED BY <2>1, <2>2, <2>3, <2>4, <2>5, Zenon DEF AllRecords
<1> HIDE DEF job
<1>3. env.writer => \A i \in DOMAIN jobs : AllRecords(jobs[i])
  BY Zenon DEF FInv
<1>4. CASE replyAll(job, TRUE) /\ UNCHANGED jobs
  BY <1>1, <1>2, <1>3, <1>4, FlushReplied, Zenon
<1>5. CASE jobs' = Append(jobs, job) /\ UNCHANGED <<post, answers>>
  <2>1. IsSeq(jobs)
    BY Zenon DEF IInv, TypeOK
  <2>2. /\ Len(jobs) \in Nat
        /\ DOMAIN Append(jobs, job) = 1..(Len(jobs) + 1) /\ DOMAIN jobs = 1..Len(jobs)
        /\ \A i \in 1..Len(jobs) : Append(jobs, job)[i] = jobs[i]
        /\ Append(jobs, job)[Len(jobs) + 1] = job
    <3>1. Appended(jobs, job, Append(jobs, job))
      BY <2>1, AppendAny, Zenon
    <3> QED BY <3>1, Zenon DEF Appended
  <2>3. ASSUME NEW i \in DOMAIN jobs'
        PROVE  jobs'[i] = job \/ (i \in DOMAIN jobs /\ jobs'[i] = jobs[i])
    <3>1. jobs' = Append(jobs, job)
      BY <1>5, Zenon
    <3>2. i \in 1..(Len(jobs) + 1)
      BY <2>2, <2>3, <3>1, Zenon
    <3>3. i = Len(jobs) + 1 \/ i \in 1..Len(jobs)
      BY <2>2, <3>2
    <3>4. CASE i = Len(jobs) + 1
      <4>1. Append(jobs, job)[i] = job
        BY <2>2, <3>4, Zenon
      <4> QED BY <3>1, <4>1, Zenon
    <3>5. CASE i \in 1..Len(jobs)
      <4>1. Append(jobs, job)[i] = jobs[i] /\ i \in DOMAIN jobs
        BY <2>2, <3>5, Zenon
      <4> QED BY <3>1, <4>1, Zenon
    <3> QED BY <3>3, <3>4, <3>5, Zenon
  <2>4. env.writer => \A i \in DOMAIN jobs' : AllRecords(jobs'[i])
    BY <1>2, <1>3, <2>3, Zenon
  <2>5. ~env.writer => writer' = "ready"
    BY <1>1, Zenon DEF FInv
  <2>6. env.writer => \A p \in Posters : HasRecord(post'[p])
    BY <1>5, Zenon DEF FInv
  <2> QED BY <1>1, <1>5, <2>4, <2>5, <2>6, FlushKept, Zenon
<1> QED BY <1>1, <1>4, <1>5, Zenon

\* A commit ends.
LEMMA FlushLand ==
  ASSUME IInv, FInv, NEW i \in DOMAIN jobs, Land(i) \/ LandRefused(i)
  PROVE FInv'
<1> DEFINE job == jobs[i]
<1>1. UNCHANGED <<env, sent, upto, writer>> /\ jobs' = Without(jobs, i) /\ \E good : replyAll(job, good)
  BY ZenonT(30) DEF Land, LandRefused
<1>2. IsSeq(jobs) /\ (env.writer => \A m \in DOMAIN jobs : AllRecords(jobs[m]))
  BY Zenon DEF IInv, TypeOK, FInv
<1>3. \A k \in DOMAIN jobs' : \E m \in DOMAIN jobs : jobs'[k] = jobs[m]
  <2>1. Remains(Without(jobs, i), jobs, i)
    BY <1>2, TakenOut, Zenon
  <2>2. Remains(jobs', jobs, i)
    BY <1>1, <2>1, Zenon
  <2> QED BY <2>2, Zenon DEF Remains
<1>4. env.writer => AllRecords(job) /\ \A k \in DOMAIN jobs' : AllRecords(jobs'[k])
  BY <1>2, <1>3, Zenon
<1> HIDE DEF job
<1> QED BY <1>1, <1>4, FlushReplied, Zenon

\* The stop case answers what is queued.
LEMMA FlushStopped ==
  ASSUME IInv, FInv, NEW o \in Objs, Stopped(o)
  PROVE FInv'
<1> DEFINE queued == {objs[o].reqs[i] : i \in DOMAIN objs[o].reqs}
<1>1. /\ UNCHANGED <<env, sent, upto, writer, jobs>>
      /\ answers' = answers \cup {Reply(p, "notfound") : p \in queued}
      /\ post' = [p \in Posters |-> IF p \in queued THEN Idle ELSE post[p]]
  BY Zenon DEF Stopped
<1>2. \A p : Reply(p, "notfound").status # "ok" /\ Reply(p, "notfound").k = post[p].k
  BY DEF Reply
<1> HIDE DEF Reply, queued
<1>3. /\ answers \subseteq answers' /\ \A p \in queued : Reply(p, "notfound") \in answers'
      /\ \A a \in answers' : a \in answers \/ a.status # "ok"
  BY <1>1, <1>2, Zenon
<1>4. \A p \in Posters : post[p].pc # "idle" =>
        \/ post'[p].pc # "idle" /\ post'[p].k = post[p].k
        \/ \E a \in answers' : a.k = post[p].k
  <2> SUFFICES ASSUME NEW p \in Posters, post[p].pc # "idle"
               PROVE \/ post'[p].pc # "idle" /\ post'[p].k = post[p].k
                     \/ \E a \in answers' : a.k = post[p].k
    BY Zenon
  <2>1. CASE p \in queued
    BY <1>2, <1>3, <2>1, Zenon
  <2>2. CASE p \notin queued
    BY <1>1, <2>2, Zenon
  <2> QED BY <2>1, <2>2, Zenon
<1>5. env.writer => \A p \in Posters : HasRecord(post'[p])
  <2>1. Idle.pc = "idle"
    BY IdleCall, Zenon
  <2>2. HasRecord(Idle)
    BY <2>1 DEF HasRecord
  <2>3. \A p \in Posters : post'[p] = Idle \/ post'[p] = post[p]
    BY <1>1, Zenon
  <2> QED BY <2>2, <2>3, Zenon DEF FInv
<1>6. /\ ~env.writer => writer' = "ready"
      /\ env.writer => \A i \in DOMAIN jobs' : AllRecords(jobs'[i])
  BY <1>1, Zenon DEF FInv
<1> QED BY <1>1, <1>3, <1>4, <1>5, <1>6, FlushKept, Zenon

\* The entry is taken from the path: only what calls may count on changes.
LEMMA FlushRemove ==
  ASSUME IInv, FInv, RemoveEntry
  PROVE FInv'
<1>1. /\ UNCHANGED <<env, sent, upto, writer, jobs, answers>>
      /\ post' = [p \in Posters |-> [post[p] EXCEPT !.there = FALSE]]
  BY Zenon DEF RemoveEntry
<1>2. post \in [Posters -> Calls]
  BY Zenon DEF IInv, TypeOK
<1>3. \A c \in Calls : /\ [c EXCEPT !.there = FALSE].pc = c.pc /\ [c EXCEPT !.there = FALSE].k = c.k
                       /\ [c EXCEPT !.there = FALSE].n = c.n
  BY Zenon DEF Calls
<1>4. \A p \in Posters : post'[p].pc = post[p].pc /\ post'[p].k = post[p].k /\ post'[p].n = post[p].n
  BY <1>1, <1>2, <1>3, Zenon
<1>5. env.writer => \A p \in Posters : HasRecord(post'[p])
  BY <1>4, Zenon DEF FInv, HasRecord
<1>6. /\ ~env.writer => writer' = "ready"
      /\ env.writer => \A i \in DOMAIN jobs' : AllRecords(jobs'[i])
  BY <1>1, Zenon DEF FInv
<1> QED BY <1>1, <1>4, <1>5, <1>6, FlushKept, Zenon

\* wg.Wait returned: no call is under way, and none has failed.
LEMMA FlushEnds ==
  ASSUME IInv, FInv, FlushDone
  PROVE FInv'
<1>1. /\ UNCHANGED <<env, sent, post, jobs, answers>> /\ writer = "flush" /\ writer' = "ready"
      /\ upto' = IF (\A p \in Posters : Finished(p)) /\ ~Err THEN sent ELSE upto
  BY Zenon DEF FlushDone, runVars
<1>2. CASE upto' = upto
  BY <1>1, <1>2, FlushQuiet, Zenon
<1>3. CASE (\A p \in Posters : Finished(p)) /\ ~Err /\ upto' = sent
  <2>1. \A k \in 1..sent : \E a \in answers : a.k = k /\ a.status = "ok"
    <3>1. \A p \in Posters : post[p].pc = "idle"
      BY <1>3, Zenon DEF Finished
    <3>2. \A a \in answers : a.status = "ok"
      BY <1>3, Zenon DEF Err
    <3> QED BY <3>1, <3>2, Zenon DEF FInv
  <2>2. sent \in Nat
    BY Zenon DEF IInv, TypeOK
  <2>3. env.writer
    <3>1. writer # "ready"
      BY <1>1
    <3> QED BY <3>1, Zenon DEF FInv
  <2>4. \A c : HasRecord(c)' <=> HasRecord(c)
    BY Zenon DEF HasRecord
  <2>5. \A job : AllRecords(job)' <=> AllRecords(job)
    BY Zenon DEF AllRecords
  <2>6. \A k \in 1..sent : \/ \E p \in Posters : post[p].pc # "idle" /\ post[p].k = k
                           \/ \E a \in answers : a.k = k
    BY Zenon DEF FInv
  <2>7. /\ \A p \in Posters : HasRecord(post[p])
        /\ \A i \in DOMAIN jobs : AllRecords(jobs[i])
        /\ \A a \in answers : a.status = "ok" => a.n = 1
    BY <2>3, Zenon DEF FInv
  <2> QED BY <1>1, <1>3, <2>1, <2>2, <2>3, <2>4, <2>5, <2>6, <2>7, Zenon DEF FInv
<1> QED BY <1>1, <1>2, <1>3, Zenon

\* No call has begun.
LEMMA InitFlush == Init => FInv
<1> SUFFICES ASSUME Init PROVE FInv BY Zenon
<1>1. sent = 0 /\ upto = 0 /\ writer = "ready" /\ answers = {} /\ jobs = << >>
      /\ post = [p \in Posters |-> Idle]
  BY Zenon DEF Init
<1>2. 1..0 = {} /\ 0 \in Nat /\ DOMAIN jobs = {}
  BY <1>1
<1>3. HasRecord(Idle)
  <2>1. Idle.pc = "idle"
    BY IdleCall, Zenon
  <2> QED BY <2>1 DEF HasRecord
<1> QED BY <1>1, <1>2, <1>3, Zenon DEF FInv

\* Every step keeps what Flush relies on.
LEMMA NextFlush ==
  IInv /\ FInv /\ [Next]_vars => FInv'
<1> SUFFICES ASSUME IInv, FInv, [Next]_vars PROVE FInv' BY Zenon
<1> DEFINE Quiet == /\ UNCHANGED <<env, sent, upto, post, jobs, answers>>
                    /\ writer' = writer \/ env.writer
<1>a. Quiet => FInv'
  <2>1. Quiet => (~env.writer => writer' = "ready")
    BY Zenon DEF FInv
  <2> QED BY <2>1, FlushQuiet, Zenon
<1>1. CASE UNCHANGED vars
  <2>1. Quiet
    BY <1>1, Zenon DEF vars, runVars, callVars
  <2> QED BY <1>a, <2>1, Zenon
<1>2. CASE WriteChecks \/ Flush \/ sweepOnce \/ Tick
  <2>1. Quiet
    BY <1>2, ZenonT(30) DEF WriteChecks, Flush, sweepOnce, Tick, runVars, callVars
  <2> QED BY <1>a, <2>1, Zenon
<1>3. CASE \/ TouchResolve \/ touchStream \/ CreateStream \/ deleteStream \/ StopStreamer
           \/ CommitDelete \/ \E e \in dues : expireIfDue(e)
  <2>1. Quiet
    BY <1>3, ZenonT(30) DEF TouchResolve, touchStream, CreateStream, deleteStream, StopStreamer,
       CommitDelete, expireIfDue, runVars, callVars
  <2> QED BY <1>a, <2>1, Zenon
<1>4. CASE \E o \in Objs : Touched(o) \/ Dormant(o) \/ tryRetire(o)
  <2>1. Quiet
    BY <1>4, ZenonT(30) DEF Touched, Dormant, tryRetire, callVars
  <2> QED BY <1>a, <2>1, Zenon
<1> HIDE DEF Quiet
<1>5. CASE \E p \in Posters : Poster(p) \/ AppendCancelled(p)
  BY <1>5, FlushPoster, Zenon
<1>6. CASE \E p \in Posters : Post(p)
  <2>1. PICK p \in Posters : Post(p)
    BY <1>6, Zenon
  <2>2. UNCHANGED <<env, upto, jobs, answers, writer>> /\ post[p].pc = "idle" /\ \E ct : Begin(p, ct)
    BY <2>1, Zenon DEF Post, runVars
  <2>3. ~env.writer => writer' = "ready"
    BY <2>2, Zenon DEF FInv
  <2> QED BY <2>2, <2>3, FlushBegin, Zenon
<1>7. CASE Write
  <2>1. /\ UNCHANGED <<env, upto, jobs, answers>> /\ writer' = "ready"
        /\ \/ \E p \in Posters : post[p].pc = "idle" /\ Begin(p, None)
           \/ UNCHANGED <<post, sent>>
    BY <1>7, Zenon DEF Write, runVars
  <2>2. CASE \E p \in Posters : post[p].pc = "idle" /\ Begin(p, None)
    BY <2>1, <2>2, FlushBegin, Zenon
  <2>3. CASE UNCHANGED <<post, sent>>
    BY <2>1, <2>3, FlushQuiet, Zenon
  <2> QED BY <2>1, <2>2, <2>3, Zenon
<1>8. CASE \E o \in Objs : Burst(o) \/ Stopped(o)
  BY <1>8, FlushBurst, FlushStopped, Zenon
<1>9. CASE \E i \in DOMAIN jobs : Land(i) \/ LandRefused(i)
  BY <1>9, FlushLand, Zenon
<1>10. CASE RemoveEntry \/ FlushDone
  BY <1>10, FlushRemove, FlushEnds, Zenon
<1> QED BY <1>1, <1>2, <1>3, <1>4, <1>5, <1>6, <1>7, <1>8, <1>9, <1>10, ZenonT(30)
    DEF Next, Sweeper, Deleter, Runner

-----------------------------------------------------------------------------
(* Sizes of sets of indexes, and the theorems.  FiniteSetTheorems comes this    *)
(* late because a proof carries every fact in scope along, cited or not.  It    *)
(* brings a copy of Cardinality, and SizeOf is what both copies are defined as. *)
SizeOf(S) ==
  LET CS[T \in SUBSET S] == IF T = {} THEN 0 ELSE 1 + CS[T \ {CHOOSE x : x \in T}]
  IN  CS[S]

\* Sized, of SizeOf.
SizedOf(n, S) ==
  /\ SizeOf(S) \in Nat
  /\ SizeOf(S) = 0 => S = {}
  /\ \A x : x \notin S => SizeOf(S \cup {x}) = SizeOf(S) + 1
  /\ \A x \in S : SizeOf(S \ {x}) = SizeOf(S) - 1
  /\ \A T \in SUBSET S : SizeOf(T) <= SizeOf(S) /\ (SizeOf(T) = SizeOf(S) => T = S)
  /\ 1 \notin S => SizeOf({k \in 1..(n - 1) : k + 1 \in S}) = SizeOf(S)

\* The Cardinality of the definitions above is SizeOf.
LEMMA SizeIsCardinality == \A S : Cardinality(S) = SizeOf(S)
BY Zenon DEF Cardinality, SizeOf

\* Sizes, from the same facts about SizeOf.
LEMMA SizesRespelled ==
  ASSUME SizeOf({}) = 0, \A n \in Nat : \A S \in SUBSET (1..n) : SizedOf(n, S)
  PROVE Sizes
<1>1. Cardinality({}) = 0
  BY SizeIsCardinality, Zenon
<1>2. ASSUME NEW n \in Nat, NEW S \in SUBSET (1..n)
      PROVE Sized(n, S)
  <2>0. SizedOf(n, S)
    BY Zenon
  <2> HIDE DEF SizeOf
  <2>1. Cardinality(S) = SizeOf(S)
    BY SizeIsCardinality, Zenon
  <2>2. Cardinality(S) \in Nat /\ (Cardinality(S) = 0 => S = {})
    BY <2>0, <2>1, Zenon DEF SizedOf
  <2>3. ASSUME NEW x, x \notin S PROVE Cardinality(S \cup {x}) = Cardinality(S) + 1
    <3>1. Cardinality(S \cup {x}) = SizeOf(S \cup {x})
      BY SizeIsCardinality, Zenon
    <3>2. SizeOf(S \cup {x}) = SizeOf(S) + 1
      BY <2>0, <2>3, Zenon DEF SizedOf
    <3> QED BY <2>1, <3>1, <3>2, Zenon
  <2>4. ASSUME NEW x \in S PROVE Cardinality(S \ {x}) = Cardinality(S) - 1
    <3>1. Cardinality(S \ {x}) = SizeOf(S \ {x})
      BY SizeIsCardinality, Zenon
    <3>2. SizeOf(S \ {x}) = SizeOf(S) - 1
      BY <2>0, Zenon DEF SizedOf
    <3> QED BY <2>1, <3>1, <3>2, Zenon
  <2>5. ASSUME NEW T \in SUBSET S
        PROVE Cardinality(T) <= Cardinality(S) /\ (Cardinality(T) = Cardinality(S) => T = S)
    <3>1. Cardinality(T) = SizeOf(T)
      BY SizeIsCardinality, Zenon
    <3>2. SizeOf(T) <= SizeOf(S) /\ (SizeOf(T) = SizeOf(S) => T = S)
      BY <2>0, Zenon DEF SizedOf
    <3> QED BY <2>1, <3>1, <3>2, Zenon
  <2>6. ASSUME 1 \notin S
        PROVE Cardinality({k \in 1..(n - 1) : k + 1 \in S}) = Cardinality(S)
    <3> DEFINE T == {k \in 1..(n - 1) : k + 1 \in S}
    <3>1. SizeOf(T) = SizeOf(S)
      BY <2>0, <2>6, Zenon DEF SizedOf
    <3>2. Cardinality(T) = SizeOf(T)
      BY SizeIsCardinality, Zenon
    <3> QED BY <2>1, <3>1, <3>2, Zenon
  <2> QED BY <2>2, <2>3, <2>4, <2>5, <2>6, Zenon DEF Sized
<1> QED BY <1>1, <1>2, Zenon DEF Sizes

LOCAL INSTANCE FiniteSetTheorems

\* Dropping the head of a queue lowers the numbers of the others by one.
LEMMA ShiftedCardinality ==
  ASSUME NEW n \in Nat, NEW S \in SUBSET (1..n), 1 \notin S
  PROVE LET T == {k \in 1..(n - 1) : k + 1 \in S}
        IN IsFiniteSet(T) /\ IsFiniteSet(S) /\ Cardinality(T) = Cardinality(S)
<1> DEFINE T == {k \in 1..(n - 1) : k + 1 \in S}
           f == [k \in T |-> k + 1]
<1>1. IsFiniteSet(1..n) /\ IsFiniteSet(S)
  <2>1. IsFiniteSet(1..n)
    BY FS_Interval
  <2> QED BY <2>1, FS_Subset, Zenon
<1>2. f \in [T -> S] /\ \A x \in S : x - 1 \in T /\ f[x - 1] = x
  BY SMTT(30)
<1>3. \A x, y \in T : f[x] = f[y] => x = y
  BY SMTT(30)
<1>4. f \in Bijection(T, S)
  <2>1. f \in Injection(T, S)
    BY <1>2, <1>3, Zenon DEF Injection, IsInjective
  <2>2. f \in Surjection(T, S)
    <3>1. \A x \in S : \E y \in T : f[y] = x
      BY <1>2, Zenon
    <3> QED BY <1>2, <3>1, Zenon DEF Surjection
  <2> QED BY <2>1, <2>2, Zenon DEF Bijection
<1>5. IsFiniteSet(T)
  <2>1. T \subseteq 1..n
    BY SMTT(30)
  <2> QED BY <1>1, <2>1, FS_Subset, Zenon
<1> HIDE DEF T, f
<1>6. Cardinality(T) = Cardinality(S)
  BY <1>1, <1>4, <1>5, FS_Bijection, Zenon DEF ExistsBijection
<1> QED BY <1>1, <1>5, <1>6, Zenon DEF T

\* The Cardinality of FiniteSetTheorems is SizeOf too.
LEMMA SizeIsItsCardinality == \A S : Cardinality(S) = SizeOf(S)
BY Zenon DEF Cardinality, SizeOf

\* Sets of indexes have the sizes that the proofs above take them to have.
LEMMA IndexSets == Sizes
<1>1. SizeOf({}) = 0
  <2>1. Cardinality({}) = 0
    BY FS_EmptySet, Zenon
  <2> QED BY <2>1, SizeIsItsCardinality, Zenon
<1>2. ASSUME NEW n \in Nat, NEW S \in SUBSET (1..n)
      PROVE SizedOf(n, S)
  <2>1. IsFiniteSet(S)
    <3>1. IsFiniteSet(1..n)
      <4>1. 1 \in Int /\ n \in Int
        OBVIOUS
      <4> QED BY <4>1, FS_Interval, Zenon
    <3> QED BY <3>1, FS_Subset, Zenon
  <2>s. Cardinality(S) = SizeOf(S)
    BY SizeIsItsCardinality, Zenon
  <2>2. SizeOf(S) \in Nat /\ (SizeOf(S) = 0 => S = {})
    BY <2>1, <2>s, FS_CardinalityType, FS_EmptySet, Zenon
  <2>3. ASSUME NEW x, x \notin S PROVE SizeOf(S \cup {x}) = SizeOf(S) + 1
    <3>1. Cardinality(S \cup {x}) = Cardinality(S) + 1
      BY <2>1, <2>3, FS_AddElement, Zenon
    <3>2. Cardinality(S \cup {x}) = SizeOf(S \cup {x})
      BY SizeIsItsCardinality, Zenon
    <3> QED BY <2>s, <3>1, <3>2, Zenon
  <2>4. ASSUME NEW x \in S PROVE SizeOf(S \ {x}) = SizeOf(S) - 1
    <3>1. Cardinality(S \ {x}) = Cardinality(S) - 1
      BY <2>1, FS_RemoveElement, Zenon
    <3>2. Cardinality(S \ {x}) = SizeOf(S \ {x})
      BY SizeIsItsCardinality, Zenon
    <3> QED BY <2>s, <3>1, <3>2, Zenon
  <2>5. ASSUME NEW T \in SUBSET S
        PROVE SizeOf(T) <= SizeOf(S) /\ (SizeOf(T) = SizeOf(S) => T = S)
    <3>1. Cardinality(T) <= Cardinality(S) /\ (Cardinality(T) = Cardinality(S) => T = S)
      BY <2>1, FS_Subset, Zenon
    <3>2. Cardinality(T) = SizeOf(T)
      BY SizeIsItsCardinality, Zenon
    <3> QED BY <2>s, <3>1, <3>2, Zenon
  <2>6. ASSUME 1 \notin S
        PROVE SizeOf({k \in 1..(n - 1) : k + 1 \in S}) = SizeOf(S)
    <3> DEFINE T == {k \in 1..(n - 1) : k + 1 \in S}
    <3>1. Cardinality(T) = Cardinality(S)
      BY <2>6, ShiftedCardinality, Zenon
    <3>2. Cardinality(T) = SizeOf(T)
      BY SizeIsItsCardinality, Zenon
    <3> QED BY <2>s, <3>1, <3>2, Zenon
  <2> QED BY <2>2, <2>3, <2>4, <2>5, <2>6, Zenon DEF SizedOf
<1> QED BY <1>1, <1>2, SizesRespelled, Zenon

\* Every step keeps the three invariants together.
LEMMA AllKept ==
  /\ Init => IInv /\ WInv /\ FInv
  /\ IInv /\ WInv /\ FInv /\ [Next]_vars => IInv' /\ WInv' /\ FInv'
BY IndexSets, InitInv, NextInv, InitWriter, NextWriter, InitFlush, NextFlush, Zenon

\* NotFoundIsHonest in every reachable state: an append answered 404 by
\* getOrSpawn, or by the drain of a stopped streamer, was under way while the path
\* had no stream or one being removed; submitAppend's retry hides retirement.
THEOREM HonestNotFound == Spec => []NotFoundIsHonest
<1>1. IInv => NotFoundIsHonest
  BY DEF IInv
<1> QED BY <1>1, AllKept, PTL DEF Spec

\* NoZombie, unless the path is recreated under a TTL: a streamer that is resident
\* was spawned from the meta the path has now, whatever is retired, deleted,
\* expired or refused (getOrSpawn, removeStreamerLocked).
THEOREM ResidentIsCurrent == Spec => [](Steady => NoZombie)
<1>1. WInv => (Steady => NoZombie)
  BY Zenon DEF WInv, OnPath
<1> QED BY <1>1, AllKept, PTL DEF Spec

\* OneWriter, unless moreover a delete is refused: at most one streamer of a
\* stream that is there plans appends or has a burst in flight, for any number
\* of appends, retirements and deletes, in every commit mode (tryRetire).
THEOREM SingleWriter == Spec => [](Undisturbed => OneWriter)
<1>1. WInv => (Undisturbed => OneWriter)
  <2> SUFFICES ASSUME WInv, Undisturbed PROVE OneWriter
    BY Zenon
  <2>1. HolderOnly
    BY Zenon DEF WInv
  <2>2. \A o : CanWrite(o) => Active(o)
    BY Zenon DEF CanWrite, Active
  <2> QED BY <2>1, <2>2, Zenon DEF OneWriter, HolderOnly, Live
<1> QED BY <1>1, AllKept, PTL DEF Spec

\* AckedStored under the same conditions: no later streamer of a stream that is
\* there writes over an acknowledged record (replyAll, getOrSpawn).
THEOREM AcknowledgedStays == Spec => [](Undisturbed => AckedStored)
<1>1. WInv => (Undisturbed => AckedStored)
  BY Zenon DEF WInv, AckedStored, AnswerOK, Current, Live
<1> QED BY <1>1, AllKept, PTL DEF Spec

\* WindowCovered under the same conditions: with sync commits the stored deadline
\* lies past the window of every acknowledged append (slideTTL, refreshTTLOnRead).
THEOREM WindowIsStored == Spec => [](Undisturbed => WindowCovered)
<1>1. WInv => (Undisturbed => WindowCovered)
  BY Zenon DEF WInv, WindowCovered, AnswerOK, Current, Live
<1> QED BY <1>1, AllKept, PTL DEF Spec

\* FlushMeansStored under the conditions of AcknowledgedStays: a nil Flush of a
\* Writer means that every append accepted before it succeeded, and is stored if
\* its stream is still there (writer.go, "nil means everything accepted").
THEOREM FlushIsDurable == Spec => [](Undisturbed => FlushMeansStored)
<1>1. WInv /\ FInv => (Undisturbed => FlushMeansStored)
  <2> SUFFICES ASSUME WInv, FInv, Undisturbed, NEW k \in 1..upto
               PROVE \E a \in answers : a.k = k /\ a.status = "ok" /\ (Current(a.id) => Stored(a))
    BY Zenon DEF FlushMeansStored
  <2>1. PICK a \in answers : a.k = k /\ a.status = "ok"
    BY Zenon DEF FInv
  <2>2. env.writer
    <3>1. 1..0 = {}
      OBVIOUS
    <3> QED BY <3>1, Zenon DEF FInv
  <2>3. a.n = 1
    BY <2>1, <2>2, Zenon DEF FInv
  <2> QED BY <2>1, <2>3, Zenon DEF WInv, AnswerOK, Current, Live
<1> QED BY <1>1, AllKept, PTL DEF Spec
=============================================================================
