---------------------- MODULE LifecycleProducer_proofs ----------------------
(***************************************************************************)
(* Two components whose guarantees hold for every instance: the lifecycle  *)
(* of streams, for any number of paths, streams, records, forks, bursts in *)
(* flight and crashes, and idempotent producers, for every integer width.  *)
(***************************************************************************)
EXTENDS Lifecycle, ProducerSession, FiniteSetTheorems, WellFoundedInduction, TLAPS


-----------------------------------------------------------------------------
(* Idempotent producers. *)

\* The inductive invariant: the stored state is the newest accepted header,
\* the accepted seqs of its epoch are exactly 0..lastSeq, no later epoch was
\* accepted, and every epoch's seqs are an initial segment.
InSession ==
  /\ ~st.exists => accepted = {}
  /\ st.exists => /\ \A s \in U : <<st.epoch, s>> \in accepted <=> s <= st.lastSeq
                  /\ \A e, s \in U : <<e, s>> \in accepted => e <= st.epoch
  /\ AcceptedDense

SessionIInv == SessionTypeOK /\ InSession

LEMMA SessionInitIInv == SessionInit => SessionIInv
  BY MaxUAssumption
     DEF SessionInit, SessionIInv, SessionTypeOK, InSession, AcceptedDense, Absent, ProducerStates, U

\* What an accepting verdict says about the header.
LEMMA AcceptCases ==
  ASSUME st \in ProducerStates, NEW h \in Headers,
         validateProducer(st, h) = "accept"
  PROVE  \/ ~st.exists /\ h.seq = 0
         \/ st.exists /\ h.epoch > st.epoch /\ h.seq = 0
         \/ st.exists /\ h.epoch = st.epoch /\ h.seq = st.lastSeq + 1
  <1>1. /\ st.exists \in BOOLEAN /\ st.epoch \in 0..MaxU /\ st.lastSeq \in 0..MaxU
        /\ h.epoch \in 0..MaxU /\ h.seq \in 0..MaxU
    BY DEF ProducerStates, Headers, U
  <1>2. h.seq > st.lastSeq /\ h.seq = Succ(st.lastSeq) => h.seq = st.lastSeq + 1
    BY <1>1, MaxUAssumption DEF Succ
  <1>3. QED
    BY <1>1, <1>2 DEF validateProducer

LEMMA SessionNextIInv == SessionIInv /\ [SessionNext]_session => SessionIInv'
  <1> SUFFICES ASSUME SessionIInv, [SessionNext]_session PROVE SessionIInv'
    OBVIOUS
  <1>1. ASSUME NEW h \in Headers, Present(h) PROVE SessionIInv'
    <2>1. h.epoch \in U /\ h.seq \in U
      BY DEF Headers
    <2>2. st' = [exists |-> TRUE, epoch |-> h.epoch, lastSeq |-> h.seq]
      BY <1>1 DEF Present, newState, State
    <2>3. accepted' = accepted \cup {<<h.epoch, h.seq>>}
      BY <1>1 DEF Present
    <2>4. SessionTypeOK'
      BY <2>1, <2>2, <2>3 DEF SessionIInv, SessionTypeOK, ProducerStates
    <2>5. \/ ~st.exists /\ h.seq = 0
          \/ st.exists /\ h.epoch > st.epoch /\ h.seq = 0
          \/ st.exists /\ h.epoch = st.epoch /\ h.seq = st.lastSeq + 1
      BY <1>1, AcceptCases DEF SessionIInv, SessionTypeOK, Present
    <2>6. st \in ProducerStates /\ st.epoch \in U /\ st.lastSeq \in U
      BY DEF SessionIInv, SessionTypeOK, ProducerStates
    <2>7. \A s \in U : <<h.epoch, s>> \in accepted' <=> s <= h.seq
      <3>1. CASE ~st.exists /\ h.seq = 0
        BY <3>1, <2>1, <2>3 DEF SessionIInv, InSession, U
      <3>2. CASE st.exists /\ h.epoch > st.epoch /\ h.seq = 0
        BY <3>2, <2>1, <2>3, <2>6 DEF SessionIInv, InSession, U
      <3>3. CASE st.exists /\ h.epoch = st.epoch /\ h.seq = st.lastSeq + 1
        BY <3>3, <2>1, <2>3, <2>6 DEF SessionIInv, InSession, U
      <3>4. QED
        BY <2>5, <3>1, <3>2, <3>3
    <2>8. \A e, s \in U : <<e, s>> \in accepted' => e <= h.epoch
      BY <2>1, <2>3, <2>5, <2>6 DEF SessionIInv, InSession, U
    <2>9. AcceptedDense'
      BY <2>1, <2>3, <2>7 DEF SessionIInv, InSession, AcceptedDense, U
    <2>10. QED
      BY <2>2, <2>4, <2>7, <2>8, <2>9 DEF SessionIInv, InSession
  <1>2. ASSUME NEW h \in Headers, Refuse(h) PROVE SessionIInv'
    BY <1>2 DEF Refuse, session, SessionIInv, SessionTypeOK, InSession, AcceptedDense
  <1>3. CASE UNCHANGED session
    BY <1>3 DEF session, SessionIInv, SessionTypeOK, InSession, AcceptedDense
  <1>4. QED
    BY <1>1, <1>2, <1>3 DEF SessionNext

LEMMA SessionSpecIInv == SessionSpec => []SessionIInv
  BY SessionInitIInv, SessionNextIInv, PTL DEF SessionSpec

\* No header that was accepted is ever accepted again: validateProducer gives
\* exactly-once appends for any order of sends and retries.
THEOREM ExactlyOnce == SessionSpec => []AcceptedOnce
  <1>1. SessionIInv => AcceptedOnce
    <2> SUFFICES ASSUME SessionIInv, NEW h \in Headers, <<h.epoch, h.seq>> \in accepted,
                        validateProducer(st, h) = "accept"
                 PROVE  FALSE
      BY DEF AcceptedOnce
    <2>1. h.epoch \in U /\ h.seq \in U /\ st.epoch \in U /\ st.lastSeq \in U
      BY DEF Headers, SessionIInv, SessionTypeOK, ProducerStates
    <2>2. QED
      BY <2>1, AcceptCases DEF SessionIInv, SessionTypeOK, InSession, U
  <1>2. QED
    BY <1>1, SessionSpecIInv, PTL

\* A duplicate verdict is given exactly for what the current epoch stored.
THEOREM DuplicatesAreHonest == SessionSpec => []DuplicateIffAccepted
  <1>1. SessionIInv => DuplicateIffAccepted
    <2> SUFFICES ASSUME SessionIInv, NEW h \in Headers
                 PROVE  validateProducer(st, h) = "duplicate"
                          <=> st.exists /\ h.epoch = st.epoch
                              /\ <<h.epoch, h.seq>> \in accepted
      BY DEF DuplicateIffAccepted
    <2>1. h.epoch \in U /\ h.seq \in U /\ st.epoch \in U /\ st.lastSeq \in U
      BY DEF Headers, SessionIInv, SessionTypeOK, ProducerStates
    <2>2. validateProducer(st, h) = "duplicate"
            <=> st.exists /\ h.epoch = st.epoch /\ h.seq <= st.lastSeq
      BY <2>1 DEF validateProducer, U, SessionIInv, SessionTypeOK, ProducerStates
    <2>3. QED
      BY <2>1, <2>2 DEF SessionIInv, InSession
  <1>2. QED
    BY <1>1, SessionSpecIInv, PTL

\* The accepted sequence numbers of an epoch never have a hole.
THEOREM NoHoles == SessionSpec => []AcceptedDense
  <1>1. SessionIInv => AcceptedDense
    BY DEF SessionIInv, InSession
  <1>2. QED
    BY <1>1, SessionSpecIInv, PTL

\* An accepted append is never from an epoch older than one accepted before.
THEOREM Fencing == SessionSpec => EpochFenced
  <1>1. SessionIInv /\ [SessionNext]_session
          => [\A e, s \in U :
                <<e, s>> \in accepted' \ accepted
                  => \A f, t \in U : <<f, t>> \in accepted => f <= e]_session
    <2> SUFFICES ASSUME SessionIInv, NEW h \in Headers, Present(h),
                        NEW e \in U, NEW s \in U,
                        <<e, s>> \in accepted' \ accepted,
                        NEW f \in U, NEW t \in U, <<f, t>> \in accepted
                 PROVE  f <= e
      BY DEF SessionNext, Refuse, session
    <2>1. h.epoch \in U /\ h.seq \in U /\ st.epoch \in U /\ st.lastSeq \in U
      BY DEF Headers, SessionIInv, SessionTypeOK, ProducerStates
    <2>2. e = h.epoch
      BY DEF Present
    <2>3. QED
      BY <2>1, <2>2, AcceptCases DEF SessionIInv, SessionTypeOK, InSession, U, Present
  <1>2. QED
    BY <1>1, SessionSpecIInv, PTL DEF SessionSpec, EpochFenced

-----------------------------------------------------------------------------
(* The lifecycle of streams. *)

\* The part that holds whatever bursts carry.  Ids are handed out upwards and the
\* stored counter is never behind, so no id on disk, in memory or in flight is new;
\* the source a cascade is about to delete is there.
Numbered ==
  /\ counter = nextID
  /\ \A p \in Live : meta[p].id < nextID
  /\ \A p \in Paths : reg[p] # None => reg[p].meta.id < nextID
  /\ \A k \in 1..Len(bursts) : bursts[k].meta.id < nextID
  /\ \A i \in gone : i < nextID
  /\ mu.pc # "free" => mu.id \in Ids
  /\ mu.pc = "cascade" => idmap[mu.id] # None /\ meta[idmap[mu.id]] # None

Bounded == \A i \in Ids : \E n \in Nat : \A q \in recs[i] : q <= n

DInv == TypeOK /\ Numbered /\ Bounded /\ DeletionResumable

\* The rest needs that bursts leave meta alone.  Path and id point at each other, and
\* residents and the bursts of streams not deleted carry the stored meta.
Addressed ==
  /\ DeletedStaysDeleted
  /\ \A i \in Ids : idmap[i] # None => meta[idmap[i]] # None /\ meta[idmap[i]].id = i
  /\ \A p \in Paths : reg[p] # None => meta[p] = reg[p].meta
  /\ \A k \in 1..Len(bursts) :
       /\ ~bursts[k].withMeta
       /\ bursts[k].meta.id \in gone \/ meta[bursts[k].path] = bursts[k].meta

\* A count also covers the reference a delete in progress has yet to drop.
Owed(i) == IF mu.pc = "drop" /\ mu.id = i THEN 1 ELSE 0
Counted ==
  /\ IsFiniteSet(Live)
  /\ \A p \in Live : meta[p].from < nextID
  /\ \A i \in Ids : idmap[i] # None => ref[i] >= Cardinality(Forks(i)) + Owed(i)

\* The seqs below n of the stream with meta m are among the records R, or planned by
\* one of the first k bursts of B.
Backed(R, B, m, n, k) ==
  \A q \in m.off..(n - 1) :
    q \in R[m.id] \/ \E j \in 1..k : B[j].meta.id = m.id /\ B[j].seq = q

\* The deleter only works on deleted streams, and no tail, in the store, in memory or
\* in flight, is ahead of the records it stands for.
Intact ==
  /\ \A i \in Ids : delete[i] # None => i \in gone
  /\ \A p \in Live : Backed(recs, bursts, meta[p], tail[meta[p].id], 0)
  /\ \A p \in Paths :
       reg[p] # None => Backed(recs, bursts, reg[p].meta, reg[p].tail, Len(bursts))
  /\ \A k \in 1..Len(bursts) :
       \/ bursts[k].meta.id \in gone
       \/ Backed(recs, bursts, bursts[k].meta, bursts[k].seq, k - 1)

IInv == DInv /\ Addressed /\ Counted /\ Intact

-----------------------------------------------------------------------------
(* Sets of naturals. *)

\* A set of naturals has a smallest element.
LEMMA Smallest ==
  ASSUME NEW S, S \subseteq Nat, S # {}
  PROVE \E n \in S : \A m \in S : n <= m
<1> DEFINE R == {ss \in Nat \X Nat : ss[1] < ss[2]}
<1>1. OpToRel(<, Nat) = R
  BY Zenon DEF OpToRel
<1>2. IsWellFoundedOn(R, Nat)
  BY <1>1, NatLessThanWellFounded, Zenon
<1> HIDE DEF R
<1>3. \E n \in S : \A m \in S : <<m, n>> \notin R
  BY <1>2, WFMin, Zenon
<1>4. \A m, n \in Nat : <<m, n>> \notin R => n <= m
  BY DEF R
<1> QED BY <1>3, <1>4, ZenonT(30)

\* A bounded one has a largest.
LEMMA Largest ==
  ASSUME NEW S, S \subseteq Nat, S # {}, NEW b \in Nat, \A q \in S : q <= b
  PROVE \E n \in S : \A m \in S : m <= n
<1> DEFINE B == {c \in Nat : \A q \in S : q <= c}
<1>1. B \subseteq Nat /\ B # {}
  OBVIOUS
<1>2. PICK c \in B : \A d \in B : c <= d
  BY <1>1, Smallest, Zenon
<1>3. c \in S
  <2> SUFFICES ASSUME c \notin S PROVE FALSE
    OBVIOUS
  <2>1. PICK q \in S : TRUE
    BY ZenonT(30)
  <2>2. \A r \in S : r < c
    BY <1>2
  <2>3. c - 1 \in B
    BY <2>1, <2>2
  <2> QED BY <1>2, <2>3
<1> QED BY <1>2, <1>3

\* One chunk of a set of seqs, in key order (collectKeys, deleter.go:110-134): it is
\* not empty, has a last seq, and everything it leaves lies behind that one.
LEMMA ChunkOf ==
  ASSUME NEW S, S \subseteq Nat, S # {}, NEW b \in Nat, \A q \in S : q <= b,
         NEW K, K = {q \in S : Cardinality({r \in S : r < q}) < Chunk}
  PROVE  /\ \E x \in K : \A r \in K : r <= x
         /\ \A q \in S \ K, k \in K : k < q
<1> DEFINE Below(q) == {r \in S : r < q}
<1>1. PICK m \in S : \A q \in S : m <= q
  BY Smallest, Zenon
<1>2. Below(m) = {}
  <2> SUFFICES ASSUME NEW r \in S, r < m PROVE FALSE
    BY ZenonT(30)
  <2>1. m <= r /\ m \in Nat /\ r \in Nat
    BY <1>1
  <2> QED BY <2>1
<1>3. m \in K
  <2>1. Cardinality(Below(m)) = 0
    BY <1>2, FS_EmptySet, Zenon
  <2> QED BY <2>1, LifecycleAssumption
<1>4. K \subseteq Nat /\ \A q \in K : q <= b
  BY ZenonT(30)
<1>5. \E x \in K : \A r \in K : r <= x
  BY <1>3, <1>4, Largest, Zenon
<1>6. \A q \in S : IsFiniteSet(Below(q)) /\ Cardinality(Below(q)) \in Nat
  <2> TAKE q \in S
  <2>1. Below(q) \in SUBSET Nat /\ \A s \in Below(q) : s <= b
    BY ZenonT(30)
  <2> HIDE DEF Below
  <2> QED BY <2>1, FS_BoundedSetOfNaturals, FS_CardinalityType, Zenon
<1>7. ASSUME NEW q \in S \ K, NEW k \in K, ~(k < q)
      PROVE  FALSE
  <2>1. Below(q) \in SUBSET Below(k)
    <3> SUFFICES ASSUME NEW r \in S, r < q PROVE r < k
      BY ZenonT(30)
    <3>1. q \in Nat /\ k \in Nat /\ r \in Nat
      BY <1>4
    <3> QED BY <1>7, <3>1
  <2>2. k \in S /\ Cardinality(Below(k)) < Chunk
    OBVIOUS
  <2>3. ~(Cardinality(Below(q)) < Chunk)
    OBVIOUS
  <2> HIDE DEF Below
  <2>4. Cardinality(Below(q)) <= Cardinality(Below(k))
    BY <1>6, <2>1, <2>2, FS_Subset, Zenon
  <2>5. Cardinality(Below(q)) \in Nat /\ Cardinality(Below(k)) \in Nat
    BY <1>6, <2>2, Zenon
  <2> QED BY <2>2, <2>3, <2>4, <2>5, LifecycleAssumption
<1> QED BY <1>5, <1>7, Zenon

-----------------------------------------------------------------------------
(* Deletion is resumable, whatever bursts carry. *)

LEMMA NoneIsNew ==
  /\ None \notin Paths /\ None \notin Nat /\ None \notin Metas /\ None \notin Residents
  BY LifecycleAssumption, Zenon

LEMMA MetaFields ==
  ASSUME NEW m \in Metas
  PROVE /\ m.id \in Ids /\ m.id \in Nat /\ m.from \in 0..MaxId /\ m.off \in Nat
        /\ m.from # 0 => m.from \in Ids
BY LifecycleAssumption DEF Metas, Ids

\* The free lock owes no decrement.
LEMMA FreeRests == Free.pc # "drop"
BY DEF Free

\* Numbers.
LEMMA Less ==
  /\ \A a \in Nat : /\ ~(a < a) /\ a < a + 1 /\ a + 1 \in Nat
                    /\ a <= a /\ a <= a + 1 /\ a + 1 \in 1..(a + 1)
  /\ \A a, b \in Nat : a < b => a # b /\ a < b + 1
OBVIOUS

LEMMA RangeNext ==
  \A a, b \in Nat : \A q \in a..((b + 1) - 1) : q = b \/ q \in a..(b - 1)
OBVIOUS

LEMMA Incremented ==
  ASSUME NEW f \in [Ids -> Nat], NEW j \in Ids
  PROVE  /\ [f EXCEPT ![j] = f[j] + 1] \in [Ids -> Nat]
         /\ \A i \in Ids : [f EXCEPT ![j] = f[j] + 1][i] = IF i = j THEN f[i] + 1 ELSE f[i]
OBVIOUS

\* Where the first k of n bursts are when burst f is gone.
LEMMA Places ==
  ASSUME NEW n \in Nat, NEW f \in 1..n, NEW k \in 0..n, NEW j \in 1..k
  PROVE  /\ j < f => j \in 1..(IF k < f THEN k ELSE k - 1) /\ j \in 1..(n - 1)
         /\ j > f => /\ j - 1 \in 1..(IF k < f THEN k ELSE k - 1) /\ j - 1 \in 1..(n - 1)
                    /\ ~(j - 1 < f) /\ (j - 1) + 1 = j
         /\ j < f \/ j = f \/ j > f
OBVIOUS

LEMMA LastPlace == \A n \in Nat : \A f \in 1..n : n \in 0..n /\ 0 \in 0..n /\ ~(n < f) /\ 0 < f
OBVIOUS

\* A count that covers c references and o owed ones covers one reference less and u owed.
LEMMA OneLess ==
  \A r, c \in Nat : \A o, u \in {0, 1} : r >= c + o => r >= c + 0 /\ r >= (c - 1) + u
OBVIOUS

LEMMA InitD == Init => DInv
<1> SUFFICES ASSUME Init PROVE DInv
  OBVIOUS
<1>1. TypeOK
  <2>1. mu \in [pc : {"free", "drop", "cascade"}, id : 0..MaxId]
    BY LifecycleAssumption DEF Init, Free
  <2> QED BY <2>1 DEF Init, TypeOK
<1>2. Numbered
  <2>1. Live = {}
    BY DEF Init, Live
  <2>2. Len(bursts) = 0 /\ mu.pc = "free" /\ gone = {} /\ counter = nextID
    BY DEF Init, Free
  <2>3. \A p \in Paths : reg[p] = None
    BY DEF Init
  <2> QED BY <2>1, <2>2, <2>3 DEF Numbered
<1>3. Bounded
  BY DEF Init, Bounded
<1>4. DeletionResumable
  BY DEF Init, DeletionResumable
<1> QED BY <1>1, <1>2, <1>3, <1>4, Zenon DEF DInv

\* A new stream.
LEMMA EstablishD ==
  ASSUME DInv, NEW p \in Paths, NEW m \in Metas, NEW n \in Nat, m.id = nextID,
         Establish(p, m, n), ref' \in [Ids -> Nat],
         UNCHANGED <<tomb, delete, reg, bursts, mu, hist, crashes>>, mu = Free
  PROVE DInv'
<1> USE MetaFields, NoneIsNew
<1>u. /\ tomb' = tomb /\ delete' = delete /\ reg' = reg /\ bursts' = bursts /\ mu' = mu
      /\ gone' = gone /\ expired' = expired /\ late' = late /\ crashes' = crashes
  BY DEF hist
<1>1. /\ meta' = [meta EXCEPT ![p] = m] /\ idmap' = [idmap EXCEPT ![m.id] = p]
      /\ counter' = nextID + 1 /\ nextID' = nextID + 1
  BY DEF Establish, advanced
<1>2. tail' = [tail EXCEPT ![m.id] = m.off + n] /\ recs' = [recs EXCEPT ![m.id] = @ \cup m.off..(m.off + n - 1)]
  BY DEF Establish
<1>3. TypeOK'
  <2>1. meta' \in [Paths -> Metas \cup {None}] /\ idmap' \in [Ids -> Paths \cup {None}]
    BY <1>1 DEF DInv, TypeOK
  <2>2. tail' \in [Ids -> Nat]
    BY <1>2 DEF DInv, TypeOK
  <2>3. recs' \in [Ids -> SUBSET Nat]
    <3>1. m.off..(m.off + n - 1) \subseteq Nat
      OBVIOUS
    <3> QED BY <1>2, <3>1 DEF DInv, TypeOK
  <2>4. counter' \in Nat \ {0} /\ nextID' \in Nat \ {0}
    BY <1>1 DEF DInv, TypeOK
  <2> QED BY <1>u, <2>1, <2>2, <2>3, <2>4, ZenonT(30) DEF DInv, TypeOK
<1>4. Numbered'
  <2>1. \A x \in Paths : meta'[x] # None => meta'[x].id < nextID'
    <3> TAKE x \in Paths
    <3>1. CASE x = p
      BY <1>1, <3>1 DEF DInv, TypeOK
    <3>2. CASE x # p
      <4>1. meta'[x] = meta[x] /\ meta[x] \in Metas \cup {None}
        BY <1>1, <3>2 DEF DInv, TypeOK
      <4>2. meta[x] # None => meta[x].id < nextID
        BY DEF DInv, Numbered, Live
      <4> QED BY <1>1, <4>1, <4>2 DEF DInv, TypeOK
    <3> QED BY <3>1, <3>2
  <2>2. \A x \in Paths : reg[x] # None => reg[x].meta.id < nextID'
    <3> TAKE x \in Paths
    <3> SUFFICES ASSUME reg[x] # None PROVE reg[x].meta.id < nextID'
      OBVIOUS
    <3>1. reg[x] \in Residents
      BY DEF DInv, TypeOK
    <3>2. reg[x].meta.id \in Nat
      BY <3>1 DEF Residents
    <3>3. reg[x].meta.id < nextID /\ nextID \in Nat
      BY Zenon DEF DInv, Numbered, TypeOK
    <3> QED BY <1>1, <3>2, <3>3, Less, Zenon
  <2>3. \A k \in 1..Len(bursts) : bursts[k].meta.id < nextID'
    <3> TAKE k \in 1..Len(bursts)
    <3>1. bursts[k] \in Bursts
      BY DEF DInv, TypeOK
    <3>2. bursts[k].meta.id \in Nat
      BY <3>1 DEF Bursts
    <3>3. bursts[k].meta.id < nextID /\ nextID \in Nat
      BY Zenon DEF DInv, Numbered, TypeOK
    <3> QED BY <1>1, <3>2, <3>3, Less, Zenon
  <2>4. \A i \in gone : i < nextID'
    BY <1>1 DEF DInv, Numbered, TypeOK, Ids
  <2>5. mu.pc = "free"
    BY DEF Free
  <2> QED BY <1>u, <1>1, <2>1, <2>2, <2>3, <2>4, <2>5 DEF Numbered, Live
<1>5. Bounded'
  <2> SUFFICES ASSUME NEW i \in Ids PROVE \E b \in Nat : \A q \in recs'[i] : q <= b
    BY DEF Bounded
  <2>1. PICK b \in Nat : \A q \in recs[i] : q <= b
    BY DEF DInv, Bounded
  <2>2. recs'[i] \subseteq recs[i] \cup m.off..(m.off + n - 1) /\ recs[i] \subseteq Nat
    BY <1>2, ZenonT(30) DEF DInv, TypeOK
  <2>3. \A q \in recs'[i] : q <= b + (m.off + n)
    BY <2>1, <2>2
  <2> QED BY <2>3
<1>6. DeletionResumable'
  <2> SUFFICES ASSUME NEW i \in gone, NEW q \in recs'[i]
               PROVE  <<i, q>> \in late \/ (delete[i] # None /\ q >= delete[i])
    BY <1>u, Zenon DEF DeletionResumable
  <2>1. i \in Ids /\ i # m.id
    BY DEF DInv, Numbered, TypeOK, Ids
  <2>2. recs'[i] = recs[i]
    BY <1>2, <2>1 DEF DInv, TypeOK
  <2> QED BY <2>2 DEF DInv, DeletionResumable
<1> QED BY <1>3, <1>4, <1>5, <1>6, Zenon DEF DInv

\* A hard delete: the cursor starts below every record.
LEMMA HardDeleteD ==
  ASSUME DInv, NEW p \in Paths, meta[p] # None, HardDelete(p, meta[p]),
         UNCHANGED <<recs, counter, nextID, bursts, late, crashes>>,
         expired' \subseteq gone'
  PROVE DInv'
<1> DEFINE m == meta[p]
<1>m. /\ m \in Metas /\ m.id \in Ids /\ m.id < nextID
      /\ m.from # 0 => m.from \in Ids
      /\ m.from \in 0..MaxId
  BY MetaFields DEF DInv, TypeOK, Numbered, Live
<1>1. /\ meta' = [meta EXCEPT ![p] = None] /\ idmap' = [idmap EXCEPT ![m.id] = None]
      /\ tail' = [tail EXCEPT ![m.id] = 0] /\ ref' = [ref EXCEPT ![m.id] = 0]
      /\ tomb' = tomb \ {p} /\ delete' = [delete EXCEPT ![m.id] = 0]
      /\ reg' = [reg EXCEPT ![p] = None] /\ gone' = gone \cup {m.id}
  BY DEF HardDelete
<1>2. mu' = IF m.from = 0 THEN Free ELSE [pc |-> "drop", id |-> m.from]
  BY DEF HardDelete
<1> HIDE DEF m
<1>3. TypeOK'
  <2>1. mu' \in [pc : {"free", "drop", "cascade"}, id : 0..MaxId]
    BY <1>m, <1>2, LifecycleAssumption DEF Free
  <2>2. meta' \in [Paths -> Metas \cup {None}] /\ idmap' \in [Ids -> Paths \cup {None}]
    BY <1>1, ZenonT(30) DEF DInv, TypeOK
  <2>3. tail' \in [Ids -> Nat] /\ ref' \in [Ids -> Nat] /\ delete' \in [Ids -> Nat \cup {None}]
    BY <1>1, ZenonT(30) DEF DInv, TypeOK
  <2>4. reg' \in [Paths -> Residents \cup {None}] /\ tomb' \subseteq Paths
    BY <1>1 DEF DInv, TypeOK
  <2>5. gone' \subseteq Ids /\ late' \subseteq gone' \X Nat
    BY <1>m, <1>1 DEF DInv, TypeOK
  <2> QED BY <2>1, <2>2, <2>3, <2>4, <2>5 DEF DInv, TypeOK
<1>4. Numbered'
  <2>1. \A x \in Paths : meta'[x] # None => meta'[x].id < nextID
    BY <1>1 DEF DInv, TypeOK, Numbered, Live
  <2>2. \A x \in Paths : reg'[x] # None => reg'[x].meta.id < nextID
    BY <1>1, ZenonT(30) DEF DInv, TypeOK, Numbered
  <2>3. \A i \in gone' : i < nextID
    BY <1>m, <1>1, ZenonT(30) DEF DInv, Numbered
  <2>4. (mu'.pc # "free" => mu'.id \in Ids) /\ mu'.pc # "cascade"
    BY <1>m, <1>2 DEF Free
  <2> QED BY <2>1, <2>2, <2>3, <2>4, ZenonT(30) DEF DInv, Numbered, Live
<1>5. Bounded'
  BY DEF DInv, Bounded
<1>6. DeletionResumable'
  <2> SUFFICES ASSUME NEW i \in gone', NEW q \in recs[i]
               PROVE  <<i, q>> \in late \/ (delete'[i] # None /\ q >= delete'[i])
    BY Zenon DEF DeletionResumable
  <2>1. CASE i = m.id
    <3>1. delete'[i] = 0 /\ q \in Nat
      BY <1>m, <1>1, <2>1, ZenonT(30) DEF DInv, TypeOK
    <3> QED BY <3>1, NoneIsNew
  <2>2. CASE i # m.id
    <3>1. i \in gone /\ delete'[i] = delete[i]
      BY <1>1, <2>2 DEF DInv, TypeOK
    <3> QED BY <3>1 DEF DInv, DeletionResumable
  <2> QED BY <2>1, <2>2
<1> QED BY <1>3, <1>4, <1>5, <1>6, Zenon DEF DInv

\* A chunk of the background delete: the cursor passes only what the chunk removes.
LEMMA DeleteChunkD ==
  ASSUME DInv, NEW i \in Ids, DeleteChunk(i)
  PROVE DInv'
<1> DEFINE S == ToDelete(i)
           K == {q \in S : Cardinality({r \in S : r < q}) < Chunk}
           x == CHOOSE q \in K : \A r \in K : r <= q
<1>u. UNCHANGED <<meta, idmap, tail, ref, tomb, counter, nextID, reg, bursts, mu, gone, expired, late, crashes>>
  BY DEF DeleteChunk, hist
<1>1. /\ delete[i] # None /\ S # {}
      /\ recs' = [recs EXCEPT ![i] = @ \ K] /\ delete' = [delete EXCEPT ![i] = 1 + x]
  BY DEF DeleteChunk, without
<1>2. delete[i] \in Nat /\ S \subseteq recs[i] /\ recs[i] \subseteq Nat
  BY <1>1 DEF DInv, TypeOK, ToDelete
<1>3. PICK b \in Nat : \A q \in recs[i] : q <= b
  BY DEF DInv, Bounded
<1>4. (\E y \in K : \A r \in K : r <= y) /\ \A q \in S \ K, k \in K : k < q
  <2>1. S \subseteq Nat /\ \A q \in S : q <= b
    BY <1>2, <1>3
  <2> HIDE DEF S
  <2> QED BY <1>1, <2>1, ChunkOf, Zenon
<1>5. K \subseteq S
  OBVIOUS
<1>6. \A q \in recs[i] : q >= delete[i] => q \in S
  BY DEF ToDelete
<1> HIDE DEF S, K
<1>7. x \in K
  BY <1>4
<1> HIDE DEF x
<1>8. x \in Nat /\ \A q \in S \ K : x < q
  BY <1>2, <1>4, <1>5, <1>7, ZenonT(30)
<1>9. TypeOK'
  <2>1. recs' \in [Ids -> SUBSET Nat] /\ delete' \in [Ids -> Nat \cup {None}]
    BY <1>1, <1>8 DEF DInv, TypeOK
  <2> QED BY <1>u, <2>1 DEF DInv, TypeOK
<1>10. Numbered'
  BY <1>u, Zenon DEF DInv, Numbered, Live
<1>11. \A j \in Ids : recs'[j] \subseteq recs[j]
  BY <1>1 DEF DInv, TypeOK
<1>12. Bounded'
  BY <1>11 DEF DInv, Bounded
<1>13. DeletionResumable'
  <2> SUFFICES ASSUME NEW j \in gone, NEW q \in recs'[j]
               PROVE  <<j, q>> \in late \/ (delete'[j] # None /\ q >= delete'[j])
    BY <1>u, Zenon DEF DeletionResumable
  <2>1. j \in Ids /\ q \in recs[j] /\ q \in Nat
    BY <1>11 DEF DInv, TypeOK
  <2>2. <<j, q>> \in late \/ (delete[j] # None /\ q >= delete[j])
    BY <2>1 DEF DInv, DeletionResumable
  <2>3. CASE j = i
    <3>1. delete'[j] = 1 + x /\ q \notin K
      BY <1>1, <2>3 DEF DInv, TypeOK
    <3>2. q >= delete[i] => x < q
      BY <1>6, <1>8, <2>1, <2>3, <3>1
    <3> QED BY <1>8, <2>1, <2>2, <2>3, <3>1, <3>2, NoneIsNew
  <2>4. CASE j # i
    BY <1>1, <2>1, <2>2, <2>4 DEF DInv, TypeOK
  <2> QED BY <2>3, <2>4
<1> QED BY <1>9, <1>10, <1>12, <1>13, Zenon DEF DInv

LEMMA DeleteDoneD ==
  ASSUME DInv, NEW i \in Ids, DeleteDone(i)
  PROVE DInv'
<1>u. UNCHANGED <<meta, idmap, tail, recs, ref, tomb, counter, nextID, reg, bursts, mu, gone, expired, late, crashes>>
  BY DEF DeleteDone, hist
<1>1. ToDelete(i) = {} /\ delete' = [delete EXCEPT ![i] = None]
  BY DEF DeleteDone
<1>2. TypeOK'
  BY <1>u, <1>1 DEF DInv, TypeOK
<1>3. Numbered' /\ Bounded'
  BY <1>u, Zenon DEF DInv, Numbered, Live, Bounded
<1>4. DeletionResumable'
  <2> SUFFICES ASSUME NEW j \in gone, NEW q \in recs[j]
               PROVE  <<j, q>> \in late \/ (delete'[j] # None /\ q >= delete'[j])
    BY <1>u, Zenon DEF DeletionResumable
  <2>1. j \in Ids /\ (<<j, q>> \in late \/ (delete[j] # None /\ q >= delete[j]))
    BY DEF DInv, TypeOK, DeletionResumable
  <2>2. CASE j = i
    BY <1>1, <2>1, <2>2 DEF ToDelete
  <2>3. CASE j # i
    BY <1>1, <2>1, <2>3 DEF DInv, TypeOK
  <2> QED BY <2>2, <2>3
<1> QED BY <1>2, <1>3, <1>4, Zenon DEF DInv

\* The bursts that stay when one is written are those before it and those behind it.
LEMMA WithoutAt ==
  ASSUME NEW s \in Seq(Bursts), NEW f \in 1..Len(s)
  PROVE  /\ Without(s, f) \in Seq(Bursts)
         /\ Len(Without(s, f)) = Len(s) - 1
         /\ \A k \in 1..(Len(s) - 1) : Without(s, f)[k] = IF k < f THEN s[k] ELSE s[k + 1]
<1> DEFINE w == Without(s, f)
<1>1. Len(s) - 1 \in Nat
  OBVIOUS
<1>2. w = [k \in 1..(Len(s) - 1) |-> s[IF k < f THEN k ELSE k + 1]]
  BY DEF Without
<1>3. \A k \in 1..(Len(s) - 1) : (IF k < f THEN k ELSE k + 1) \in 1..Len(s)
  OBVIOUS
<1>4. \A k \in 1..(Len(s) - 1) : w[k] = IF k < f THEN s[k] ELSE s[k + 1]
  BY <1>2
<1>5. \A k \in 1..(Len(s) - 1) : s[IF k < f THEN k ELSE k + 1] \in Bursts
  BY <1>3
<1>6. w \in Seq(Bursts) /\ Len(w) = Len(s) - 1
  BY <1>1, <1>2, <1>5
<1> QED BY <1>4, <1>6

\* A written burst adds one record, to those known as late if the stream is gone.
LEMMA WriteBurstD ==
  ASSUME DInv, NEW f \in 1..Len(bursts), WriteBurst(f)
  PROVE DInv'
<1> DEFINE b == bursts[f]
           i == b.meta.id
<1>u. UNCHANGED <<idmap, ref, tomb, delete, counter, nextID, reg, mu, gone, expired, crashes>>
  BY ZenonT(30) DEF WriteBurst
<1>1. /\ recs' = [recs EXCEPT ![i] = @ \cup {b.seq}] /\ tail' = [tail EXCEPT ![i] = b.seq + 1]
      /\ meta' = (IF b.withMeta THEN [meta EXCEPT ![b.path] = b.meta] ELSE meta)
      /\ bursts' = Without(bursts, f)
  BY ZenonT(30) DEF WriteBurst
<1>2. late' = IF i \in gone THEN late \cup {<<i, b.seq>>} ELSE late
  BY DEF WriteBurst
<1>3. b \in Bursts
  BY DEF DInv, TypeOK
<1>4. b.path \in Paths /\ b.meta \in Metas /\ b.seq \in Nat /\ i \in Ids /\ i < nextID
  BY <1>3, MetaFields DEF Bursts, DInv, Numbered
<1>5. /\ bursts' \in Seq(Bursts) /\ Len(bursts') = Len(bursts) - 1
      /\ \A k \in 1..Len(bursts') : \E j \in 1..Len(bursts) : bursts'[k] = bursts[j]
  <2>1. /\ bursts' \in Seq(Bursts) /\ Len(bursts') = Len(bursts) - 1
        /\ \A k \in 1..(Len(bursts) - 1) : bursts'[k] = IF k < f THEN bursts[k] ELSE bursts[k + 1]
    BY <1>1, WithoutAt, Zenon DEF DInv, TypeOK
  <2>2. Len(bursts) \in Nat
    BY DEF DInv, TypeOK
  <2>3. ASSUME NEW k \in 1..Len(bursts')
        PROVE  \E j \in 1..Len(bursts) : bursts'[k] = bursts[j]
    <3>1. k \in 1..(Len(bursts) - 1) /\ k \in 1..Len(bursts) /\ k + 1 \in 1..Len(bursts)
      BY <2>1, <2>2
    <3> QED BY <2>1, <3>1, Zenon
  <2> QED BY <2>1, <2>3, Zenon
<1> HIDE DEF b, i
<1>6. \A x \in Paths : meta'[x] = meta[x] \/ (meta'[x] = b.meta /\ x = b.path)
  <2>1. CASE meta' = meta
    BY <2>1
  <2>2. CASE meta' = [meta EXCEPT ![b.path] = b.meta]
    BY <1>4, <2>2 DEF DInv, TypeOK
  <2> QED BY <1>1, <2>1, <2>2, Zenon
<1>7. TypeOK'
  <2>1. meta' \in [Paths -> Metas \cup {None}]
    BY <1>1, <1>4 DEF DInv, TypeOK
  <2>2. recs' \in [Ids -> SUBSET Nat] /\ tail' \in [Ids -> Nat]
    BY <1>1, <1>4 DEF DInv, TypeOK
  <2>3. late' \subseteq gone \X Nat
    BY <1>2, <1>4 DEF DInv, TypeOK
  <2> QED BY <1>u, <1>5, <2>1, <2>2, <2>3 DEF DInv, TypeOK
<1>8. Numbered'
  <2>1. \A x \in Paths : meta'[x] # None => meta'[x].id < nextID
    BY <1>4, <1>6 DEF DInv, Numbered, Live, i
  <2>2. \A k \in 1..Len(bursts') : bursts'[k].meta.id < nextID
    BY <1>5, Zenon DEF DInv, Numbered
  <2>3. mu.pc = "cascade" => idmap[mu.id] # None /\ meta'[idmap[mu.id]] # None
    <3> SUFFICES ASSUME mu.pc = "cascade" PROVE idmap[mu.id] # None /\ meta'[idmap[mu.id]] # None
      OBVIOUS
    <3>1. idmap[mu.id] # None /\ meta[idmap[mu.id]] # None /\ mu.id \in Ids
      BY DEF DInv, Numbered
    <3>2. idmap[mu.id] \in Paths
      BY <3>1 DEF DInv, TypeOK
    <3> QED BY <1>4, <1>6, <3>1, <3>2, NoneIsNew, Zenon
  <2> QED BY <1>u, <2>1, <2>2, <2>3, Zenon DEF DInv, Numbered, Live
<1>9. Bounded'
  <2> SUFFICES ASSUME NEW j \in Ids PROVE \E n \in Nat : \A q \in recs'[j] : q <= n
    BY DEF Bounded
  <2>1. PICK n \in Nat : \A q \in recs[j] : q <= n
    BY DEF DInv, Bounded
  <2>2. recs'[j] \subseteq recs[j] \cup {b.seq} /\ recs[j] \subseteq Nat
    BY <1>1, <1>4 DEF DInv, TypeOK
  <2>3. \A q \in recs'[j] : q <= n + b.seq
    BY <1>4, <2>1, <2>2
  <2> QED BY <1>4, <2>3
<1>10. DeletionResumable'
  <2> SUFFICES ASSUME NEW j \in gone, NEW q \in recs'[j]
               PROVE  <<j, q>> \in late' \/ (delete[j] # None /\ q >= delete[j])
    BY <1>u, Zenon DEF DeletionResumable
  <2>1. j \in Ids
    BY DEF DInv, TypeOK
  <2>2. q \in recs[j] \/ (j = i /\ q = b.seq)
    BY <1>1, <1>4, <2>1 DEF DInv, TypeOK
  <2>3. q \in recs[j] => <<j, q>> \in late \/ (delete[j] # None /\ q >= delete[j])
    BY Zenon DEF DInv, DeletionResumable
  <2>4. late \subseteq late' /\ (j = i => <<j, b.seq>> \in late')
    BY <1>2, Zenon
  <2> QED BY <2>2, <2>3, <2>4, Zenon
<1> QED BY <1>7, <1>8, <1>9, <1>10, Zenon DEF DInv

\* Steps that leave the store and the history alone, except tombstones and counts.
LEMMA MemoryD ==
  ASSUME DInv, UNCHANGED <<meta, idmap, tail, recs, delete, counter, gone, expired, late>>,
         ref' \in [Ids -> Nat], tomb' \subseteq Paths, crashes' \in Nat,
         nextID' = nextID,
         reg' \in [Paths -> Residents \cup {None}],
         \A p \in Paths : reg'[p] # None => reg'[p].meta.id < nextID,
         bursts' \in Seq(Bursts), \A k \in 1..Len(bursts') : bursts'[k].meta.id < nextID,
         mu' \in [pc : {"free", "drop", "cascade"}, id : 0..MaxId],
         mu'.pc # "free" => mu'.id \in Ids,
         mu'.pc = "cascade" => idmap[mu'.id] # None /\ meta[idmap[mu'.id]] # None
  PROVE DInv'
<1>1. TypeOK'
  BY Zenon DEF DInv, TypeOK
<1>2. Numbered'
  BY Zenon DEF DInv, Numbered, Live
<1>3. Bounded' /\ DeletionResumable'
  BY Zenon DEF DInv, Bounded, DeletionResumable
<1> QED BY <1>1, <1>2, <1>3, Zenon DEF DInv

LEMMA SoftDeleteD ==
  ASSUME DInv, NEW p \in Paths, SoftDelete(p)
  PROVE DInv'
<1>1. /\ UNCHANGED <<meta, idmap, tail, recs, ref, delete, counter, nextID, bursts, mu, gone, expired, late, crashes>>
      /\ tomb' = tomb \cup {p} /\ reg' = [reg EXCEPT ![p] = None]
  BY DEF SoftDelete, hist
<1>2. /\ reg' \in [Paths -> Residents \cup {None}]
      /\ \A x \in Paths : reg'[x] = None \/ reg'[x] = reg[x]
  BY <1>1 DEF DInv, TypeOK
<1>3. /\ ref' \in [Ids -> Nat] /\ tomb' \subseteq Paths /\ crashes' \in Nat
      /\ bursts' \in Seq(Bursts) /\ mu' \in [pc : {"free", "drop", "cascade"}, id : 0..MaxId]
  BY <1>1 DEF DInv, TypeOK
<1> QED BY <1>1, <1>2, <1>3, MemoryD, Zenon DEF DInv, Numbered

LEMMA DropForkRefD ==
  ASSUME DInv, DropForkRef
  PROVE DInv'
<1> DEFINE i == mu.id
<1>1. UNCHANGED <<meta, idmap, tail, recs, tomb, delete, counter, nextID, reg, bursts, gone, expired, late, crashes>>
  BY DEF DropForkRef, hist
<1>2. /\ ref' = [ref EXCEPT ![i] = count(i)] /\ mu.pc = "drop"
      /\ \/ mu' = Free
         \/ mu' = [pc |-> "cascade", id |-> i] /\ idmap[i] # None /\ meta[idmap[i]] # None
  BY DEF DropForkRef
<1>3. i \in Ids /\ i \in 0..MaxId /\ 0 \in 0..MaxId
  BY <1>2, LifecycleAssumption DEF DInv, Numbered, Ids
<1>4. count(i) \in Nat
  BY <1>3 DEF count, DInv, TypeOK
<1> HIDE DEF i
<1>5. ref' \in [Ids -> Nat]
  BY <1>2, <1>4, ZenonT(30) DEF DInv, TypeOK
<1>6. /\ mu' \in [pc : {"free", "drop", "cascade"}, id : 0..MaxId]
      /\ mu'.pc # "free" => mu'.id \in Ids
      /\ mu'.pc = "cascade" => idmap[mu'.id] # None /\ meta[idmap[mu'.id]] # None
  BY <1>2, <1>3 DEF Free
<1>7. /\ tomb' \subseteq Paths /\ crashes' \in Nat /\ bursts' \in Seq(Bursts)
      /\ reg' \in [Paths -> Residents \cup {None}]
  BY <1>1 DEF DInv, TypeOK
<1> QED BY <1>1, <1>5, <1>6, <1>7, MemoryD, Zenon DEF DInv, Numbered

LEMMA SpawnD ==
  ASSUME DInv, NEW p \in Paths, Spawn(p)
  PROVE DInv'
<1>1. UNCHANGED <<meta, idmap, tail, recs, ref, tomb, delete, counter, nextID, bursts, mu, gone, expired, late, crashes>>
  BY DEF Spawn, disk, hist
<1>2. meta[p] # None /\ reg' = [reg EXCEPT ![p] = [meta |-> meta[p], tail |-> tail[meta[p].id]]]
  BY DEF Spawn
<1>3. meta[p] \in Metas /\ meta[p].id < nextID
  BY <1>2, ZenonT(30) DEF DInv, TypeOK, Numbered, Live
<1>4. [meta |-> meta[p], tail |-> tail[meta[p].id]] \in Residents
  BY <1>3, MetaFields, ZenonT(30) DEF Residents, DInv, TypeOK
<1>5. /\ reg' \in [Paths -> Residents \cup {None}]
      /\ \A x \in Paths : reg'[x] = reg[x] \/ reg'[x].meta = meta[p]
  BY <1>2, <1>4, ZenonT(30) DEF DInv, TypeOK
<1>6. /\ ref' \in [Ids -> Nat] /\ tomb' \subseteq Paths /\ crashes' \in Nat
      /\ bursts' \in Seq(Bursts) /\ mu' \in [pc : {"free", "drop", "cascade"}, id : 0..MaxId]
  BY <1>1 DEF DInv, TypeOK
<1>7. \A x \in Paths : reg'[x] # None => reg'[x].meta.id < nextID
  BY <1>3, <1>5, Zenon DEF DInv, Numbered
<1> QED BY <1>1, <1>5, <1>6, <1>7, MemoryD, Zenon DEF DInv, Numbered

\* What planning a burst does to memory.
LEMMA Planned ==
  ASSUME DInv, NEW p \in Paths, NEW withMeta \in BOOLEAN, Append_(p, withMeta)
  PROVE  /\ reg[p] \in Residents /\ reg[p].meta \in Metas /\ reg[p].tail \in Nat
         /\ reg' \in [Paths -> Residents \cup {None}]
         /\ reg'[p].meta = reg[p].meta /\ reg'[p].tail = reg[p].tail + 1 /\ reg'[p] # None
         /\ \A x \in Paths \ {p} : reg'[x] = reg[x]
         /\ bursts' \in Seq(Bursts) /\ Len(bursts') = Len(bursts) + 1
         /\ \A k \in 1..Len(bursts) : bursts'[k] = bursts[k]
         /\ bursts'[Len(bursts) + 1] = [path |-> p, meta |-> reg[p].meta, seq |-> reg[p].tail,
                                        withMeta |-> withMeta]
<1> DEFINE r == reg[p]
           y == [path |-> p, meta |-> r.meta, seq |-> r.tail, withMeta |-> withMeta]
<1>1. r \in Residents
  BY DEF Append_, DInv, TypeOK
<1>2. r.meta \in Metas /\ r.tail \in Nat /\ [r EXCEPT !.tail = @ + 1] \in Residents
  BY <1>1 DEF Residents
<1>3. [r EXCEPT !.tail = @ + 1].meta = r.meta /\ [r EXCEPT !.tail = @ + 1].tail = r.tail + 1
  BY <1>1 DEF Residents
<1>4. y \in Bursts
  BY <1>2 DEF Bursts
<1>5. reg' = [reg EXCEPT ![p] = [r EXCEPT !.tail = @ + 1]] /\ bursts' = Append(bursts, y)
  BY DEF Append_
<1>6. bursts \in Seq(Bursts) /\ reg \in [Paths -> Residents \cup {None}]
  BY DEF DInv, TypeOK
<1> HIDE DEF y, r
<1>7. /\ bursts' \in Seq(Bursts) /\ Len(bursts') = Len(bursts) + 1
      /\ \A k \in 1..Len(bursts) : bursts'[k] = bursts[k]
      /\ bursts'[Len(bursts) + 1] = y
  BY <1>4, <1>5, <1>6
<1>8. /\ reg' \in [Paths -> Residents \cup {None}] /\ reg'[p] = [r EXCEPT !.tail = @ + 1]
      /\ \A x \in Paths \ {p} : reg'[x] = reg[x]
  BY <1>2, <1>5, <1>6
<1> QED BY <1>1, <1>2, <1>3, <1>7, <1>8, NoneIsNew, Zenon DEF y, r

LEMMA AppendD ==
  ASSUME DInv, NEW p \in Paths, NEW withMeta \in BOOLEAN, Append_(p, withMeta)
  PROVE DInv'
<1>1. UNCHANGED <<meta, idmap, tail, recs, ref, tomb, delete, counter, nextID, mu, gone, expired, late, crashes>>
  BY DEF Append_, disk, hist
<1>2. reg[p] # None /\ reg[p].meta.id < nextID
  BY DEF Append_, DInv, Numbered
<1>p. /\ reg'[p].meta = reg[p].meta /\ \A x \in Paths \ {p} : reg'[x] = reg[x]
      /\ Len(bursts') = Len(bursts) + 1 /\ \A k \in 1..Len(bursts) : bursts'[k] = bursts[k]
      /\ bursts'[Len(bursts) + 1] = [path |-> p, meta |-> reg[p].meta, seq |-> reg[p].tail,
                                     withMeta |-> withMeta]
  BY Planned, ZenonT(30)
<1>3. \A x \in Paths : reg'[x] # None => reg'[x].meta.id < nextID
  BY <1>2, <1>p, Zenon DEF DInv, Numbered
<1>4. \A k \in 1..Len(bursts') : bursts'[k].meta.id < nextID
  <2>1. Len(bursts) \in Nat
    BY DEF DInv, TypeOK
  <2>2. \A k \in 1..Len(bursts') : k \in 1..Len(bursts) \/ k = Len(bursts) + 1
    BY <1>p, <2>1
  <2>3. bursts'[Len(bursts) + 1].meta = reg[p].meta
    BY <1>p
  <2> QED BY <1>2, <1>p, <2>2, <2>3, Zenon DEF DInv, Numbered
<1>5. /\ ref' \in [Ids -> Nat] /\ tomb' \subseteq Paths /\ crashes' \in Nat
      /\ mu' \in [pc : {"free", "drop", "cascade"}, id : 0..MaxId]
  BY <1>1 DEF DInv, TypeOK
<1>6. bursts' \in Seq(Bursts) /\ reg' \in [Paths -> Residents \cup {None}]
  BY Planned, Zenon
<1> QED BY <1>1, <1>3, <1>4, <1>5, <1>6, MemoryD, Zenon DEF DInv, Numbered

LEMMA RetireD ==
  ASSUME DInv, NEW p \in Paths, Retire(p)
  PROVE DInv'
<1>1. UNCHANGED <<meta, idmap, tail, recs, ref, tomb, delete, counter, nextID, bursts, mu, gone, expired, late, crashes>>
  BY ZenonT(30) DEF Retire, disk, hist
<1>2. /\ reg' \in [Paths -> Residents \cup {None}]
      /\ \A x \in Paths : reg'[x] = None \/ reg'[x] = reg[x]
  BY DEF Retire, DInv, TypeOK
<1>3. /\ ref' \in [Ids -> Nat] /\ tomb' \subseteq Paths /\ crashes' \in Nat
      /\ bursts' \in Seq(Bursts) /\ mu' \in [pc : {"free", "drop", "cascade"}, id : 0..MaxId]
  BY <1>1 DEF DInv, TypeOK
<1> QED BY <1>1, <1>2, <1>3, MemoryD, Zenon DEF DInv, Numbered

LEMMA CrashD ==
  ASSUME DInv, Crash
  PROVE DInv'
<1>1. /\ UNCHANGED <<meta, idmap, tail, recs, ref, tomb, delete, counter, gone, expired, late>>
      /\ reg' = [x \in Paths |-> None] /\ bursts' = << >> /\ mu' = Free /\ nextID' = counter
      /\ crashes' = crashes + 1
  BY ZenonT(30) DEF Crash, disk, hist
<1>2. /\ bursts' \in Seq(Bursts) /\ Len(bursts') = 0 /\ crashes' \in Nat
      /\ reg' \in [Paths -> Residents \cup {None}] /\ \A x \in Paths : reg'[x] = None
  BY <1>1 DEF DInv, TypeOK
<1>3. mu' \in [pc : {"free", "drop", "cascade"}, id : 0..MaxId] /\ mu'.pc = "free"
  BY <1>1, LifecycleAssumption DEF Free
<1>4. ref' \in [Ids -> Nat] /\ tomb' \subseteq Paths /\ nextID' = nextID
  BY <1>1 DEF DInv, TypeOK, Numbered
<1>5. \A k \in 1..Len(bursts') : bursts'[k].meta.id < nextID
  BY <1>2
<1>6. mu'.pc # "cascade"
  BY <1>3, ZenonT(30)
<1> QED BY <1>1, <1>2, <1>3, <1>4, <1>5, <1>6, MemoryD, Zenon

\* The meta of a new stream.
LEMMA NewMeta ==
  ASSUME DInv, nextID <= MaxId, NEW from \in 0..MaxId, NEW off \in 0..MaxTail, NEW x \in BOOLEAN
  PROVE  [id |-> nextID, from |-> from, off |-> off, expires |-> x] \in Metas
BY DEF DInv, TypeOK, Metas, Ids

LEMMA CreateStreamD ==
  ASSUME DInv, NEW p \in Paths, NEW n \in Bodies, NEW x \in BOOLEAN, CreateStream(p, n, x)
  PROVE DInv'
<1> DEFINE m == [id |-> nextID, from |-> 0, off |-> 0, expires |-> x]
<1>1. /\ mu = Free /\ nextID <= MaxId /\ Establish(p, m, n)
      /\ UNCHANGED <<ref, tomb, delete, reg, bursts, mu, hist, crashes>>
  BY DEF CreateStream
<1>2. m \in Metas
  <2>1. 0 \in 0..MaxId /\ 0 \in 0..MaxTail
    BY LifecycleAssumption
  <2> QED BY <1>1, <2>1, NewMeta, Zenon
<1>3. m.id = nextID
  BY ZenonT(30)
<1>4. n \in Nat /\ ref' \in [Ids -> Nat]
  BY <1>1, LifecycleAssumption DEF DInv, TypeOK
<1> HIDE DEF m
<1> QED BY <1>1, <1>2, <1>3, <1>4, EstablishD, Zenon

LEMMA CreateForkD ==
  ASSUME DInv, NEW p \in Paths, NEW src \in Paths, NEW off \in 0..MaxTail, NEW n \in Bodies,
         NEW x \in BOOLEAN, CreateFork(p, src, off, n, x)
  PROVE DInv'
<1> DEFINE m == [id |-> nextID, from |-> meta[src].id, off |-> off, expires |-> x]
<1>1. /\ mu = Free /\ nextID <= MaxId /\ Establish(p, m, n) /\ meta[src] # None
      /\ ref' = [ref EXCEPT ![meta[src].id] = bumped(meta[src].id)]
      /\ UNCHANGED <<tomb, delete, reg, bursts, mu, hist, crashes>>
  BY ZenonT(30) DEF CreateFork
<1>2. meta[src].id \in Ids /\ meta[src].id \in 0..MaxId
  BY <1>1, MetaFields DEF DInv, TypeOK, Ids
<1>3. m \in Metas
  BY <1>1, <1>2, NewMeta, Zenon
<1>4. m.id = nextID
  BY ZenonT(30)
<1>5. n \in Nat /\ ref' \in [Ids -> Nat]
  <2>1. n \in Nat
    BY LifecycleAssumption, Zenon
  <2>2. ref \in [Ids -> Nat]
    BY Zenon DEF DInv, TypeOK
  <2> QED BY <1>1, <1>2, <2>1, <2>2, Incremented, Zenon DEF bumped
<1> HIDE DEF m
<1> QED BY <1>1, <1>3, <1>4, <1>5, EstablishD, Zenon

LEMMA DeleteStreamD ==
  ASSUME DInv, NEW p \in Paths, DeleteStream(p)
  PROVE DInv'
<1>1. /\ meta[p] # None /\ HardDelete(p, meta[p])
      /\ UNCHANGED <<recs, counter, nextID, bursts, late, crashes>> /\ expired' = expired
  BY DEF DeleteStream
<1>2. expired' \subseteq gone'
  BY <1>1, Zenon DEF HardDelete, DInv, TypeOK
<1> QED BY <1>1, <1>2, HardDeleteD, Zenon

LEMMA ExpireD ==
  ASSUME DInv, NEW i \in Ids, Expire(i)
  PROVE DInv'
<1> DEFINE p == idmap[i]
<1>1. /\ p # None /\ meta[p] # None /\ meta[p].id = i /\ HardDelete(p, meta[p])
      /\ UNCHANGED <<recs, counter, nextID, bursts, late, crashes>>
      /\ expired' = expired \cup {i}
  BY ZenonT(30) DEF Expire
<1>2. p \in Paths
  BY <1>1 DEF DInv, TypeOK
<1> HIDE DEF p
<1>3. expired' \subseteq gone'
  BY <1>1, Zenon DEF HardDelete, DInv, TypeOK
<1> QED BY <1>1, <1>2, <1>3, HardDeleteD, Zenon

LEMMA CascadeD ==
  ASSUME DInv, Cascade
  PROVE DInv'
<1> DEFINE p == idmap[mu.id]
<1>1. /\ p # None /\ meta[p] # None /\ mu.id \in Ids /\ HardDelete(p, meta[p])
      /\ UNCHANGED <<recs, counter, nextID, bursts, late, crashes>> /\ expired' = expired
  BY ZenonT(30) DEF Cascade, DInv, Numbered
<1>2. p \in Paths
  BY <1>1 DEF DInv, TypeOK
<1> HIDE DEF p
<1>3. expired' \subseteq gone'
  BY <1>1, Zenon DEF HardDelete, DInv, TypeOK
<1> QED BY <1>1, <1>2, <1>3, HardDeleteD, Zenon

LEMMA NextD == DInv /\ [Next]_vars => DInv'
<1> SUFFICES ASSUME DInv, [Next]_vars PROVE DInv'
  OBVIOUS
<1>1. CASE UNCHANGED vars
  <2>1. TypeOK'
    BY <1>1, Zenon DEF vars, DInv, TypeOK
  <2>2. Numbered'
    BY <1>1, Zenon DEF vars, DInv, Numbered, Live
  <2>3. Bounded' /\ DeletionResumable'
    BY <1>1, Zenon DEF vars, DInv, Bounded, DeletionResumable
  <2> QED BY <2>1, <2>2, <2>3, Zenon DEF DInv
<1>2. CASE \E p \in Paths, n \in Bodies, x \in BOOLEAN : CreateStream(p, n, x)
  BY <1>2, CreateStreamD, Zenon
<1>3. CASE \E p, src \in Paths, off \in 0..MaxTail, n \in Bodies, x \in BOOLEAN :
             CreateFork(p, src, off, n, x)
  BY <1>3, CreateForkD, Zenon
<1>4. CASE \E p \in Paths : DeleteStream(p) \/ SoftDelete(p) \/ Spawn(p) \/ Retire(p)
  BY <1>4, DeleteStreamD, SoftDeleteD, SpawnD, RetireD, Zenon
<1>5. CASE \E p \in Paths, m \in BOOLEAN : Append_(p, m)
  BY <1>5, AppendD, Zenon
<1>6. CASE \E i \in Ids : Expire(i) \/ DeleteChunk(i) \/ DeleteDone(i)
  BY <1>6, ExpireD, DeleteChunkD, DeleteDoneD, Zenon
<1>7. CASE DropForkRef \/ Cascade \/ Crash
  BY <1>7, DropForkRefD, CascadeD, CrashD, Zenon
<1>8. CASE \E i \in 1..Len(bursts) : WriteBurst(i)
  BY <1>8, WriteBurstD, Zenon
<1> QED BY <1>1, <1>2, <1>3, <1>4, <1>5, <1>6, <1>7, <1>8, Zenon DEF Next

\* Background deletion can be resumed in every crash state: each record left of a
\* deleted stream is ahead of its cursor, or was written after the delete
\* (backgroundDelete and resumeDeletions, deleter.go).
THEOREM DeletionIsResumable == Spec => []DeletionResumable
<1>1. DInv => DeletionResumable
  BY Zenon DEF DInv
<1> QED BY <1>1, InitD, NextD, PTL DEF Spec

-----------------------------------------------------------------------------
(* Reference counts, addressing and intact records, when bursts leave meta alone. *)

LEMMA InitI == Init => IInv
<1> SUFFICES ASSUME Init PROVE IInv
  OBVIOUS
<1>1. /\ Live = {} /\ Len(bursts) = 0 /\ 1..0 = {}
      /\ \A p \in Paths : reg[p] = None
      /\ \A i \in Ids : idmap[i] = None /\ delete[i] = None
  BY DEF Init, Live
<1>2. Addressed
  BY <1>1, Zenon DEF Addressed, DeletedStaysDeleted
<1>3. Counted
  BY <1>1, FS_EmptySet, Zenon DEF Counted
<1>4. Intact
  BY <1>1, Zenon DEF Intact
<1> QED BY <1>2, <1>3, <1>4, InitD, Zenon DEF IInv

\* More records, and more bursts, back more.
LEMMA BackedMono ==
  ASSUME NEW R, NEW S, NEW B, NEW C, NEW m, NEW n, NEW k \in Nat, NEW l \in Nat,
         Backed(R, B, m, n, k), R[m.id] \subseteq S[m.id], k <= l,
         \A j \in 1..k : C[j] = B[j]
  PROVE  Backed(S, C, m, n, l)
<1> SUFFICES ASSUME NEW q \in m.off..(n - 1)
             PROVE  q \in S[m.id] \/ \E j \in 1..l : C[j].meta.id = m.id /\ C[j].seq = q
  BY Zenon DEF Backed
<1>1. q \in R[m.id] \/ \E j \in 1..k : B[j].meta.id = m.id /\ B[j].seq = q
  BY Zenon DEF Backed
<1>2. \A j \in 1..k : j \in 1..l
  OBVIOUS
<1> QED BY <1>1, <1>2, Zenon

LEMMA BackedKeep ==
  ASSUME NEW R, NEW S, NEW B, NEW m, NEW n, NEW k, Backed(R, B, m, n, k), R[m.id] \subseteq S[m.id]
  PROVE  Backed(S, B, m, n, k)
BY Zenon DEF Backed

\* Writing burst f turns what it backed into a record.
LEMMA BackedWrite ==
  ASSUME NEW R \in [Ids -> SUBSET Nat], NEW s \in Seq(Bursts), NEW f \in 1..Len(s),
         NEW m \in Metas, NEW n, NEW k \in 0..Len(s), Backed(R, s, m, n, k),
         NEW S, S = [R EXCEPT ![s[f].meta.id] = @ \cup {s[f].seq}]
  PROVE  Backed(S, Without(s, f), m, n, IF k < f THEN k ELSE k - 1)
<1> DEFINE w == Without(s, f)
           l == IF k < f THEN k ELSE k - 1
<1> SUFFICES ASSUME NEW q \in m.off..(n - 1)
             PROVE  q \in S[m.id] \/ \E j \in 1..l : w[j].meta.id = m.id /\ w[j].seq = q
  BY Zenon DEF Backed
<1>0. Len(s) \in Nat
  OBVIOUS
<1>1. \A j \in 1..(Len(s) - 1) : w[j] = IF j < f THEN s[j] ELSE s[j + 1]
  BY WithoutAt, Zenon
<1> HIDE DEF w
<1>2. m.id \in Ids /\ R[m.id] \subseteq S[m.id]
  BY MetaFields, ZenonT(30)
<1>3. s[f].meta.id = m.id => s[f].seq \in S[m.id]
  BY <1>2
<1>4. q \in R[m.id] \/ \E j \in 1..k : s[j].meta.id = m.id /\ s[j].seq = q
  BY Zenon DEF Backed
<1>5. ASSUME NEW j \in 1..k, s[j].meta.id = m.id, s[j].seq = q
      PROVE  q \in S[m.id] \/ \E i \in 1..l : w[i].meta.id = m.id /\ w[i].seq = q
  <2>1. CASE j = f
    BY <1>3, <1>5, <2>1, ZenonT(30)
  <2>2. CASE j < f
    <3>0. j \in 1..l /\ j \in 1..(Len(s) - 1)
      BY <1>0, <2>2, Places, Zenon
    <3>1. j \in 1..l /\ w[j] = s[j]
      BY <1>1, <2>2, <3>0, Zenon
    <3> QED BY <1>5, <3>1, ZenonT(30)
  <2>3. CASE j > f
    <3>1. j - 1 \in 1..l /\ w[j - 1] = s[j]
      BY <1>0, <1>1, <2>3, Places, ZenonT(30)
    <3> QED BY <1>5, <3>1, ZenonT(30)
  <2> QED BY <1>0, <2>1, <2>2, <2>3, Places, Zenon
<1> QED BY <1>2, <1>4, <1>5, Zenon

\* Streams that are there have ids of their own.
LEMMA OneStreamPerId ==
  ASSUME Addressed, NEW x \in Live, NEW y \in Live, meta[x].id = meta[y].id
  PROVE  x = y
<1>1. idmap[meta[x].id] = x /\ idmap[meta[y].id] = y
  BY Zenon DEF Addressed, DeletedStaysDeleted
<1> QED BY <1>1

\* What the residents and the bursts carry.
LEMMA Carried ==
  ASSUME DInv
  PROVE  /\ Len(bursts) \in Nat
         /\ \A p \in Paths : reg[p] # None => /\ reg[p].meta \in Metas /\ reg[p].meta # None
                                              /\ reg[p].tail \in Nat
         /\ \A k \in 1..Len(bursts) : /\ bursts[k].path \in Paths /\ bursts[k].meta \in Metas
                                      /\ bursts[k].meta # None /\ bursts[k].seq \in Nat
<1>1. \A r \in Residents : r.meta \in Metas /\ r.tail \in Nat
  BY DEF Residents
<1>2. \A b \in Bursts : b.path \in Paths /\ b.meta \in Metas /\ b.seq \in Nat
  BY DEF Bursts
<1>3. /\ Len(bursts) \in Nat /\ \A k \in 1..Len(bursts) : bursts[k] \in Bursts
      /\ \A p \in Paths : reg[p] \in Residents \cup {None}
  BY DEF DInv, TypeOK
<1> QED BY <1>1, <1>2, <1>3, NoneIsNew, Zenon

\* They carry the stored meta of a stream that is there, unless it was deleted.
LEMMA CarriedLive ==
  ASSUME IInv
  PROVE  /\ \A p \in Paths : reg[p] # None => p \in Live /\ meta[p] = reg[p].meta
         /\ \A k \in 1..Len(bursts) :
              \/ bursts[k].meta.id \in gone
              \/ bursts[k].path \in Live /\ meta[bursts[k].path] = bursts[k].meta
<1>0. DInv /\ Addressed
  BY Zenon DEF IInv
<1>1. ASSUME NEW p \in Paths, reg[p] # None
      PROVE  p \in Live /\ meta[p] = reg[p].meta
  <2>1. meta[p] = reg[p].meta
    BY <1>0, <1>1, Zenon DEF Addressed
  <2>2. reg[p].meta # None
    BY <1>0, <1>1, Carried, Zenon
  <2> QED BY <2>1, <2>2 DEF Live
<1>2. ASSUME NEW k \in 1..Len(bursts), bursts[k].meta.id \notin gone
      PROVE  bursts[k].path \in Live /\ meta[bursts[k].path] = bursts[k].meta
  <2>1. meta[bursts[k].path] = bursts[k].meta
    BY <1>0, <1>2, Zenon DEF Addressed
  <2>2. bursts[k].meta # None /\ bursts[k].path \in Paths
    BY <1>0, Carried, Zenon
  <2> QED BY <2>1, <2>2 DEF Live
<1> QED BY <1>1, <1>2, Zenon

\* The metas of live streams.
LEMMA LiveMetas ==
  ASSUME DInv
  PROVE  /\ nextID \in Nat /\ 0 < nextID
         /\ \A x \in Live : /\ x \in Paths /\ meta[x] # None /\ meta[x] \in Metas
                             /\ meta[x].id \in Ids /\ meta[x].id \in Nat /\ meta[x].id < nextID
                             /\ meta[x].from \in Nat /\ meta[x].off \in Nat
<1>1. nextID \in Nat /\ 0 < nextID
  BY DEF DInv, TypeOK
<1>2. \A x \in Live : x \in Paths /\ meta[x] # None /\ meta[x] \in Metas /\ meta[x].id < nextID
  BY Zenon DEF DInv, TypeOK, Live, Numbered
<1>3. Ids \subseteq Nat /\ 0..MaxId \subseteq Nat
  BY LifecycleAssumption DEF Ids
<1> QED BY <1>1, <1>2, <1>3, MetaFields, Zenon

\* A new stream, or a new fork with the reference its source's count gains.
LEMMA EstablishI ==
  ASSUME IInv, NEW p \in Paths, NEW m \in Metas, NEW n \in Nat, m.id = nextID, m.from < nextID,
         meta[p] = None, Establish(p, m, n), mu = Free, ref' \in [Ids -> Nat],
         \A i \in Ids : ref'[i] = IF i = m.from THEN ref[i] + 1 ELSE ref[i],
         UNCHANGED <<tomb, delete, reg, bursts, mu, hist, crashes>>
  PROVE Addressed' /\ Counted' /\ Intact'
<1>u. /\ delete' = delete /\ reg' = reg /\ bursts' = bursts /\ mu' = mu /\ gone' = gone
  BY DEF hist
<1>t. DInv /\ Addressed /\ Counted /\ Intact /\ TypeOK /\ Numbered
  BY Zenon DEF IInv, DInv
<1>m. m # None /\ m.id \in Ids /\ m.from \in Nat /\ nextID \in Nat /\ m.off \in Nat
  BY <1>t, MetaFields, NoneIsNew DEF TypeOK
<1>1. /\ meta'[p] = m /\ \A x \in Paths \ {p} : meta'[x] = meta[x]
      /\ idmap'[m.id] = p /\ \A i \in Ids \ {m.id} : idmap'[i] = idmap[i]
      /\ nextID' = nextID + 1
  BY <1>t, <1>m, ZenonT(30) DEF Establish, TypeOK
<1>2. /\ tail'[m.id] = m.off + n /\ m.off..(m.off + n - 1) \subseteq recs'[m.id]
      /\ \A i \in Ids \ {m.id} : tail'[i] = tail[i] /\ recs'[i] = recs[i]
  BY <1>t, <1>m, ZenonT(30) DEF Establish, TypeOK
<1>3. \A x \in Live : x \in Paths \ {p} /\ meta[x] \in Metas /\ meta[x].id \in Ids \ {m.id} /\ meta[x].id < nextID
  BY <1>t, <1>m, LiveMetas, Less, Zenon
<1>4. Live' = Live \cup {p}
  BY <1>1, <1>m, ZenonT(30) DEF Live
<1>5. \A x \in Paths : reg[x] # None => x # p /\ x \in Live /\ meta[x] = reg[x].meta
  BY <1>3, CarriedLive, Zenon
<1>6. \A k \in 1..Len(bursts) : bursts[k].meta.id \in gone
                               \/ (bursts[k].path \in Live /\ meta[bursts[k].path] = bursts[k].meta)
  BY CarriedLive, Zenon
<1>7. Addressed'
  <2>1. ASSUME NEW x \in Live'
        PROVE  meta'[x].id \notin gone /\ meta'[x].id < nextID' /\ idmap'[meta'[x].id] = x
    <3>1. CASE x = p
      <4>1. m.id \notin gone /\ m.id < nextID'
        BY <1>t, <1>m, <1>1, Less, ZenonT(30) DEF Numbered
      <4> QED BY <1>1, <3>1, <4>1, ZenonT(30)
    <3>2. CASE x \in Live
      <4>1. meta'[x] = meta[x] /\ idmap'[meta[x].id] = idmap[meta[x].id]
        BY <1>1, <1>3, <3>2, Zenon
      <4>2. meta[x].id \notin gone /\ idmap[meta[x].id] = x
        BY <1>t, <3>2, Zenon DEF Addressed, DeletedStaysDeleted
      <4>3. meta[x].id < nextID'
        BY <1>t, <1>m, <1>1, <3>2, LiveMetas, Less, Zenon
      <4> QED BY <4>1, <4>2, <4>3
    <3> QED BY <1>4, <3>1, <3>2, Zenon
  <2>2. ASSUME NEW i \in Ids, idmap'[i] # None
        PROVE  meta'[idmap'[i]] # None /\ meta'[idmap'[i]].id = i
    <3>1. CASE i = m.id
      BY <1>m, <1>1, <3>1, ZenonT(30)
    <3>2. CASE i # m.id
      <4>1. idmap'[i] = idmap[i] /\ idmap[i] \in Paths
        BY <1>t, <1>1, <2>2, <3>2 DEF TypeOK
      <4>2. meta[idmap[i]] # None /\ meta[idmap[i]].id = i
        BY <1>t, <2>2, <4>1, Zenon DEF Addressed
      <4>3. meta'[idmap[i]] = meta[idmap[i]]
        BY <1>1, <4>1, <4>2, Zenon
      <4> QED BY <4>1, <4>2, <4>3, ZenonT(30)
    <3> QED BY <3>1, <3>2, ZenonT(30)
  <2>3. \A x \in Paths : reg[x] # None => meta'[x] = reg[x].meta
    BY <1>1, <1>5, Zenon
  <2>4. \A k \in 1..Len(bursts) : bursts[k].meta.id \in gone \/ meta'[bursts[k].path] = bursts[k].meta
    BY <1>1, <1>3, <1>6, Zenon
  <2>5. DeletedStaysDeleted'
    BY <1>u, <2>1, Zenon DEF DeletedStaysDeleted
  <2> QED BY <1>t, <1>u, <2>2, <2>3, <2>4, <2>5, Zenon DEF Addressed
<1>8. Counted'
  <2>1. IsFiniteSet(Live')
    BY <1>t, <1>4, FS_AddElement, Zenon DEF Counted
  <2>2. \A x \in Live : meta'[x] = meta[x] /\ meta[x].from < nextID /\ meta[x].from \in Nat
    BY <1>t, <1>1, <1>3, LiveMetas, Zenon DEF Counted
  <2>3. \A x \in Live' : meta'[x].from < nextID'
    BY <1>m, <1>1, <1>4, <2>2, Less, Zenon
  <2>4. ASSUME NEW i \in Ids, idmap'[i] # None
        PROVE  ref'[i] >= Cardinality(Forks(i)') + Owed(i)'
    <3>1. Owed(i)' = 0
      <4>1. mu'.pc # "drop"
        BY <1>u, FreeRests, Zenon
      <4> QED BY <4>1, Zenon DEF Owed
    <3>2. Forks(i)' = {x \in Live' : meta'[x].from = i}
      BY DEF Forks
    <3>3. CASE i = m.id
      <4>1. Forks(i)' = {}
        <5>1. \A x \in Live' : meta'[x].from # i
          BY <1>m, <1>1, <1>4, <2>2, <3>3, Less, ZenonT(30)
        <5> QED BY <3>2, <5>1, Zenon
      <4>2. Cardinality(Forks(i)') = 0 /\ ref'[i] \in Nat
        BY <4>1, FS_EmptySet, Zenon
      <4> QED BY <3>1, <4>2
    <3>4. CASE i # m.id
      <4>1. idmap[i] # None
        BY <1>1, <2>4, <3>4, ZenonT(30)
      <4>2. ref[i] >= Cardinality(Forks(i)) + Owed(i) /\ Owed(i) = 0 /\ ref[i] \in Nat
        BY <1>t, <4>1 DEF Counted, Owed, Free, TypeOK
      <4>3. IsFiniteSet(Forks(i)) /\ Cardinality(Forks(i)) \in Nat
        <5>1. Forks(i) \in SUBSET Live
          BY Zenon DEF Forks
        <5> QED BY <1>t, <5>1, FS_Subset, FS_CardinalityType, Zenon DEF Counted
      <4>4. CASE i = m.from
        <5>1. Forks(i)' = Forks(i) \cup {p} /\ p \notin Forks(i)
          BY <1>1, <1>3, <1>4, <2>2, <3>2, <4>4, ZenonT(30) DEF Forks
        <5>2. Cardinality(Forks(i)') = Cardinality(Forks(i)) + 1
          BY <4>3, <5>1, FS_AddElement, ZenonT(30)
        <5>3. ref'[i] = ref[i] + 1
          BY <4>4, Zenon
        <5> QED BY <3>1, <4>2, <4>3, <5>2, <5>3
      <4>5. CASE i # m.from
        <5>1. Forks(i)' = Forks(i)
          BY <1>1, <1>3, <1>4, <2>2, <3>2, <4>5 DEF Forks
        <5> QED BY <3>1, <4>2, <4>3, <4>5, <5>1
      <4> QED BY <4>4, <4>5
    <3> QED BY <3>3, <3>4
  <2> QED BY <2>1, <2>3, <2>4, Zenon DEF Counted
<1>9. Intact'
  <2>1. ASSUME NEW x \in Live'
        PROVE  Backed(recs', bursts, meta'[x], tail'[meta'[x].id], 0)
    <3>1. CASE x = p
      <4>1. meta'[x] = m /\ tail'[m.id] = m.off + n
        BY <1>1, <1>2, <3>1, ZenonT(30)
      <4>2. \A q \in m.off..((m.off + n) - 1) : q \in recs'[m.id]
        BY <1>2, <1>m
      <4>3. Backed(recs', bursts, m, m.off + n, 0)
        BY <4>2, Zenon DEF Backed
      <4> QED BY <4>1, <4>3, Zenon
    <3>2. CASE x \in Live
      <4>1. meta'[x] = meta[x] /\ tail'[meta[x].id] = tail[meta[x].id] /\ recs'[meta[x].id] = recs[meta[x].id]
        BY <1>1, <1>2, <1>3, <3>2, Zenon
      <4>2. Backed(recs, bursts, meta[x], tail[meta[x].id], 0)
        BY <1>t, <3>2, Zenon DEF Intact
      <4> QED BY <4>1, <4>2, BackedKeep, Zenon
    <3> QED BY <1>4, <3>1, <3>2, Zenon
  <2>2. ASSUME NEW x \in Paths, reg[x] # None
        PROVE  Backed(recs', bursts, reg[x].meta, reg[x].tail, Len(bursts))
    <3>1. recs'[reg[x].meta.id] = recs[reg[x].meta.id]
      BY <1>2, <1>3, <1>5, <2>2, Zenon
    <3>2. Backed(recs, bursts, reg[x].meta, reg[x].tail, Len(bursts))
      BY <1>t, <2>2, Zenon DEF Intact
    <3> QED BY <3>1, <3>2, BackedKeep, Zenon
  <2>3. ASSUME NEW k \in 1..Len(bursts), bursts[k].meta.id \notin gone
        PROVE  Backed(recs', bursts, bursts[k].meta, bursts[k].seq, k - 1)
    <3>1. recs'[bursts[k].meta.id] = recs[bursts[k].meta.id]
      BY <1>2, <1>3, <1>6, <2>3, Zenon
    <3>2. Backed(recs, bursts, bursts[k].meta, bursts[k].seq, k - 1)
      BY <1>t, <2>3, Zenon DEF Intact
    <3> QED BY <3>1, <3>2, BackedKeep, Zenon
  <2> QED BY <1>t, <1>u, <2>1, <2>2, <2>3, Zenon DEF Intact
<1> QED BY <1>7, <1>8, <1>9, Zenon

\* A hard delete; a fork's reference to its source is then owed.
LEMMA HardDeleteI ==
  ASSUME IInv, NEW p \in Paths, meta[p] # None, HardDelete(p, meta[p]),
         UNCHANGED <<recs, counter, nextID, bursts, late, crashes>>
  PROVE Addressed' /\ Counted' /\ Intact'
<1> DEFINE m == meta[p]
<1>t. DInv /\ Addressed /\ Counted /\ Intact /\ TypeOK /\ Numbered
  BY ZenonT(30) DEF IInv, DInv
<1>m. p \in Live /\ m \in Metas /\ m.id \in Ids /\ m.from \in Nat /\ idmap[m.id] = p
  BY <1>t, MetaFields DEF TypeOK, Live, Addressed, DeletedStaysDeleted
<1>1. /\ meta'[p] = None /\ \A x \in Paths \ {p} : meta'[x] = meta[x]
      /\ reg'[p] = None /\ \A x \in Paths \ {p} : reg'[x] = reg[x]
      /\ gone' = gone \cup {m.id}
  BY <1>t, <1>m, ZenonT(30) DEF HardDelete, TypeOK
<1>2. /\ idmap'[m.id] = None
      /\ \A i \in Ids \ {m.id} : /\ idmap'[i] = idmap[i] /\ tail'[i] = tail[i]
                                 /\ ref'[i] = ref[i] /\ delete'[i] = delete[i]
  BY <1>t, <1>m, ZenonT(30) DEF HardDelete, TypeOK
<1>3. mu' = IF m.from = 0 THEN Free ELSE [pc |-> "drop", id |-> m.from]
  BY ZenonT(30) DEF HardDelete
<1>4. Live' = Live \ {p}
  BY <1>1 DEF Live
<1>5. \A x \in Live' : /\ x \in Live /\ x \in Paths \ {p} /\ meta'[x] = meta[x]
                       /\ meta[x].id \in Ids \ {m.id}
  <2> TAKE x \in Live'
  <2>1. x \in Live /\ x \in Paths \ {p}
    BY <1>4, ZenonT(30) DEF Live
  <2>2. meta[x].id \in Ids
    BY <1>t, <2>1, MetaFields DEF TypeOK, Live
  <2>3. meta[x].id # m.id
    BY <1>t, <1>m, <2>1, OneStreamPerId, Zenon
  <2> QED BY <1>1, <2>1, <2>2, <2>3, Zenon
<1> HIDE DEF m
<1>6. Addressed'
  <2>1. DeletedStaysDeleted'
    <3> SUFFICES ASSUME NEW x \in Live'
                 PROVE  meta'[x].id \notin gone' /\ meta'[x].id < nextID /\ idmap'[meta'[x].id] = x
      BY Zenon DEF DeletedStaysDeleted
    <3>1. meta[x].id \notin gone /\ meta[x].id < nextID /\ idmap[meta[x].id] = x
      BY <1>t, <1>5, Zenon DEF Addressed, DeletedStaysDeleted
    <3>2. idmap'[meta[x].id] = idmap[meta[x].id] /\ meta[x].id \notin gone'
      BY <1>1, <1>2, <1>5, <3>1, ZenonT(30)
    <3> QED BY <1>5, <3>1, <3>2, ZenonT(30)
  <2>2. ASSUME NEW i \in Ids, idmap'[i] # None
        PROVE  meta'[idmap'[i]] # None /\ meta'[idmap'[i]].id = i
    <3>1. i # m.id /\ idmap'[i] = idmap[i]
      BY <1>2, <2>2, Zenon
    <3>2. meta[idmap[i]] # None /\ meta[idmap[i]].id = i /\ idmap[i] \in Paths
      BY <1>t, <2>2, <3>1 DEF Addressed, TypeOK
    <3>3. idmap[i] # p
      BY <3>1, <3>2, Zenon DEF m
    <3> QED BY <1>1, <3>1, <3>2, <3>3
  <2>3. \A x \in Paths : reg'[x] # None => meta'[x] = reg'[x].meta
    BY <1>t, <1>1, ZenonT(30) DEF Addressed
  <2>4. ASSUME NEW k \in 1..Len(bursts), bursts[k].meta.id \notin gone'
        PROVE  meta'[bursts[k].path] = bursts[k].meta
    <3>1. bursts[k].path \in Live /\ meta[bursts[k].path] = bursts[k].meta
      BY <1>1, <2>4, CarriedLive, Zenon
    <3>2. bursts[k].path # p
      BY <1>1, <2>4, <3>1, Zenon DEF m
    <3> QED BY <1>1, <3>1, <3>2 DEF Live
  <2> QED BY <1>t, <2>1, <2>2, <2>3, <2>4, Zenon DEF Addressed
<1>7. Counted'
  <2>1. IsFiniteSet(Live')
    BY <1>t, <1>4, FS_RemoveElement, Zenon DEF Counted
  <2>2. \A x \in Live' : meta'[x].from < nextID
    BY <1>t, <1>5, ZenonT(30) DEF Counted
  <2>3. ASSUME NEW i \in Ids, idmap'[i] # None
        PROVE  ref'[i] >= Cardinality(Forks(i)') + Owed(i)'
    <3>1. ref'[i] = ref[i] /\ idmap[i] # None
      BY <1>2, <2>3, Zenon
    <3>2. ref[i] >= Cardinality(Forks(i)) + Owed(i) /\ Owed(i) \in {0, 1} /\ ref[i] \in Nat
      BY <1>t, <3>1, ZenonT(30) DEF Counted, Owed, TypeOK
    <3>3. Forks(i)' = Forks(i) \ {p}
      <4>1. Forks(i)' = {x \in Live' : meta'[x].from = i}
        BY DEF Forks
      <4> QED BY <1>4, <1>5, <4>1, ZenonT(30) DEF Forks
    <3>4. IsFiniteSet(Forks(i)) /\ Cardinality(Forks(i)) \in Nat
      <4>1. Forks(i) \in SUBSET Live
        BY Zenon DEF Forks
      <4> QED BY <1>t, <4>1, FS_Subset, FS_CardinalityType, Zenon DEF Counted
    <3>5. Cardinality(Forks(i)') = IF p \in Forks(i) THEN Cardinality(Forks(i)) - 1 ELSE Cardinality(Forks(i))
      BY <3>3, <3>4, FS_RemoveElement, ZenonT(30)
    <3>6. CASE m.from = i
      <4>1. p \in Forks(i)
        BY <1>m, <3>6, ZenonT(30) DEF Forks, m
      <4>2. Owed(i)' \in {0, 1}
        BY ZenonT(30) DEF Owed
      <4>3. ref[i] >= (Cardinality(Forks(i)) - 1) + Owed(i)'
        BY <3>2, <3>4, <4>2, OneLess, Zenon
      <4> QED BY <3>1, <3>5, <4>1, <4>3, Zenon
    <3>7. CASE m.from # i
      <4>1. Owed(i)' = 0
        BY <1>3, <3>7 DEF Owed, Free
      <4>2. /\ ref[i] >= Cardinality(Forks(i)) + Owed(i)'
            /\ ref[i] >= (Cardinality(Forks(i)) - 1) + Owed(i)'
        BY <3>2, <3>4, <4>1, OneLess, Zenon
      <4> QED BY <3>1, <3>5, <4>2, Zenon
    <3> QED BY <3>6, <3>7
  <2> QED BY <2>1, <2>2, <2>3, Zenon DEF Counted
<1>8. Intact'
  <2>1. \A i \in Ids : delete'[i] # None => i \in gone'
    BY <1>t, <1>1, <1>2, Zenon DEF Intact
  <2>2. ASSUME NEW x \in Live'
        PROVE  Backed(recs, bursts, meta'[x], tail'[meta'[x].id], 0)
    <3>1. tail'[meta[x].id] = tail[meta[x].id] /\ meta'[x] = meta[x] /\ x \in Live
      BY <1>2, <1>5, Zenon
    <3>2. Backed(recs, bursts, meta[x], tail[meta[x].id], 0)
      BY <1>t, <3>1, Zenon DEF Intact
    <3> QED BY <3>1, <3>2, Zenon
  <2>3. ASSUME NEW x \in Paths, reg'[x] # None
        PROVE  Backed(recs, bursts, reg'[x].meta, reg'[x].tail, Len(bursts))
    <3>1. reg'[x] = reg[x]
      BY <1>1, <2>3, Zenon
    <3>2. Backed(recs, bursts, reg[x].meta, reg[x].tail, Len(bursts))
      BY <1>t, <2>3, <3>1, Zenon DEF Intact
    <3> QED BY <3>1, <3>2, Zenon
  <2>4. ASSUME NEW k \in 1..Len(bursts), bursts[k].meta.id \notin gone'
        PROVE  Backed(recs, bursts, bursts[k].meta, bursts[k].seq, k - 1)
    BY <1>t, <1>1, <2>4, Zenon DEF Intact
  <2> QED BY <2>1, <2>2, <2>3, <2>4, Zenon DEF Intact
<1> QED BY <1>6, <1>7, <1>8, Zenon

\* The background deleter works on streams that are gone, and only on their records.
LEMMA DeleterI ==
  ASSUME IInv, NEW i \in gone,
         UNCHANGED <<meta, idmap, tail, ref, counter, nextID, reg, bursts, mu, gone>>,
         \A j \in Ids \ {i} : recs'[j] = recs[j] /\ delete'[j] = delete[j]
  PROVE Addressed' /\ Counted' /\ Intact'
<1>t. DInv /\ Addressed /\ Counted /\ Intact /\ TypeOK /\ Numbered
  BY Zenon DEF IInv, DInv
<1>1. Addressed'
  BY <1>t, Zenon DEF Addressed, DeletedStaysDeleted, Live
<1>2. Counted'
  BY <1>t, Zenon DEF Counted, Forks, Live, Owed
<1>3. \A x \in Live : meta[x].id \in Ids \ {i}
  <2> TAKE x \in Live
  <2>1. meta[x].id \notin gone
    BY <1>t, Zenon DEF Addressed, DeletedStaysDeleted
  <2>2. meta[x].id \in Ids
    BY <1>t, MetaFields DEF TypeOK, Live
  <2> QED BY <2>1, <2>2, Zenon
<1>4. Intact'
  <2>1. \A j \in Ids : delete'[j] # None => j \in gone
    BY <1>t, Zenon DEF Intact
  <2>2. ASSUME NEW x \in Live
        PROVE  Backed(recs', bursts, meta[x], tail[meta[x].id], 0)
    <3>1. Backed(recs, bursts, meta[x], tail[meta[x].id], 0)
      BY <1>t, Zenon DEF Intact
    <3>2. recs'[meta[x].id] = recs[meta[x].id]
      BY <1>3, Zenon
    <3> QED BY <3>1, <3>2, BackedKeep, Zenon
  <2>3. ASSUME NEW x \in Paths, reg[x] # None
        PROVE  Backed(recs', bursts, reg[x].meta, reg[x].tail, Len(bursts))
    <3>1. Backed(recs, bursts, reg[x].meta, reg[x].tail, Len(bursts))
      BY <1>t, <2>3, Zenon DEF Intact
    <3>2. recs'[reg[x].meta.id] = recs[reg[x].meta.id]
      BY <1>3, <2>3, CarriedLive, Zenon
    <3> QED BY <3>1, <3>2, BackedKeep, Zenon
  <2>4. ASSUME NEW k \in 1..Len(bursts), bursts[k].meta.id \notin gone
        PROVE  Backed(recs', bursts, bursts[k].meta, bursts[k].seq, k - 1)
    <3>1. Backed(recs, bursts, bursts[k].meta, bursts[k].seq, k - 1)
      BY <1>t, <2>4, Zenon DEF Intact
    <3>2. recs'[bursts[k].meta.id] = recs[bursts[k].meta.id]
      BY <1>3, <2>4, CarriedLive, Zenon
    <3> QED BY <3>1, <3>2, BackedKeep, Zenon
  <2>5. Live' = Live
    BY Zenon DEF Live
  <2> QED BY <2>1, <2>2, <2>3, <2>4, <2>5, Zenon DEF Intact
<1> QED BY <1>1, <1>2, <1>4, Zenon

LEMMA DeleteChunkI ==
  ASSUME IInv, NEW i \in Ids, DeleteChunk(i) \/ DeleteDone(i)
  PROVE Addressed' /\ Counted' /\ Intact'
<1>1. i \in gone
  BY Zenon DEF IInv, Intact, DeleteChunk, DeleteDone
<1>2. UNCHANGED <<meta, idmap, tail, ref, counter, nextID, reg, bursts, mu, gone>>
  BY Zenon DEF DeleteChunk, DeleteDone, hist
<1>3. recs \in [Ids -> SUBSET Nat] /\ delete \in [Ids -> Nat \cup {None}]
  BY Zenon DEF IInv, DInv, TypeOK
<1>4. /\ \E K : recs' = [recs EXCEPT ![i] = K]
      /\ \E c : delete' = [delete EXCEPT ![i] = c]
  <2>1. CASE DeleteChunk(i)
    BY <2>1, Zenon DEF DeleteChunk, without
  <2>2. CASE DeleteDone(i)
    <3>1. recs' = [recs EXCEPT ![i] = recs[i]]
      BY <1>3, <2>2 DEF DeleteDone
    <3> QED BY <2>2, <3>1, Zenon DEF DeleteDone
  <2> QED BY <2>1, <2>2
<1>5. \A j \in Ids \ {i} : recs'[j] = recs[j] /\ delete'[j] = delete[j]
  BY <1>3, <1>4
<1> QED BY <1>1, <1>2, <1>5, DeleterI, Zenon

\* Writing a burst adds the record it planned; the tail moves right behind it.
LEMMA WriteBurstI ==
  ASSUME IInv, NEW f \in 1..Len(bursts), WriteBurst(f)
  PROVE Addressed' /\ Counted' /\ Intact'
<1> DEFINE b == bursts[f]
           i == b.meta.id
<1>t. DInv /\ Addressed /\ Counted /\ Intact /\ TypeOK /\ Numbered
  BY Zenon DEF IInv, DInv
<1>n. Len(bursts) \in Nat /\ f \in Nat /\ bursts \in Seq(Bursts) /\ recs \in [Ids -> SUBSET Nat]
  BY <1>t DEF TypeOK
<1>u. /\ UNCHANGED <<idmap, ref, delete, nextID, reg, mu, gone>>
      /\ meta' = meta
  BY <1>t, ZenonT(30) DEF WriteBurst, Addressed
<1>1. /\ recs' = [recs EXCEPT ![i] = @ \cup {b.seq}] /\ tail' = [tail EXCEPT ![i] = b.seq + 1]
      /\ bursts' = Without(bursts, f) /\ \A j \in 1..(f - 1) : bursts[j].meta.id # i
  BY DEF WriteBurst
<1>b. b.path \in Paths /\ b.meta \in Metas /\ b.seq \in Nat /\ i \in Ids
  BY <1>t, Carried, MetaFields, Zenon
<1>2. /\ Len(bursts') = Len(bursts) - 1
      /\ \A k \in 1..(Len(bursts) - 1) : bursts'[k] = IF k < f THEN bursts[k] ELSE bursts[k + 1]
  BY <1>n, <1>1, WithoutAt, Zenon
<1>3. ASSUME NEW m \in Metas, NEW n, NEW k \in 0..Len(bursts), Backed(recs, bursts, m, n, k)
      PROVE  Backed(recs', bursts', m, n, IF k < f THEN k ELSE k - 1)
  BY <1>n, <1>1, <1>3, BackedWrite, Zenon
<1>4. /\ tail'[i] = b.seq + 1 /\ b.seq \in recs'[i]
      /\ \A j \in Ids : recs[j] \subseteq recs'[j] /\ (j # i => tail'[j] = tail[j])
  BY <1>t, <1>n, <1>1, <1>b, ZenonT(30) DEF TypeOK
<1>5. ASSUME NEW k \in 1..Len(bursts')
      PROVE  \/ k < f /\ k \in 1..Len(bursts) /\ bursts'[k] = bursts[k]
             \/ k >= f /\ k + 1 \in 1..Len(bursts) /\ bursts'[k] = bursts[k + 1]
  BY <1>n, <1>2
<1> HIDE DEF b, i
<1>6. Addressed'
  <2>1. ASSUME NEW k \in 1..Len(bursts')
        PROVE  ~bursts'[k].withMeta /\ (bursts'[k].meta.id \in gone \/ meta[bursts'[k].path] = bursts'[k].meta)
    <3>1. PICK j \in 1..Len(bursts) : bursts'[k] = bursts[j]
      BY <1>5, Zenon
    <3> QED BY <1>t, <3>1, Zenon DEF Addressed
  <2> QED BY <1>t, <1>u, <2>1, Zenon DEF Addressed, DeletedStaysDeleted, Live
<1>7. Counted'
  BY <1>t, <1>u, Zenon DEF Counted, Forks, Live, Owed
<1>8. Live' = Live
  BY <1>u, Zenon DEF Live
<1>9. ASSUME NEW x \in Live
      PROVE  Backed(recs', bursts', meta[x], tail'[meta[x].id], 0)
  <2>0. meta[x] \in Metas /\ meta[x].id \in Ids /\ meta[x].id \notin gone
    BY <1>t, MetaFields DEF TypeOK, Live, Addressed, DeletedStaysDeleted
  <2>1. CASE meta[x].id = i
    <3>1. b.path \in Live /\ meta[b.path] = b.meta
      BY <2>0, <2>1, CarriedLive, Zenon DEF b, i
    <3>2. meta[x] = b.meta
      <4>1. meta[b.path].id = meta[x].id
        BY <2>1, <3>1 DEF i
      <4> QED BY <1>t, <3>1, <4>1, OneStreamPerId, Zenon
    <3>3. Backed(recs, bursts, b.meta, b.seq, f - 1)
      BY <1>t, <2>0, <2>1, Zenon DEF Intact, b, i
    <3>4. \A q \in b.meta.off..(b.seq - 1) : q \in recs[i]
      BY <1>1, <3>3, Zenon DEF Backed, i
    <3>5. ASSUME NEW q \in b.meta.off..((b.seq + 1) - 1) PROVE q \in recs'[i]
      <4>0. b.meta.off \in Nat
        BY <1>b, MetaFields, Zenon
      <4>1. q = b.seq \/ q \in b.meta.off..(b.seq - 1)
        BY <1>b, <4>0, RangeNext, Zenon
      <4> QED BY <1>b, <1>4, <3>4, <4>1, Zenon
    <3> QED BY <1>4, <2>1, <3>2, <3>5, Zenon DEF Backed, i
  <2>2. CASE meta[x].id # i
    <3>1. Backed(recs, bursts, meta[x], tail[meta[x].id], 0) /\ tail'[meta[x].id] = tail[meta[x].id]
      BY <1>t, <1>4, <2>0, <2>2, Zenon DEF Intact
    <3>2. 0 \in 0..Len(bursts) /\ 0 < f
      BY <1>n, LastPlace, Zenon
    <3> QED BY <1>3, <2>0, <3>1, <3>2, Zenon
  <2> QED BY <2>1, <2>2, ZenonT(30)
<1>10. ASSUME NEW x \in Paths, reg[x] # None
       PROVE  Backed(recs', bursts', reg[x].meta, reg[x].tail, Len(bursts'))
  <2>1. Backed(recs, bursts, reg[x].meta, reg[x].tail, Len(bursts)) /\ reg[x].meta \in Metas
    BY <1>t, <1>10, Carried, ZenonT(30) DEF Intact
  <2>2. Len(bursts) \in 0..Len(bursts) /\ ~(Len(bursts) < f) /\ Len(bursts') = Len(bursts) - 1
    BY <1>n, <1>2, LastPlace, Zenon
  <2> QED BY <1>3, <2>1, <2>2, Zenon
<1>11. ASSUME NEW k \in 1..Len(bursts'), bursts'[k].meta.id \notin gone
       PROVE  Backed(recs', bursts', bursts'[k].meta, bursts'[k].seq, k - 1)
  <2>1. CASE k < f /\ k \in 1..Len(bursts) /\ bursts'[k] = bursts[k]
    <3>1. Backed(recs, bursts, bursts[k].meta, bursts[k].seq, k - 1) /\ bursts[k].meta \in Metas
      BY <1>t, <1>11, <2>1, Carried, Zenon DEF Intact
    <3>2. k - 1 \in 0..Len(bursts) /\ k - 1 < f
      BY <1>n, <2>1
    <3> QED BY <1>3, <2>1, <3>1, <3>2, Zenon
  <2>2. CASE k >= f /\ k + 1 \in 1..Len(bursts) /\ bursts'[k] = bursts[k + 1]
    <3>1. (k + 1) - 1 = k /\ k \in 0..Len(bursts) /\ ~(k < f)
      BY <1>n, <2>2
    <3>2. Backed(recs, bursts, bursts[k + 1].meta, bursts[k + 1].seq, (k + 1) - 1) /\ bursts[k + 1].meta \in Metas
      BY <1>t, <1>11, <2>2, Carried, Zenon DEF Intact
    <3> QED BY <1>3, <2>2, <3>1, <3>2, Zenon
  <2> QED BY <1>5, <2>1, <2>2
<1>12. Intact'
  BY <1>t, <1>u, <1>8, <1>9, <1>10, <1>11, ZenonT(30) DEF Intact
<1> QED BY <1>6, <1>7, <1>12, Zenon

\* Steps that leave the streams alone: Addressed and Counted do not look at tails,
\* records or cursors.
LEMMA StreamsKept ==
  ASSUME IInv, UNCHANGED <<meta, idmap, ref, nextID, mu, gone>>,
         \A p \in Paths : reg'[p] # None => meta[p] = reg'[p].meta,
         \A k \in 1..Len(bursts') :
           ~bursts'[k].withMeta /\ (bursts'[k].meta.id \in gone \/ meta[bursts'[k].path] = bursts'[k].meta)
  PROVE Addressed' /\ Counted'
<1>1. Addressed'
  BY Zenon DEF IInv, Addressed, DeletedStaysDeleted, Live
<1>2. Counted'
  BY Zenon DEF IInv, Counted, Forks, Live, Owed
<1> QED BY <1>1, <1>2

\* A streamer is dropped from memory (retired, or its stream soft-deleted).
LEMMA DroppedI ==
  ASSUME IInv, NEW p \in Paths, reg' = [reg EXCEPT ![p] = None],
         UNCHANGED <<meta, idmap, ref, nextID, mu, gone, tail, recs, delete, bursts>>
  PROVE Addressed' /\ Counted' /\ Intact'
<1>1. \A x \in Paths : reg'[x] = None \/ reg'[x] = reg[x]
  BY DEF IInv, DInv, TypeOK
<1>2. Addressed' /\ Counted'
  BY <1>1, StreamsKept, Zenon DEF IInv, Addressed
<1>3. Intact'
  BY <1>1, Zenon DEF IInv, Intact, Live
<1> QED BY <1>2, <1>3, ZenonT(30)

LEMMA CrashI ==
  ASSUME IInv, Crash
  PROVE Addressed' /\ Counted' /\ Intact'
<1>1. /\ UNCHANGED <<meta, idmap, tail, recs, ref, delete, counter, gone>>
      /\ reg' = [x \in Paths |-> None] /\ bursts' = << >> /\ mu' = Free /\ nextID' = counter
  BY ZenonT(30) DEF Crash, disk, hist
<1>2. /\ \A x \in Paths : reg'[x] = None
      /\ Len(bursts') = 0 /\ 1..0 = {} /\ nextID' = nextID /\ Live' = Live
  BY <1>1 DEF IInv, DInv, Numbered, Live
<1>3. Addressed'
  BY <1>1, <1>2, ZenonT(30) DEF IInv, Addressed, DeletedStaysDeleted
<1>4. Counted'
  <2>1. \A i \in Ids : Owed(i)' = 0 /\ Owed(i) \in {0, 1} /\ Forks(i)' = Forks(i)
    BY <1>1, <1>2 DEF Owed, Free, Forks
  <2>2. ASSUME NEW i \in Ids, idmap[i] # None
        PROVE  ref[i] >= Cardinality(Forks(i)) + 0
    <3>1. ref[i] >= Cardinality(Forks(i)) + Owed(i) /\ ref[i] \in Nat
      BY <2>2 DEF IInv, Counted, DInv, TypeOK
    <3>2. Cardinality(Forks(i)) \in Nat
      <4>1. Forks(i) \in SUBSET Live
        BY Zenon DEF Forks
      <4> QED BY <4>1, FS_Subset, FS_CardinalityType, Zenon DEF IInv, Counted
    <3> QED BY <2>1, <3>1, <3>2
  <2>3. IsFiniteSet(Live) /\ \A x \in Live : meta[x].from < nextID
    BY Zenon DEF IInv, Counted
  <2> QED BY <1>1, <1>2, <2>1, <2>2, <2>3, Zenon DEF Counted
<1>5. ASSUME NEW x \in Live
      PROVE  Backed(recs, bursts', meta[x], tail[meta[x].id], 0)
  BY <1>2, Zenon DEF IInv, Intact, Backed
<1>6. Intact'
  BY <1>1, <1>2, <1>5, Zenon DEF IInv, Intact
<1> QED BY <1>3, <1>4, <1>6

\* dropForkRef settles what the delete of a fork owed.
LEMMA DropForkRefI ==
  ASSUME IInv, DropForkRef
  PROVE Addressed' /\ Counted' /\ Intact'
<1> DEFINE i == mu.id
<1>t. DInv /\ Addressed /\ Counted /\ Intact /\ TypeOK /\ Numbered
  BY Zenon DEF IInv, DInv
<1>1. UNCHANGED <<meta, idmap, tail, recs, delete, nextID, reg, bursts, gone>>
  BY ZenonT(30) DEF DropForkRef, hist
<1>2. /\ ref' = [ref EXCEPT ![i] = count(i)] /\ mu.pc = "drop" /\ mu'.pc # "drop"
  BY DEF DropForkRef, Free
<1>3. Live' = Live
  BY <1>1 DEF Live
<1>4. Addressed'
  BY <1>t, <1>1, <1>3, Zenon DEF Addressed, DeletedStaysDeleted
<1>5. ASSUME NEW j \in Ids, idmap[j] # None
      PROVE  ref'[j] >= Cardinality(Forks(j)) + 0
  <2>1. ref[j] >= Cardinality(Forks(j)) + Owed(j) /\ ref[j] \in Nat
    BY <1>t, <1>5 DEF Counted, TypeOK
  <2>2. Cardinality(Forks(j)) \in Nat
    <3>1. Forks(j) \in SUBSET Live
      BY Zenon DEF Forks
    <3> QED BY <1>t, <3>1, FS_Subset, FS_CardinalityType, Zenon DEF Counted
  <2>3. CASE j = i
    <3>1. ref'[j] = count(j) /\ Owed(j) = 1
      BY <1>t, <1>2, <2>3, ZenonT(30) DEF TypeOK, Owed
    <3> QED BY <2>1, <2>2, <3>1 DEF count
  <2>4. CASE j # i
    <3>1. ref'[j] = ref[j] /\ Owed(j) = 0
      BY <1>t, <1>2, <2>4 DEF TypeOK, Owed
    <3> QED BY <2>1, <2>2, <3>1, ZenonT(30)
  <2> QED BY <2>3, <2>4, ZenonT(30)
<1>6. Counted'
  <2>1. \A j \in Ids : Owed(j)' = 0 /\ Forks(j)' = Forks(j)
    BY <1>1, <1>2, <1>3 DEF Owed, Forks
  <2> QED BY <1>t, <1>1, <1>3, <1>5, <2>1, Zenon DEF Counted
<1>7. Intact'
  BY <1>t, <1>1, <1>3, Zenon DEF Intact
<1> QED BY <1>4, <1>6, <1>7

\* A spawned streamer starts at the stored tail.
LEMMA SpawnI ==
  ASSUME IInv, NEW p \in Paths, Spawn(p)
  PROVE Addressed' /\ Counted' /\ Intact'
<1>t. DInv /\ Addressed /\ Counted /\ Intact /\ TypeOK
  BY Zenon DEF IInv, DInv
<1>1. UNCHANGED <<meta, idmap, tail, recs, ref, delete, nextID, bursts, mu, gone>>
  BY ZenonT(30) DEF Spawn, disk, hist
<1>2. /\ p \in Live /\ \A x \in Paths \ {p} : reg'[x] = reg[x]
      /\ reg'[p] = [meta |-> meta[p], tail |-> tail[meta[p].id]]
  BY <1>t, ZenonT(30) DEF Spawn, TypeOK, Live
<1>3. reg'[p].meta = meta[p] /\ reg'[p].tail = tail[meta[p].id]
  BY <1>2
<1>4. Addressed' /\ Counted'
  BY <1>t, <1>1, <1>2, <1>3, StreamsKept, Zenon DEF Addressed
<1>5. Backed(recs, bursts, meta[p], tail[meta[p].id], Len(bursts))
  <2>1. Backed(recs, bursts, meta[p], tail[meta[p].id], 0)
    BY <1>t, <1>2, Zenon DEF Intact
  <2>2. \A j \in 1..0 : j \in 1..Len(bursts)
    OBVIOUS
  <2> QED BY <2>1, <2>2, Zenon DEF Backed
<1>6. Intact'
  BY <1>t, <1>1, <1>2, <1>3, <1>5, Zenon DEF Intact, Live
<1> QED BY <1>4, <1>6

\* A planned burst is backed by what is stored and by the bursts before it.
LEMMA AppendI ==
  ASSUME IInv, ~MetaBursts, NEW p \in Paths, NEW withMeta \in BOOLEAN, Append_(p, withMeta)
  PROVE Addressed' /\ Counted' /\ Intact'
<1> DEFINE r == reg[p]
           N == Len(bursts)
<1>t. DInv /\ Addressed /\ Counted /\ Intact /\ TypeOK
  BY Zenon DEF IInv, DInv
<1>1. /\ UNCHANGED <<meta, idmap, tail, recs, ref, delete, nextID, mu, gone>>
      /\ ~withMeta /\ reg[p] # None
  BY DEF Append_, disk, hist
<1>2. /\ r.meta \in Metas /\ r.tail \in Nat
      /\ reg'[p].meta = r.meta /\ reg'[p].tail = r.tail + 1
      /\ \A x \in Paths \ {p} : reg'[x] = reg[x]
      /\ Len(bursts') = N + 1 /\ \A k \in 1..N : bursts'[k] = bursts[k]
      /\ bursts'[N + 1] = [path |-> p, meta |-> r.meta, seq |-> r.tail, withMeta |-> withMeta]
  BY <1>t, Planned, ZenonT(30)
<1>3. /\ bursts'[N + 1].path = p /\ bursts'[N + 1].meta = r.meta /\ bursts'[N + 1].seq = r.tail
      /\ bursts'[N + 1].withMeta = withMeta
  BY <1>2
<1>n. N \in Nat /\ N + 1 \in Nat /\ N <= N /\ N <= N + 1
  BY <1>t, Carried, Less, Zenon
<1>k. \A k \in 1..Len(bursts') : k \in 1..N \/ k = N + 1
  BY <1>2, <1>n
<1>4. Addressed' /\ Counted'
  <2>1. meta[p] = r.meta /\ \A x \in Paths : reg'[x] # None => meta[x] = reg'[x].meta
    BY <1>t, <1>1, <1>2, Zenon DEF Addressed
  <2>2. ASSUME NEW k \in 1..Len(bursts')
        PROVE  ~bursts'[k].withMeta /\ (bursts'[k].meta.id \in gone \/ meta[bursts'[k].path] = bursts'[k].meta)
    <3>1. CASE k \in 1..N
      BY <1>t, <1>2, <3>1, Zenon DEF Addressed
    <3>2. CASE k = N + 1
      BY <1>1, <1>3, <2>1, <3>2, Zenon
    <3> QED BY <1>k, <3>1, <3>2
  <2> QED BY <1>1, <2>1, <2>2, StreamsKept, Zenon
<1>5. Backed(recs, bursts, r.meta, r.tail, N)
  BY <1>t, <1>1, Zenon DEF Intact
<1> HIDE DEF r, N
<1>6. ASSUME NEW m, NEW n, NEW k \in 0..N, NEW l \in Nat, k <= l, Backed(recs, bursts, m, n, k)
      PROVE  Backed(recs, bursts', m, n, l)
  <2>1. k \in Nat /\ \A j \in 1..k : bursts'[j] = bursts[j]
    BY <1>2, <1>n
  <2> QED BY <1>6, <2>1, BackedMono, ZenonT(30)
<1>7. ASSUME NEW x \in Live
      PROVE  Backed(recs, bursts', meta[x], tail[meta[x].id], 0)
  <2>1. 0 \in 0..N /\ 0 \in Nat /\ 0 <= 0
    BY <1>n
  <2> QED BY <1>t, <1>6, <2>1, Zenon DEF Intact
<1>8. ASSUME NEW x \in Paths, reg'[x] # None
      PROVE  Backed(recs, bursts', reg'[x].meta, reg'[x].tail, Len(bursts'))
  <2>1. N \in 0..N
    BY <1>n
  <2>2. CASE x # p
    <3>1. reg'[x] = reg[x] /\ Backed(recs, bursts, reg[x].meta, reg[x].tail, N)
      BY <1>t, <1>2, <1>8, <2>2, Zenon DEF Intact, N
    <3> QED BY <1>2, <1>6, <1>n, <2>1, <3>1, Zenon
  <2>3. CASE x = p
    <3>1. Backed(recs, bursts', r.meta, r.tail, N + 1)
      BY <1>5, <1>6, <1>n, <2>1, Zenon
    <3>2. N + 1 \in 1..(N + 1)
      BY <1>n, Less, Zenon
    <3>3. \A q \in r.meta.off..((r.tail + 1) - 1) : q = r.tail \/ q \in r.meta.off..(r.tail - 1)
      BY <1>2, MetaFields, RangeNext, Zenon
    <3>4. Backed(recs, bursts', r.meta, r.tail + 1, N + 1)
      BY <1>3, <3>1, <3>2, <3>3, Zenon DEF Backed
    <3> QED BY <1>2, <2>3, <3>4, Zenon
  <2> QED BY <2>2, <2>3
<1>9. ASSUME NEW k \in 1..Len(bursts'), bursts'[k].meta.id \notin gone
      PROVE  Backed(recs, bursts', bursts'[k].meta, bursts'[k].seq, k - 1)
  <2>1. CASE k \in 1..N
    <3>1. bursts'[k] = bursts[k] /\ Backed(recs, bursts, bursts[k].meta, bursts[k].seq, k - 1)
      BY <1>t, <1>2, <1>9, <2>1, Zenon DEF Intact, N
    <3>2. k - 1 \in 0..N /\ k - 1 \in Nat /\ k - 1 <= k - 1
      BY <1>n, <2>1
    <3> QED BY <1>6, <3>1, <3>2, Zenon
  <2>2. CASE k = N + 1
    <3>1. k - 1 = N /\ N \in 0..N
      BY <1>n, <2>2
    <3>2. Backed(recs, bursts', r.meta, r.tail, N)
      BY <1>5, <1>6, <1>n, <3>1, Zenon
    <3> QED BY <1>3, <2>2, <3>1, <3>2, Zenon
  <2> QED BY <1>k, <2>1, <2>2
<1>10. Intact'
  BY <1>t, <1>1, <1>7, <1>8, <1>9, Zenon DEF Intact, Live
<1> QED BY <1>4, <1>10

LEMMA CreateStreamI ==
  ASSUME IInv, NEW p \in Paths, NEW n \in Bodies, NEW x \in BOOLEAN, CreateStream(p, n, x)
  PROVE Addressed' /\ Counted' /\ Intact'
<1> DEFINE m == [id |-> nextID, from |-> 0, off |-> 0, expires |-> x]
<1>t. DInv /\ TypeOK
  BY Zenon DEF IInv, DInv
<1>1. /\ mu = Free /\ nextID <= MaxId /\ meta[p] = None /\ Establish(p, m, n)
      /\ ref' = ref /\ UNCHANGED <<tomb, delete, reg, bursts, mu, hist, crashes>>
  BY DEF CreateStream
<1>2. m \in Metas
  <2>1. 0 \in 0..MaxId /\ 0 \in 0..MaxTail
    BY LifecycleAssumption
  <2> QED BY <1>t, <1>1, <2>1, NewMeta, Zenon
<1>3. m.id = nextID /\ m.from = 0
  BY ZenonT(30)
<1>4. m.from < nextID /\ n \in Nat
  BY <1>t, <1>3, LiveMetas, LifecycleAssumption, Zenon
<1>5. ref' \in [Ids -> Nat] /\ \A i \in Ids : ref'[i] = IF i = m.from THEN ref[i] + 1 ELSE ref[i]
  BY <1>t, <1>1, <1>3 DEF TypeOK, Ids
<1> HIDE DEF m
<1> QED BY <1>1, <1>2, <1>3, <1>4, <1>5, EstablishI, Zenon

LEMMA CreateForkI ==
  ASSUME IInv, NEW p \in Paths, NEW src \in Paths, NEW off \in 0..MaxTail, NEW n \in Bodies,
         NEW x \in BOOLEAN, CreateFork(p, src, off, n, x)
  PROVE Addressed' /\ Counted' /\ Intact'
<1> DEFINE m == [id |-> nextID, from |-> meta[src].id, off |-> off, expires |-> x]
<1>t. DInv /\ TypeOK /\ Numbered
  BY Zenon DEF IInv, DInv
<1>1. /\ mu = Free /\ nextID <= MaxId /\ meta[p] = None /\ Establish(p, m, n) /\ meta[src] # None
      /\ ref' = [ref EXCEPT ![meta[src].id] = bumped(meta[src].id)]
      /\ UNCHANGED <<tomb, delete, reg, bursts, mu, hist, crashes>>
  BY ZenonT(30) DEF CreateFork
<1>2. meta[src].id \in Ids /\ meta[src].id \in 0..MaxId /\ meta[src].id < nextID
  <2>1. src \in Live
    BY <1>1, Zenon DEF Live
  <2>2. \A i \in Ids : i \in 0..MaxId
    BY LifecycleAssumption DEF Ids
  <2> QED BY <1>t, <2>1, <2>2, LiveMetas, Zenon
<1>3. m \in Metas
  BY <1>t, <1>1, <1>2, NewMeta, Zenon
<1>4. m.id = nextID /\ m.from = meta[src].id
  BY ZenonT(30)
<1>5. n \in Nat
  BY LifecycleAssumption, ZenonT(30)
<1>6. ref' \in [Ids -> Nat] /\ \A i \in Ids : ref'[i] = IF i = m.from THEN ref[i] + 1 ELSE ref[i]
  <2> DEFINE j == meta[src].id
  <2>1. ref \in [Ids -> Nat] /\ j \in Ids
    BY <1>t, <1>2, Zenon DEF TypeOK
  <2>2. ref' = [ref EXCEPT ![j] = ref[j] + 1] /\ m.from = j
    BY <1>1, <1>4, Zenon DEF bumped
  <2> HIDE DEF j, m
  <2> QED BY <2>1, <2>2, Incremented, ZenonT(30)
<1> HIDE DEF m
<1> QED BY <1>1, <1>2, <1>3, <1>4, <1>5, <1>6, EstablishI, Zenon

LEMMA DeleteStreamI ==
  ASSUME IInv, NEW p \in Paths, DeleteStream(p)
  PROVE Addressed' /\ Counted' /\ Intact'
<1>1. /\ meta[p] # None /\ HardDelete(p, meta[p])
      /\ UNCHANGED <<recs, counter, nextID, bursts, late, crashes>>
  BY DEF DeleteStream
<1> QED BY <1>1, HardDeleteI, Zenon

LEMMA ExpireI ==
  ASSUME IInv, NEW i \in Ids, Expire(i)
  PROVE Addressed' /\ Counted' /\ Intact'
<1> DEFINE p == idmap[i]
<1>1. /\ p # None /\ meta[p] # None /\ HardDelete(p, meta[p])
      /\ UNCHANGED <<recs, counter, nextID, bursts, late, crashes>>
  BY DEF Expire
<1>2. p \in Paths
  BY <1>1 DEF IInv, DInv, TypeOK
<1> HIDE DEF p
<1> QED BY <1>1, <1>2, HardDeleteI, Zenon

LEMMA CascadeI ==
  ASSUME IInv, Cascade
  PROVE Addressed' /\ Counted' /\ Intact'
<1> DEFINE p == idmap[mu.id]
<1>1. /\ p # None /\ meta[p] # None /\ mu.id \in Ids /\ HardDelete(p, meta[p])
      /\ UNCHANGED <<recs, counter, nextID, bursts, late, crashes>>
  BY ZenonT(30) DEF Cascade, IInv, DInv, Numbered
<1>2. p \in Paths
  BY <1>1 DEF IInv, DInv, TypeOK
<1> HIDE DEF p
<1> QED BY <1>1, <1>2, HardDeleteI, Zenon

\* SoftDelete and Retire only drop the streamer from memory.
LEMMA SoftDeleteI ==
  ASSUME IInv, NEW p \in Paths, SoftDelete(p) \/ Retire(p)
  PROVE Addressed' /\ Counted' /\ Intact'
<1>1. /\ reg' = [reg EXCEPT ![p] = None]
      /\ UNCHANGED <<meta, idmap, ref, nextID, mu, gone, tail, recs, delete, bursts>>
  BY DEF SoftDelete, Retire, disk, hist
<1> QED BY <1>1, DroppedI, Zenon

LEMMA NextI == ASSUME ~MetaBursts PROVE IInv /\ [Next]_vars => IInv'
<1> SUFFICES ASSUME IInv, [Next]_vars PROVE IInv'
  OBVIOUS
<1>1. DInv'
  BY NextD, Zenon DEF IInv
<1>2. Addressed' /\ Counted' /\ Intact'
  <2>1. CASE UNCHANGED vars
    <3>1. Addressed' /\ Counted'
      BY <2>1, StreamsKept, Zenon DEF vars, disk, hist, IInv, Addressed
    <3>2. Intact'
      BY <2>1, Zenon DEF vars, disk, hist, IInv, Intact, Live
    <3> QED BY <3>1, <3>2
  <2>2. CASE \E p \in Paths, n \in Bodies, x \in BOOLEAN : CreateStream(p, n, x)
    BY <2>2, CreateStreamI, Zenon
  <2>3. CASE \E p, src \in Paths, off \in 0..MaxTail, n \in Bodies, x \in BOOLEAN :
               CreateFork(p, src, off, n, x)
    BY <2>3, CreateForkI, Zenon
  <2>4. CASE \E p \in Paths : DeleteStream(p) \/ SoftDelete(p) \/ Spawn(p) \/ Retire(p)
    BY <2>4, DeleteStreamI, SoftDeleteI, SpawnI, Zenon
  <2>5. CASE \E p \in Paths, m \in BOOLEAN : Append_(p, m)
    BY <2>5, AppendI, Zenon
  <2>6. CASE \E i \in Ids : Expire(i) \/ DeleteChunk(i) \/ DeleteDone(i)
    BY <2>6, ExpireI, DeleteChunkI, Zenon
  <2>7. CASE DropForkRef \/ Cascade \/ Crash
    BY <2>7, DropForkRefI, CascadeI, CrashI, Zenon
  <2>8. CASE \E i \in 1..Len(bursts) : WriteBurst(i)
    BY <2>8, WriteBurstI, Zenon
  <2> QED BY <2>1, <2>2, <2>3, <2>4, <2>5, <2>6, <2>7, <2>8, Zenon DEF Next
<1> QED BY <1>1, <1>2, Zenon DEF IInv

LEMMA SpecI == ASSUME ~MetaBursts PROVE Spec => []IInv
BY InitD, InitI, NextI, PTL DEF Spec, IInv

\* While bursts carry no metadata, the count of a live source covers its forks in every
\* state a crash can leave, so deleting a fork never takes a source another fork reads
\* (createFork, dropForkRef and deleteStreamLocked).
THEOREM CountsCoverForks == ASSUME ~MetaBursts PROVE Spec => []RefCountCoversForks
<1>1. IInv => RefCountCoversForks
  <2> SUFFICES ASSUME IInv, NEW p \in Live
               PROVE  ref[meta[p].id] >= Cardinality(Forks(meta[p].id))
    BY Zenon DEF RefCountCoversForks
  <2> DEFINE i == meta[p].id
  <2>t. DInv /\ TypeOK /\ Addressed /\ Counted
    BY Zenon DEF IInv, DInv
  <2>1. i \in Ids /\ p # None /\ idmap[i] = p
    BY <2>t, LiveMetas, NoneIsNew, Zenon DEF Addressed, DeletedStaysDeleted
  <2> HIDE DEF i
  <2>2. ref[i] >= Cardinality(Forks(i)) + Owed(i) /\ ref[i] \in Nat
    BY <2>t, <2>1 DEF Counted, TypeOK
  <2>3. Cardinality(Forks(i)) \in Nat
    <3>1. Forks(i) \in SUBSET Live
      BY Zenon DEF Forks
    <3> QED BY <2>t, <3>1, FS_Subset, FS_CardinalityType, Zenon DEF Counted
  <2>4. ref[i] >= Cardinality(Forks(i))
    BY <2>2, <2>3 DEF Owed
  <2> QED BY <2>4 DEF i
<1> QED BY <1>1, SpecI, PTL

\* While bursts carry no metadata, a deleted stream stays deleted whatever is in
\* flight, its path can be created anew under a fresh id, and no id names two streams
\* (establish, deleteStreamLocked and getOrSpawn).
THEOREM DeletedIsNeverBack == ASSUME ~MetaBursts PROVE Spec => []DeletedStaysDeleted
<1>1. IInv => DeletedStaysDeleted
  BY Zenon DEF IInv, Addressed
<1> QED BY <1>1, SpecI, PTL

\* While bursts carry no metadata, the background deleter never eats a live stream, and
\* every record below a live stream's tail is stored, after any crash and with any
\* interleaving of deletes, recreations and late bursts (deleter.go, WriteBatch).
THEOREM LiveStreamsAreIntact == ASSUME ~MetaBursts PROVE Spec => []LiveIsIntact
<1>1. IInv => LiveIsIntact
  <2> SUFFICES ASSUME IInv, NEW p \in Live
               PROVE  /\ delete[meta[p].id] = None
                      /\ meta[p].off..(tail[meta[p].id] - 1) \subseteq recs[meta[p].id]
    BY Zenon DEF LiveIsIntact
  <2>t. DInv /\ TypeOK /\ Addressed /\ Intact
    BY Zenon DEF IInv, DInv
  <2>1. meta[p].id \in Ids /\ meta[p].id \notin gone
    BY <2>t, LiveMetas, Zenon DEF Addressed, DeletedStaysDeleted
  <2>2. Backed(recs, bursts, meta[p], tail[meta[p].id], 0) /\ 1..0 = {}
    BY <2>t DEF Intact
  <2> QED BY <2>t, <2>1, <2>2, Zenon DEF Intact, Backed
<1> QED BY <1>1, SpecI, PTL
=============================================================================
