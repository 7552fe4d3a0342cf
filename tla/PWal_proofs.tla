---------------------------- MODULE PWal_proofs -----------------------------
(***************************************************************************)
(* The watermark is sound for any number of shards, callers and commits,   *)
(* in any order of their fsyncs, with fsyncs that fail, and with crashes   *)
(* that tear records.  If they tear none, sequence numbers are unique and  *)
(* what was acknowledged survives.                                         *)
(***************************************************************************)
EXTENDS PWal, FiniteSetTheorems, WellFoundedInduction, TLAPS

Records ==
  [id : Nat, seq : Int, keys : SUBSET Keys, after : SUBSET Nat, afterAck : SUBSET Nat]

CallStates == [pc : {"idle", "stage", "index"}, shard : Shards, rec : Records \cup {None}]
FlushStates == [pc : {"none", "sync", "loop"}, seqs : SUBSET Int]
Watermarks == [set : SUBSET Int, value : Nat]

\* The first n records of a shard file f include number q.
Holds(f, n, q) == \E j \in 1..n : f[j] # Torn /\ f[j].seq = q

\* The shapes of the state, as far as the argument needs them.
Shape ==
  /\ issued \in Nat /\ nextShard \in Shards
  /\ caller \in [Callers -> CallStates]
  /\ \A p \in Callers : caller[p].pc # "idle" => caller[p].rec \in Records
  /\ file \in [Shards -> Seq(Records \cup {Torn})]
  /\ synced \in [Shards -> Nat] /\ opened \in [Shards -> Nat]
  /\ localSeq \in [Shards -> Int]
  /\ pending \in [Shards -> SUBSET Int]
  /\ flush \in [Shards -> FlushStates]
  /\ wm \in Watermarks
  /\ returned \subseteq Records /\ acked \subseteq Records

\* fsync covers what was written, and no more; so did the open.
Covered == \A i \in Shards : synced[i] <= Len(file[i]) /\ opened[i] <= Len(file[i])

\* How far the running store takes each file to be durable: what it fsynced, and
\* what it found in the file when it was opened.
Trust == [i \in Shards |-> IF synced[i] < opened[i] THEN opened[i] ELSE synced[i]]

\* The contiguous prefix is found in finitely many steps.
Finite ==
  /\ IsFiniteSet(wm.set)
  /\ \A i \in Shards : IsFiniteSet(pending[i]) /\ IsFiniteSet(flush[i].seqs)

\* A flush only ever marks what its shard's file holds when it calls fsync.
Written ==
  \A i \in Shards : \A q \in pending[i] \cup flush[i].seqs : Holds(file[i], Len(file[i]), q)

\* What was marked, contiguous or not, was fsynced or read back.
Marked ==
  \A q \in wm.set \cup 1..wm.value : \E i \in Shards : Holds(file[i], Trust[i], q)

\* The files fs a restart without torn writes may find: prefixes of what was written
\* that hold all that is on the disk.
Cut(fs) ==
  /\ lost => lost'
  /\ \A i \in Shards :
       /\ synced[i] <= synced'[i] /\ synced[i] <= Len(fs[i]) /\ Len(fs[i]) <= Len(file[i])
       /\ lost' \/ opened[i] <= Len(fs[i])
       /\ \A j \in 1..Len(fs[i]) : fs[i][j] = file[i][j]

\* The inductive invariant.
IInv == Shape /\ Covered /\ Finite /\ Written /\ Marked

-----------------------------------------------------------------------------
\* The round robin stays among the shards, and sequence numbers are integers.
LEMMA ShardNumbers ==
  /\ \A i \in Shards : (i + 1) % NumShards \in Shards
  /\ \A i \in Shards, l \in Int : seqOf(i, l) \in Int
BY PWalAssumption DEF Shards, seqOf

\* A record keeps its other fields when it is numbered.
LEMMA NumberedRecord ==
  ASSUME NEW r \in Records, NEW q \in Int
  PROVE  /\ [r EXCEPT !.seq = q] \in Records /\ [r EXCEPT !.seq = q].seq = q
         /\ [r EXCEPT !.seq = q] # Torn
BY TornAssumption DEF Records

\* A set of naturals has a smallest element.
LEMMA Smallest ==
  ASSUME NEW S, S \subseteq Nat, S # {}
  PROVE \E n \in S : \A m \in S : n <= m
<1> DEFINE R == {ss \in Nat \X Nat : ss[1] < ss[2]}
<1>1. OpToRel(<, Nat) = R
  BY Zenon DEF OpToRel
<1>2. IsWellFoundedOn(R, Nat)
  BY <1>1, NatLessThanWellFounded, Zenon
<1> HIDE DEF R
<1>3. \E n \in S : \A m \in S : <<m, n>> \notin R
  BY <1>2, WFMin, Zenon
<1>4. \A m, n \in Nat : <<m, n>> \notin R => n <= m
  BY DEF R
<1> QED BY <1>3, <1>4, Zenon

\* The values of a function on a finite set are finitely many.
LEMMA FiniteImage ==
  ASSUME NEW S, IsFiniteSet(S), NEW f, f = [x \in S |-> f[x]]
  PROVE IsFiniteSet({f[x] : x \in S})
<1> DEFINE T == {f[x] : x \in S}
<1>1. f \in Surjection(S, T)
  BY Zenon DEF Surjection
<1> QED BY <1>1, FS_Surjection, Zenon

\* mark's contiguous prefix exists and ends within as many steps as there are marks.
LEMMA Prefix ==
  ASSUME NEW a \in Nat, NEW all, all \subseteq Int, IsFiniteSet(all)
  PROVE \E n \in a..(a + Cardinality(all)) : (a + 1)..n \subseteq all /\ n + 1 \notin all
<1> DEFINE c == Cardinality(all)
           I == (a + 1)..(a + c + 1)
           D == {n \in Nat : n >= a /\ n + 1 \in I /\ n + 1 \notin all}
<1>1. c \in Nat
  BY FS_CardinalityType, Zenon
<1> HIDE DEF c
<1>2. IsFiniteSet(I) /\ Cardinality(I) = c + 1
  <2>1. a + 1 \in Int /\ a + c + 1 \in Int /\ ~(a + 1 > a + c + 1)
    BY <1>1
  <2>2. IsFiniteSet(I) /\ Cardinality(I) = (a + c + 1) - (a + 1) + 1
    BY <2>1, FS_Interval, Zenon
  <2> QED BY <1>1, <2>2
<1>3. ~(I \subseteq all)
  <2> SUFFICES ASSUME I \subseteq all PROVE FALSE
    OBVIOUS
  <2>1. Cardinality(I) <= c
    BY FS_Subset, Zenon DEF c
  <2> QED BY <1>1, <1>2, <2>1
<1>4. D # {}
  <2>1. PICK x \in I : x \notin all
    BY <1>3, Zenon
  <2>2. x - 1 \in D
    BY <1>1, <2>1
  <2> QED BY <2>2, Zenon
<1>5. PICK n \in D : \A m \in D : n <= m
  <2>1. D \subseteq Nat
    OBVIOUS
  <2> HIDE DEF D
  <2> QED BY <1>4, <2>1, Smallest, Zenon
<1>6. n \in a..(a + c) /\ n + 1 \notin all
  BY <1>1, <1>5
<1>7. ASSUME NEW x \in (a + 1)..n PROVE x \in all
  <2>1. x - 1 \in Nat /\ x - 1 >= a /\ x \in I /\ ~(n <= x - 1)
    BY <1>1, <1>6
  <2>2. x - 1 \notin D
    BY <1>5, <2>1
  <2> QED BY <2>1, <2>2
<1> QED BY <1>6, <1>7 DEF c

\* mark covers nothing that was not marked before or now.
LEMMA MarkSound ==
  ASSUME NEW m \in Watermarks, IsFiniteSet(m.set),
         NEW seqs, seqs \subseteq Int, IsFiniteSet(seqs)
  PROVE /\ mark(m, seqs) \in Watermarks /\ IsFiniteSet(mark(m, seqs).set)
        /\ mark(m, seqs).set \cup 1..mark(m, seqs).value \subseteq m.set \cup seqs \cup 1..m.value
<1> DEFINE all == m.set \cup seqs
           a == m.value
           v == CHOOSE n \in a..(a + Cardinality(all)) : (a + 1)..n \subseteq all /\ n + 1 \notin all
           s == all \ ((a + 1)..v)
<1>1. a \in Nat /\ all \subseteq Int /\ m.set \subseteq Int
  BY Zenon DEF Watermarks
<1>2. IsFiniteSet(all)
  BY FS_Union, Zenon
<1>3. mark(m, seqs) = [set |-> s, value |-> v]
  BY Zenon DEF mark
<1> HIDE DEF all, a
<1>4. v \in a..(a + Cardinality(all)) /\ (a + 1)..v \subseteq all
  BY <1>1, <1>2, Prefix, Zenon
<1>5. Cardinality(all) \in Nat
  BY <1>2, FS_CardinalityType, Zenon
<1> HIDE DEF v
<1>6. v \in Nat /\ s \subseteq Int
  BY <1>1, <1>4, <1>5
<1>7. IsFiniteSet(s)
  BY <1>2, FS_Subset, Zenon
<1>8. s \cup 1..v \subseteq all \cup 1..a
  BY <1>1, <1>4, <1>6
<1> HIDE DEF s
<1> QED BY <1>3, <1>6, <1>7, <1>8 DEF Watermarks, all, a

\* decodePWALShard keeps a prefix without torn records.
LEMMA DecodePrefix ==
  ASSUME NEW f \in Seq(Records \cup {Torn})
  PROVE /\ decode(f) \in Seq(Records) /\ Len(decode(f)) \in 0..Len(f)
        /\ \A j \in 1..Len(decode(f)) : decode(f)[j] = f[j] /\ f[j] # Torn
        /\ (\A j \in 1..Len(f) : f[j] # Torn) => Len(decode(f)) = Len(f)
<1> DEFINE P(m) == (\A j \in 1..m : f[j] # Torn) /\ (m < Len(f) => f[m + 1] = Torn)
           n == CHOOSE m \in 0..Len(f) : P(m)
           D == {m \in Nat : m < Len(f) /\ f[m + 1] = Torn}
<1>1. Len(f) \in Nat /\ \A j \in 1..Len(f) : f[j] \in Records \cup {Torn}
  OBVIOUS
<1>2. \E m \in 0..Len(f) : P(m)
  <2>1. CASE D = {}
    <3>1. \A j \in 1..Len(f) : f[j] # Torn
      <4> SUFFICES ASSUME NEW j \in 1..Len(f), f[j] = Torn PROVE FALSE
        OBVIOUS
      <4>1. j - 1 \in D
        BY <1>1
      <4> QED BY <2>1, <4>1
    <3>2. P(Len(f)) /\ Len(f) \in 0..Len(f)
      BY <1>1, <3>1
    <3> HIDE DEF P
    <3> QED BY <3>2, Zenon
  <2>2. CASE D # {}
    <3>1. PICK m \in D : \A k \in D : m <= k
      <4>1. D \subseteq Nat
        OBVIOUS
      <4> HIDE DEF D
      <4> QED BY <2>2, <4>1, Smallest, Zenon
    <3>2. \A j \in 1..m : f[j] # Torn
      <4> SUFFICES ASSUME NEW j \in 1..m, f[j] = Torn PROVE FALSE
        OBVIOUS
      <4>1. j - 1 \in D /\ ~(m <= j - 1)
        BY <1>1, <3>1
      <4> QED BY <3>1, <4>1
    <3>3. P(m) /\ m \in 0..Len(f)
      BY <1>1, <3>1, <3>2
    <3> HIDE DEF P
    <3> QED BY <3>3, Zenon
  <2> QED BY <2>1, <2>2, Zenon
<1>3. n \in 0..Len(f) /\ P(n)
  <2> HIDE DEF P
  <2> QED BY <1>2, Zenon
<1>4. decode(f) = SubSeq(f, 1, n)
  BY Zenon DEF decode
<1> HIDE DEF n
<1>5. \A j \in 1..n : f[j] # Torn /\ f[j] \in Records
  BY <1>1, <1>3
<1>8. (\A j \in 1..Len(f) : f[j] # Torn) => n = Len(f)
  BY <1>1, <1>3
<1> HIDE DEF P
<1>6. /\ Len(decode(f)) = n /\ DOMAIN decode(f) = 1..n
      /\ \A j \in 1..n : decode(f)[j] = f[j]
      /\ decode(f) \in Seq(Records \cup {Torn})
  BY <1>1, <1>3, <1>4
<1>7. decode(f) \in [1..n -> Records] /\ n \in Nat
  BY <1>3, <1>5, <1>6
<1> QED BY <1>3, <1>5, <1>6, <1>7, <1>8

\* The local counter resumes at an integer.
LEMMA ResumeType ==
  ASSUME NEW i \in Shards, NEW f \in Seq(Records)
  PROVE resumeLocal(i, f) \in Int
<1>1. CASE f = << >>
  BY <1>1 DEF resumeLocal
<1>2. CASE f # << >>
  <2>1. f[Len(f)] \in Records
    BY <1>2
  <2>2. f[Len(f)].seq \in Int
    BY <2>1 DEF Records
  <2>3. f[Len(f)].seq - i - 1 \in Int /\ NumShards \in Nat \ {0}
    BY <2>2, PWalAssumption DEF Shards
  <2> QED BY <1>2, <2>3 DEF resumeLocal
<1> QED BY <1>1, <1>2

-----------------------------------------------------------------------------
\* The trusted part of a file is a part of it, and covers what is on the disk.
LEMMA TrustFacts ==
  ASSUME Shape, Covered
  PROVE /\ Trust \in [Shards -> Nat]
        /\ \A i \in Shards : /\ synced[i] <= Trust[i] /\ opened[i] <= Trust[i]
                             /\ Trust[i] <= Len(file[i]) /\ Len(file[i]) \in Nat
                             /\ Trust[i] = synced[i] \/ Trust[i] = opened[i]
BY DEF Shape, Covered, Trust

\* More of the file, or more of it fsynced, holds no less.
LEMMA HoldsMore ==
  ASSUME NEW f, NEW g, NEW m \in Nat, NEW n \in Nat, m <= n,
         \A j \in 1..m : g[j] = f[j], NEW q, Holds(f, m, q)
  PROVE Holds(g, n, q)
BY DEF Holds

\* An empty store.
LEMMA InitInv == Init => IInv
<1> SUFFICES ASSUME Init PROVE IInv
  OBVIOUS
<1>1. 0 \in Shards
  BY PWalAssumption DEF Shards
<1>2. NoCall \in CallStates /\ NoCall.pc = "idle"
  BY <1>1 DEF NoCall, CallStates
<1>3. NoFlush \in FlushStates /\ NoFlush.seqs = {}
  BY DEF NoFlush, FlushStates
<1>4. << >> \in Seq(Records \cup {Torn}) /\ Len(<< >>) = 0
  OBVIOUS
<1>5. Shape
  BY <1>1, <1>2, <1>3, <1>4 DEF Init, Shape, Watermarks
<1>6. Finite
  BY <1>3, FS_EmptySet, Zenon DEF Init, Finite
<1>7. Covered /\ Written /\ Marked
  BY <1>3, <1>4 DEF Init, Covered, Written, Marked
<1> QED BY <1>5, <1>6, <1>7 DEF IInv

\* CommitAsync takes a shard.
LEMMA BeginInv ==
  ASSUME IInv, NEW p \in Callers, NEW K \in SUBSET Keys, Begin(p, K)
  PROVE IInv'
<1> DEFINE rec == [id |-> issued + 1, seq |-> 0, keys |-> K,
                   after |-> {r.id : r \in returned}, afterAck |-> {r.id : r \in acked}]
           c == [pc |-> "stage", shard |-> nextShard, rec |-> rec]
<1>1. rec \in Records
  <2>1. \A r \in Records : r.id \in Nat
    BY DEF Records
  <2>2. {r.id : r \in returned} \subseteq Nat /\ {r.id : r \in acked} \subseteq Nat
    BY <2>1 DEF IInv, Shape
  <2>3. issued + 1 \in Nat
    BY DEF IInv, Shape
  <2> QED BY <2>2, <2>3 DEF Records
<1>2. caller' = [caller EXCEPT ![p] = c]
  BY DEF Begin
<1> HIDE DEF rec
<1>3. c \in CallStates /\ c.rec = rec
  BY <1>1 DEF CallStates, IInv, Shape
<1> HIDE DEF c
<1>4. issued' \in Nat /\ nextShard' \in Shards
  <2>1. issued \in Nat /\ nextShard \in Shards /\ issued' = issued + 1
        /\ nextShard' = (nextShard + 1) % NumShards
    BY Zenon DEF Begin, IInv, Shape
  <2>2. issued' \in Nat
    BY <2>1
  <2> QED BY <2>1, <2>2, ShardNumbers, Zenon
<1>5. Shape'
  BY <1>1, <1>2, <1>3, <1>4, Zenon DEF Begin, IInv, Shape
<1>6. Covered' /\ Finite' /\ Written' /\ Marked'
  BY DEF Begin, IInv, Covered, Finite, Written, Marked, Trust
<1> QED BY <1>5, <1>6 DEF IInv

\* The record is numbered and written, and its number joins a flush of its shard.
LEMMA StageInv ==
  ASSUME IInv, NEW p \in Callers, Stage(p)
  PROVE IInv'
<1> DEFINE i == caller[p].shard
           seq == seqOf(i, localSeq[i])
           rec == [caller[p].rec EXCEPT !.seq = seq]
           f == Append(file[i], rec)
           c == [pc |-> "index", shard |-> i, rec |-> rec]
<1>1. /\ i \in Shards /\ caller[p].rec \in Records
      /\ file[i] \in Seq(Records \cup {Torn}) /\ localSeq[i] \in Int
      /\ pending[i] \subseteq Int /\ IsFiniteSet(pending[i])
  BY ZenonT(30) DEF Stage, IInv, Shape, CallStates, Finite
<1>2. seq \in Int
  BY <1>1, ShardNumbers, Zenon
<1>3. /\ localSeq' = [localSeq EXCEPT ![i] = @ + 1]
      /\ file' = [file EXCEPT ![i] = f]
      /\ caller' = [caller EXCEPT ![p] = c]
      /\ UNCHANGED <<issued, nextShard, synced, opened, wm, returned, acked>>
  BY <1>1, ZenonT(30) DEF Stage, IInv, Shape
<1>4. \/ flush' = flush /\ pending' = [pending EXCEPT ![i] = @ \cup {seq}]
      \/ /\ flush' = [flush EXCEPT ![i] = [pc |-> "sync", seqs |-> pending[i] \cup {seq}]]
         /\ pending' = [pending EXCEPT ![i] = {}]
  BY DEF Stage
<1> HIDE DEF i, seq
<1>5. rec \in Records /\ rec.seq = seq /\ rec # Torn
  BY <1>1, <1>2, NumberedRecord, Zenon
<1> HIDE DEF rec
<1>6. /\ f \in Seq(Records \cup {Torn}) /\ Len(file[i]) \in Nat
      /\ Len(f) = Len(file[i]) + 1 /\ f[Len(f)] = rec
      /\ \A j \in 1..Len(file[i]) : f[j] = file[i][j]
  BY <1>1, <1>5
<1>7. c \in CallStates /\ c.rec = rec
  BY <1>1, <1>5 DEF CallStates
<1> HIDE DEF f, c
<1>8. /\ file' \in [Shards -> Seq(Records \cup {Torn})] /\ file'[i] = f
      /\ \A k \in Shards \ {i} : file'[k] = file[k]
  BY <1>1, <1>3, <1>6, ZenonT(30) DEF IInv, Shape
<1>16. PICK fl \in FlushStates, pe \in SUBSET Int :
        /\ flush' = [flush EXCEPT ![i] = fl] /\ pending' = [pending EXCEPT ![i] = pe]
        /\ IsFiniteSet(pe) /\ IsFiniteSet(fl.seqs)
        /\ pe \cup fl.seqs \subseteq pending[i] \cup flush[i].seqs \cup {seq}
  <2>1. IsFiniteSet(pending[i] \cup {seq}) /\ IsFiniteSet({})
    BY <1>1, FS_AddElement, FS_EmptySet, Zenon
  <2>2. CASE flush' = flush /\ pending' = [pending EXCEPT ![i] = @ \cup {seq}]
    <3>1. flush' = [flush EXCEPT ![i] = flush[i]] /\ flush[i] \in FlushStates
      BY <1>1, <2>2 DEF IInv, Shape
    <3>2. pending' = [pending EXCEPT ![i] = pending[i] \cup {seq}]
      BY <1>1, <2>2 DEF IInv, Shape
    <3>3. IsFiniteSet(flush[i].seqs) /\ pending[i] \cup {seq} \in SUBSET Int
      BY <1>1, <1>2 DEF IInv, Finite
    <3> QED BY <2>1, <3>1, <3>2, <3>3, Zenon
  <2>3. CASE /\ flush' = [flush EXCEPT ![i] = [pc |-> "sync", seqs |-> pending[i] \cup {seq}]]
             /\ pending' = [pending EXCEPT ![i] = {}]
    <3> DEFINE fl == [pc |-> "sync", seqs |-> pending[i] \cup {seq}]
    <3>1. fl \in FlushStates /\ fl.seqs = pending[i] \cup {seq}
      BY <1>1, <1>2 DEF FlushStates
    <3>2. flush' = [flush EXCEPT ![i] = fl]
      BY <2>3
    <3> HIDE DEF fl
    <3>3. {} \in SUBSET Int /\ {} \cup fl.seqs \subseteq pending[i] \cup flush[i].seqs \cup {seq}
      BY <3>1
    <3>4. IsFiniteSet(fl.seqs)
      BY <2>1, <3>1
    <3> QED BY <2>1, <2>3, <3>1, <3>2, <3>3, <3>4, Zenon
  <2> QED BY <1>4, <2>2, <2>3, Zenon
<1>9. /\ flush' \in [Shards -> FlushStates] /\ pending' \in [Shards -> SUBSET Int]
      /\ flush'[i] = fl /\ pending'[i] = pe
      /\ \A k \in Shards \ {i} : pending'[k] = pending[k] /\ flush'[k] = flush[k]
  BY <1>1, <1>16 DEF IInv, Shape
<1>10. Shape'
  <2>1. localSeq' \in [Shards -> Int]
    BY <1>1, <1>3 DEF IInv, Shape
  <2>2. caller' \in [Callers -> CallStates]
    BY <1>3, <1>7, Zenon DEF IInv, Shape
  <2>3. \A q \in Callers : caller'[q].pc # "idle" => caller'[q].rec \in Records
    BY <1>3, <1>5, <1>7, ZenonT(30) DEF IInv, Shape
  <2> QED BY <1>3, <1>8, <1>9, <2>1, <2>2, <2>3, Zenon DEF IInv, Shape
<1>11. Covered'
  BY <1>3, <1>6, <1>8 DEF IInv, Shape, Covered
<1>12. Finite'
  BY <1>3, <1>16, <1>9 DEF IInv, Finite
<1>13. \A k \in Shards : /\ Len(file[k]) \in Nat /\ Len(file[k]) <= Len(file'[k])
                          /\ Len(file'[k]) \in Nat
                          /\ \A j \in 1..Len(file[k]) : file'[k][j] = file[k][j]
  <2> SUFFICES ASSUME NEW k \in Shards
               PROVE /\ Len(file[k]) \in Nat /\ Len(file[k]) <= Len(file'[k])
                     /\ Len(file'[k]) \in Nat
                     /\ \A j \in 1..Len(file[k]) : file'[k][j] = file[k][j]
    OBVIOUS
  <2>1. CASE k = i
    BY <1>6, <1>8, <2>1
  <2>2. CASE k # i
    <3>1. file'[k] = file[k] /\ file[k] \in Seq(Records \cup {Torn})
      BY <1>8, <2>2 DEF IInv, Shape
    <3> QED BY <3>1
  <2> QED BY <2>1, <2>2
<1>14. Written'
  <2>1. ASSUME NEW k \in Shards, NEW q \in pending[k] \cup flush[k].seqs
        PROVE Holds(file'[k], Len(file'[k]), q)
    <3>1. Holds(file[k], Len(file[k]), q)
      BY DEF IInv, Written
    <3> QED BY <1>13, <3>1, HoldsMore, Zenon
  <2>2. Holds(file'[i], Len(file'[i]), seq)
    BY <1>5, <1>6, <1>8 DEF Holds
  <2>3. \A k \in Shards : \A q \in pending'[k] \cup flush'[k].seqs :
          (q \in pending[k] \cup flush[k].seqs) \/ (k = i /\ q = seq)
    BY <1>16, <1>9
  <2> QED BY <2>1, <2>2, <2>3, Zenon DEF Written
<1>15. Marked'
  <2>0. Trust' = Trust
    BY <1>3, Zenon DEF Trust
  <2>1. ASSUME NEW k \in Shards, NEW q, Holds(file[k], Trust[k], q)
        PROVE Holds(file'[k], Trust[k], q)
    <3>0. Trust[k] \in Nat /\ Trust[k] <= Len(file[k]) /\ Len(file[k]) \in Nat
      BY TrustFacts, Zenon DEF IInv
    <3>1. Trust[k] \in Nat /\ \A j \in 1..Trust[k] : file'[k][j] = file[k][j]
      BY <1>13, <3>0
    <3>2. Trust[k] <= Trust[k]
      BY <3>0
    <3> QED BY <2>1, <3>1, <3>2, HoldsMore, Zenon
  <2> QED BY <1>3, <2>0, <2>1, Zenon DEF IInv, Marked
<1> QED BY <1>10, <1>11, <1>12, <1>14, <1>15, ZenonT(30) DEF IInv

\* The index is written and CommitAsync returns.
LEMMA IndexInv ==
  ASSUME IInv, NEW p \in Callers, Index(p)
  PROVE IInv'
<1>1. NoCall \in CallStates /\ NoCall.pc = "idle"
  BY PWalAssumption DEF NoCall, CallStates, Shards
<1>2. Shape'
  BY <1>1, ZenonT(30) DEF Index, IInv, Shape
<1>3. Covered' /\ Finite' /\ Written' /\ Marked'
  BY DEF Index, IInv, Covered, Finite, Written, Marked, Trust
<1> QED BY <1>2, <1>3 DEF IInv

\* A commit is seen to be durable.
LEMMA AckInv ==
  ASSUME IInv, NEW r \in returned, Ack(r)
  PROVE IInv'
<1>1. Shape'
  BY DEF Ack, IInv, Shape
<1>2. Covered' /\ Finite' /\ Written' /\ Marked'
  BY DEF Ack, IInv, Covered, Finite, Written, Marked, Trust
<1> QED BY <1>1, <1>2 DEF IInv

\* fsync covers everything its flush then marks.
LEMMA FsyncInv ==
  ASSUME IInv, NEW i \in Shards, Fsync(i)
  PROVE IInv'
<1> DEFINE fl == [flush[i] EXCEPT !.pc = "loop"]
<1>1. /\ synced' = [synced EXCEPT ![i] = Len(file[i])]
      /\ wm' = mark(wm, flush[i].seqs)
      /\ UNCHANGED <<issued, nextShard, caller, file, opened, localSeq, pending, returned, acked>>
  BY DEF Fsync
<1>2. flush' = [flush EXCEPT ![i] = fl]
  BY DEF Fsync
<1>3. /\ flush[i] \in FlushStates /\ flush[i].seqs \subseteq Int /\ IsFiniteSet(flush[i].seqs)
      /\ wm \in Watermarks /\ IsFiniteSet(wm.set)
  BY DEF IInv, Shape, Finite, FlushStates
<1>4. fl \in FlushStates /\ fl.seqs = flush[i].seqs
  BY <1>3 DEF FlushStates
<1> HIDE DEF fl
<1>5. /\ wm' \in Watermarks /\ IsFiniteSet(wm'.set)
      /\ wm'.set \cup 1..wm'.value \subseteq wm.set \cup flush[i].seqs \cup 1..wm.value
  BY <1>1, <1>3, MarkSound, Zenon
<1>6. \A k \in Shards : flush'[k] \in FlushStates /\ flush'[k].seqs = flush[k].seqs
  BY <1>2, <1>4 DEF IInv, Shape
<1>7. /\ \A k \in Shards : Len(file[k]) \in Nat /\ synced[k] \in Nat /\ synced'[k] \in Nat
      /\ \A k \in Shards : synced[k] <= synced'[k] /\ synced'[k] <= Len(file[k])
      /\ synced'[i] = Len(file[i])
  BY <1>1, SMTT(30) DEF IInv, Shape, Covered
<1>11. /\ Trust'[i] = Len(file[i])
       /\ \A k \in Shards : Trust[k] \in Nat /\ Trust'[k] \in Nat /\ Trust[k] <= Trust'[k]
  <2>1. \A k \in Shards : opened[k] \in Nat /\ opened[k] <= Len(file[k]) /\ opened'[k] = opened[k]
    BY <1>1 DEF IInv, Shape, Covered
  <2>2. \A k \in Shards : /\ Trust[k] = IF synced[k] < opened[k] THEN opened[k] ELSE synced[k]
                          /\ Trust'[k] = IF synced'[k] < opened'[k] THEN opened'[k] ELSE synced'[k]
    BY DEF Trust
  <2>4. ASSUME NEW k \in Shards
        PROVE /\ Trust[k] \in Nat /\ Trust'[k] \in Nat /\ Trust[k] <= Trust'[k]
              /\ synced'[k] = Len(file[k]) => Trust'[k] = Len(file[k])
    <3>1. /\ Len(file[k]) \in Nat /\ synced[k] \in Nat /\ synced'[k] \in Nat
          /\ synced[k] <= synced'[k] /\ opened[k] \in Nat /\ opened[k] <= Len(file[k])
          /\ opened'[k] = opened[k]
      BY <1>7, <2>1, Zenon
    <3>2. /\ Trust[k] = IF synced[k] < opened[k] THEN opened[k] ELSE synced[k]
          /\ Trust'[k] = IF synced'[k] < opened'[k] THEN opened'[k] ELSE synced'[k]
      BY <2>2, Zenon
    <3> QED BY <3>1, <3>2
  <2> QED BY <1>7, <2>4, Zenon
<1>8. Shape'
  BY <1>1, <1>2, <1>4, <1>5, <1>7, ZenonT(30) DEF IInv, Shape
<1>9. Covered' /\ Finite' /\ Written'
  BY <1>1, <1>5, <1>6, <1>7 DEF IInv, Covered, Finite, Written
<1>10. Marked'
  <2>1. ASSUME NEW q \in wm.set \cup 1..wm.value
        PROVE \E k \in Shards : Holds(file[k], Trust'[k], q)
    <3>1. PICK k \in Shards : Holds(file[k], Trust[k], q)
      BY DEF IInv, Marked
    <3>2. Holds(file[k], Trust'[k], q)
      BY <1>11, <3>1, HoldsMore, Zenon
    <3> QED BY <3>2
  <2>2. ASSUME NEW q \in flush[i].seqs
        PROVE \E k \in Shards : Holds(file[k], Trust'[k], q)
    BY <1>11 DEF IInv, Written
  <2> QED BY <1>1, <1>5, <2>1, <2>2, Zenon DEF Marked
<1> QED BY <1>8, <1>9, <1>10 DEF IInv

\* A failed fsync marks nothing.
LEMMA FsyncFailsInv ==
  ASSUME IInv, NEW i \in Shards, FsyncFails(i)
  PROVE IInv'
<1> DEFINE fl == [flush[i] EXCEPT !.pc = "loop"]
<1>1. /\ flush' = [flush EXCEPT ![i] = fl]
      /\ UNCHANGED <<issued, nextShard, caller, file, synced, opened, localSeq, pending, wm,
                     returned, acked>>
  BY DEF FsyncFails
<1>2. fl \in FlushStates /\ fl.seqs = flush[i].seqs
  BY Zenon DEF FlushStates, IInv, Shape
<1> HIDE DEF fl
<1>3. \A k \in Shards : flush'[k] \in FlushStates /\ flush'[k].seqs = flush[k].seqs
  BY <1>1, <1>2 DEF IInv, Shape
<1>4. Shape'
  BY <1>1, <1>2, ZenonT(30) DEF IInv, Shape
<1>5. Covered' /\ Finite' /\ Written' /\ Marked'
  BY <1>1, <1>3 DEF IInv, Covered, Finite, Written, Marked, Trust
<1> QED BY <1>4, <1>5 DEF IInv

\* The flush takes what was staged meanwhile.
LEMMA FlushLoopInv ==
  ASSUME IInv, NEW i \in Shards, FlushLoop(i)
  PROVE IInv'
<1> DEFINE fl == IF pending[i] = {} THEN NoFlush ELSE [pc |-> "sync", seqs |-> pending[i]]
<1>1. /\ flush' = [flush EXCEPT ![i] = fl] /\ pending' = [pending EXCEPT ![i] = {}]
      /\ UNCHANGED <<issued, nextShard, caller, file, synced, opened, localSeq, wm,
                     returned, acked>>
  BY DEF FlushLoop
<1>2. fl \in FlushStates /\ fl.seqs = pending[i]
  BY DEF NoFlush, FlushStates, IInv, Shape
<1> HIDE DEF fl
<1>3. /\ flush'[i].seqs = pending[i] /\ pending'[i] = {}
      /\ \A k \in Shards \ {i} : flush'[k] = flush[k] /\ pending'[k] = pending[k]
  BY <1>1, <1>2 DEF IInv, Shape
<1>4. Shape'
  BY <1>1, <1>2, ZenonT(30) DEF IInv, Shape
<1>5. Covered' /\ Finite' /\ Written' /\ Marked'
  BY <1>1, <1>3, FS_EmptySet DEF IInv, Covered, Finite, Written, Marked, Trust
<1> QED BY <1>4, <1>5 DEF IInv

\* A restart reopens files that hold at least what is on the disk.  Without torn
\* writes it reopens prefixes of them, and what was read back before is still there
\* unless a power failure took it.
LEMMA Restart ==
  ASSUME IInv, Kill \/ PowerLoss
  PROVE \E fs \in [Shards -> Seq(Records \cup {Torn})] :
          /\ Open(fs)
          /\ synced' \in [Shards -> Nat]
          /\ \A i \in Shards : synced'[i] <= Len(fs[i])
          /\ ~TornWrites => Cut(fs)
<1>1. \A i \in Shards : /\ file[i] \in Seq(Records \cup {Torn}) /\ Len(file[i]) \in Nat
                        /\ synced[i] \in Nat /\ synced[i] <= Len(file[i])
                        /\ opened[i] \in Nat /\ opened[i] <= Len(file[i])
  BY DEF IInv, Shape, Covered
<1>2. CASE Kill
  <2>1. Open(file) /\ UNCHANGED <<synced, lost>>
    BY <1>2 DEF Kill
  <2>2. synced' \in [Shards -> Nat] /\ file \in [Shards -> Seq(Records \cup {Torn})]
    BY <2>1, Zenon DEF IInv, Shape
  <2>3. \A i \in Shards : synced'[i] <= Len(file[i])
    BY <1>1, <2>1, Zenon
  <2>4. \A i \in Shards : /\ synced[i] <= synced'[i] /\ Len(file[i]) <= Len(file[i])
    BY <1>1, <2>1
  <2>5. Cut(file)
    BY <1>1, <2>1, <2>4, Zenon DEF Cut
  <2> QED BY <2>1, <2>2, <2>3, <2>5, Zenon
<1>3. CASE PowerLoss
  <2>1. PICK keep \in [Shards -> 0..MaxCommits], torn \in [Shards -> BOOLEAN] :
          LET fs == [i \in Shards |-> SubSeq(file[i], 1, keep[i])
                                        \o (IF torn[i] THEN <<Torn>> ELSE << >>)]
          IN  /\ \A i \in Shards : /\ keep[i] \in synced[i]..Len(file[i])
                                   /\ torn[i] => TornWrites /\ keep[i] < Len(file[i])
              /\ Open(fs)
              /\ synced' = [i \in Shards |-> Len(fs[i])]
              /\ lost' = (lost \/ \E i \in Shards : keep[i] < opened[i])
    BY <1>3, Zenon DEF PowerLoss
  <2> DEFINE fs == [i \in Shards |-> SubSeq(file[i], 1, keep[i])
                                       \o (IF torn[i] THEN <<Torn>> ELSE << >>)]
  <2>2. /\ \A i \in Shards : /\ keep[i] \in synced[i]..Len(file[i])
                             /\ torn[i] => TornWrites
        /\ Open(fs)
        /\ synced' = [i \in Shards |-> Len(fs[i])]
        /\ lost' = (lost \/ \E i \in Shards : keep[i] < opened[i])
    BY <2>1, Zenon
  <2>9. \A i \in Shards : keep[i] \in 0..Len(file[i])
    <3>1. \A i \in Shards : keep[i] \in synced[i]..Len(file[i])
      BY <2>2, Zenon
    <3> HIDE DEF fs
    <3> QED BY <1>1, <3>1
  <2>3. ASSUME NEW i \in Shards PROVE fs[i] \in Seq(Records \cup {Torn})
    <3>1. SubSeq(file[i], 1, keep[i]) \in Seq(Records \cup {Torn})
      <4> HIDE DEF fs
      <4> QED BY <1>1, <2>9
    <3>2. (IF torn[i] THEN <<Torn>> ELSE << >>) \in Seq(Records \cup {Torn})
      <4>1. <<Torn>> \in Seq(Records \cup {Torn}) /\ << >> \in Seq(Records \cup {Torn})
        OBVIOUS
      <4> QED BY <4>1, Zenon
    <3>3. fs[i] = SubSeq(file[i], 1, keep[i]) \o (IF torn[i] THEN <<Torn>> ELSE << >>)
      BY Zenon
    <3> HIDE DEF fs
    <3> QED BY <3>1, <3>2, <3>3
  <2>4. ASSUME ~TornWrites, NEW i \in Shards
        PROVE /\ Len(fs[i]) = keep[i]
              /\ \A j \in 1..Len(fs[i]) : fs[i][j] = file[i][j]
    <3>1. fs[i] = SubSeq(file[i], 1, keep[i]) \o << >>
      <4>1. ~torn[i]
        BY <2>2, <2>4, Zenon
      <4>2. fs[i] = SubSeq(file[i], 1, keep[i]) \o (IF torn[i] THEN <<Torn>> ELSE << >>)
        BY Zenon
      <4> QED BY <4>1, <4>2, Zenon
    <3> HIDE DEF fs
    <3>2. keep[i] \in 0..Len(file[i])
      BY <2>9, Zenon
    <3>3. fs[i] = SubSeq(file[i], 1, keep[i])
      BY <1>1, <3>1, <3>2
    <3> QED BY <1>1, <3>2, <3>3
  <2>5. fs \in [Shards -> Seq(Records \cup {Torn})]
    BY <2>3, Zenon
  <2> HIDE DEF fs
  <2>6. \A i \in Shards : Len(fs[i]) \in Nat
    BY <2>5
  <2>7. synced' \in [Shards -> Nat] /\ \A i \in Shards : synced'[i] <= Len(fs[i])
    BY <2>2, <2>6
  <2>8. ASSUME ~TornWrites PROVE Cut(fs)
    <3>1. ASSUME NEW i \in Shards
          PROVE /\ synced[i] <= synced'[i] /\ synced[i] <= Len(fs[i])
                /\ Len(fs[i]) <= Len(file[i])
                /\ lost' \/ opened[i] <= Len(fs[i])
      <4>1. Len(fs[i]) = keep[i] /\ synced'[i] = Len(fs[i])
        BY <2>2, <2>4, <2>8, Zenon
      <4>2. lost' \/ ~(keep[i] < opened[i])
        <5>1. ASSUME keep[i] < opened[i] PROVE lost'
          <6>1. \E k \in Shards : keep[k] < opened[k]
            BY <5>1, Zenon
          <6>2. lost' = (lost \/ \E k \in Shards : keep[k] < opened[k])
            BY <2>2, Zenon
          <6> QED BY <6>1, <6>2
        <5> QED BY <5>1, Zenon
      <4>3. keep[i] \in synced[i]..Len(file[i])
        BY <2>2, Zenon
      <4>4. CASE lost'
        BY <1>1, <4>1, <4>3, <4>4
      <4>5. CASE ~(keep[i] < opened[i])
        BY <1>1, <4>1, <4>3, <4>5
      <4> QED BY <4>2, <4>4, <4>5, Zenon
    <3>2. lost => lost'
      BY <2>2, Zenon
    <3> QED BY <2>4, <2>8, <3>1, <3>2, Zenon DEF Cut
  <2> QED BY <2>2, <2>5, <2>7, <2>8, Zenon DEF fs
<1> QED BY <1>2, <1>3

\* What a reopened store replays is finite.
LEMMA ReplayedFinite ==
  ASSUME NEW fs, \A i \in Shards : Len(decode(fs[i])) \in Nat
  PROVE IsFiniteSet(replayed(fs))
<1> DEFINE g == [i \in Shards |-> {decode(fs[i])[j] : j \in 1..Len(decode(fs[i]))}]
           G == {g[i] : i \in Shards}
<1>1. IsFiniteSet(Shards)
  BY FS_Interval, PWalAssumption DEF Shards
<1>2. IsFiniteSet(G)
  <2>1. g = [i \in Shards |-> g[i]]
    OBVIOUS
  <2> HIDE DEF g
  <2> QED BY <1>1, <2>1, FiniteImage, ZenonT(30)
<1>3. ASSUME NEW i \in Shards
      PROVE IsFiniteSet({decode(fs[i])[j] : j \in 1..Len(decode(fs[i]))})
  <2> DEFINE d == decode(fs[i])
             n == Len(d)
             e == [j \in 1..n |-> d[j]]
  <2>1. n \in Nat
    OBVIOUS
  <2> HIDE DEF d, n
  <2>2. IsFiniteSet(1..n)
    BY <2>1, FS_Interval
  <2>3. IsFiniteSet({e[j] : j \in 1..n})
    <3>1. e = [j \in 1..n |-> e[j]]
      OBVIOUS
    <3> HIDE DEF e
    <3> QED BY <2>2, <3>1, FiniteImage, ZenonT(30)
  <2>4. {e[j] : j \in 1..n} = {d[j] : j \in 1..n}
    OBVIOUS
  <2> QED BY <2>3, <2>4, Zenon DEF d, n
<1>4. \A T \in G : IsFiniteSet(T)
  BY <1>3, Zenon
<1>5. IsFiniteSet(UNION G)
  BY <1>2, <1>4, FS_UNION, Zenon
<1>6. G = {{decode(fs[i])[j] : j \in 1..Len(decode(fs[i]))} : i \in Shards}
  BY Zenon
<1>7. replayed(fs) = UNION G
  BY <1>6, Zenon DEF replayed
<1> QED BY <1>5, <1>7, Zenon

\* Reopening keeps the invariant, whatever the files hold.
LEMMA OpenInv ==
  ASSUME IInv, NEW fs \in [Shards -> Seq(Records \cup {Torn})], Open(fs),
         synced' \in [Shards -> Nat], \A i \in Shards : synced'[i] <= Len(fs[i])
  PROVE IInv'
<1>1. /\ nextShard' = 0 /\ caller' = [p \in Callers |-> NoCall]
      /\ pending' = [i \in Shards |-> {}] /\ flush' = [i \in Shards |-> NoFlush]
      /\ returned' = acked /\ UNCHANGED <<issued, acked>>
  BY Zenon DEF Open
<1>2. file' = fs
  BY Zenon DEF Open
<1> DEFINE R == replayed(file')
           seqs == {r.seq : r \in R}
<1>3. /\ opened' = [i \in Shards |-> Len(file'[i])]
      /\ localSeq' = [i \in Shards |-> resumeLocal(i, decode(file'[i]))]
      /\ wm' = mark([set |-> {}, value |-> 0], seqs)
  BY <1>2, Zenon DEF Open
<1>4. \A i \in Shards : file'[i] \in Seq(Records \cup {Torn})
  BY <1>2, Zenon
<1>5. \A i \in Shards :
        /\ decode(file'[i]) \in Seq(Records) /\ Len(decode(file'[i])) \in 0..Len(file'[i])
        /\ \A j \in 1..Len(decode(file'[i])) :
             decode(file'[i])[j] = file'[i][j] /\ file'[i][j] # Torn
  BY <1>4, DecodePrefix, Zenon
<1>6. \A i \in Shards : /\ Len(file'[i]) \in Nat /\ opened'[i] = Len(file'[i])
                        /\ synced'[i] <= Len(file'[i]) /\ Trust'[i] = Len(file'[i])
  <2>1. \A i \in Shards : /\ Len(file'[i]) \in Nat /\ opened'[i] = Len(file'[i])
                          /\ synced'[i] \in Nat /\ synced'[i] <= Len(file'[i])
    BY <1>2, <1>3, <1>4
  <2>2. \A i \in Shards : Trust'[i] = IF synced'[i] < opened'[i] THEN opened'[i] ELSE synced'[i]
    BY Zenon DEF Trust
  <2> QED BY <2>1, <2>2
<1>7. \A i \in Shards : localSeq'[i] \in Int
  BY <1>3, <1>5, ResumeType, Zenon
<1>8. R \subseteq Records /\ \A r \in R : \E i \in Shards : Holds(file'[i], Trust'[i], r.seq)
  <2> SUFFICES ASSUME NEW r \in R
               PROVE r \in Records /\ \E i \in Shards : Holds(file'[i], Trust'[i], r.seq)
    BY Zenon
  <2>1. PICK i \in Shards : r \in {decode(file'[i])[j] : j \in 1..Len(decode(file'[i]))}
    BY Zenon DEF replayed
  <2>2. PICK j \in 1..Len(decode(file'[i])) : r = decode(file'[i])[j]
    BY <2>1, Zenon
  <2>3. r \in Records
    BY <1>5, <2>2
  <2>4. j \in 1..Trust'[i] /\ file'[i][j] = r /\ file'[i][j] # Torn
    BY <1>5, <1>6, <2>2
  <2> QED BY <2>3, <2>4, Zenon DEF Holds
<1>9. seqs \subseteq Int
  <2>1. \A r \in Records : r.seq \in Int
    BY DEF Records
  <2> HIDE DEF R
  <2> QED BY <1>8, <2>1, Zenon
<1>10. IsFiniteSet(seqs)
  <2>1. IsFiniteSet(R)
    <3>1. \A i \in Shards : Len(decode(file'[i])) \in Nat
      BY <1>5, <1>6
    <3> QED BY <3>1, ReplayedFinite, Zenon
  <2> HIDE DEF R
  <2> DEFINE h == [r \in R |-> r.seq]
  <2>2. IsFiniteSet({h[r] : r \in R})
    <3>1. h = [r \in R |-> h[r]]
      OBVIOUS
    <3> HIDE DEF h
    <3> QED BY <2>1, <3>1, FiniteImage, ZenonT(30)
  <2>3. {h[r] : r \in R} = seqs
    BY Zenon
  <2> QED BY <2>2, <2>3, Zenon
<1> DEFINE m == [set |-> {}, value |-> 0]
<1>11. m \in Watermarks /\ m.set = {} /\ m.value = 0 /\ IsFiniteSet({})
  BY FS_EmptySet DEF Watermarks
<1>12. wm' = mark(m, seqs)
  BY <1>3, Zenon
<1> HIDE DEF R, seqs, m
<1>13. wm' \in Watermarks /\ IsFiniteSet(wm'.set)
       /\ wm'.set \cup 1..wm'.value \subseteq m.set \cup seqs \cup 1..m.value
  BY <1>9, <1>10, <1>11, <1>12, MarkSound, Zenon
<1>14. wm'.set \cup 1..wm'.value \subseteq seqs
  BY <1>11, <1>13
<1>15. NoCall \in CallStates /\ NoCall.pc = "idle" /\ 0 \in Shards
  BY PWalAssumption DEF NoCall, CallStates, Shards
<1>16. NoFlush \in FlushStates /\ NoFlush.seqs = {}
  BY DEF NoFlush, FlushStates
<1>17. Shape'
  <2>1. /\ file' \in [Shards -> Seq(Records \cup {Torn})]
        /\ localSeq' \in [Shards -> Int]
        /\ opened' \in [Shards -> Nat]
    BY <1>2, <1>3, <1>6, <1>7, Zenon
  <2>2. /\ caller' \in [Callers -> CallStates] /\ \A p \in Callers : caller'[p].pc = "idle"
        /\ pending' \in [Shards -> SUBSET Int] /\ flush' \in [Shards -> FlushStates]
    BY <1>1, <1>15, <1>16
  <2> QED BY <1>1, <1>13, <1>15, <2>1, <2>2, Zenon DEF IInv, Shape
<1>18. Covered'
  BY <1>6 DEF Covered
<1>19. Finite' /\ Written'
  BY <1>1, <1>11, <1>13, <1>16, Zenon DEF Finite, Written
<1>20. Marked'
  BY <1>8, <1>14, Zenon DEF Marked, seqs
<1> QED BY <1>17, <1>18, <1>19, <1>20 DEF IInv

\* Every step keeps the invariant.
LEMMA NextInv == IInv /\ [Next]_vars => IInv'
<1> SUFFICES ASSUME IInv, [Next]_vars PROVE IInv'
  BY ZenonT(30)
<1>1. CASE UNCHANGED vars
  BY <1>1 DEF vars, IInv, Shape, Covered, Finite, Written, Marked, Trust
<1>2. CASE Kill \/ PowerLoss
  BY <1>2, Restart, OpenInv, Zenon
<1>3. CASE Next /\ ~(Kill \/ PowerLoss)
  BY <1>3, BeginInv, StageInv, IndexInv, FsyncInv, FsyncFailsInv, FlushLoopInv, AckInv DEF Next
<1> QED BY <1>1, <1>2, <1>3

\* WatermarkSound in every reachable state: DurableSeq covers only sequence numbers
\* whose record is in its shard's file, in the part that was fsynced or in the part
\* OpenPWALStore found there, whatever the order in which the shards' runFlush
\* goroutines finish, and after any kill, power failure and reopening.
THEOREM WatermarkIsDurable == Spec => []WatermarkSound
<1>1. IInv => WatermarkSound
  <2> SUFFICES ASSUME IInv, NEW q \in 1..wm.value
               PROVE \E i \in Shards : \E j \in 1..Len(file[i]) :
                       /\ file[i][j] # Torn /\ file[i][j].seq = q
                       /\ j <= synced[i] \/ j <= opened[i]
    BY Zenon DEF WatermarkSound
  <2>1. PICK i \in Shards : Holds(file[i], Trust[i], q)
    BY Zenon DEF IInv, Marked
  <2>2. PICK j \in 1..Trust[i] : file[i][j] # Torn /\ file[i][j].seq = q
    BY <2>1, Zenon DEF Holds
  <2>3. /\ synced[i] \in Nat /\ opened[i] \in Nat /\ Trust[i] \in Nat /\ Len(file[i]) \in Nat
        /\ Trust[i] <= Len(file[i]) /\ (Trust[i] = synced[i] \/ Trust[i] = opened[i])
    BY TrustFacts, Zenon DEF IInv, Shape
  <2>4. j \in 1..Len(file[i]) /\ (j <= synced[i] \/ j <= opened[i])
    BY <2>3
  <2> QED BY <2>2, <2>4, Zenon
<1> QED BY <1>1, InitInv, NextInv, PTL DEF Spec

-----------------------------------------------------------------------------
\* Without torn records, the files number their records without gaps, and the
\* local counters are where the files end.
Numbered ==
  \A i \in Shards :
    /\ localSeq[i] = Len(file[i])
    /\ \A j \in 1..Len(file[i]) : file[i][j] # Torn /\ file[i][j].seq = seqOf(i, j - 1)

\* Shard and local number are determined by the sequence number.
LEMMA SeqOfInjective ==
  ASSUME NEW i \in Shards, NEW k \in Shards, NEW a \in Nat, NEW b \in Nat,
         seqOf(i, a) = seqOf(k, b)
  PROVE i = k /\ a = b
<1>1. /\ NumShards \in Nat \ {0} /\ i \in Nat /\ k \in Nat
      /\ i < NumShards /\ k < NumShards
  BY PWalAssumption DEF Shards
<1>2. a * NumShards + i = b * NumShards + k
  BY <1>1 DEF seqOf
<1>3. \A x, y \in Nat : x < y => x * NumShards + NumShards <= y * NumShards
  BY <1>1
<1>4. a * NumShards \in Nat /\ b * NumShards \in Nat
  BY <1>1
<1>5. ~(a < b) /\ ~(b < a)
  BY <1>1, <1>2, <1>3, <1>4
<1>6. a = b
  BY <1>5
<1> QED BY <1>1, <1>2, <1>4, <1>6

\* The counter resumes at the length of the file.
LEMMA Resume ==
  ASSUME NEW i \in Shards, NEW n \in Nat
  PROVE (seqOf(i, n) - i - 1) \div NumShards = n
<1>1. NumShards \in Nat \ {0} /\ i \in Nat
  BY PWalAssumption DEF Shards
<1>2. n * NumShards \in Nat
  BY <1>1
<1>3. seqOf(i, n) - i - 1 = n * NumShards
  BY <1>1, <1>2 DEF seqOf
<1>4. (n * NumShards) \div NumShards = n
  BY <1>1
<1> QED BY <1>3, <1>4

\* A restart that tears nothing cuts the files and resumes where they end.
LEMMA RestartNumbered ==
  ASSUME IInv, Numbered, NEW fs \in [Shards -> Seq(Records \cup {Torn})], Open(fs), Cut(fs)
  PROVE Numbered'
<1> SUFFICES ASSUME NEW i \in Shards
             PROVE /\ localSeq'[i] = Len(file'[i])
                   /\ \A j \in 1..Len(file'[i]) :
                        file'[i][j] # Torn /\ file'[i][j].seq = seqOf(i, j - 1)
  BY DEF Numbered
<1> DEFINE f == fs[i]
           n == Len(f)
<1>2. file[i] \in Seq(Records \cup {Torn}) /\ n <= Len(file[i])
  BY DEF IInv, Shape, Cut
<1>3. /\ f \in Seq(Records \cup {Torn}) /\ n \in Nat /\ n <= Len(file[i]) /\ Len(f) = n
      /\ \A j \in 1..n : f[j] = file[i][j]
  BY <1>2 DEF Cut
<1>4. file'[i] = f /\ localSeq'[i] = resumeLocal(i, decode(file'[i]))
  BY Zenon DEF Open
<1> HIDE DEF f, n
<1>5. \A j \in 1..n : f[j] # Torn /\ f[j].seq = seqOf(i, j - 1)
  <2>1. \A j \in 1..n : j \in 1..Len(file[i])
    BY <1>2, <1>3
  <2>2. \A j \in 1..Len(file[i]) : file[i][j] # Torn /\ file[i][j].seq = seqOf(i, j - 1)
    BY Zenon DEF Numbered
  <2> QED BY <1>3, <2>1, <2>2, Zenon
<1>6. /\ Len(decode(f)) = n /\ decode(f) \in Seq(Records)
      /\ \A j \in 1..n : decode(f)[j].seq = seqOf(i, j - 1)
  BY <1>3, <1>5, DecodePrefix, Zenon
<1>7. resumeLocal(i, decode(f)) = n
  <2>1. CASE n = 0
    BY <1>6, <2>1 DEF resumeLocal
  <2>2. CASE n # 0
    <3>1. decode(f) # << >> /\ decode(f)[n].seq = seqOf(i, n - 1) /\ n - 1 \in Nat
      BY <1>3, <1>6, <2>2
    <3>2. (seqOf(i, n - 1) - i - 1) \div NumShards = n - 1
      BY <3>1, Resume
    <3> QED BY <1>3, <1>6, <3>1, <3>2 DEF resumeLocal
  <2> QED BY <2>1, <2>2
<1> QED BY <1>3, <1>4, <1>5, <1>7

\* Only stage and a restart number anything.
LEMMA NextNumbered == ~TornWrites /\ IInv /\ Numbered /\ [Next]_vars => Numbered'
<1> SUFFICES ASSUME ~TornWrites, IInv, Numbered, [Next]_vars PROVE Numbered'
  OBVIOUS
<1>1. CASE UNCHANGED <<file, localSeq>>
  BY <1>1 DEF Numbered
<1>2. ASSUME NEW p \in Callers, Stage(p) PROVE Numbered'
  <2> DEFINE i == caller[p].shard
             rec == [caller[p].rec EXCEPT !.seq = seqOf(i, localSeq[i])]
  <2>1. /\ i \in Shards /\ caller[p].rec \in Records /\ localSeq[i] \in Int
        /\ file[i] \in Seq(Records \cup {Torn}) /\ localSeq[i] = Len(file[i])
    BY <1>2 DEF Stage, IInv, Shape, CallStates, Numbered
  <2>2. seqOf(i, localSeq[i]) \in Int
    BY <2>1, PWalAssumption, SMTT(30) DEF seqOf, Shards
  <2>3. /\ localSeq' = [localSeq EXCEPT ![i] = @ + 1]
        /\ file' = [file EXCEPT ![i] = Append(file[i], rec)]
    BY <1>2, <2>1 DEF Stage, IInv, Shape
  <2> HIDE DEF i
  <2>4. rec \in Records /\ rec.seq = seqOf(i, localSeq[i]) /\ rec # Torn
    BY <2>1, <2>2, TornAssumption, SMTT(30) DEF Records
  <2> HIDE DEF rec
  <2>5. /\ localSeq'[i] = Len(file[i]) + 1 /\ file'[i] = Append(file[i], rec)
        /\ \A k \in Shards \ {i} : localSeq'[k] = localSeq[k] /\ file'[k] = file[k]
    BY <2>1, <2>3, ZenonT(30) DEF IInv, Shape
  <2>6. /\ Len(file'[i]) = Len(file[i]) + 1 /\ Len(file[i]) \in Nat
        /\ \A j \in 1..Len(file[i]) : file'[i][j] = file[i][j]
        /\ file'[i][Len(file[i]) + 1] = rec
    BY <2>1, <2>4, <2>5
  <2>7. \A j \in 1..Len(file'[i]) : file'[i][j] # Torn /\ file'[i][j].seq = seqOf(i, j - 1)
    <3> SUFFICES ASSUME NEW j \in 1..Len(file'[i])
                 PROVE file'[i][j] # Torn /\ file'[i][j].seq = seqOf(i, j - 1)
      OBVIOUS
    <3>1. CASE j \in 1..Len(file[i])
      BY <2>1, <2>6, <3>1 DEF Numbered
    <3>2. CASE j = Len(file[i]) + 1
      <4>1. j - 1 = localSeq[i]
        BY <2>1, <2>6, <3>2
      <4>2. file'[i][j] = rec
        BY <2>6, <3>2
      <4> QED BY <2>4, <4>1, <4>2, Zenon
    <3> QED BY <2>6, <3>1, <3>2
  <2>8. localSeq'[i] = Len(file'[i])
    BY <2>5, <2>6, Zenon
  <2>9. ASSUME NEW k \in Shards, k # i
        PROVE /\ localSeq'[k] = Len(file'[k])
              /\ \A j \in 1..Len(file'[k]) :
                   file'[k][j] # Torn /\ file'[k][j].seq = seqOf(k, j - 1)
    <3>1. localSeq'[k] = localSeq[k] /\ file'[k] = file[k]
      BY <2>5, <2>9
    <3> QED BY <3>1, Zenon DEF Numbered
  <2> QED BY <2>7, <2>8, <2>9, Zenon DEF Numbered
<1>3. CASE Kill \/ PowerLoss
  BY <1>3, Restart, RestartNumbered, Zenon
<1>4. \/ UNCHANGED <<file, localSeq>>
      \/ \E p \in Callers : Stage(p)
      \/ Kill \/ PowerLoss
  BY DEF Next, vars, Begin, Index, Fsync, FsyncFails, FlushLoop, Ack
<1> QED BY <1>1, <1>2, <1>3, <1>4

\* SeqsUnique in every reachable state, if a power failure leaves whole records only: two
\* records never share a sequence number, across shards and through restarts that
\* lose any unsynced records, because OpenPWALStore resumes each local counter
\* exactly behind the records it found.
THEOREM UniqueSeqs ==
  ASSUME ~TornWrites
  PROVE Spec => []SeqsUnique
<1>1. Init => Numbered
  BY DEF Init, Numbered
<1>2. IInv /\ Numbered => SeqsUnique
  <2> SUFFICES ASSUME IInv, Numbered, NEW i \in Shards, NEW k \in Shards,
                      NEW a \in 1..Len(file[i]), NEW b \in 1..Len(file[k]),
                      file[i][a].seq = file[k][b].seq
               PROVE i = k /\ a = b
    BY DEF SeqsUnique
  <2>1. Len(file[i]) \in Nat /\ Len(file[k]) \in Nat
    BY SMTT(30) DEF IInv, Shape
  <2>2. a - 1 \in Nat /\ b - 1 \in Nat /\ seqOf(i, a - 1) = seqOf(k, b - 1)
    BY <2>1 DEF Numbered
  <2>3. i = k /\ a - 1 = b - 1
    BY <2>2, SeqOfInjective
  <2> QED BY <2>1, <2>3
<1> QED BY <1>1, <1>2, InitInv, NextInv, NextNumbered, PTL DEF Spec
-----------------------------------------------------------------------------
\* The records in the shard files, those of them that are fsynced, and those the
\* running store takes to be durable.
Stored == {r \in Records : \E i \in Shards : \E j \in 1..Len(file[i]) : file[i][j] = r}
Fsynced == {r \in Records : \E i \in Shards : \E j \in 1..synced[i] : file[i][j] = r}
Trusted == {r \in Records : \E i \in Shards : \E j \in 1..Trust[i] : file[i][j] = r}

\* A record that was not in its file when the store was opened.
Past(r) == \A i \in Shards : \A j \in 1..opened[i] : file[i][j] # r

AckedIds == {r.id : r \in acked}

\* A commit under way is nobody else's, is in a file once staged, and has not been
\* reported; it knows of nothing acknowledged that was not.
Began ==
  \A p \in Callers : caller[p].pc # "idle" =>
    /\ caller[p].rec.id <= issued /\ caller[p].rec.afterAck \subseteq AckedIds
    /\ caller[p].pc = "stage" => \A r \in Stored : r.id # caller[p].rec.id
    /\ caller[p].pc = "index" => caller[p].rec \in Stored \ returned
    /\ \A q \in Callers \ {p} : caller[q].pc # "idle" => caller[q].rec.id # caller[p].rec.id

\* What a file holds is one commit each; what was reported is in a file, what was
\* acknowledged is fsynced.
Told ==
  /\ acked \subseteq returned /\ returned \subseteq Stored /\ acked \subseteq Fsynced
  /\ \A r \in Stored : r.id <= issued /\ r.afterAck \subseteq AckedIds
  /\ \A r, q \in Stored : r.id = q.id => r = q

\* What was written but is not acknowledged came after the store was opened: once the
\* watermark covers it, it is really fsynced.
Fresh ==
  /\ \A r \in returned \ acked : Past(r)
  /\ \A p \in Callers : caller[p].pc = "index" => Past(caller[p].rec)

\* Up to an acknowledged number every number is taken, by a record that stays unless
\* a power failure takes what the store had read back.
Filled == ~lost => \A x \in acked : \A q \in 1..x.seq : \E r \in Trusted : r.seq = q

\* So what begins after an acknowledgement gets a larger number.
Later == ~lost => \A a \in Stored, x \in acked : x.id \in a.afterAck => x.seq < a.seq

\* The index of a running store shows what it reported, or something newer.
Indexed ==
  \A a \in returned : \A k \in a.keys :
    index[k] # None /\ (index[k].id \in a.afterAck => lost)

\* With IInv and Numbered, the inductive invariant behind AckedSurvives.
AInv == Began /\ Told /\ Fresh /\ Filled /\ Later /\ Indexed

\* A step that leaves files, callers and answers alone.
LEMMA StillTold ==
  ASSUME AInv,
         UNCHANGED <<issued, caller, file, synced, opened, lost, index, returned, acked>>
  PROVE AInv'
<1>0. Trust' = Trust
  BY Zenon DEF Trust
<1>1. Stored' = Stored /\ Fsynced' = Fsynced /\ Trusted' = Trusted /\ AckedIds' = AckedIds
  BY <1>0 DEF Stored, Fsynced, Trusted, AckedIds
<1>2. Began'
  BY <1>1, Zenon DEF AInv, Began
<1>3. Told' /\ Filled' /\ Later'
  BY <1>1, Zenon DEF AInv, Told, Filled, Later
<1>4. Indexed' /\ Fresh'
  BY Zenon DEF AInv, Indexed, Fresh, Past
<1> QED BY <1>2, <1>3, <1>4 DEF AInv

\* A position in the files is determined by the number of its record.
LEMMA SameNumber ==
  ASSUME IInv, Numbered, NEW i \in Shards, NEW k \in Shards,
         NEW a \in 1..Len(file[i]), NEW b \in 1..Len(file[k]),
         file[i][a].seq = file[k][b].seq
  PROVE i = k /\ a = b
<1>1. Len(file[i]) \in Nat /\ Len(file[k]) \in Nat
  BY SMTT(30) DEF IInv, Shape
<1>2. a - 1 \in Nat /\ b - 1 \in Nat /\ seqOf(i, a - 1) = seqOf(k, b - 1)
  BY <1>1 DEF Numbered
<1>3. i = k /\ a - 1 = b - 1
  BY <1>2, SeqOfInjective
<1> QED BY <1>1, <1>3

\* Numbers are positive, and what is fsynced is in a file.
LEMMA StoredFacts ==
  ASSUME IInv, Numbered
  PROVE /\ Fsynced \subseteq Stored /\ Trusted \subseteq Stored /\ Stored \subseteq Records
        /\ \A r \in Stored : r.seq \in Nat \ {0}
<1>1. Fsynced \subseteq Stored
  <2>1. \A i \in Shards : synced[i] \in Nat /\ Len(file[i]) \in Nat /\ synced[i] <= Len(file[i])
    BY DEF IInv, Shape, Covered
  <2>2. \A i \in Shards : \A j \in 1..synced[i] : j \in 1..Len(file[i])
    BY <2>1
  <2> QED BY <2>2, Zenon DEF Fsynced, Stored
<1>2. \A r \in Stored : r.seq \in Nat \ {0}
  <2> SUFFICES ASSUME NEW i \in Shards, NEW j \in 1..Len(file[i])
               PROVE file[i][j].seq \in Nat \ {0}
    BY Zenon DEF Stored
  <2>1. Len(file[i]) \in Nat
    BY DEF IInv, Shape
  <2>2. file[i][j].seq = seqOf(i, j - 1) /\ j - 1 \in Nat
    BY <2>1 DEF Numbered
  <2>3. NumShards \in Nat /\ i \in Nat
    BY PWalAssumption DEF Shards
  <2>4. (j - 1) * NumShards \in Nat
    BY <2>2, <2>3
  <2> QED BY <2>2, <2>3, <2>4 DEF seqOf
<1>3. Trusted \subseteq Stored
  <2>1. \A i \in Shards : Trust[i] \in Nat /\ Len(file[i]) \in Nat /\ Trust[i] <= Len(file[i])
    BY TrustFacts, Zenon DEF IInv
  <2>2. \A i \in Shards : \A j \in 1..Trust[i] : j \in 1..Len(file[i])
    BY <2>1
  <2> QED BY <2>2, Zenon DEF Trusted, Stored
<1> QED BY <1>1, <1>2, <1>3 DEF Stored

\* CommitAsync begins: a new id, after everything acknowledged.
LEMMA BeginAcked ==
  ASSUME IInv, AInv, NEW p \in Callers, NEW K \in SUBSET Keys, Begin(p, K)
  PROVE AInv'
<1> DEFINE rec == [id |-> issued + 1, seq |-> 0, keys |-> K,
                   after |-> {r.id : r \in returned}, afterAck |-> {r.id : r \in acked}]
           c == [pc |-> "stage", shard |-> nextShard, rec |-> rec]
<1>1. /\ issued' = issued + 1 /\ issued \in Nat
      /\ UNCHANGED <<file, synced, opened, lost, index, returned, acked>>
  BY DEF Begin, IInv, Shape
<1>2. caller' = [caller EXCEPT ![p] = c] /\ caller \in [Callers -> CallStates]
  BY ZenonT(30) DEF Begin, IInv, Shape
<1>3. /\ c.pc = "stage" /\ c.rec.id = issued + 1 /\ c.rec.afterAck = AckedIds
  BY Zenon DEF AckedIds
<1> HIDE DEF c
<1>4. caller'[p] = c /\ \A q \in Callers \ {p} : caller'[q] = caller[q]
  BY <1>2, ZenonT(30)
<1>0. Trust' = Trust
  BY <1>1, Zenon DEF Trust
<1>5. Stored' = Stored /\ Fsynced' = Fsynced /\ Trusted' = Trusted /\ AckedIds' = AckedIds
  BY <1>0, <1>1, ZenonT(30) DEF Stored, Fsynced, Trusted, AckedIds
<1>6. \A q \in Callers : caller[q].pc # "idle" => caller[q].rec.id \in Nat
  BY ZenonT(30) DEF IInv, Shape, Records
<1>7. \A r \in Stored : r.id \in Nat
  BY ZenonT(30) DEF Stored, Records
<1>8. Told'
  BY <1>1, <1>5, <1>7 DEF AInv, Told
<1>9. \A r \in Stored : r.id # issued + 1
  BY <1>1, <1>7 DEF AInv, Told
<1>10. \A q \in Callers : caller[q].pc # "idle" => caller[q].rec.id # issued + 1
  BY <1>1, <1>6 DEF AInv, Began
<1>11. Began'
  <2> SUFFICES ASSUME NEW q \in Callers, caller'[q].pc # "idle"
               PROVE /\ caller'[q].rec.id <= issued' /\ caller'[q].rec.afterAck \subseteq AckedIds
                     /\ caller'[q].pc = "stage" => \A r \in Stored : r.id # caller'[q].rec.id
                     /\ caller'[q].pc = "index" => caller'[q].rec \in Stored \ returned
                     /\ \A s \in Callers \ {q} :
                          caller'[s].pc # "idle" => caller'[s].rec.id # caller'[q].rec.id
    BY <1>1, <1>5, Zenon DEF Began
  <2>1. CASE q = p
    <3>1. caller'[q] = c /\ c.rec.id = issued + 1 /\ c.pc # "index"
      BY <1>3, <1>4, <2>1
    <3>2. caller'[q].rec.id <= issued'
      BY <1>1, <3>1
    <3> QED BY <1>3, <1>4, <1>9, <1>10, <2>1, <3>1, <3>2, Zenon
  <2>2. CASE q # p
    <3>1. caller'[q] = caller[q]
      BY <1>4, <2>2, ZenonT(30)
    <3>2. caller[q].rec.id <= issued + 1
      BY <1>1, <1>6, <3>1 DEF AInv, Began
    <3> QED BY <1>1, <1>3, <1>4, <1>10, <3>1, <3>2 DEF AInv, Began
  <2> QED BY <2>1, <2>2
<1>12. Filled' /\ Later'
  BY <1>1, <1>5, Zenon DEF AInv, Filled, Later
<1>13. Indexed'
  BY <1>1, Zenon DEF AInv, Indexed
<1>14. Fresh'
  <2>1. \A r : Past(r) => Past(r)'
    BY <1>1, Zenon DEF Past
  <2>2. \A q \in Callers : caller'[q].pc = "index" => Past(caller'[q].rec)
    <3>1. c.pc # "index"
      BY <1>3
    <3> QED BY <1>4, <3>1, Zenon DEF AInv, Fresh
  <2> QED BY <1>1, <2>2, Zenon DEF AInv, Fresh, Past
<1> QED BY <1>8, <1>11, <1>12, <1>13, <1>14, ZenonT(30) DEF AInv

\* A record is numbered and written: no acknowledged number is as large.
LEMMA StageAcked ==
  ASSUME IInv, Numbered, AInv, NEW p \in Callers, Stage(p)
  PROVE AInv'
<1> DEFINE i == caller[p].shard
           seq == seqOf(i, localSeq[i])
           old == caller[p].rec
           rec == [old EXCEPT !.seq = seq]
           c == [pc |-> "index", shard |-> i, rec |-> rec]
           n == Len(file[i])
<1>1. /\ i \in Shards /\ old \in Records /\ caller[p].pc = "stage"
      /\ file[i] \in Seq(Records \cup {Torn}) /\ localSeq[i] = n /\ n \in Nat
  BY DEF Stage, IInv, Shape, CallStates, Numbered
<1>2. seq \in Nat \ {0} /\ seq = seqOf(i, n)
  <2>1. NumShards \in Nat /\ i \in Nat
    BY <1>1, PWalAssumption DEF Shards
  <2>2. n * NumShards \in Nat
    BY <1>1, <2>1, SMTT(30)
  <2>3. seq = seqOf(i, n) /\ seqOf(i, n) = n * NumShards + i + 1
    BY <1>1, Zenon DEF seqOf
  <2>4. \A a, b \in Nat : a + b + 1 \in Nat \ {0}
    OBVIOUS
  <2> QED BY <2>1, <2>2, <2>3, <2>4, Zenon
<1>3. /\ file' = [file EXCEPT ![i] = Append(file[i], rec)]
      /\ caller' = [caller EXCEPT ![p] = c]
      /\ UNCHANGED <<issued, synced, opened, lost, index, returned, acked>>
  BY Zenon DEF Stage
<1> HIDE DEF i, seq, old
<1>4. rec \in Records /\ rec.seq = seq /\ rec.id = old.id /\ rec.afterAck = old.afterAck
  BY <1>1, <1>2 DEF Records
<1>5. c.pc = "index" /\ c.rec = rec
  OBVIOUS
<1> HIDE DEF rec, c
<1>6. caller'[p] = c /\ \A q \in Callers \ {p} : caller'[q] = caller[q]
  BY <1>3 DEF IInv, Shape
<1>7. /\ file'[i] = Append(file[i], rec) /\ \A k \in Shards \ {i} : file'[k] = file[k]
      /\ Len(file'[i]) = n + 1 /\ file'[i][n + 1] = rec
      /\ \A j \in 1..n : file'[i][j] = file[i][j]
  <2>1. file'[i] = Append(file[i], rec) /\ \A k \in Shards \ {i} : file'[k] = file[k]
    BY <1>1, <1>3 DEF IInv, Shape
  <2> QED BY <1>1, <1>4, <2>1
<1>8. Stored' = Stored \cup {rec}
  <2>1. \A r \in Records : r \in Stored' => r \in Stored \/ r = rec
    <3> SUFFICES ASSUME NEW r \in Records, NEW k \in Shards, NEW j \in 1..Len(file'[k]),
                        file'[k][j] = r
                 PROVE r \in Stored \/ r = rec
      BY Zenon DEF Stored
    <3>1. r = rec \/ \E l \in 1..Len(file[k]) : file[k][l] = r
      <4>1. CASE k = i
        <5>0. \A m \in Nat : \A l \in 1..(m + 1) : l \in 1..m \/ l = m + 1
          OBVIOUS
        <5>1. j \in 1..n \/ j = n + 1
          BY <1>1, <1>7, <4>1, <5>0, Zenon
        <5> QED BY <1>7, <4>1, <5>1, Zenon
      <4>2. CASE k # i
        BY <1>7, <4>2, ZenonT(30)
      <4> QED BY <4>1, <4>2
    <3> QED BY <3>1, Zenon DEF Stored
  <2>2. rec \in Stored'
    <3>1. n + 1 \in 1..Len(file'[i])
      BY <1>1, <1>7
    <3> QED BY <1>1, <1>4, <1>7, <3>1, Zenon DEF Stored
  <2>3. Stored \subseteq Stored'
    <3> SUFFICES ASSUME NEW k \in Shards, NEW j \in 1..Len(file[k])
                 PROVE j \in 1..Len(file'[k]) /\ file'[k][j] = file[k][j]
      BY Zenon DEF Stored
    <3>1. CASE k = i
      BY <1>1, <1>7, <3>1
    <3>2. CASE k # i
      BY <1>7, <3>2
    <3> QED BY <3>1, <3>2
  <2>4. Stored' \subseteq Records
    BY DEF Stored
  <2> QED BY <2>1, <2>2, <2>3, <2>4
<1>9. Fsynced' = Fsynced /\ Trusted' = Trusted
  <2>0. Trust' = Trust
    BY <1>3, Zenon DEF Trust
  <2>1. ASSUME NEW k \in Shards, NEW j \in 1..Len(file[k])
        PROVE file'[k][j] = file[k][j]
    <3>1. CASE k = i
      BY <1>7, <3>1
    <3>2. CASE k # i
      BY <1>7, <3>2
    <3> QED BY <3>1, <3>2
  <2>2. \A k \in Shards : /\ \A j \in 1..synced[k] : j \in 1..Len(file[k])
                          /\ \A j \in 1..Trust[k] : j \in 1..Len(file[k])
    <3>1. \A k \in Shards : /\ synced[k] \in Nat /\ Trust[k] \in Nat /\ Len(file[k]) \in Nat
                            /\ synced[k] <= Trust[k] /\ Trust[k] <= Len(file[k])
      BY TrustFacts DEF IInv, Shape
    <3> QED BY <3>1
  <2>3. Fsynced' = Fsynced
    BY <1>3, <2>1, <2>2, ZenonT(30) DEF Fsynced
  <2>4. Trusted' = Trusted
    BY <2>0, <2>1, <2>2, ZenonT(30) DEF Trusted
  <2> QED BY <2>3, <2>4
<1>10. AckedIds' = AckedIds
  BY <1>3 DEF AckedIds
<1>11. ~lost => \A x \in acked : x.seq < seq
  <2> SUFFICES ASSUME ~lost, NEW x \in acked, ~(x.seq < seq) PROVE FALSE
    BY Zenon
  <2>1. x.seq \in Nat
    BY StoredFacts, Zenon DEF AInv, Told
  <2>2. seq \in 1..x.seq
    BY <1>2, <2>1
  <2>3. PICK r \in Trusted : r.seq = seq
    BY <2>2, Zenon DEF AInv, Filled
  <2>4. PICK k \in Shards : \E j \in 1..Len(file[k]) : file[k][j] = r
    BY <2>3, StoredFacts, Zenon DEF Stored
  <2> PICK j \in 1..Len(file[k]) : file[k][j] = r
    BY <2>4
  <2>5. j - 1 \in Nat /\ seqOf(k, j - 1) = seqOf(i, n) /\ Len(file[k]) \in Nat
    <3>1. file[k] \in Seq(Records \cup {Torn}) /\ r.seq = seqOf(k, j - 1)
      BY Zenon DEF Numbered, IInv, Shape
    <3>2. Len(file[k]) \in Nat
      BY <3>1
    <3>3. j - 1 \in Nat
      BY <3>2
    <3> QED BY <1>2, <2>3, <3>1, <3>2, <3>3, Zenon
  <2>6. k = i /\ j - 1 = n
    BY <1>1, <2>5, SeqOfInjective
  <2> QED BY <1>1, <2>4, <2>5, <2>6
<1>12. \A r \in Stored : r.id # old.id
  BY <1>1, Zenon DEF AInv, Began, old
<1>13. old.id <= issued /\ old.afterAck \subseteq AckedIds
  BY <1>1, Zenon DEF AInv, Began, old
<1>14. Told'
  <2>1. \A r \in Stored' : r.id <= issued /\ r.afterAck \subseteq AckedIds
    BY <1>4, <1>8, <1>13, Zenon DEF AInv, Told
  <2>2. \A r, q \in Stored' : r.id = q.id => r = q
    BY <1>4, <1>8, <1>12, Zenon DEF AInv, Told
  <2>3. acked \subseteq returned /\ returned \subseteq Stored' /\ acked \subseteq Fsynced
    BY <1>8, Zenon DEF AInv, Told
  <2> QED BY <1>3, <1>9, <1>10, <2>1, <2>2, <2>3, Zenon DEF Told
<1>15. Later'
  <2>1. ~lost => \A a \in Stored', x \in acked : x.id \in a.afterAck => x.seq < a.seq
    BY <1>4, <1>8, <1>11, Zenon DEF AInv, Later
  <2> QED BY <1>3, <2>1, Zenon DEF Later
<1>16. Filled'
  BY <1>3, <1>9, Zenon DEF AInv, Filled
<1>17. Indexed'
  BY <1>3, Zenon DEF AInv, Indexed
<1>18. Began'
  <2> SUFFICES ASSUME NEW q \in Callers, caller'[q].pc # "idle"
               PROVE /\ caller'[q].rec.id <= issued /\ caller'[q].rec.afterAck \subseteq AckedIds
                     /\ caller'[q].pc = "stage" => \A r \in Stored' : r.id # caller'[q].rec.id
                     /\ caller'[q].pc = "index" => caller'[q].rec \in Stored' \ returned
                     /\ \A s \in Callers \ {q} :
                          caller'[s].pc # "idle" => caller'[s].rec.id # caller'[q].rec.id
    BY <1>3, <1>10, Zenon DEF Began
  <2>1. CASE q = p
    <3>1. rec \notin returned
      BY <1>4, <1>12, Zenon DEF AInv, Told
    <3>2. \A s \in Callers \ {p} : caller[s].pc # "idle" => caller[s].rec.id # old.id
      BY <1>1, Zenon DEF AInv, Began, old
    <3> QED BY <1>4, <1>5, <1>6, <1>8, <1>13, <2>1, <3>1, <3>2
  <2>2. CASE q # p
    <3>1. caller'[q] = caller[q]
      BY <1>6, <2>2
    <3>2. caller[q].rec.id # old.id /\ caller[p].pc # "idle" /\ caller[q].pc # "idle"
      BY <1>1, <2>2, <3>1, Zenon DEF AInv, Began, old
    <3>3. /\ caller[q].rec.id <= issued /\ caller[q].rec.afterAck \subseteq AckedIds
          /\ caller[q].pc = "stage" => \A r \in Stored : r.id # caller[q].rec.id
          /\ caller[q].pc = "index" => caller[q].rec \in Stored \ returned
          /\ \A s \in Callers \ {q} : caller[s].pc # "idle" => caller[s].rec.id # caller[q].rec.id
      BY <3>2, Zenon DEF AInv, Began
    <3> QED BY <1>4, <1>5, <1>6, <1>8, <3>1, <3>2, <3>3
  <2> QED BY <2>1, <2>2
<1>19. Fresh'
  <2>1. ASSUME NEW k \in Shards, NEW j \in 1..opened[k]
        PROVE j \in 1..Len(file[k]) /\ file'[k][j] = file[k][j]
    <3>1. opened[k] \in Nat /\ Len(file[k]) \in Nat /\ opened[k] <= Len(file[k])
      BY DEF IInv, Shape, Covered
    <3>2. j \in 1..Len(file[k])
      BY <3>1
    <3>3. CASE k = i
      BY <1>7, <3>2, <3>3
    <3>4. CASE k # i
      <4>1. file'[k] = file[k]
        BY <1>7, <3>4
      <4> QED BY <3>2, <4>1, Zenon
    <3> QED BY <3>2, <3>3, <3>4
  <2>2. opened' = opened
    BY <1>3
  <2>3. \A r : Past(r) => \A k \in Shards : \A j \in 1..opened'[k] : file'[k][j] # r
    BY <2>1, <2>2, Zenon DEF Past
  <2>4. Past(rec)
    <3> SUFFICES ASSUME NEW k \in Shards, NEW j \in 1..opened[k], file[k][j] = rec PROVE FALSE
      BY Zenon DEF Past
    <3>1. rec \in Stored
      BY <1>4, <2>1, Zenon DEF Stored
    <3> QED BY <1>4, <1>12, <3>1, Zenon
  <2>5. \A q \in Callers : caller'[q].pc = "index" => Past(caller'[q].rec)
    BY <1>5, <1>6, <2>4, Zenon DEF AInv, Fresh
  <2>6. \A r \in returned' \ acked' : Past(r)
    BY <1>3, Zenon DEF AInv, Fresh
  <2> QED BY <2>3, <2>5, <2>6, Zenon DEF Fresh, Past
<1> QED BY <1>14, <1>15, <1>16, <1>17, <1>18, <1>19, ZenonT(30) DEF AInv

\* The index points at the record, and CommitAsync returns.
LEMMA IndexAcked ==
  ASSUME IInv, AInv, NEW p \in Callers, Index(p)
  PROVE AInv'
<1> DEFINE rec == caller[p].rec
<1>1. /\ index' = [k \in Keys |-> IF k \in rec.keys THEN rec ELSE index[k]]
      /\ returned' = returned \cup {rec}
      /\ caller' = [caller EXCEPT ![p] = NoCall]
      /\ UNCHANGED <<issued, file, synced, opened, lost, acked>>
      /\ caller[p].pc = "index" /\ rec \in Records
  BY Zenon DEF Index, IInv, Shape
<1>2. NoCall.pc = "idle"
  BY ZenonT(30) DEF NoCall
<1>3. caller'[p].pc = "idle" /\ \A q \in Callers \ {p} : caller'[q] = caller[q]
  BY <1>1, <1>2, ZenonT(30) DEF IInv, Shape
<1>0. Trust' = Trust
  BY <1>1, Zenon DEF Trust
<1>4. Stored' = Stored /\ Fsynced' = Fsynced /\ Trusted' = Trusted /\ AckedIds' = AckedIds
  BY <1>0, <1>1 DEF Stored, Fsynced, Trusted, AckedIds
<1>5. rec \in Stored \ returned
  BY <1>1, Zenon DEF AInv, Began
<1> HIDE DEF rec
<1>6. Told'
  BY <1>1, <1>4, <1>5, Zenon DEF AInv, Told
<1>7. Filled' /\ Later'
  BY <1>1, <1>4, ZenonT(30) DEF AInv, Filled, Later
<1>8. Began'
  <2> SUFFICES ASSUME NEW q \in Callers, caller'[q].pc # "idle"
               PROVE /\ caller'[q].rec.id <= issued /\ caller'[q].rec.afterAck \subseteq AckedIds
                     /\ caller'[q].pc = "stage" => \A r \in Stored : r.id # caller'[q].rec.id
                     /\ caller'[q].pc = "index" => caller'[q].rec \in Stored \ returned'
                     /\ \A s \in Callers \ {q} :
                          caller'[s].pc # "idle" => caller'[s].rec.id # caller'[q].rec.id
    BY <1>1, <1>4, Zenon DEF Began
  <2>1. q # p /\ caller'[q] = caller[q]
    BY <1>3
  <2>2. /\ caller[q].rec.id <= issued /\ caller[q].rec.afterAck \subseteq AckedIds
        /\ caller[q].pc = "stage" => \A r \in Stored : r.id # caller[q].rec.id
        /\ caller[q].pc = "index" => caller[q].rec \in Stored \ returned
        /\ \A s \in Callers \ {q} : caller[s].pc # "idle" => caller[s].rec.id # caller[q].rec.id
    BY <2>1, Zenon DEF AInv, Began
  <2>3. caller[q].rec # rec
    BY <1>1, <2>1, <2>2, Zenon DEF rec
  <2> QED BY <1>1, <1>3, <2>1, <2>2, <2>3
<1>9. \A a \in returned' : rec.id \notin a.afterAck
  <2> SUFFICES ASSUME NEW a \in returned', rec.id \in a.afterAck PROVE FALSE
    OBVIOUS
  <2>1. a \in Stored
    BY <1>1, <1>5, Zenon DEF AInv, Told
  <2>2. PICK x \in acked : x.id = rec.id
    BY <2>1, Zenon DEF AInv, Told, AckedIds
  <2> QED BY <1>5, <2>2, Zenon DEF AInv, Told
<1>10. Indexed'
  <2> SUFFICES ASSUME NEW a \in returned', NEW k \in a.keys
               PROVE index'[k] # None /\ (index'[k].id \in a.afterAck => lost)
    BY <1>1, Zenon DEF Indexed
  <2>1. a \in Records
    BY <1>1, Zenon DEF IInv, Shape
  <2>2. k \in Keys
    BY <2>1 DEF Records
  <2>3. index'[k] = IF k \in rec.keys THEN rec ELSE index[k]
    BY <1>1, <2>2, Zenon
  <2>4. rec # None
    BY <1>1, TornAssumption DEF Records
  <2>5. CASE k \in rec.keys
    BY <1>9, <2>3, <2>4, <2>5, Zenon
  <2>6. CASE k \notin rec.keys
    <3>1. a \in returned
      BY <1>1, <2>6, Zenon
    <3> QED BY <2>3, <2>6, <3>1, Zenon DEF AInv, Indexed
  <2> QED BY <2>5, <2>6
<1>11. Fresh'
  <2>1. Past(rec)
    BY <1>1, Zenon DEF AInv, Fresh, rec
  <2>2. \A r \in returned' \ acked' : Past(r)
    BY <1>1, <2>1, Zenon DEF AInv, Fresh
  <2>3. \A q \in Callers : caller'[q].pc = "index" => Past(caller'[q].rec)
    <3>1. caller'[p].pc # "index"
      BY <1>3
    <3> QED BY <1>3, <3>1, Zenon DEF AInv, Fresh
  <2> QED BY <1>1, <2>2, <2>3, Zenon DEF Fresh, Past
<1> QED BY <1>6, <1>7, <1>8, <1>10, <1>11 DEF AInv

\* The watermark covers a reported commit, so its record is fsynced, and every
\* smaller number is fsynced or was read back.
LEMMA AckAcked ==
  ASSUME IInv, Numbered, AInv, NEW r \in returned, Ack(r)
  PROVE AInv'
<1>1. /\ r \notin acked /\ r.seq <= wm.value /\ acked' = acked \cup {r}
      /\ UNCHANGED <<issued, caller, file, synced, opened, lost, index, returned>>
  BY DEF Ack
<1>0. Trust' = Trust
  BY <1>1, Zenon DEF Trust
<1>2. Stored' = Stored /\ Fsynced' = Fsynced /\ Trusted' = Trusted
  BY <1>0, <1>1 DEF Stored, Fsynced, Trusted
<1>3. r \in Stored /\ r.seq \in Nat \ {0} /\ wm.value \in Nat
  <2>1. r \in Stored
    BY Zenon DEF AInv, Told
  <2>2. wm.value \in Nat
    BY DEF IInv, Shape, Watermarks
  <2> QED BY <2>1, <2>2, StoredFacts, Zenon
<1>4. \A q \in 1..wm.value : \E x \in Trusted : x.seq = q
  <2> SUFFICES ASSUME NEW q \in 1..wm.value PROVE \E x \in Trusted : x.seq = q
    OBVIOUS
  <2>1. PICK i \in Shards : Holds(file[i], Trust[i], q)
    BY Zenon DEF IInv, Marked
  <2>2. PICK j \in 1..Trust[i] : file[i][j] # Torn /\ file[i][j].seq = q
    BY <2>1, Zenon DEF Holds
  <2>3. file[i][j] \in Records
    <3>1. file[i] \in Seq(Records \cup {Torn}) /\ Trust[i] \in Nat /\ Trust[i] <= Len(file[i])
      BY TrustFacts, Zenon DEF IInv, Shape
    <3>2. file[i][j] \in Records \cup {Torn}
      BY <3>1
    <3> QED BY <2>2, <3>2
  <2> QED BY <2>2, <2>3, Zenon DEF Trusted
<1>5. \A q \in 1..r.seq : q \in 1..wm.value
  BY <1>1, <1>3
<1>6. r \in Fsynced
  <2>1. r.seq \in 1..wm.value
    BY <1>1, <1>3
  <2>2. PICK x \in Trusted : x.seq = r.seq
    BY <1>4, <2>1, Zenon
  <2>4. PICK i \in Shards : \E a \in 1..Len(file[i]) : file[i][a] = r
    BY <1>3, Zenon DEF Stored
  <2>5. PICK a \in 1..Len(file[i]) : file[i][a] = r
    BY <2>4
  <2>6. PICK k \in Shards : \E b \in 1..Trust[k] : file[k][b] = x
    BY Zenon DEF Trusted
  <2>7. PICK b \in 1..Trust[k] : file[k][b] = x
    BY <2>6
  <2>8. file[i][a].seq = file[k][b].seq
    BY <2>2, <2>5, <2>7, Zenon
  <2>9. /\ synced[k] \in Nat /\ opened[k] \in Nat /\ Trust[k] \in Nat /\ Len(file[k]) \in Nat
        /\ Trust[k] <= Len(file[k]) /\ (Trust[k] = synced[k] \/ Trust[k] = opened[k])
    BY TrustFacts, Zenon DEF IInv, Shape
  <2>10. b \in 1..Len(file[k])
    <3>1. Trust[k] \in Nat /\ Len(file[k]) \in Nat /\ Trust[k] <= Len(file[k])
      BY <2>9, Zenon
    <3>2. \A m, n \in Nat : m <= n => \A l \in 1..m : l \in 1..n
      OBVIOUS
    <3> QED BY <2>7, <3>1, <3>2, Zenon
  <2>11. i = k /\ a = b
    BY <2>8, <2>10, SameNumber
  <2>12. file[k][b] = r
    BY <2>5, <2>11, Zenon
  <2>13. b \notin 1..opened[k]
    BY <1>1, <2>12, Zenon DEF AInv, Fresh, Past
  <2>14. b \in 1..synced[k]
    BY <2>9, <2>13
  <2>15. r \in Records
    BY <1>3 DEF Stored
  <2> QED BY <2>12, <2>14, <2>15, Zenon DEF Fsynced
<1>7. AckedIds \subseteq AckedIds' /\ \A n \in AckedIds' : n \in AckedIds \/ n = r.id
  BY <1>1, Zenon DEF AckedIds
<1>8. r.id \notin AckedIds
  BY <1>1, <1>3, Zenon DEF AInv, Told, AckedIds
<1>9. Told'
  BY <1>1, <1>2, <1>6, <1>7, Zenon DEF AInv, Told
<1>10. Began'
  BY <1>1, <1>2, <1>7, Zenon DEF AInv, Began
<1>11. Filled'
  BY <1>1, <1>2, <1>4, <1>5, Zenon DEF AInv, Filled
<1>12. Later'
  BY <1>1, <1>2, <1>8, Zenon DEF AInv, Later, Told
<1>13. Indexed' /\ Fresh'
  BY <1>1, Zenon DEF AInv, Indexed, Fresh, Past
<1> QED BY <1>9, <1>10, <1>11, <1>12, <1>13, ZenonT(30) DEF AInv

\* fsync reaches further into the file, never less far.
LEMMA FsyncAcked ==
  ASSUME IInv, AInv, NEW i \in Shards, Fsync(i)
  PROVE AInv'
<1>1. /\ synced' = [synced EXCEPT ![i] = Len(file[i])]
      /\ UNCHANGED <<issued, caller, file, opened, lost, index, returned, acked>>
  BY DEF Fsync
<1>2. Stored' = Stored /\ AckedIds' = AckedIds
  BY <1>1 DEF Stored, AckedIds
<1>3. Fsynced \subseteq Fsynced'
  <2>1. \A k \in Shards : /\ synced[k] \in Nat /\ synced'[k] \in Nat /\ synced[k] <= synced'[k]
    BY <1>1 DEF IInv, Shape, Covered
  <2>2. \A k \in Shards : \A j \in 1..synced[k] : j \in 1..synced'[k]
    BY <2>1
  <2> QED BY <1>1, <2>2, Zenon DEF Fsynced
<1>7. Trusted \subseteq Trusted'
  <2>1. \A k \in Shards : /\ synced[k] \in Nat /\ synced'[k] \in Nat /\ synced[k] <= synced'[k]
                          /\ opened[k] \in Nat /\ opened'[k] = opened[k]
    BY <1>1 DEF IInv, Shape, Covered
  <2>2. \A k \in Shards : /\ Trust[k] = IF synced[k] < opened[k] THEN opened[k] ELSE synced[k]
                          /\ Trust'[k] = IF synced'[k] < opened'[k] THEN opened'[k] ELSE synced'[k]
    BY Zenon DEF Trust
  <2>3. \A k \in Shards : \A j \in 1..Trust[k] : j \in 1..Trust'[k]
    BY <2>1, <2>2
  <2> QED BY <1>1, <2>3, Zenon DEF Trusted
<1>4. Told' /\ Filled' /\ Later'
  BY <1>1, <1>2, <1>3, <1>7, Zenon DEF AInv, Told, Filled, Later
<1>5. Began'
  BY <1>1, <1>2, Zenon DEF AInv, Began
<1>6. Indexed' /\ Fresh'
  BY <1>1, Zenon DEF AInv, Indexed, Fresh, Past
<1> QED BY <1>4, <1>5, <1>6 DEF AInv

\* Without torn records, a restart keeps what is fsynced and invents nothing, it
\* keeps what was read back unless power failed, and it replays all it finds.
LEMMA RestartFiles ==
  ASSUME IInv, Numbered, NEW fs \in [Shards -> Seq(Records \cup {Torn})], Open(fs), Cut(fs),
         synced' \in [Shards -> Nat], \A i \in Shards : Trust'[i] = Len(file'[i])
  PROVE /\ Fsynced \subseteq Fsynced' /\ Fsynced \subseteq Stored' /\ Stored' \subseteq Stored
        /\ Trusted' = Stored' /\ (lost' \/ Trusted \subseteq Stored')
        /\ replayed(file') = Stored' /\ index' = replayIndex(file')
        /\ IsFiniteSet(Stored')
<1>1. file' = fs
  BY Zenon DEF Open
<1>2. index' = replayIndex(file')
  BY <1>1, Zenon DEF Open
<1>3. ASSUME NEW i \in Shards
      PROVE /\ synced[i] \in Nat /\ synced'[i] \in Nat /\ Trust[i] \in Nat
            /\ Len(file'[i]) \in Nat /\ Len(file[i]) \in Nat
            /\ synced[i] <= synced'[i] /\ synced[i] <= Len(file'[i])
            /\ Len(file'[i]) <= Len(file[i])
            /\ lost' \/ Trust[i] <= Len(file'[i])
            /\ file'[i] \in Seq(Records \cup {Torn})
            /\ \A j \in 1..Len(file'[i]) : file'[i][j] = file[i][j] /\ file[i][j] \in Records
  <2>1. /\ file[i] \in Seq(Records \cup {Torn}) /\ synced[i] \in Nat /\ opened[i] \in Nat
        /\ Trust[i] \in Nat /\ (Trust[i] = synced[i] \/ Trust[i] = opened[i])
    BY TrustFacts, Zenon DEF IInv, Shape
  <2>2. file'[i] \in Seq(Records \cup {Torn}) /\ synced'[i] \in Nat
    BY <1>1, Zenon
  <2>3. /\ synced[i] <= synced'[i] /\ synced[i] <= Len(file'[i])
        /\ Len(file'[i]) <= Len(file[i])
        /\ lost' \/ opened[i] <= Len(file'[i])
        /\ \A j \in 1..Len(file'[i]) : file'[i][j] = file[i][j]
    BY <1>1, Zenon DEF Cut
  <2>4. Len(file'[i]) \in Nat /\ Len(file[i]) \in Nat
    BY <2>1, <2>2
  <2>5. lost' \/ Trust[i] <= Len(file'[i])
    BY <2>1, <2>3, Zenon
  <2>6. \A j \in 1..Len(file'[i]) : file[i][j] \in Records
    <3>1. \A j \in 1..Len(file'[i]) : j \in 1..Len(file[i])
      BY <2>3, <2>4
    <3>2. \A j \in 1..Len(file[i]) : file[i][j] # Torn
      BY Zenon DEF Numbered
    <3>3. \A j \in 1..Len(file[i]) : file[i][j] \in Records \cup {Torn}
      BY <2>1
    <3> QED BY <3>1, <3>2, <3>3, Zenon
  <2> QED BY <2>1, <2>2, <2>3, <2>4, <2>5, <2>6, Zenon
<1>4. Fsynced \subseteq Stored' /\ Fsynced \subseteq Fsynced'
  <2>1. \A i \in Shards : \A j \in 1..synced[i] :
          j \in 1..Len(file'[i]) /\ j \in 1..synced'[i]
    BY <1>3
  <2>2. \A i \in Shards : \A j \in 1..synced[i] : file'[i][j] = file[i][j]
    BY <1>3, <2>1, Zenon
  <2> QED BY <2>1, <2>2, Zenon DEF Fsynced, Stored
<1>5. Stored' \subseteq Stored
  <2>1. \A i \in Shards : \A j \in 1..Len(file'[i]) : j \in 1..Len(file[i]) /\ file'[i][j] = file[i][j]
    BY <1>3
  <2> QED BY <2>1, Zenon DEF Stored
<1>6. Trusted' = Stored'
  BY Zenon DEF Stored, Trusted
<1>8. ASSUME ~lost' PROVE Trusted \subseteq Stored'
  <2>1. \A i \in Shards : \A j \in 1..Trust[i] : j \in 1..Len(file'[i])
    BY <1>3, <1>8
  <2>2. \A i \in Shards : \A j \in 1..Trust[i] : file'[i][j] = file[i][j]
    BY <1>3, <2>1, Zenon
  <2> QED BY <2>1, <2>2, Zenon DEF Trusted, Stored
<1>7. replayed(file') = Stored'
  <2>1. ASSUME NEW i \in Shards
        PROVE /\ Len(decode(file'[i])) = Len(file'[i])
              /\ \A j \in 1..Len(file'[i]) : decode(file'[i])[j] = file'[i][j]
    <3>1. file'[i] \in Seq(Records \cup {Torn}) /\ \A j \in 1..Len(file'[i]) : file'[i][j] # Torn
      <4>1. \A r \in Records : r # Torn
        BY TornAssumption DEF Records
      <4> QED BY <1>3, <4>1, Zenon
    <3> QED BY <3>1, DecodePrefix, Zenon
  <2>2. \A i \in Shards : \A j \in 1..Len(file'[i]) : file'[i][j] \in Records
    BY <1>3, Zenon
  <2>3. ASSUME NEW r \in replayed(file') PROVE r \in Stored'
    <3>1. PICK i \in Shards : \E j \in 1..Len(decode(file'[i])) : decode(file'[i])[j] = r
      BY Zenon DEF replayed
    <3>2. \E j \in 1..Len(file'[i]) : file'[i][j] = r
      BY <2>1, <3>1, Zenon
    <3>3. r \in Records
      BY <2>2, <3>2, Zenon
    <3> QED BY <3>2, <3>3, Zenon DEF Stored
  <2>4. ASSUME NEW r \in Stored' PROVE r \in replayed(file')
    <3>1. PICK i \in Shards : \E j \in 1..Len(file'[i]) : file'[i][j] = r
      BY Zenon DEF Stored
    <3>2. \E j \in 1..Len(decode(file'[i])) : decode(file'[i])[j] = r
      BY <2>1, <3>1, Zenon
    <3>3. r \in {decode(file'[i])[j] : j \in 1..Len(decode(file'[i]))}
      BY <3>2, Zenon
    <3> QED BY <3>3 DEF replayed
  <2> QED BY <2>3, <2>4, Zenon
<1>9. IsFiniteSet(Stored')
  <2>1. \A i \in Shards : Len(decode(file'[i])) \in Nat
    <3>1. \A i \in Shards : Len(file'[i]) \in Nat /\ Len(decode(file'[i])) \in 0..Len(file'[i])
      BY <1>3, DecodePrefix, Zenon
    <3> QED BY <3>1
  <2> QED BY <1>7, <2>1, ReplayedFinite, Zenon
<1> QED BY <1>2, <1>4, <1>5, <1>6, <1>7, <1>8, <1>9, Zenon

\* A nonempty finite set of numbered records has one with the largest number.
LEMMA LargestNumber ==
  ASSUME NEW S, S # {}, IsFiniteSet(S), \A r \in S : r.seq \in Nat
  PROVE \E r \in S : \A q \in S : q.seq <= r.seq
<1> DEFINE HasMax(T) == \E r \in T : \A q \in T : q.seq <= r.seq
           Bad == {T \in SUBSET S : T # {} /\ ~HasMax(T)}
           C == {Cardinality(T) : T \in Bad}
<1> SUFFICES ASSUME ~HasMax(S) PROVE FALSE
  OBVIOUS
<1>1. \A T \in SUBSET S : IsFiniteSet(T) /\ Cardinality(T) \in Nat
  BY FS_Subset, FS_CardinalityType, Zenon
<1>2. C \subseteq Nat /\ C # {}
  <2>1. S \in Bad
    OBVIOUS
  <2> QED BY <1>1, <2>1, Zenon
<1>3. PICK n \in C : \A m \in C : n <= m
  <2> HIDE DEF C
  <2> QED BY <1>2, Smallest, Zenon
<1>4. PICK T \in Bad : n = Cardinality(T)
  BY Zenon
<1>5. PICK x \in T : TRUE
  OBVIOUS
<1>6. /\ T \ {x} \in SUBSET S /\ Cardinality(T \ {x}) = n - 1
      /\ n \in Nat /\ x.seq \in Nat
  BY <1>1, <1>4, <1>5, FS_RemoveElement
<1>7. T \ {x} \notin Bad
  <2>1. ~(n <= n - 1)
    BY <1>6
  <2> QED BY <1>3, <1>6, <2>1, Zenon
<1>8. CASE T \ {x} = {}
  <2>1. \A q \in T : q = x
    BY <1>8
  <2>2. x.seq <= x.seq
    BY <1>6
  <2> QED BY <1>5, <2>1, <2>2, Zenon
<1>9. CASE HasMax(T \ {x})
  <2>1. PICK r \in T \ {x} : \A q \in T \ {x} : q.seq <= r.seq
    BY <1>9, Zenon
  <2>2. \A q \in T : q.seq \in Nat
    BY Zenon
  <2>3. CASE x.seq <= r.seq
    BY <2>1, <2>3, Zenon
  <2>4. CASE ~(x.seq <= r.seq)
    <3>1. \A a, b, c \in Nat : ~(a <= b) /\ c <= b => c <= a
      OBVIOUS
    <3>2. \A q \in T \ {x} : q.seq <= x.seq
      BY <1>6, <2>1, <2>2, <2>4, <3>1, Zenon
    <3>3. x.seq <= x.seq
      BY <1>6
    <3>4. \A q \in T : q.seq <= x.seq
      BY <3>2, <3>3, Zenon
    <3> QED BY <1>5, <3>4, Zenon
  <2> QED BY <2>3, <2>4
<1> QED BY <1>6, <1>7, <1>8, <1>9, Zenon

\* After a restart the index shows the largest number, so nothing acknowledged is
\* hidden behind what it followed, unless power took what the store had read back.
LEMMA RestartAcked ==
  ASSUME IInv, Numbered, AInv, NEW fs \in [Shards -> Seq(Records \cup {Torn})], Open(fs),
         Cut(fs), synced' \in [Shards -> Nat], \A i \in Shards : synced'[i] <= Len(fs[i])
  PROVE AInv'
<1>1. /\ caller' = [p \in Callers |-> NoCall] /\ returned' = acked
      /\ UNCHANGED <<issued, acked>>
  BY DEF Open
<1>0. \A i \in Shards : Trust'[i] = Len(file'[i])
  <2>1. file' = fs /\ opened' = [i \in Shards |-> Len(fs[i])]
    BY Zenon DEF Open
  <2>2. \A i \in Shards : /\ Len(file'[i]) \in Nat /\ opened'[i] = Len(file'[i])
                          /\ synced'[i] \in Nat /\ synced'[i] <= Len(file'[i])
    BY <2>1
  <2>3. \A i \in Shards : Trust'[i] = IF synced'[i] < opened'[i] THEN opened'[i] ELSE synced'[i]
    BY Zenon DEF Trust
  <2> QED BY <2>2, <2>3
<1>2. /\ Fsynced \subseteq Fsynced' /\ Fsynced \subseteq Stored' /\ Stored' \subseteq Stored
      /\ Trusted' = Stored' /\ (lost' \/ Trusted \subseteq Stored')
      /\ replayed(file') = Stored' /\ index' = replayIndex(file')
      /\ IsFiniteSet(Stored')
  BY <1>0, RestartFiles, Zenon
<1>9. lost => lost'
  BY DEF Cut
<1>3. AckedIds' = AckedIds
  BY <1>1, ZenonT(30) DEF AckedIds
<1>4. Began'
  <2>1. NoCall.pc = "idle"
    BY DEF NoCall
  <2> QED BY <1>1, <2>1 DEF Began
<1>10. Fresh'
  <2>1. NoCall.pc # "index"
    BY DEF NoCall
  <2> QED BY <1>1, <2>1, Zenon DEF Fresh
<1>5. Told'
  BY <1>1, <1>2, <1>3, Zenon DEF AInv, Told
<1>6. Filled' /\ Later'
  BY <1>1, <1>2, <1>9, Zenon DEF AInv, Filled, Later
<1>7. Stored' \subseteq Records /\ \A r \in Stored' : r.seq \in Nat
  <2>1. \A r \in Stored : r.seq \in Nat
    BY StoredFacts
  <2> QED BY <1>2, <2>1, Zenon DEF Stored
<1>8. Indexed'
  <2> SUFFICES ASSUME NEW a \in acked, NEW k \in a.keys
               PROVE index'[k] # None /\ (index'[k].id \in a.afterAck => lost')
    BY <1>1, Zenon DEF Indexed
  <2> DEFINE mine == {r \in Stored' : k \in r.keys}
             best == CHOOSE r \in mine : \A q \in mine : q.seq <= r.seq
  <2>1. a \in Stored' /\ a \in mine
    BY <1>2, Zenon DEF AInv, Told
  <2>2. k \in Keys
    BY <1>7, <2>1 DEF Records
  <2>3. index'[k] = best
    <3>1. mine # {}
      BY <2>1
    <3> QED BY <1>2, <2>2, <3>1, Zenon DEF replayIndex
  <2>4. best \in mine /\ \A q \in mine : q.seq <= best.seq
    <3>1. mine # {} /\ \A r \in mine : r.seq \in Nat
      BY <1>7, <2>1, Zenon
    <3>2. IsFiniteSet(mine)
      BY <1>2, FS_Subset, Zenon
    <3> HIDE DEF mine
    <3>3. \E r \in mine : \A q \in mine : q.seq <= r.seq
      BY <3>1, <3>2, LargestNumber, Zenon
    <3> QED BY <3>3, Zenon
  <2>5. best \in Stored' /\ best \in Records /\ a.seq <= best.seq
    BY <1>7, <2>1, <2>4
  <2> HIDE DEF best, mine
  <2>6. best # None
    BY <2>5, TornAssumption DEF Records
  <2>7. ASSUME best.id \in a.afterAck, ~lost' PROVE FALSE
    <3>1. a \in Stored /\ best \in Stored
      BY <1>2, <2>1, <2>5
    <3>2. PICK x \in acked : x.id = best.id
      BY <2>7, <3>1, ZenonT(30) DEF AInv, Told, AckedIds
    <3>3. x = best
      BY <3>1, <3>2, Zenon DEF AInv, Told
    <3>4. best.seq < a.seq
      BY <1>9, <2>7, <3>1, <3>2, <3>3, Zenon DEF AInv, Later
    <3>5. best.seq \in Nat /\ a.seq \in Nat
      BY <1>7, <2>1, <2>5, ZenonT(30)
    <3> QED BY <2>5, <3>4, <3>5
  <2> QED BY <2>3, <2>6, <2>7, Zenon
<1> QED BY <1>4, <1>5, <1>6, <1>8, <1>10, ZenonT(30) DEF AInv

\* Nothing is stored or acknowledged in the beginning.
LEMMA InitAcked == Init => AInv
<1> SUFFICES ASSUME Init PROVE AInv
  OBVIOUS
<1>1. returned = {} /\ acked = {} /\ caller = [p \in Callers |-> NoCall] /\ NoCall.pc = "idle"
  BY DEF Init, NoCall
<1>2. Stored = {}
  BY DEF Init, Stored
<1> QED BY <1>1, <1>2 DEF AInv, Began, Told, Fresh, Filled, Later, Indexed, Fsynced

\* Every step keeps it.
LEMMA NextAcked == ~TornWrites /\ IInv /\ Numbered /\ AInv /\ [Next]_vars => AInv'
<1> SUFFICES ASSUME ~TornWrites, IInv, Numbered, AInv, [Next]_vars PROVE AInv'
  OBVIOUS
<1>1. CASE UNCHANGED vars
  <2>1. UNCHANGED <<issued, caller, file, synced, opened, lost, index, returned, acked>>
    BY <1>1 DEF vars
  <2> QED BY <2>1, StillTold, Zenon
<1>2. CASE \E p \in Callers, K \in SUBSET Keys \ {{}} : Begin(p, K)
  BY <1>2, BeginAcked, Zenon
<1>3. CASE \E p \in Callers : Stage(p) \/ Index(p)
  BY <1>3, StageAcked, IndexAcked, Zenon
<1>4. ASSUME NEW i \in Shards, Fsync(i) \/ FsyncFails(i) \/ FlushLoop(i) PROVE AInv'
  <2>1. CASE Fsync(i)
    BY <2>1, FsyncAcked, Zenon
  <2>2. CASE FsyncFails(i) \/ FlushLoop(i)
    <3>1. UNCHANGED <<issued, caller, file, synced, opened, lost, index, returned, acked>>
      BY <2>2 DEF FsyncFails, FlushLoop
    <3> QED BY <3>1, StillTold, Zenon
  <2> QED BY <1>4, <2>1, <2>2
<1>5. CASE \E r \in returned : Ack(r)
  BY <1>5, AckAcked, Zenon
<1>6. CASE Kill \/ PowerLoss
  BY <1>6, Restart, RestartAcked, Zenon
<1> QED BY <1>1, <1>2, <1>3, <1>4, <1>5, <1>6 DEF Next

\* AckedSurvives in every reachable state, if a power failure leaves whole records
\* only: what Commit or the notifier reported durable is fsynced, so any number of
\* kills, power failures and reopenings leave it in its file and its keys in the
\* index; and a key never shows a commit that was acknowledged before the one
\* reported began, although replay orders by sequence number and the shards number
\* independently, as long as no power failure took what an earlier open had read
\* back and marked durable without an fsync.
THEOREM AcknowledgedSurvives ==
  ASSUME ~TornWrites
  PROVE Spec => []AckedSurvives
<1>1. Init => Numbered
  BY DEF Init, Numbered
<1>2. AInv => AckedSurvives
  <2> SUFFICES ASSUME AInv, NEW a \in acked
               PROVE /\ \E i \in Shards : \E j \in 1..synced[i] : file[i][j] = a
                     /\ \A k \in a.keys : index[k] # None /\ (index[k].id \in a.afterAck => lost)
    BY Zenon DEF AckedSurvives
  <2>1. a \in Fsynced /\ a \in returned
    BY Zenon DEF AInv, Told
  <2> QED BY <2>1, Zenon DEF AInv, Indexed, Fsynced
<1> QED BY <1>1, <1>2, InitInv, NextInv, NextNumbered, InitAcked, NextAcked, PTL DEF Spec
=============================================================================
