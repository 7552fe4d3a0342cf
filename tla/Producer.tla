------------------------------ MODULE Producer ------------------------------
(***************************************************************************)
(* Idempotent-producer validation: internal/ds/producer.go.                *)
(*                                                                         *)
(* Epochs and sequence numbers are uint64 in the code.  Here they range    *)
(* over 0..MaxU, and the one addition the code performs wraps as uint64    *)
(* addition does.                                                          *)
(***************************************************************************)
EXTENDS Integers

CONSTANT MaxU      \* the largest value of the integer type (2^64 - 1 in Go)

ASSUME MaxUAssumption == MaxU \in Nat

U == 0..MaxU

\* x + 1 in the width of the type.
Succ(x) == (x + 1) % (MaxU + 1)

\* producerState together with the "exists" flag that travels beside it.
ProducerStates == [exists : BOOLEAN, epoch : U, lastSeq : U]

\* The zero producerState{} that loadProducer returns with ok = false.
Absent == [exists |-> FALSE, epoch |-> 0, lastSeq |-> 0]

State(e, s) == [exists |-> TRUE, epoch |-> e, lastSeq |-> s]

validateProducer_unfenced(st, h) ==
  IF ~st.exists \/ h.epoch # st.epoch
    THEN IF h.seq # 0 THEN "gap" ELSE "accept"
  ELSE IF h.seq <= st.lastSeq THEN "duplicate"
  ELSE IF h.seq = Succ(st.lastSeq) THEN "accept" ELSE "gap"
\* validateProducer's verdict on headers h against state st.
validateProducer(st, h) ==
  IF ~st.exists
    THEN IF h.seq # 0 THEN "gap" ELSE "accept"
  ELSE IF h.epoch < st.epoch
    THEN "staleEpoch"
  ELSE IF h.epoch > st.epoch
    THEN IF h.seq # 0 THEN "badSeqStart" ELSE "accept"
  ELSE IF h.seq <= st.lastSeq
    THEN "duplicate"
  ELSE IF h.seq = Succ(st.lastSeq) THEN "accept" ELSE "gap"

\* producerAction.newState of an accepted append: every accepting branch
\* records exactly the presented epoch and seq (seq is 0 on a new session).
newState(h) == State(h.epoch, h.seq)
=============================================================================
