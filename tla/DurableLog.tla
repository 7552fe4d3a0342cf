----------------------------- MODULE DurableLog -----------------------------
(***************************************************************************)
(* What a stream promises its clients, without bursts, queues, commit      *)
(* pipelines or respawns: an append-only log that can be closed once, of   *)
(* which a prefix is durable.  A crash may drop only what is not durable,  *)
(* and an offset is acknowledged only inside the durable prefix.           *)
(***************************************************************************)
EXTENDS Integers, Sequences

VARIABLES
  log,          \* the written records, in offset order
  closed,       \* the log was closed
  durableLen,   \* length of the durable prefix
  durableClosed,\* the closure is durable
  acks          \* acknowledged offsets

dlvars == <<log, closed, durableLen, durableClosed, acks>>

Init ==
  /\ log = << >>
  /\ closed = FALSE
  /\ durableLen = 0
  /\ durableClosed = FALSE
  /\ acks = {}

\* Append any number of records, closing the log or not; nothing follows a close.
Write ==
  /\ ~closed
  /\ Len(log) <= Len(log')
  /\ SubSeq(log', 1, Len(log)) = log
  /\ closed' \in BOOLEAN
  /\ UNCHANGED <<durableLen, durableClosed, acks>>

\* A longer prefix becomes durable; the closure only with the whole log.
Flush ==
  /\ durableLen' \in durableLen..Len(log)
  /\ durableClosed' \in BOOLEAN
  /\ durableClosed => durableClosed'
  /\ durableClosed' => closed /\ durableLen' = Len(log)
  /\ UNCHANGED <<log, closed, acks>>

\* Acknowledge offsets of the durable prefix.
Ack ==
  /\ acks \subseteq acks'
  /\ \A n \in acks' \ acks : n \in 0..durableLen
  /\ UNCHANGED <<log, closed, durableLen, durableClosed>>

\* A crash keeps at least the durable prefix, and what survives is durable.
Lose ==
  /\ Len(log') \in durableLen..Len(log)
  /\ log' = SubSeq(log, 1, Len(log'))
  /\ durableLen' = Len(log')
  /\ closed' \in BOOLEAN
  /\ durableClosed => closed'
  /\ closed' => closed /\ log' = log
  /\ durableClosed' = closed'
  /\ UNCHANGED acks

Next == Write \/ Flush \/ Ack \/ Lose

Spec == Init /\ [][Next]_dlvars
=============================================================================
