--------------------------- MODULE ProducerSession ---------------------------
(***************************************************************************)
(* One producer id presenting headers to a stream in any order: first      *)
(* sends, retries, late retries of an older epoch, gaps, restarts under a  *)
(* new epoch.  Each header is validated against the state the previous     *)
(* accepted one left (planAppend, streamer.go:531-549).                    *)
(***************************************************************************)
EXTENDS Producer

VARIABLES
  st,        \* the stored producerState
  accepted   \* history: the set of <<epoch, seq>> accepted so far

session == <<st, accepted>>

Headers == [epoch : U, seq : U]

SessionTypeOK ==
  /\ st \in ProducerStates
  /\ accepted \subseteq U \X U

SessionInit ==
  /\ st = Absent
  /\ accepted = {}

\* An accepted header updates the state; every other verdict leaves it alone.
Present(h) ==
  /\ validateProducer(st, h) = "accept"
  /\ st' = newState(h)
  /\ accepted' = accepted \cup {<<h.epoch, h.seq>>}

Refuse(h) ==
  /\ validateProducer(st, h) # "accept"
  /\ UNCHANGED session

SessionNext == \E h \in Headers : Present(h) \/ Refuse(h)

SessionSpec == SessionInit /\ [][SessionNext]_session

-----------------------------------------------------------------------------
\* Exactly once: whatever was accepted before, in whatever epoch, is never
\* accepted again (producer.go:46-60).
AcceptedOnce ==
  \A h \in Headers :
    <<h.epoch, h.seq>> \in accepted => validateProducer(st, h) # "accept"

\* The idempotent 204 is honest: validateProducer answers "duplicate" exactly
\* for what was accepted in the current epoch, so a retry is never told its
\* data is stored when it is not (producer.go:54-56).
DuplicateIffAccepted ==
  \A h \in Headers :
    validateProducer(st, h) = "duplicate"
      <=> st.exists /\ h.epoch = st.epoch /\ <<h.epoch, h.seq>> \in accepted

\* No hole is ever accepted within an epoch: the accepted seqs of an epoch are
\* an initial segment (the gap verdict of producer.go:38-42 and 59-60).
AcceptedDense ==
  \A e, s, t \in U : (<<e, s>> \in accepted /\ t < s) => <<e, t>> \in accepted

\* Epoch fencing: once an epoch is accepted, no smaller epoch ever is again
\* (the staleEpoch verdict of producer.go:46-48).
EpochFenced ==
  [][\A e, s \in U :
       <<e, s>> \in accepted' \ accepted
         => \A f, t \in U : <<f, t>> \in accepted => f <= e]_session
=============================================================================
