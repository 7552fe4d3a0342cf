---------------------------- MODULE Materializer ----------------------------
(***************************************************************************)
(* The State Protocol materializer (internal/state): validation of a       *)
(* message, the fold of messages into entity state, and what that fold is  *)
(* meant to compute.                                                       *)
(***************************************************************************)
EXTENDS Integers, SequencesExt

CONSTANT None     \* an absent field of a message, an absent entity

Operations == {"insert", "update", "delete"}
Controls == {"snapshot-start", "snapshot-end", "reset"}

\* Message.Validate: control and change messages are told apart by the header
\* that is set.
Validate(m) ==
  /\ m.operation = None \/ m.control = None
  /\ IF m.control # None
       THEN m.control \in Controls
       ELSE /\ m.type # None
            /\ m.key # None
            /\ m.operation \in Operations
            /\ m.operation = "delete" \/ m.value # None

NewMaterializer == [types |-> << >>, inSnapshot |-> FALSE]

Without(coll, k) == [x \in DOMAIN coll \ {k} |-> coll[x]]
CollOf(s, t) == IF t \in DOMAIN s.types THEN s.types[t] ELSE << >>

Apply_keepsSnapshot(s, m) ==
  IF ~Validate(m) THEN s
  ELSE IF m.control = "reset" THEN [s EXCEPT !.types = << >>]
  ELSE IF m.control # None THEN [s EXCEPT !.inSnapshot = (m.control = "snapshot-start")]
  ELSE [s EXCEPT !.types =
          m.type :> (IF m.operation = "delete"
                       THEN Without(CollOf(s, m.type), m.key)
                       ELSE m.key :> m.value @@ CollOf(s, m.type)) @@ s.types]
\* Materializer.Apply.  An invalid message changes nothing; a delete leaves its
\* collection behind, if only an empty one.
Apply(s, m) ==
  IF ~Validate(m) THEN s
  ELSE IF m.control = "reset" THEN NewMaterializer
  ELSE IF m.control # None THEN [s EXCEPT !.inSnapshot = (m.control = "snapshot-start")]
  ELSE [s EXCEPT !.types =
          m.type :> (IF m.operation = "delete"
                       THEN Without(CollOf(s, m.type), m.key)
                       ELSE m.key :> m.value @@ CollOf(s, m.type)) @@ s.types]

\* Materializer.ApplyAll: errors are collected, never a reason to stop.
ApplyAll(s, msgs) == FoldLeft(Apply, s, msgs)

-----------------------------------------------------------------------------
(* What a history means, said without replaying it. *)

LastOf(S) == CHOOSE i \in S : \A j \in S : j <= i
LastReset(h) ==
  LastOf({0} \cup {i \in 1..Len(h) : Validate(h[i]) /\ h[i].control = "reset"})

\* The valid changes after the last reset, and those of one entity.
Changes(h) ==
  {i \in (LastReset(h) + 1)..Len(h) : Validate(h[i]) /\ h[i].control = None}
ChangesOf(h, t, k) == {i \in Changes(h) : h[i].type = t /\ h[i].key = k}

\* An entity is what its last change left.
Entity(h, t, k) ==
  LET c == ChangesOf(h, t, k)
  IN IF c = {} \/ h[LastOf(c)].operation = "delete" THEN None ELSE h[LastOf(c)].value

\* inSnapshot: the last snapshot control since the last reset is a start.
SnapshotControls(h) ==
  {i \in (LastReset(h) + 1)..Len(h) : Validate(h[i]) /\ h[i].control # None}
InSnapshot(h) ==
  SnapshotControls(h) # {} /\ h[LastOf(SnapshotControls(h))].control = "snapshot-start"

Means(s, h) ==
  /\ DOMAIN s.types = {h[i].type : i \in Changes(h)}
  /\ \A t \in DOMAIN s.types :
       \A k \in DOMAIN s.types[t] \cup {h[i].key : i \in Changes(h)} :
         (IF k \in DOMAIN s.types[t] THEN s.types[t][k] ELSE None) = Entity(h, t, k)
  /\ s.inSnapshot = InSnapshot(h)
=============================================================================
