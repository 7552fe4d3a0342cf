----------------------------- MODULE MCLiveRead -----------------------------
(* Instances of LiveRead for TLC: which surface each reader uses.           *)
EXTENDS LiveRead, TLC

CONSTANTS a, b
PollAndSSE == (a :> "poll") @@ (b :> "sse")
OneCursor == (a :> "cursor")
=============================================================================
