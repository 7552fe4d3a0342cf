----------------------------- MODULE MCStreamer -----------------------------
(* The appends submitted in the instances of Streamer that TLC explores.    *)
EXTENDS StreamerRefinement

P(e, s) == [id |-> "p", epoch |-> e, seq |-> s]
Req(n, close, prod, sseq, ctOk) ==
  [n |-> n, close |-> close, prod |-> prod, sseq |-> sseq, ctOk |-> ctOk]

\* Producer p's session with its next epoch, and a close.
ProducerRequests ==
  {Req(1, FALSE, P(0, 0), None, TRUE), Req(1, FALSE, P(0, 1), None, TRUE),
   Req(2, FALSE, P(1, 0), None, TRUE), Req(0, TRUE, None, None, TRUE)}

\* A plain multi-record append, Stream-Seq writers, a closing append, a wrong
\* content type.
PlainRequests ==
  {Req(2, FALSE, None, None, TRUE), Req(1, FALSE, None, 1, TRUE), Req(2, FALSE, None, 2, TRUE),
   Req(1, TRUE, P(0, 0), 3, TRUE), Req(1, FALSE, None, None, FALSE)}
=============================================================================
