------------------------- MODULE StreamerRefinement -------------------------
(***************************************************************************)
(* The streamer implements the durable log: the log is what the store's    *)
(* newest state holds below its tail, the durable prefix what its durable  *)
(* state holds.                                                            *)
(***************************************************************************)
EXTENDS Streamer

\* The offsets of a burst the store refused behind the writer's back stay empty.
LogOf(s) == [i \in 1..s.tail |-> IF i - 1 \in DOMAIN s.recs THEN s.recs[i - 1] ELSE None]

DL == INSTANCE DurableLog WITH
        log <- LogOf(mem),
        closed <- mem.closed,
        durableLen <- durable.tail,
        durableClosed <- durable.closed,
        acks <- {a.next : a \in {x \in acked : x.acc}}

\* Bursts, pipelining, refused batches, retirement, respawn and crashes are
\* invisible: clients see an append-only log whose acknowledged part survives
\* (streamer.go, commit.go, durability.go together).
ImplementsDurableLog == DL!Spec
=============================================================================
