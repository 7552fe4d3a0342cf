----------------------------- MODULE MCLibrary ------------------------------
(* Library with bodies of every length around the read limit, empty ones    *)
(* included, and messages of every kind.                                    *)
EXTENDS Library

Msg(t, k, v, op, ctl) ==
  [type |-> t, key |-> k, value |-> v, operation |-> op, control |-> ctl]
Put(k, v) == Msg("t", k, v, "insert", None)
Signal(c) == Msg(None, None, None, None, c)

\* By epoch, the messages of seq 0, 1 and 2, invalid ones among them.
Messages == <<
  <<Put("a", 1), Msg("t", "a", 2, "update", None), Signal("snapshot-start")>>,
  <<Signal("snapshot-end"), Msg("t", "a", None, "delete", None), Msg("t", None, 3, "insert", None)>>,
  <<Signal("reset"), Msg("u", "b", 4, "insert", None), Msg("u", "b", None, "update", None)>> >>

\* Lengths 0..3, above and below the read limit; a JSON message is never empty,
\* and the last message of epoch 2 is JSON of another shape.
MCBodyOf(isJSON, h) ==
  [size |-> LET n == (h.epoch + 2 * h.seq) % 4 IN IF isJSON /\ n = 0 THEN 1 ELSE n,
   msg |-> Messages[h.epoch + 1][h.seq + 1],
   decodes |-> h # [epoch |-> 2, seq |-> 2]]
=============================================================================
