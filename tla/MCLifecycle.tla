---------------------------- MODULE MCLifecycle -----------------------------
(* Lifecycle on three interchangeable paths. *)
EXTENDS ForkReads, TLC

Symmetry == Permutations(Paths)
=============================================================================
