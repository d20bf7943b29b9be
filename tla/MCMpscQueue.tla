----------------------------- MODULE MCMpscQueue -----------------------------
(* Small instances of MpscQueue for TLC. *)
EXTENDS MpscQueue, TLC

Symmetry == Permutations(Producers \ Blocking) \cup Permutations(Blocking)

=============================================================================
