---------------------------- MODULE MCDeltaSync ----------------------------
(* TLC instances of DeltaSync. *)
EXTENDS DeltaSync, TLC

Symmetry == Permutations(Key)
=============================================================================
