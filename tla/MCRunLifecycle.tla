-------------------------- MODULE MCRunLifecycle --------------------------
(* TLC instances of RunLifecycle. *)
EXTENDS RunLifecycle, TLC

Symmetry == Permutations(Proc)
=============================================================================
