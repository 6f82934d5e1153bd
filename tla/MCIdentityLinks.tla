-------------------------- MODULE MCIdentityLinks --------------------------
(* TLC instances of IdentityLinks. *)
EXTENDS IdentityLinks, TLC

CONSTANTS n1, n2

\* The policies that matter together: with delete_missing the others are on.
Sensible == {c \in Config : c.delete => c.create /\ c.update}

Symmetry == Permutations({n1, n2})
=============================================================================
