------------------------- MODULE MCPartnerToFrappe -------------------------
(* TLC instances of PartnerToFrappe. *)
EXTENDS PartnerToFrappe, TLC

CONSTANTS i1, i2, n1, n2, n3, k1, k2, v1, v2

Symmetry == Permutations({i1, i2}) \cup Permutations({n1, n2, n3})
              \cup Permutations({k1, k2}) \cup Permutations({v1, v2})
=============================================================================
