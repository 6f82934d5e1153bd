------------------------- MODULE MCFrappeToPartner -------------------------
(* TLC instances of FrappeToPartner. *)
EXTENDS FrappeToPartner, TLC

CONSTANTS n1, n2, k1, k2, k3, v1, v2

\* max_plus_one needs an identity field.
Sensible ==
  {c \in Config :
     /\ ~c.identity => c.strategy = "connector_default"
     /\ (c.all \/ c.delete) => c.create /\ c.update}

\* Without what max_plus_one does after delete_missing removed the greatest identity.
SoundConfigs == {c \in Sensible : c.strategy = "max_plus_one" => ~c.delete}

Symmetry == Permutations({n1, n2}) \cup Permutations({k1, k2, k3})
              \cup Permutations({v1, v2})
=============================================================================
