--------------------------- MODULE MCConflictWinner ---------------------------
EXTENDS ConflictWinner

\* Definitions that write; identity fields mode needs identities.  Of the rules for
\* ties each side's is taken with one of the buffers.
Updating ==
  {c \in Config :
     /\ c.update
     /\ c.mode = "identity_fields" => c.ids
     /\ c.tie = "frappe_wins" => c.buffer = 1
     /\ c.tie = "partner_wins" => c.buffer = 0}

\* And one that does not.
Sensible ==
  Updating \cup
  {[mode |-> "identity_fields", ids |-> TRUE, delta |-> TRUE, update |-> FALSE,
    buffer |-> 0, tie |-> "manual"]}

\* Match fields with identity fields, which the documents at hand do not fill yet.
Adopting == {c \in Updating : c.mode = "match_fields" /\ c.ids}
=============================================================================
