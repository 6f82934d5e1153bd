-------------------------- MODULE MCAuditRetention --------------------------
EXTENDS AuditRetention, TLC

\* Rows that are listed by their creation, and by their name alone.
Upgraded == [status : Ended, finished : {None}, created : {None, 0}]

Symmetry == Permutations(Cleaner)
=============================================================================
