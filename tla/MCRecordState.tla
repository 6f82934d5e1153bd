---------------------------- MODULE MCRecordState ----------------------------
EXTENDS RecordState, TLC

Symmetry == Permutations(Key)
=============================================================================
