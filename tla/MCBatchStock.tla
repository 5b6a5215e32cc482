---------------------------- MODULE MCBatchStock ----------------------------
\* Small instances of BatchStock for TLC.
EXTENDS BatchStock, TLC

CONSTANTS l1, l2, r1, r2

Symmetry == Permutations(Requests) \cup Permutations(Lines)
=============================================================================
