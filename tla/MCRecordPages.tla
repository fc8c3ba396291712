--------------------------- MODULE MCRecordPages ---------------------------
EXTENDS Pages, TLC

\* No record is distinguished from another.
Symmetry == Permutations(Ids)
=============================================================================
