------------------------------ MODULE MCFileTime ------------------------------
EXTENDS FileTime, TLC

Symmetry == Permutations(Calls) \cup Permutations(Sessions)
=============================================================================
