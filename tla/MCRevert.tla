-------------------------------- MODULE MCRevert --------------------------------
EXTENDS Revert, TLC
Symmetry == Permutations(Clients) \cup Permutations(Files)
=============================================================================
