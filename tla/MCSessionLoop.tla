---------------------------- MODULE MCSessionLoop ----------------------------
EXTENDS SessionLoop, TLC
Symmetry == Permutations(Calls)
=============================================================================
