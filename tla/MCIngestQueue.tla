---------------------------- MODULE MCIngestQueue ----------------------------
EXTENDS IngestQueue, TLC

Symmetry == Permutations(Keys) \cup Permutations(Requests)
=============================================================================
