--------------------------- MODULE MC_InternalMiner ---------------------------
EXTENDS InternalMiner, TLC

CONSTANTS w1, w2, w3, w4, c1, c2, r1, r2
Symmetry == Permutations(Worker)
=============================================================================
