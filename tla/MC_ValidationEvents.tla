------------------------- MODULE MC_ValidationEvents -------------------------
EXTENDS ValidationEvents, TLC

CONSTANTS p1, s1, s2, c1, c2
=============================================================================
