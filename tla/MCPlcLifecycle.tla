--------------------------- MODULE MCPlcLifecycle ---------------------------
EXTENDS PlcLifecycle, TLC
Symmetry == Permutations(Workers) \cup Permutations(Cycles)
=============================================================================
