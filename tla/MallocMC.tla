------------------------------ MODULE MallocMC ------------------------------
\* Small heaps for TLC.
EXTENDS Malloc, TLC

Symmetry == Permutations(Slots)
=============================================================================
