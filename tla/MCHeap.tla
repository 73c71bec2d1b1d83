------------------------------ MODULE MCHeap ------------------------------
EXTENDS HeapInvariant, TLC

Symmetry == Permutations(Handles)
=============================================================================
