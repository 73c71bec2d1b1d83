---------------------------- MODULE MCForkedHeap ----------------------------
EXTENDS ForkedHeap, TLC

Symmetry == Permutations(Handles)
=============================================================================
