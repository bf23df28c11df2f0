---------------------------- MODULE MCClientCall ----------------------------
EXTENDS ClientCall, TLC

Symmetry ==
    Permutations(Thread) \cup Permutations(Worker) \cup Permutations(Slot)
=============================================================================
