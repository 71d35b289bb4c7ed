--------------------------- MODULE MCOrderExecutor ---------------------------
EXTENDS OrderExecutorInv, TLC

Symmetry ==
    Permutations(Daemons) \cup Permutations(Markets) \cup Permutations(Ids)
=============================================================================
