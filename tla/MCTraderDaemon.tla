---------------------------- MODULE MCTraderDaemon ----------------------------
EXTENDS TraderDaemon, TLC

Symmetry == Permutations(Markets) \cup Permutations(Ids)
=============================================================================
