---------------------------- MODULE MCLiveEvents ----------------------------
EXTENDS LiveEvents, TLC

Symmetry == Permutations(Clients) \cup Permutations(Topics)
=============================================================================
