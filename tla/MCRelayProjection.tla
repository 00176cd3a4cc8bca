------------------------- MODULE MCRelayProjection -------------------------
EXTENDS ServedRoster

Symmetry == Permutations(Senders)
=============================================================================
