-------------------------- MODULE MCCommandOutbox --------------------------
EXTENDS OutboxLedger, TLC

Symmetry == Permutations(Ids)
=============================================================================
