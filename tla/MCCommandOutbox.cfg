SPECIFICATION Spec
CONSTANTS
  Ids = {c1, c2}
  MaxPending = 2
  DenyWindow = 2
  Windows = FALSE
  MaxTime = 1
  MaxFaults = 2
SYMMETRY Symmetry
INVARIANTS
  TypeOK
  AcceptedIsDurable
  CompletedIsFinal
  NoLostWakeup
  RepliesMatchPending
  WrittenOncePerConnection
  OkMeansApplied
PROPERTY ImplementsLedger
