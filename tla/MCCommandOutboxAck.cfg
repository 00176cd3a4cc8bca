SPECIFICATION Spec
CONSTANTS
  Ids = {c1}
  MaxPending = 1
  DenyWindow = 1
  Windows = FALSE
  MaxTime = 1
  MaxFaults = 1
INVARIANT AcceptedKeptUntilAck
