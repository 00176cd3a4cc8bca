SPECIFICATION Spec
CONSTANTS
  Ids = {c1, c2}
  MaxPending = 2
  DenyWindow = 1
  Windows = TRUE
  MaxTime = 1
  MaxFaults = 1
INVARIANT AcceptedIsDurable
