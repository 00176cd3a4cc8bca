SPECIFICATION FairSpec
CONSTANTS
  Ids = {c1, c2}
  MaxPending = 1
  DenyWindow = 1
  Windows = FALSE
  MaxTime = 1
  MaxFaults = 1
INVARIANTS
  StoreLoadable
  InFlightBounded
PROPERTY EventuallyResolved
