SPECIFICATION Spec
CONSTANTS
  Clients = {a, b}
  Topics = {t, u}
  SubscriberBuffer = 2
  MaximumSubscribers = 2
  LastEventID = 3
  MaxOpened = 2
  MaxReloads = 1
SYMMETRY Symmetry
INVARIANTS
  TypeOK
  NoGap
  WrittenIsFiltered
  ClosedOnce
