SPECIFICATION FairSpec
CONSTANTS
  Clients = {a, b}
  Topics = {t}
  SubscriberBuffer = 1
  MaximumSubscribers = 1
  LastEventID = 4
  MaxOpened = 3
  MaxReloads = 0
INVARIANT SlotsBounded
PROPERTY CutStreamEnds
