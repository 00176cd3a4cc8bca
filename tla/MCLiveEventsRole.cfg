SPECIFICATION Spec
CONSTANTS
  Clients = {a}
  Topics = {t, u}
  SubscriberBuffer = 1
  MaximumSubscribers = 1
  LastEventID = 2
  MaxOpened = 1
  MaxReloads = 1
INVARIANT FilteredByRole
