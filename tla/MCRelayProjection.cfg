SPECIFICATION Spec
CONSTANTS
  Channels = {ch}
  Senders = {s1, s2}
  ChunkCounts = {1, 2}
  EventsBetweenChunks = FALSE
  MaxFlight = 4
  MaxChanges = 3
  MaxFaults = 2
SYMMETRY Symmetry
INVARIANTS
  TypeOK
  ServedIsOfThisConnection
  ServedMatchesRelay
  SnapshotWhole
PROPERTY ImplementsDelayedRoster
