SPECIFICATION FairSpec
CONSTANTS
  Channels = {ch}
  Senders = {s1, s2}
  ChunkCounts = {2}
  EventsBetweenChunks = FALSE
  MaxFlight = 2
  MaxChanges = 2
  MaxFaults = 2
PROPERTY EventuallyInSync
