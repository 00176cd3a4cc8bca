\* Four file sets and one replacement while the reload reads them, two requests
\* with every point at which they can be held, a table of one grant, grants that
\* live for two ticks, and an outbox that one revocation fills.
SPECIFICATION FairSpec
CONSTANTS
  Services = {"desk", "boss", "aide"}
  Certs = {"cert1", "cert2", "cert3"}
  Channels = {1, 2}
  Senders = {1}
  FileSets <- AllFileSets
  FirstFiles <- Full
  Requests = {r1, r2}
  DenyWindow = 3
  GrantLifetime = 2
  MaxTracked = 1
  MaxPending = 1
  MaxTime = 2
  MaxEdits = 1
  MaxFaults = 1
INVARIANTS
  TypeOK
  WithdrawnIsRevoked
  LiveGrantRevocable
  GrantsHonourRoles
PROPERTIES
  ReloadFollowsOneACL
  EventuallyAdopted
