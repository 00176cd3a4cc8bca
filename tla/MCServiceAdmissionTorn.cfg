\* One replacement of the files while the reload reads them.
SPECIFICATION Spec
CONSTANTS
  Services = {"desk", "boss", "aide"}
  Certs = {"cert1", "cert2", "cert3"}
  Channels = {1, 2}
  Senders = {1}
  FileSets <- AllFileSets
  FirstFiles <- Full
  Requests = {}
  DenyWindow = 2
  GrantLifetime = 1
  MaxTracked = 1
  MaxPending = 2
  MaxTime = 0
  MaxEdits = 1
  MaxFaults = 0
INVARIANT AdoptsCompleteReplacement
