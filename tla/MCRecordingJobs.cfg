\* A table of one job, a second job after a restart, two channels of which the
\* callers have one, and two faults of any kind. Workers end, so the system may
\* come to rest.
SPECIFICATION FairSpec
CONSTANTS
  Jobs = {j1, j2}
  Channels = {1, 2}
  Scope = {1}
  MaxJobs = 1
  MaxFaults = 2
INVARIANTS
  TypeOK
  EndedIsTrue
PROPERTIES
  EndedStays
  EndIsRecorded
CHECK_DEADLOCK FALSE
