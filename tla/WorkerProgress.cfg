SPECIFICATION MCSpec
CONSTANTS
  None = None
  NoTime = NoTime
  Ttl = 4
  DaemonTtl = 3
  Skew = 2
  MaxTime = 10
  a1 = a1
  c1 = c1
  c2 = c2
CHECK_DEADLOCK FALSE
INVARIANTS
  DeadlineBeforeExpiry
PROPERTIES
  HostRecovers
  WorkEnds
