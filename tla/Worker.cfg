SPECIFICATION MCSpec
CONSTANTS
  None = None
  a1 = a1
  a2 = a2
  c1 = c1
  c2 = c2
  Attempts = {a1, a2}
  Commands = {"drain", "stop", "cancel"}
  MaxDeaths = 2
  MaxLapses = 1
  Slow = FALSE
  Runs = 2
  Tries = 2
  MaxFaults = 2
CHECK_DEADLOCK FALSE
INVARIANTS
  OneTenant
  NothingForgotten
  FilesAccepted
PROPERTIES
  HostFits
  PeersKnown
  CacheHonest
