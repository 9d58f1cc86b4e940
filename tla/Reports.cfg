SPECIFICATION MCSpec
CONSTANTS
  None = None
  s1 = s1
  s2 = s2
  s3 = s3
  c1 = c1
  c2 = c2
  d1 = d1
  d2 = d2
  Producers = {"p1", "p2"}
  Keys = {"k1", "k2"}
  KeyOf <- MCKeyOf
  LegacyOf <- MCLegacyOf
  Subs = {s1, s2, s3}
  Requested <- MCRequested
  Commits = {c1, c2}
  Daemons = {d1, d2}
  MaxMoves = 1
  MaxRetries = 1
  MaxGeneration = 2
  MaxFaults = 2
  MayFail = TRUE
  MayLoseFile = TRUE
SYMMETRY Interchangeable
PROPERTIES
  SourcesFrozen
  ImplementsSerialPlan
  MessageTrue
  ChecksTrue
CHECK_DEADLOCK FALSE
