SPECIFICATION MCSpec
CONSTANTS
  w1 = w1
  s1 = s1
  s2 = s2
  b1 = b1
  b2 = b2
  j1 = j1
  j2 = j2
  bench = bench
  build = build
  fast = fast
  slow = slow
  None = None
  a1 = a1
  a2 = a2
  Workers = {w1}
  Sessions = {s1, s2}
  Submissions = {b1, b2}
  Submitted = {b1, b2}
  Jobs = {j1, j2}
  Prepared = {j1, j2}
  Capabilities = {bench, build}
  Benchmark = bench
  Profiles = {fast, slow}
  Floors = {1}
  Resident = {s2}
  MaxGeneration = 0
  Commands = {}
  Attempts = {a1, a2}
  WorkerOf <- WorkerOfDef
  SubmissionOf <- TwoSubmissions
  Advertised <- AdvertisedDef
  Required <- RequiredDef
  Revision <- RevisionDef
  Policies <- OnePolicy
SYMMETRY AttemptSymmetry
CHECK_DEADLOCK FALSE
INVARIANTS
  TerminalRespectsSessionCheck
