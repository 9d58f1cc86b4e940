SPECIFICATION MCSpec
CONSTANTS
  w1 = w1
  s1 = s1
  s2 = s2
  b1 = b1
  b2 = b2
  j1 = j1
  j2 = j2
  bench = bench
  build = build
  fast = fast
  slow = slow
  None = None
  a1 = a1
  a2 = a2
  Workers = {w1}
  Sessions = {s1, s2}
  Submissions = {b1}
  Submitted = {b1}
  Jobs = {j1, j2}
  Prepared = {j1}
  Capabilities = {bench, build}
  Benchmark = bench
  Profiles = {fast, slow}
  Floors = {1, 2}
  Resident = {s2}
  MaxGeneration = 2
  Commands = {"abort", "fail_queued"}
  Attempts = {a1, a2}
  WorkerOf <- WorkerOfDef
  SubmissionOf <- OneSubmission
  Advertised <- AdvertisedDef
  Required <- RequiredDef
  Revision <- RevisionDef
  Policies <- OnePolicy
SYMMETRY AttemptSymmetry
CHECK_DEADLOCK FALSE
INVARIANTS
  TypeOK
  Consistent
  PolicyHolds
PROPERTIES
  HistoryKept
