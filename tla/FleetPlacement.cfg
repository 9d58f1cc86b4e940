SPECIFICATION MCSpec
CONSTANTS
  w1 = w1
  w2 = w2
  s1 = s1
  s2 = s2
  b1 = b1
  b2 = b2
  j1 = j1
  j2 = j2
  j3 = j3
  bench = bench
  fast = fast
  None = None
  a1 = a1
  a2 = a2
  Workers = {w1, w2}
  Sessions = {s1, s2}
  Submissions = {b1, b2}
  Submitted = {b1}
  Jobs = {j1, j2, j3}
  Prepared = {j1, j2}
  Capabilities = {bench}
  Benchmark = bench
  Profiles = {fast}
  Floors = {1}
  Resident = {}
  MaxGeneration = 0
  Commands = {"recover"}
  Attempts = {a1, a2}
  WorkerOf <- WorkerOfDef
  SubmissionOf <- SubmissionOfDef
  Advertised <- AdvertisedDef
  Required <- RequiredDef
  Revision <- RevisionDef
  Policies <- PoliciesDef
SYMMETRY AttemptSymmetry
CHECK_DEADLOCK FALSE
INVARIANTS
  OneActivePerSubmission
  ComparableRuns
  TeardownBlocksReuse
