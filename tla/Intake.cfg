SPECIFICATION MCSpec
CONSTANTS
  Scenes <- MCScenes
  Requests = {r1}
  Heights = {0, 1, 15}
  Window = 2
  RateLimit = 2
  MaxRepetitions = 5
  MaxVariants = 2
  MaxLifecycles = 8
  CacheEnabled = TRUE
  U64 = 16
  Nil = Nil
  r1 = r1
  r2 = r2
  k1 = k1
  h1 = h1
  h2 = h2
  p1 = p1
  p2 = p2
CHECK_DEADLOCK FALSE
INVARIANTS
  RequestsHonoured
PROPERTIES
  JobsAllowed
  DeliveriesFinal
