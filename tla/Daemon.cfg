SPECIFICATION MCSpec
CONSTANTS
  Nil = Nil
  p1 = p1
  p2 = p2
  k1 = k1
  k2 = k2
  w1 = w1
  w2 = w2
  c1 = c1
  c2 = c2
  Operators <- MCOperators
  I64MAX = 1048575
  U64MAX = 2097151
  MaxBoots = 2
  Grace = 1
  Configs <- MCConfigs
CHECK_DEADLOCK FALSE
INVARIANTS
  WireExact
  LifeOrderly
  ConfigServable
PROPERTIES
  CallersAuthorized
