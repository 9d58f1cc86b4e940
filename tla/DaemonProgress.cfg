SPECIFICATION Spec
CONSTANTS
  None = None
  Maintenance = Maintenance
  a1 = a1
  a2 = a2
  c1 = c1
  c2 = c2
  p1 = p1
  p2 = p2
  r1 = r1
CHECK_DEADLOCK FALSE
PROPERTIES
  WorkSettles
  OutcomesProjected
