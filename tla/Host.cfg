SPECIFICATION MCSpec
CONSTANTS
  a = a
  b = b
  Subs = {a, b}
  Runs = 2
  Slots = 2
  MaxClaims = 4
  MaxFaults = 2
  MaxCrashes = 2
  MaxStops = 1
  Mishaps = 2
  Tasks <- MCTasks
  MaxFailures = 3
SYMMETRY Interchangeable
CHECK_DEADLOCK FALSE
INVARIANTS
  MachinesExclusive
  NoMachineInTheWay
  OutcomesTrue
  MachinesAccounted
  ValidationExact
  ResultsFaithful
  SnapshotsTrue
