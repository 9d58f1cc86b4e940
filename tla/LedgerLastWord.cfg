SPECIFICATION MCFairSpec
CONSTANTS
  None = None
  Maintenance = Maintenance
  f1 = f1
  f2 = f2
  h1 = h1
  h2 = h2
  p1 = p1
  p2 = p2
  MaxSeq = 3
  Progress = {p1, p2}
  Unsupported = {p2}
  Artifacts = {f1, f2}
  Handlers = {h1, h2}
  Requests <- AllRequests
  MaxFailures = 0
PROPERTIES
  TerminalReportIsLast
