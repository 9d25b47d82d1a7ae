SPECIFICATION FairSpec
CONSTANTS
  c1 = c1
  c2 = c2
  Conns = {c1, c2}
  Asks <- LiveAsks
  Short = {"part"}
  MaxFaults = 1
PROPERTIES
  ClosingTerminates
  RequestsResolve
CHECK_DEADLOCK FALSE
