SPECIFICATION Spec
CONSTANTS
  Leader = leader
  Descendants = {worker}
  MaxInterrupts = 0
INVARIANTS
  DescendantsStopped
CHECK_DEADLOCK FALSE
