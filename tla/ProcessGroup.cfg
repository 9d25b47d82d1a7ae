SPECIFICATION FairSpec
CONSTANTS
  Leader = leader
  Descendants = {worker}
  MaxInterrupts = 2
INVARIANTS
  TypeOK
  LeaderStopped
PROPERTIES
  BoundedWhenMonitored
CHECK_DEADLOCK FALSE
