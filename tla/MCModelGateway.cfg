SPECIFICATION Spec
CONSTANTS
  c1 = c1
  c2 = c2
  Conns = {c1, c2}
  Asks <- AnyAsks
  Short = {"whole", "part"}
  MaxFaults = 1
INVARIANTS
  TypeOK
  LogWellFormed
  CleanClose
  JudgedIsFinal
PROPERTIES
  QuietAfterClose
SYMMETRY Interchangeable
CHECK_DEADLOCK FALSE
