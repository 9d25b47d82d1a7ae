SPECIFICATION FairSpec
CONSTANTS
  N = 2
  CaseCount = 2
  SecurityCases = {2}
  NamesAtImport = {1}
INVARIANTS
  DeadlineIsShared
  PassIsEarned
  NoWorkerLeft
PROPERTIES
  CountedOnlyIfWhole
  EvaluationEnds
CHECK_DEADLOCK FALSE
