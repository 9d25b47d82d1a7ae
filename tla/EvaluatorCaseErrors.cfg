SPECIFICATION Spec
CONSTANTS
  N = 1
  CaseCount = 1
  SecurityCases = {}
  NamesAtImport = {1}
INVARIANTS
  CandidateExitIsACaseError
CHECK_DEADLOCK FALSE
