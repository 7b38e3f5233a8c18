CONSTANTS
  Suite <- MixedSuite
  TableRows <- NoTableRows
SPECIFICATION MCSpec
CHECK_DEADLOCK FALSE
INVARIANTS
  SuiteVerdict
  TableRowsRun
PROPERTIES
  LostRunnerFails
  Terminates
  ScopesNest
