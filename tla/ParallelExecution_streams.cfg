SPECIFICATION FairSpec
CONSTANTS
  SpecCount = 4
  NumberOfExecutionStreams = 3
INVARIANTS
  NoRunnerLeft
PROPERTIES
  Terminates
  SuiteAccounted
CHECK_DEADLOCK FALSE
