SPECIFICATION FairSpec
CONSTANTS
  Validations = 2
  Executions = 3
  Parts = 2
INVARIANTS
  ExecutionGetsItsAnswers
  NoRunnerLeft
PROPERTIES
  Terminates
CHECK_DEADLOCK FALSE
