CONSTANTS
  Contents <- MCContents
  ConceptSteps <- MCConceptSteps
  Invocations <- MCGroup
  MaxRuns = 2
  ConceptFile = {"c.cpt"}
  Project <- MCProject
  Requests <- MCRequests
  Selections <- MCSelections
  Repository <- MCRepository
  DefaultPlugins <- MCDefaultPlugins
  CurrentVersion <- MCCurrentVersion
  Calls <- MCCalls
  MaxCalls = 0
SPECIFICATION MCSpec
CHECK_DEADLOCK FALSE
INVARIANT SameEverytime
