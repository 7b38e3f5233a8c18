CONSTANTS
  Contents <- MCContents
  ConceptSteps <- MCConceptSteps
  Invocations <- MCInvocations
  MaxRuns = 2
  ConceptFile = {"c.cpt"}
  Project <- MCProject
  Requests <- MCRequests
  Selections <- MCSelections
  Repository <- MCRepository
  DefaultPlugins <- MCDefaultPlugins
  CurrentVersion <- MCCurrentVersion
  Calls <- MCCalls
  MaxCalls = 4
SPECIFICATION MCSpec
CHECK_DEADLOCK FALSE
INVARIANTS
  SelectedAsAsked
  ExecutedStepsAsked
  OutcomeMeant
  NoHalfRefactoring
  RenamedThroughout
  ProjectStillParses
  ExtractionKeepsMeaning
  InstallationsWork
  ManifestKept
PROPERTY CommandsTerminate
