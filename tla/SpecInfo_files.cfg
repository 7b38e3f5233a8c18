SPECIFICATION FairSpec
CONSTANTS
  SpecFiles = {f, g}
  ConceptFile = k
  Concept = c
  SpecTexts = {{c}, {s}}
  ConceptTexts = {{s}}
  RunnerSteps = {s}
  MaxChanges = 2
  MaxRequests = 2
INVARIANTS
  FollowsFiles
  AnswersComplete
PROPERTY Settles
CHECK_DEADLOCK FALSE
