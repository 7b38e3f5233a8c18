SPECIFICATION ConceptsSpec
CONSTANTS
  Names = {"A", "B"}
  PlainSteps = {"s"}
  MaxLines = 5
INVARIANT EveryReferenceExpands
CHECK_DEADLOCK FALSE
