CONSTANTS
  Item <- MCItem
  Kind <- MCKind
  Steps <- MCSteps
  Contexts <- MCContexts
  Items <- MCItems
  Times <- MCTimes
  None = None
  Names = {"A", "B", "C"}
  PlainSteps = {"s"}
  MaxLines = 1
  Projects <- MCProjects
SPECIFICATION MCSpec
CHECK_DEADLOCK FALSE
INVARIANT ArgumentsAsWritten
