CONSTANTS
  Titles = {A, B}
  Params = {p}
  MaxLines = 5
  MaxLength = 6
  Tags = {"a", "b"}
  MaxTokens = 8
  VarintBase = 2
  Lengths = {1, 2, 3, 5}
  MaxMessages = 3
SPECIFICATION MCSpec
SYMMETRY TitlesSymmetry
CHECK_DEADLOCK FALSE
INVARIANTS
  NothingLost
  ItemsBelongAbove
  ParametersResolve
  RoundTrip
  TagsAsWritten
  FramesIntact
