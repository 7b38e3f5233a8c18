SPECIFICATION TextSpec
CONSTANT MaxLength = 4
INVARIANT NothingUnterminated
CHECK_DEADLOCK FALSE
