SPECIFICATION SumSpec
CONSTANTS
  HalfBits = 2
  SumWidths = {3, 6}
INVARIANT DivisionRight
CHECK_DEADLOCK FALSE
