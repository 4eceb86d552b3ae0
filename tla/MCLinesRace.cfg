SPECIFICATION SourcesSpec
CONSTANTS
  Sources = {p}
  SourceTexts = {a}
  Callers = {c1, c2}
  MaxBuffers = 2
  MaxWrites_ = 1
INVARIANT LinesInOrder
CHECK_DEADLOCK FALSE
