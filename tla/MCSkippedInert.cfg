SPECIFICATION PreprocessorSpec
CONSTANTS
  MacroNames = {x}
  MaxIncludeDepth = 1
  MaxBranches = 2
INVARIANT SkippedIsInert
CHECK_DEADLOCK FALSE
