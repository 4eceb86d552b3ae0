SPECIFICATION Spec
CONSTANTS
  MacroNames = {x}
  MaxIncludeDepth = 1
  MaxBranches = 2
  Simple = {A, B}
  Functions_ = {F}
  MaxFrames = 8
  MaxText = 6
  Sources = {p, q}
  SourceTexts = {a, b}
  Callers = {c1, c2}
  MaxBuffers = 3
  MaxWrites_ = 2
  Clients = {main}
  PoolSize = 2
  LoopSizes = {0, 1, 2, 3, 5}
  MaxLoops = 2
  n1 = n1
  n2 = n2
  n3 = n3
  Names <- ThreeNames
  Wanted <- TwoNames
  File <- Places
  WordBits = 2
  BitWidths = {1, 2, 4, 5}
  MaxTogether = 5
  HalfBits = 2
  SumWidths = {3, 5, 6}
INVARIANTS
  ActiveTextCounts
  ExpandedRight
  OneTextPerPath
  LoopsRunOnce
  NobodyOversleeps
  SearchComplete
  NumbersRight
\* Each component comes to rest when its bounds are used up.
CHECK_DEADLOCK FALSE
