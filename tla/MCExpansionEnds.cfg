SPECIFICATION MacrosFairSpec
CONSTANTS
  Simple = {A, B}
  Functions_ = {}
  MaxFrames = 8
  MaxText = 6
PROPERTY ExpansionEnds
CHECK_DEADLOCK FALSE
