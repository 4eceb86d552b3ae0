SPECIFICATION DiagSpec
CONSTANTS
  Files = {f1, f2}
  MaxChanges = 1
  MaxTargets = 2
  MaxReloads = 1
  MaxQueue = 1
INVARIANT
  ClosedCleared
CHECK_DEADLOCK FALSE
