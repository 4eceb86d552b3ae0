SPECIFICATION QiheSpec
CONSTANTS
  MaxRuns = 1
  MaxWrites = 1
PROPERTY
  CancelStops
CHECK_DEADLOCK FALSE
