SPECIFICATION SyncSpec
CONSTANTS
  DiskFiles = {f1, f2}
  DiskTexts = {a, b}
  MaxConfigs = 3
  MaxEvents = 0
CHECK_DEADLOCK FALSE
INVARIANT
  UnreportedUnloaded
