SPECIFICATION Spec
CONSTANTS
  DiskFiles = {f1, f2}
  DiskTexts = {t}
  MaxConfigs = 2
  MaxEvents = 2
  NumFiles = 3
  FileTexts = {a, b}
  MaxLog = 4
  MaxFlips = 2
  Paths = {p1, p2, p3}
  Ids = {1, 2, 3}
  Texts = {a, b}
  Nodes = {n1}
  Files = {f1, f2}
  MaxChanges = 1
  MaxTargets = 2
  MaxReloads = 1
  MaxQueue = 1
  Tokens = {root, t1, t2}
  Root = root
  Threads = {h1, h2}
  NoToken = NoToken
  PoolThreads = {w1, w2}
  LatencyBurst = 2
  MaxQueued = 3
  RequestIds = {q1, q2, q3}
SYMMETRY Symmetry
INVARIANTS
  DatabaseMirrors
  RootsCurrent
  DuplicatesGone
  Delivered
  GhostsExplained
  BuffersOwned
  BufferIsAnalyzed
  CacheIsShown
  CancelReachesChildren
  NotStarved
  EverythingRun
  NoRequestForgotten
PROPERTIES
  TrueWhenShown
  RequestedWhenChanged
  ServedOrOvertaken
\* The documents, the tokens and the loader come to rest when their bounds are used up.
CHECK_DEADLOCK FALSE
