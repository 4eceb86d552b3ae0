SPECIFICATION BoundedSpec
CONSTANTS
  None = None
  PullRequests = {p1}
  MaxReloads = 3
  MaxEntries = 2
INVARIANTS
  NoAssertFails
  ExclusiveFetch
  NoReloadForgotten
  ReadyMeansLoaded
  ParkedNotLost
  ProgressPaired
  ClientRefreshed
PROPERTIES
  ParkedAnswered
  LatestWins
