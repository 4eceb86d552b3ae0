SPECIFICATION JobsSpec
CONSTANTS
  Requests = {r1, r2}
  MaxRuns = 2
  MaxWrites = 1
INVARIANTS
  Accounted
  CancelReaches
  CacheMatchesClient
  BarsMatch
  CancelledNotShown
PROPERTIES
  AnswersOnce
  OnceAnswered
  AnsweredInCalm
  BarsEnd
\* The server stops after an exit.
CHECK_DEADLOCK FALSE
