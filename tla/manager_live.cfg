\* Fair workers; every request fails and is retried; pauses, clears,
\* reconfigurations and a shutdown in between.
SPECIFICATION FairSpec
CONSTANTS
  Callers = {c1}
  Workers = {w1, w2}
  None = None
  Types = {"PING"}
  Operations = {"SetAuth", "SetConfig", "Pause", "ClearQueue", "Shutdown"}
  Outcomes = {"rejected"}
  ConnectionArgs = {2}
  QueueArgs = {1, 2}
  Relock = {"returns", "hangs"}
  MaxRequests = 2
INVARIANTS PauseAdmitsAtMostOne
PROPERTIES TakenUnlessMissed CompletesUnlessMissed
CHECK_DEADLOCK FALSE
