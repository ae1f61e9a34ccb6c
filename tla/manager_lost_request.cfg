\* A request is sent while the worker is about to wait.
SPECIFICATION FairSpec
CONSTANTS
  Callers = {c1}
  Workers = {w1}
  None = None
  Types = {"PING"}
  Operations = {"SetAuth"}
  Outcomes = {"ok", "rejected"}
  ConnectionArgs = {1}
  QueueArgs = {2}
  Relock = {"returns"}
  MaxRequests = 1
PROPERTIES RequestIsTaken
CHECK_DEADLOCK FALSE
