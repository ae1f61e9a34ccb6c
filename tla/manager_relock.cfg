\* auth_mutex_ is locked twice by one thread.
SPECIFICATION FairSpec
CONSTANTS
  Callers = {c1}
  Workers = {w1}
  None = None
  Types = {"PING"}
  Operations = {"SetAuth"}
  Outcomes = {"ok", "rejected"}
  ConnectionArgs = {1}
  QueueArgs = {2}
  Relock = {"hangs"}
  MaxRequests = 1
PROPERTIES SendReturns
CHECK_DEADLOCK FALSE
