\* Requests are displaced, retried, refused as retries and shut down on.
SPECIFICATION Spec
CONSTANTS
  Callers = {c1}
  Workers = {w1, w2}
  None = None
  Types = {"PARAMS", "PING"}
  Operations = {"SetAuth", "Shutdown", "curl_easy_init_fails"}
  Outcomes = {"ok", "timeout"}
  ConnectionArgs = {1, 2}
  QueueArgs = {1}
  Relock = {"returns"}
  MaxRequests = 2
SYMMETRY Symmetric
INVARIANTS TypeOK OneOwner NothingVanishes SuccessIsFinal RetriesExhausted StatisticsExact
CHECK_DEADLOCK FALSE
