\* All operations of the pool.
SPECIFICATION Spec
CONSTANTS
  Workers = {w1, w2, w3}
  Handles = {h1, h2, h3}
  NoHandle = NoHandle
  Operations = {"Resize", "SetConnectionTimeout", "SetMaxRequestsPerConnection", "CleanupAll", "curl_easy_init_fails"}
  SizeArgs = {1, 2, 4}
  TimeoutArgs = {0, 1}
  RequestArgs = {0, 2}
  MinTimeout = 0
  MinRequests = 1
  DefaultTimeout = 1
  DefaultRequests = 2
  ASYNCNET_MAX_CONNECTIONS = 3
  MaxAge = 2
SYMMETRY Symmetric
INVARIANTS TypeOK ExclusiveUse NoLeak ActiveCountExact
PROPERTIES GrowsWithinLimit NullMeansBusy
CHECK_DEADLOCK FALSE
