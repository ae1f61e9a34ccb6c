\* Every operation, both drop modes.
SPECIFICATION Spec
CONSTANTS
  Producers = {p1, p2}
  Consumers = {c1}
  Admins = {a1}
  Requests <- MixedRequests
  NoRequest = NoRequest
  Operations = {"Pop", "PopTimeout", "Clear", "ClearType", "Shutdown", "SetMaxSize", "SetDropOnFull", "GetStatistics", "ResetStatistics"}
  DropModes = {TRUE, FALSE}
  SizeArgs = {0, 2}
  ASYNCNET_MAX_QUEUE_SIZE = 3
  MaxPushes = 3
SYMMETRY Symmetric
INVARIANTS TypeOK CountersMatchQueue Conservation
PROPERTIES ImplementsBuffer
CHECK_DEADLOCK FALSE
