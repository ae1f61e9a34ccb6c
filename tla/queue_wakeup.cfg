\* The blocking mode with non-blocking consumers.
SPECIFICATION FairSpec
CONSTANTS
  Producers = {p1, p2, p3}
  Consumers = {c1, c2}
  Admins = {a1}
  Requests <- TwoTypes
  NoRequest = NoRequest
  Operations = {"Pop", "ClearType", "Shutdown"}
  DropModes = {FALSE}
  SizeArgs = {1, 2}
  ASYNCNET_MAX_QUEUE_SIZE = 2
  MaxPushes = 4
INVARIANTS NoLostWakeup
PROPERTIES BlockedPushReturns
CHECK_DEADLOCK FALSE
