\* Every operation, responses with and without a time, a queue that hangs.
SPECIFICATION FairSpec
CONSTANTS
  Pushers = {p1, p2}
  Readers = {r1}
  Admins = {a1}
  NoResponse = NoResponse
  Types = {"EVENTS"}
  Stamps = {TRUE, FALSE}
  Configs <- TwoConfigs
  Operations = {"GetResponse", "Pop", "PopAll", "Clear", "ClearAll", "ClearExpired", "SetConfig", "GetStatistics", "ResetStatistics", "Shutdown"}
  Relock = {"returns", "hangs"}
  MaxPushes = 2
  MaxClock = 2
INVARIANTS TypeOK EveryResponseCounted LatestIsNewestUnlessOverlap
PROPERTIES ImplementsBoard ExpiredAreSwept ShutdownReturns
CHECK_DEADLOCK FALSE
