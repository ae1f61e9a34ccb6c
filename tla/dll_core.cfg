\* Three threads call functions of every kind, and everything may fail.
SPECIFICATION FairSpec
CONSTANTS
  Callers = {c1, c2, c3}
  None = None
  Operations = {"Initialize", "Cleanup", "Send", "Use"}
  Timeouts <- ThreeTimeouts
  Faults = {"curl", "start", "hang", "miss"}
  Threads = 2
  MaxManagers = 2
INVARIANTS TypeOK UsesLiveManager NoOrphans 
PROPERTIES CallsReturn UnloadReturns
CHECK_DEADLOCK FALSE
