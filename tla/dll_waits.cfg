\* A call waits for the mutex that Cleanup keeps while it joins the workers.
SPECIFICATION Spec
CONSTANTS
  Callers = {c1, c2}
  None = None
  Operations = {"Initialize", "Cleanup", "Send"}
  Timeouts = {3000}
  Faults = {}
  Threads = 1
  MaxManagers = 1
INVARIANTS NoCallWaitsForTransfer
CHECK_DEADLOCK FALSE
