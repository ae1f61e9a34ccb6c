\* The responses the workers push, whose time is not set.
SPECIFICATION Spec
CONSTANTS
  Pushers = {p1, p2}
  Readers = {r1}
  Admins = {a1}
  NoResponse = NoResponse
  Types = {"EVENTS"}
  Stamps = {FALSE}
  Configs <- OneConfig
  Operations = {"GetResponse"}
  Relock = {"returns", "hangs"}
  MaxPushes = 2
  MaxClock = 2
PROPERTIES FreshOnArrival
CHECK_DEADLOCK FALSE
