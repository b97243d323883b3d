SPECIFICATION Spec
CONSTANTS
  d1 = d1
  d2 = d2
  Devices = {d1, d2}
  Tables <- OneOrTwice
  Texts = {"", "started"}
  MaxCalls = 2
  MaxVisits = 1
CHECK_DEADLOCK FALSE
INVARIANTS
  SignalUnderLockIsSafe
