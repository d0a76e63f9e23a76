CONSTANTS
  a1 = a1
  a2 = a2
  Backends = {"iw", "monitor", "ble"}
  Macs = {a1, a2}
  Rssis = {1, 2}
  QueueMax = 2
  MaxHeard = 3
  JoinTimesOut = {"iw"}
SPECIFICATION Spec
CHECK_DEADLOCK FALSE
SYMMETRY MacsAreAlike
INVARIANTS
  QueueKept
  EveryWindowAccounted
  StrongestWritten
  NothingLeftBehind
