CONSTANTS
  a1 = a1
  Backends = {"ble"}
  Macs = {a1}
  Rssis = {1}
  QueueMax = 2
  MaxHeard = 2
  JoinTimesOut = {}
SPECIFICATION Spec
CHECK_DEADLOCK FALSE
INVARIANT LastWindowHandedOver
