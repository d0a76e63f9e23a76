CONSTANTS
  Sizes = {1, 3}
  HeaderBytes = 1
  MaxBytes = 4
  FlushI = 1
  FsyncI = 2
  Faults = {"header"}
  MaxRows = 3
  MaxTime = 3
SPECIFICATION Spec
CHECK_DEADLOCK FALSE
PROPERTY DurableStaysDurable
