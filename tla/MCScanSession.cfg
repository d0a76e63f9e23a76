CONSTANTS
  a1 = a1
  a2 = a2
  Macs = {a1, a2}
  RequireFix = TRUE
  Faults = {"session", "write", "rotate", "other"}
  QueueMax = 2
  MaxHeard = 3
SPECIFICATION FairSpec
CHECK_DEADLOCK FALSE
INVARIANTS
  FixedHasRow
  FatesAgree
  AllClosed
PROPERTIES
  ScanEnds
