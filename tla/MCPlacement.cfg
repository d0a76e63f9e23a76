CONSTANTS
  SatCounts = {0, 4}
  MinSats = 4
  MaxGap = 1
  HistMax = 2
  HistTrim = 1
  Speed = 1
  Moves <- ToAndFro
  Back = 1
  MaxSteps = 6
  MaxHeard = 1
  MaxReports = 3
  Keys = {1, 2, 3, 4, 5}
  Rssis <- NearAndFar
  Ttl = 2
  MinMove = 2
  RssiDelta = 1
  MaxEntries = 4
  PruneAfter = 3
  RequireFix = TRUE
  Lag = 1
  MaxTime = 4
  MaxSightings = 6
SPECIFICATION PlacementSpec
CHECK_DEADLOCK FALSE
INVARIANTS
  HistorySorted
  TaggedNearTruth
  DropoutNotBridged
  GateTypes
PROPERTIES
  RefusedIsCovered
  RowsAdd
