CONSTANTS
  Sizes = {1, 3}
  HeaderBytes = 1
  MaxBytes = 4
  FlushI = 1
  FsyncI = 2
  Faults = {"room", "flush", "fsync", "open", "header"}
  MaxRows = 3
  MaxTime = 3
SPECIFICATION Spec
CHECK_DEADLOCK FALSE
INVARIANTS
  LossIsBounded
  CloseKeepsAll
  FileLengths
  FileHasNoHoles
PROPERTIES
  LogSpec
  TakesBackOnlyLatest
