CONSTANTS
  Files = {1, 2}
  Big = {2}
  Modes = {"auto"}
  Tries = 2
  MaxPolls = 2
  MaxSyncs = 2
  MaxCrashes = 1
SPECIFICATION Spec
CHECK_DEADLOCK FALSE
INVARIANTS
  FilesTidy
  MarkedIsImported
  DuplicatesExplained
PROPERTIES
  SyncEnds
