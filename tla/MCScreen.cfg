CONSTANTS
  Timeouts = {1}
  MinBright = 1
  MaxBright = 2
  BrightStep = 1
  DimStep = 1
  MaxQueue = 2
  MaxBack = 1
  Longest = 2
SPECIFICATION FairSpec
INVARIANTS
  PanelInStep
  DimsInTime
PROPERTIES
  DarkPressOnlyWakes
  LightFollowsUser
CHECK_DEADLOCK FALSE
