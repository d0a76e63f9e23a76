CONSTANTS
  wdgwars = wdgwars
  loki = loki
  wifman = wifman
  Apps = {wdgwars, loki, wifman}
  Us = wdgwars
  k1 = k1
  k2 = k2
  ApiKeys = {k1, k2}
  NoKey = NoKey
  acm0 = acm0
  acm1 = acm1
  Devices = {acm0, acm1}
  AcmZero = acm0
  NoDevice = NoDevice
  Bright = 15
  Darkest = 5
  Brightest = 15
  DimTo = 10
  MaxEdits = 1
SPECIFICATION ApplicationSpec
INVARIANTS
  TargetIsFresh
  SettingsAgree
PROPERTIES
  PagerGetsOn
