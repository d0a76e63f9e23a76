CONSTANTS
  ap1 = ap1
  ghost = ghost
  Aps = {ap1}
  Ghost = ghost
  Freqs = {2412, 2437, 5935}
  Signals = {1, 2}
  IeRefresh = 1
  MaxTime = 3
  MaxBad = 1
  m1 = m1
  m2 = m2
  Macs = {m1, m2}
  NoMac = NoMac
  Rssis = {1, 2}
  MaxAttr = 2
  Suites = {1, 2, 3, 4, 5, 6, 8, 9, 11, 12, 13, 14, 18, 19, 20}
  MaxSuites = 3
  Styles = {"hex", "words"}
SPECIFICATION Spec
INVARIANTS
  IdentityKept
  PlaceSound
  DevicesDescribed
  SpelledSoundly
CHECK_DEADLOCK FALSE
