CONSTANTS
  Listings <- SomeListings
  Prefs = {"auto", "monitor", "scan", "wlan1mon", "wlan2"}
  MonNames = {"wlan1mon"}
  Bands = {"2g", "5g", "6g", "all"}
  Plans <- TwoPlans
  BandFailLimit = 3
  HopOrder <- FourFreqs
  Anchors <- TwoAnchors
SPECIFICATION RadioSpec
CHECK_DEADLOCK FALSE
INVARIANTS
  RotationSound
  FallBackCanScan
PROPERTIES
  EveryBandAgain
  GoodFreqAgain
