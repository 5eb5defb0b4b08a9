CONSTANTS
  Keys = {1}
  Rpm <- TwoEach
  Tpm <- ThreeEach
  Calls = {c1, c2}
  Window = 3
  Skew = 1
  Values = {2}
  Threshold = 0
  MaxWindows = 0
  IdleAfter = 4
  MaxNow = 6
  NoWindow = NoWindow
  NoCall = NoCall
SPECIFICATION LimiterSpec
INVARIANTS LimiterTypeOK TotalIsSum AtMostRpm
PROPERTIES AdmitsBelowTpm RefusesAtLimit
CHECK_DEADLOCK FALSE
