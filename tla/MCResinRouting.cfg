CONSTANTS
  Requests = {r1, r2}
  Session = s
  Limits = {0, 1}
  Default = 2
  MaxAttempts = 3
  MaxGen = 3
  MaxPuts = 1
  MaxFaults = 1
  NoRow = NoRow
  NoLimit = NoLimit
  Nobody = Nobody
SPECIFICATION Spec
SYMMETRY Symmetry
INVARIANTS RoutesHold
PROPERTIES NoAccountTwice
CHECK_DEADLOCK FALSE
