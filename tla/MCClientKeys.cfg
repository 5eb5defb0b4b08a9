CONSTANTS
  Handlers = {a1, a2}
  Clients = {c1}
  MaxKeys = 4
  MaxHash = 4
  MaxStops = 1
  MaxAsked = 3
  NoRow = NoRow
  NoCopy = NoCopy
SPECIFICATION Spec
SYMMETRY Symmetry
INVARIANTS KeysHold
PROPERTIES PatchesLoseOnlyRaces
CHECK_DEADLOCK FALSE
