CONSTANTS
  Requests = {r1, r2}
  Capacity = 1
  MaxExits = 4
  BuiltinAttempts = 3
  ResinAttempts = 4
  NoEngine = NoEngine
SPECIFICATION FairSpec
INVARIANTS TypeOK SlotsBalanced KeepsTrying RecordsTellAttempts LeavingIsNoFault
PROPERTIES KeepsPromise EveryRequestEnds
CHECK_DEADLOCK FALSE
