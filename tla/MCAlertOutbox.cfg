CONSTANTS
  Types = {t1}
  Emitters = {e1, e2}
  Deliverers = {d1, d2}
  MaxEvents = 3
  MaxAttempts = 2
  Delays <- OneDelay
  Limit = 1
  Window = 1
  Lag = 1
  MaxFaults = 1
  NoType = NoType
  Free = Free
SPECIFICATION FairSpec
INVARIANTS SendsAreTold BurstsBounded
PROPERTIES EventsSettle
CHECK_DEADLOCK FALSE
