CONSTANTS
  k1 = k1
  l1 = l1
  Keys = {k1}
  Locks = {l1}
  LockOf <- OneLock
  Proxies = {p1, p2}
  Requests = {r1, r2}
  Limits = {0, 2}
  MaxAttempts = 2
  MaxCount = 3
  NoRoute = NoRoute
  Free = Free
SPECIFICATION FairSpec
INVARIANTS TypeOK QuotaRespected CountsEveryRequest AlwaysAnExitLeft
PROPERTIES RoutesChangeForCause LocksReleased
CHECK_DEADLOCK FALSE
