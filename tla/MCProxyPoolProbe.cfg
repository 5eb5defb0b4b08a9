CONSTANTS
  Proxies = {p1}
  Requests = {r1}
  Admins = {a1}
  Probers = {h1}
  MaxTime = 2
  MaxFailures = 1
  NoRow = NoRow
  NoSnapshot = NoSnapshot
  Free = Free
SPECIFICATION Spec
INVARIANT ProbeRestoresRoute
CHECK_DEADLOCK FALSE
