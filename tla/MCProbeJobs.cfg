CONSTANTS
  Jobs = {j1}
  Proxies = {p1, p2, p3}
  Readers = {r1}
  Slots = 2
  MaxRestarts = 1
  MaxLost = 1
  NoJob = NoJob
  NoReport = NoReport
SPECIFICATION FairSpec
INVARIANTS JobsAgree ReportsWhole
PROPERTIES JobsSettle
CHECK_DEADLOCK FALSE
