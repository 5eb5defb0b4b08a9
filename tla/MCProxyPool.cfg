CONSTANTS
  Proxies = {p1}
  Requests = {r1, r2}
  Admins = {a1}
  Probers = {h1, h2}
  MaxTime = 2
  MaxFailures = 1
  NoRow = NoRow
  NoSnapshot = NoSnapshot
  Free = Free
SPECIFICATION FairSpec
INVARIANTS TypeOK FillOnlyWhenEmpty RoutedIsCurrent UsableIsRouted
PROPERTIES OnlyLoadersPublish RequestsAnswered
CHECK_DEADLOCK FALSE
