CONSTANTS
  k1 = k1  k2 = k2
  cA = cA  cB = cB  cC = cC
  p1 = p1  p2 = p2
  w1 = w1  w2 = w2
  Absent = Absent  Nobody = Nobody
  Identity = {k1, k2}
  Frozen = {k2}
  Content = {cA, cB, cC}
  Publisher = {p1, p2}
  Worker = {w1, w2}
  MaxAttempts = 2
  MaxCrashes = 2
  MaxLapses = 2
SPECIFICATION OutboxSpec
INVARIANTS RevisionsLinked FrozenRowsAgree RoutedOnce
PROPERTY RoutedEventsSettle
CHECK_DEADLOCK FALSE
