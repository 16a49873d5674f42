CONSTANTS
  m0 = m0
  m1 = m1
  x1 = x1
  x2 = x2
  y1 = y1
  c1 = c1
  o1 = o1
  o2 = o2
  o3 = o3
  p1 = p1
  p2 = p2
  h1 = h1
  h2 = h2
  h3 = h3
  h4 = h4
  i1 = i1
  i2 = i2
  i3 = i3
  s1 = s1
  s2 = s2
  ka = ka
  kb = kb
  r1 = r1
  r2 = r2
  Headline = {h1, h2, h3, h4}
  Item = {i1, i2, i3}
  ItemOf <- HeadlineItem
  Outlet <- ItemOutlet
  Story = {ka, kb}
  KeyOf <- HeadlineKey
  Denial = {h4}
  Router = {r1, r2}
  MaxRouterCrashes = 1
  Window = {x1, x2, y1}
  Confirmation = {c1}
  Horizons <- RowHorizons
  Rank <- RowRank
  Unpriced = {y1}
  BatchLimit = 1
  Reconciler = {o1}
  Observer = {o2, o3}
  Nothing = Nothing
  LastHorizon = 2
  MaxObserverCrashes = 1
  Release = {m0, m1}
  Original = m0
  WindowsOf <- EventWindows
  StageTime <- Stage_Time
  OwnStages <- Own_Stages
  NoCard = NoCard
  Publisher = {p1, p2}
SPECIFICATION FastSpec
PROPERTY BackfillReachesEveryRow
CHECK_DEADLOCK FALSE
