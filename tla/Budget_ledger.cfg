CONSTANTS
  p1 = p1  p2 = p2
  Pair = {p1, p2}
  MaxCalls = 2
  MaxDay = 2
  Cap = 2
  Estimate = 1
  Cost = {0, 2}
  MaxLosses = 1
  MaxCrashes = 1
  MaxLapses = 1
  Fallible = {"settle", "retain", "release", "log"}
  Stalls = TRUE
  c1 = c1  c2 = c2  c3 = c3
  e1 = e1  e2 = e2  e3 = e3  e4 = e4
  Roles <- TwoRoles
  Candidate = {c1, c2, c3}
  Item = {e1, e2, e3, e4}
  SideOf <- Sides
  ExposureOf <- OneExposure
  OriginOf <- Origins
  AdapterOf <- Adapter
  Collectable <- Collections
  Answers <- Debates
  Stranger = Stranger
  Share <- Shares
  Price = {0, 2}
  MaxPrice = 2
  MaxSupplied = 4
  MaxPerRole = 3
  MaxBatch = 2
  MaxPromoted = 3
  MaxChallenges = 3
  MaxErrors = 2
  NeedsOpposition = TRUE
  MaxTries = 2
  MaxUncharged = 1
  MaxDeskCrashes = 1
SPECIFICATION ModelSpec
SYMMETRY Symmetry
INVARIANT HardCap
INVARIANT CountedOnce
INVARIANT PromotionIsEarned
INVARIANT JobSpendingIsBounded
CHECK_DEADLOCK FALSE
