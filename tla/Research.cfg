CONSTANTS
  d1 = d1
  d2 = d2
  u1 = u1
  MaxCase = 2
  Discovery = {d1, d2}
  Update = {u1}
  UpdateOf <- FirstCase
  Forced = {u1, d2}
  NoJob = NoJob
  Threshold <- Thresholds
  MaxDay = 2
  MaxEvidence = 2
  MaxRuns = 2
  f1 = f1
  f2 = f2
  i1 = i1
  i2 = i2
  t1 = t1
  c1 = c1
  w1 = w1
  Doc = {f1, f2}
  Newer <- LaterReport
  Interim = {f2}
  Industry = {i1, i2}
  Caller = {t1}
  Collector = {c1}
  Replica = {w1}
  NoDoc = NoDoc
  NoReplica = NoReplica
  MaxAttempts = 2
  MaxAnalyses = 2
  MaxDocMishaps = 1
  p1 = p1
  p2 = p2
  s1 = s1
  s2 = s2
  Kind <- Adapter
  Command = {p1, p2}
  Series = {s1, s2}
  Authored = {1, 2}
  ReplayDates <- DateLists
  RunBudget = 2
  Price = {1, 2}
  MaxGroups = 2
  MaxClock = 3
SPECIFICATION MCResearchSpec
INVARIANT CaseShowsItsLastSnapshot
INVARIANT ShownHypothesesAreAsked
INVARIANT AnalysedIsObserved
INVARIANT ClaimHasItsAnalysis
INVARIANT NothingFromTheFuture
INVARIANT CompletedIsClean
INVARIANT HistoryIsTheSeries
PROPERTY PairedAttemptsEnd
CHECK_DEADLOCK FALSE
