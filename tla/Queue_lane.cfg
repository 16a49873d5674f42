CONSTANTS
  w1 = w1  w2 = w2
  r1 = r1  r2 = r2
  c1 = c1  k1 = k1  win1 = win1
  Nobody = Nobody
  Worker = {w1, w2}
  Run = {r1, r2}
  Component = {c1}
  Key = {k1}
  Window = {win1}
  Request <- AllRequests
  MaxAttempts = 3
  MaxCrashes = 2
SPECIFICATION MCQueueSpec
INVARIANT RunJobAgreement
INVARIANT OneActiveJobPerIdentity
PROPERTY OutcomeOfLatestClaim
PROPERTY PromiseKept
PROPERTY LaneRunsClose
