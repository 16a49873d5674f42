CONSTANTS
  w1 = w1
  w2 = w2
  l1 = l1
  r1 = r1
  e1 = e1
  e2 = e2
  e3 = e3
  a1 = a1
  a2 = a2
  Writer = {w1, w2}
  Loader = {l1}
  Unlockable = {l1}
  Reader = {r1}
  Edit = {e1, e2, e3}
  Activation = {e1}
  Nobody = Nobody
  MaxVersion = 4
  MaxFaults = 1
  Replica = {a1, a2}
  NoLeader = NoLeader
  Ghost = Ghost
  OnStartup = {1}
  MaxMinute = 2
  MaxCommits = 1
  MaxMishaps = 2
  MaxThreadDeaths = 1
SPECIFICATION ServiceSpec
INVARIANTS CommittedIsComplete ReadersSurviveOneCommit RepeatsHaveACause
PROPERTIES WorkersRecover CommitsAreAtomic
CHECK_DEADLOCK FALSE
