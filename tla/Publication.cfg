CONSTANTS
  w1 = w1  w2 = w2  Nobody = Nobody
  Worker = {w1, w2}
  MaxData = 2
  MaxMinute = 2
  MaxAttempts = 2
  MaxCrashes = 1
  reuters = reuters  kobeissi = kobeissi  NoHolder = NoHolder
  Source = {reuters, kobeissi}
  MaxItem = 5
  SourceOf <- MoreFromReuters
  Untitled = {5}
  FetchLimit = 2
  Limit = 5
  MaxAborts = 2
SPECIFICATION PublicationSpec
INVARIANTS SnapshotCoversItsEvent NeverOlder CursorFollowsLedger
PROPERTIES SectionJobsEnd NewsBecomesEvents
CHECK_DEADLOCK FALSE
