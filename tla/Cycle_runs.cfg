CONSTANTS
 c1=c1 c2=c2 q1=q1 q2=q2 s1=s1 p1=p1
 Cycle = {c1,c2}
 Solo = {q1, q2}
 Source = {s1}
 Processor = {p1}
 SoloOf <- SoloRuns
 DependsOn <- OneDependency
 Consumed <- WithItsLast
 Fingerprinted <- OneDependency
 CycleLock = CycleLock
 Unlocked = Unlocked
 MaxSyncRuns = 2
 MaxCycleFaults = 1
SPECIFICATION CycleLive
INVARIANTS OneCycleAtATime ReuseIsCurrent
PROPERTY SyncRunsClose
CHECK_DEADLOCK FALSE
