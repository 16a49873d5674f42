------------------------- MODULE PublicationProofs -------------------------
(***************************************************************************)
(* What a published snapshot guarantees, for every number of workers,      *)
(* ingestion minutes, changes of the data, attempts and crashes; and, for  *)
(* any number of sources, items, failures and any limit of a fetch: a      *)
(* cursor passes an item that is missing from what was published before it *)
(* only if the source no longer showed it.  The cursor invariants are not  *)
(* inductive alone: a run under way must know that its fetch left out      *)
(* nothing else, that what it found has reached every store behind its     *)
(* current step, and that what a source no longer shows never comes back.  *)
(***************************************************************************)
EXTENDS AnalysisQueue, NewsPublication, SequenceTheorems, FiniteSetTheorems, TLAPS

Busy == {"claimed", "running", "publishing", "failing"}

\* A worker that is at work is at a job that exists.
WorkersAtJobs ==
  \A w \in Worker : pc[w] \in Busy => at[w] \in Minute /\ job[at[w]] # "none"

\* What is stored never lags behind what an event or a job says of it.
CausesStored ==
  /\ \A e \in events : e.data <= data
  /\ \A j \in Minute : job[j] # "none" => cause[j] \in 1..data

\* A handler that is about to publish has read the change its job is about.
ReadsCoverCause ==
  \A w \in Worker : pc[w] = "publishing" => seen[w] \in cause[at[w]]..data

\* A version holds no more than what is stored, and its handler had read before
\* it was published.
VersionsStored ==
  \A i \in DOMAIN versions : versions[i].data <= data /\ versions[i].base < i

\* What a handler has read is no older than the versions published by then.
ReadsCoverVersions ==
  \A w \in Worker : pc[w] = "publishing" =>
    base[w] <= Len(versions) /\ \A k \in 1..base[w] : versions[k].data <= seen[w]

SnapshotInv ==
  VersionsStored /\ ReadsCoverVersions /\ SnapshotCoversItsEvent /\ NeverOlder

QueueInv ==
  /\ TypeOK /\ WorkersAtJobs /\ CausesStored /\ ReadsCoverCause
  /\ SnapshotInv

-----------------------------------------------------------------------------
Version == [data: 0..MaxData, event: 1..MaxData, base: Nat]

\* What TypeOK says of the versions, one by one.
LEMMA VersionTypes ==
  ASSUME TypeOK
  PROVE  /\ versions \in Seq(Version) /\ Len(versions) \in Nat
         /\ DOMAIN versions = 1..Len(versions)
         /\ \A i \in 1..Len(versions) :
              versions[i].data \in Nat /\ versions[i].event \in Nat /\ versions[i].base \in Nat
<1>1. versions \in Seq(Version) /\ Len(versions) \in Nat /\ DOMAIN versions = 1..Len(versions)
  BY LenProperties DEF TypeOK, Version
<1>2. \A i \in 1..Len(versions) : versions[i] \in Version
  BY <1>1, ElementOfSeq
<1> QED BY <1>1, <1>2, QueueAssumption DEF Version

\* A step that leaves the versions and every read alone, or ends a read, keeps
\* what is known of them.
LEMMA VersionsKept ==
  ASSUME QueueInv, UNCHANGED versions, data' >= data, data' \in Nat,
         \A w \in Worker : pc'[w] = "publishing" =>
           pc[w] = "publishing" /\ seen'[w] = seen[w] /\ base'[w] = base[w]
  PROVE  SnapshotInv'
<1>1. data \in Nat
  BY QueueAssumption DEF QueueInv, TypeOK
<1>2. \A i \in DOMAIN versions : versions[i].data \in Nat
  BY VersionTypes DEF QueueInv
<1>3. VersionsStored'
  BY <1>1, <1>2 DEF QueueInv, SnapshotInv, VersionsStored
<1>4. ReadsCoverVersions' /\ SnapshotCoversItsEvent' /\ NeverOlder'
  BY DEF QueueInv, SnapshotInv, ReadsCoverVersions, SnapshotCoversItsEvent, NeverOlder
<1> QED BY <1>3, <1>4 DEF SnapshotInv

\* Only Publish writes a version.  What it appends is well formed, covers its
\* event, and is no older than the versions its handler may have known.
LEMMA PublishedVersion ==
  ASSUME QueueInv, NEW w \in Worker, Publish(w)
  PROVE  /\ versions' \in Seq(Version)
         /\ SnapshotInv'
<1> DEFINE V == Version
           n == Len(versions)
           v == [data |-> seen[w], event |-> cause[at[w]], base |-> base[w]]
<1>1. versions \in Seq(V) /\ n \in Nat /\ DOMAIN versions = 1..n
  BY VersionTypes DEF QueueInv
<1>2. /\ at[w] \in Minute /\ cause[at[w]] \in 1..data /\ seen[w] \in cause[at[w]]..data
      /\ data \in 0..MaxData
  BY DEF QueueInv, TypeOK, WorkersAtJobs, CausesStored, ReadsCoverCause, Publish, Busy
<1>3. /\ base[w] \in Nat /\ base[w] <= n
      /\ \A k \in 1..base[w] : versions[k].data <= seen[w]
  BY DEF QueueInv, TypeOK, SnapshotInv, ReadsCoverVersions, Publish
<1>4. v \in V /\ v.data >= v.event /\ v.data <= data /\ v.base < n + 1
  BY <1>1, <1>2, <1>3, QueueAssumption DEF Version
<1>5. versions' = versions \/ versions' = Append(versions, v)
  BY DEF Publish, NewVersion
<1>6. /\ data' = data
      /\ \A u \in Worker : pc'[u] = "publishing" =>
           pc[u] = "publishing" /\ seen'[u] = seen[u] /\ base'[u] = base[u]
  BY DEF QueueInv, TypeOK, Publish, Return
<1>7. CASE versions' = versions
  BY <1>1, <1>2, <1>6, <1>7, VersionsKept, QueueAssumption
<1>8. CASE versions' = Append(versions, v)
  <2>1. /\ versions' \in Seq(V) /\ Len(versions') = n + 1
        /\ \A i \in 1..n : versions'[i] = versions[i]
        /\ versions'[n + 1] = v
    BY <1>1, <1>4, <1>8, AppendProperties
  <2>2. DOMAIN versions' = 1..(n + 1) /\ 1..(n + 1) = 1..n \cup {n + 1}
    BY <1>1, <2>1, LenProperties
  <2>3. \A i \in 1..n : versions[i].base \in Nat /\ versions[i].base < i
    BY <1>1, VersionTypes DEF QueueInv, SnapshotInv, VersionsStored
  <2>4. VersionsStored'
    BY <1>1, <1>4, <1>6, <2>1, <2>2 DEF QueueInv, SnapshotInv, VersionsStored
  <2>5. ReadsCoverVersions'
    <3>1. ASSUME NEW u \in Worker, pc'[u] = "publishing"
          PROVE  /\ base'[u] <= n + 1
                 /\ \A k \in 1..base'[u] : versions'[k].data <= seen'[u]
      <4>1. /\ base'[u] = base[u] /\ base[u] \in Nat /\ base[u] <= n /\ seen'[u] = seen[u]
            /\ \A k \in 1..base[u] : versions[k].data <= seen[u]
        BY <1>6, <3>1 DEF QueueInv, TypeOK, SnapshotInv, ReadsCoverVersions
      <4>2. \A k \in 1..base[u] : k \in 1..n
        BY <1>1, <4>1
      <4>3. \A k \in 1..base[u] : versions'[k] = versions[k]
        BY <2>1, <4>2
      <4>4. base[u] <= n + 1
        BY <1>1, <4>1
      <4> QED BY <4>1, <4>3, <4>4
    <3> QED BY <2>1, <3>1 DEF ReadsCoverVersions
  <2>6. SnapshotCoversItsEvent'
    BY <1>1, <1>4, <2>1, <2>2 DEF QueueInv, SnapshotInv, SnapshotCoversItsEvent
  <2>7. NeverOlder'
    <3>1. ASSUME NEW i \in 1..n, NEW k \in 1..versions[i].base
          PROVE  versions'[k].data <= versions'[i].data
      <4>1. k \in 1..n /\ versions[k].data <= versions[i].data
        BY <1>1, <2>3, <3>1 DEF QueueInv, SnapshotInv, NeverOlder
      <4> QED BY <2>1, <4>1
    <3>2. ASSUME NEW k \in 1..v.base PROVE versions'[k].data <= v.data
      <4>1. k \in 1..n
        BY <1>1, <1>3, <3>2
      <4> QED BY <1>3, <2>1, <4>1
    <3> QED BY <2>1, <2>2, <3>1, <3>2 DEF NeverOlder
  <2> QED BY <2>1, <2>4, <2>5, <2>6, <2>7 DEF SnapshotInv
<1> QED BY <1>1, <1>5, <1>7, <1>8

\* The parts of TypeOK that a transaction on a job, or the end of a worker's
\* handling, may disturb.
JobsTyped ==
  /\ job \in [Minute -> {"none", "leased", "running"} \cup Waiting \cup Terminal]
  /\ cause \in [Minute -> 0..MaxData]
  /\ holder \in [Minute -> Worker \cup {Nobody}]
  /\ lease \in [Minute -> BOOLEAN]
  /\ attempts \in [Minute -> 0..MaxAttempts]
WorkersTyped ==
  /\ pc \in [Worker -> {"idle", "claimed", "running", "publishing", "failing", "dead"}]
  /\ at \in [Worker -> {0} \cup Minute]
  /\ try \in [Worker -> 0..MaxAttempts]
  /\ seen \in [Worker -> 0..MaxData]
  /\ base \in [Worker -> Nat]
  /\ crashes \in 0..MaxCrashes

LEMMA SetJobTyped ==
  ASSUME TypeOK, NEW j \in Minute, NEW s \in Waiting \cup Terminal, SetJob(j, s)
  PROVE  JobsTyped'
<1>1. job' \in [Minute -> {"none", "leased", "running"} \cup Waiting \cup Terminal]
  BY DEF TypeOK, SetJob
<1>2. holder' \in [Minute -> Worker \cup {Nobody}] /\ lease' \in [Minute -> BOOLEAN]
  BY DEF TypeOK, SetJob
<1> QED BY <1>1, <1>2 DEF TypeOK, SetJob, JobsTyped

LEMMA ReturnTyped ==
  ASSUME TypeOK, NEW w \in Worker, Return(w)
  PROVE  WorkersTyped'
  BY QueueAssumption DEF TypeOK, Return, WorkersTyped

LEMMA InitIInv == Init => QueueInv
<1> SUFFICES ASSUME Init PROVE QueueInv
  OBVIOUS
<1>1. TypeOK
  BY QueueAssumption, EmptySeq DEF Init, TypeOK, Minute, Waiting, Terminal
<1>2. WorkersAtJobs /\ CausesStored /\ ReadsCoverCause /\ SnapshotInv
  BY EmptySeq DEF Init, WorkersAtJobs, CausesStored, ReadsCoverCause, SnapshotInv,
     VersionsStored, ReadsCoverVersions, SnapshotCoversItsEvent, NeverOlder, Busy
<1> QED BY <1>1, <1>2 DEF QueueInv

LEMMA NextIInv == QueueInv /\ [Next]_vars => QueueInv'
<1> SUFFICES ASSUME QueueInv, [Next]_vars PROVE QueueInv'
  OBVIOUS
<1> USE QueueAssumption DEF QueueInv
<1>0. data \in Nat /\ data <= MaxData
  BY DEF TypeOK
<1>1. CASE Observe
  <2>1. TypeOK'
    BY <1>1 DEF TypeOK, Observe, jobVars, workerVars
  <2>2. SnapshotInv'
    BY <1>0, <1>1, VersionsKept DEF Observe, workerVars
  <2> QED BY <1>1, <2>1, <2>2 DEF TypeOK, Observe, jobVars, workerVars, WorkersAtJobs,
             CausesStored, ReadsCoverCause
<1>2. CASE MinutePasses
  <2>1. TypeOK'
    <3>1. minute' \in Minute
      BY <1>2 DEF TypeOK, MinutePasses, Minute
    <3> QED BY <1>2, <3>1 DEF TypeOK, MinutePasses, jobVars, workerVars
  <2>2. SnapshotInv'
    BY <1>0, <1>2, VersionsKept DEF MinutePasses, workerVars
  <2> QED BY <1>2, <2>1, <2>2 DEF MinutePasses, jobVars, workerVars, WorkersAtJobs,
             CausesStored, ReadsCoverCause
<1>3. ASSUME NEW e \in events, RouteEvent(e) PROVE QueueInv'
  <2>1. e.minute \in Minute /\ e.data \in 1..data
    BY DEF TypeOK, CausesStored
  <2>2. TypeOK'
    <3>1. CASE job[e.minute] = "none"
      <4>1. job' = [job EXCEPT ![e.minute] = "queued"] /\ cause' = [cause EXCEPT ![e.minute] = e.data]
        BY <1>3, <3>1 DEF RouteEvent, Enqueue
      <4>2. e.data \in 0..MaxData /\ "queued" \in Waiting
        BY <2>1 DEF TypeOK, Waiting
      <4> QED BY <1>3, <2>1, <4>1, <4>2 DEF TypeOK, RouteEvent, workerVars
    <3>2. CASE job[e.minute] # "none"
      BY <1>3, <3>2 DEF TypeOK, RouteEvent, Enqueue, workerVars
    <3> QED BY <3>1, <3>2
  <2>3. /\ \A j \in Minute : job[j] # "none" => job'[j] = job[j] /\ cause'[j] = cause[j]
        /\ \A j \in Minute : job'[j] # "none" => cause'[j] \in 1..data
    BY <1>3, <2>1 DEF TypeOK, RouteEvent, Enqueue, CausesStored
  <2>4. WorkersAtJobs' /\ ReadsCoverCause'
    BY <1>3, <2>3 DEF RouteEvent, workerVars, WorkersAtJobs, ReadsCoverCause, Busy
  <2>5. CausesStored'
    BY <1>3, <2>3 DEF RouteEvent, CausesStored
  <2>6. SnapshotInv'
    BY <1>0, <1>3, VersionsKept DEF RouteEvent, workerVars
  <2> QED BY <2>2, <2>4, <2>5, <2>6
<1>4. ASSUME NEW w \in Worker, NEW j \in Minute, Claim(w, j) PROVE QueueInv'
  <2>1. TypeOK'
    <3>1. job' \in [Minute -> {"none", "leased", "running"} \cup Waiting \cup Terminal]
      BY <1>4 DEF TypeOK, Claim
    <3>2. /\ holder' \in [Minute -> Worker \cup {Nobody}]
          /\ lease' \in [Minute -> BOOLEAN]
      BY <1>4 DEF TypeOK, Claim
    <3>3. attempts' \in [Minute -> 0..MaxAttempts] /\ try' \in [Worker -> 0..MaxAttempts]
      BY <1>4 DEF TypeOK, Claim, Claimable
    <3> QED BY <1>4, <3>1, <3>2, <3>3 DEF TypeOK, Claim
  <2>2. job[j] # "none"
    BY <1>4 DEF Claim, Claimable, Waiting
  <2>3. WorkersAtJobs'
    BY <1>4 DEF TypeOK, Claim, WorkersAtJobs, Busy
  <2>4. CausesStored' /\ ReadsCoverCause'
    BY <1>4, <2>2 DEF TypeOK, Claim, CausesStored, ReadsCoverCause
  <2>5. SnapshotInv'
    <3>1. \A u \in Worker : pc'[u] = "publishing" => pc[u] = "publishing"
      BY <1>4 DEF TypeOK, Claim
    <3>2. UNCHANGED <<versions, data, seen, base>>
      BY <1>4 DEF Claim
    <3> QED BY <1>0, <3>1, <3>2, VersionsKept
  <2> QED BY <2>1, <2>3, <2>4, <2>5
<1>5. ASSUME NEW w \in Worker, StartJob(w) PROVE QueueInv'
  <2>1. at[w] \in Minute /\ job[at[w]] # "none"
    BY <1>5 DEF StartJob, WorkersAtJobs, Busy
  <2>2. CASE Return(w) /\ UNCHANGED job
    <3>0. \A u \in Worker : pc'[u] = "publishing" =>
             pc[u] = "publishing" /\ seen'[u] = seen[u] /\ base'[u] = base[u]
      BY <2>2 DEF TypeOK, Return
    <3>a. data' = data /\ versions' = versions
      BY <1>5 DEF StartJob
    <3>1. SnapshotInv'
      <4>1. data' >= data /\ data' \in Nat
        BY <1>0, <3>a
      <4> QED BY <3>0, <3>a, <4>1, VersionsKept
    <3>2. TypeOK'
      <4>1. WorkersTyped'
        BY <2>2, ReturnTyped
      <4> QED BY <1>5, <2>2, <4>1 DEF TypeOK, StartJob, WorkersTyped
    <3>3. WorkersAtJobs' /\ CausesStored' /\ ReadsCoverCause'
      BY <1>5, <2>2 DEF TypeOK, StartJob, Return, WorkersAtJobs, CausesStored,
         ReadsCoverCause, Busy
    <3> QED BY <3>1, <3>2, <3>3
  <2>3. CASE job' = [job EXCEPT ![at[w]] = "running"] /\ Goto(w, "running") /\ UNCHANGED <<at, try, seen, crashes, base>>
    <3>1. SnapshotInv'
      BY <1>0, <1>5, <2>3, VersionsKept DEF TypeOK, StartJob, Goto
    <3> QED BY <1>5, <2>1, <2>3, <3>1 DEF TypeOK, StartJob, Goto, WorkersAtJobs, CausesStored,
               ReadsCoverCause, Busy
  <2> QED BY <1>5, <2>2, <2>3 DEF StartJob
<1>6. ASSUME NEW w \in Worker, ReadRows(w) PROVE QueueInv'
  <2>1. at[w] \in Minute /\ cause[at[w]] \in 1..data
    BY <1>6 DEF ReadRows, WorkersAtJobs, CausesStored, Busy
  <2>2. Len(versions) \in Nat /\ DOMAIN versions = 1..Len(versions)
    BY LenProperties DEF TypeOK
  <2>3. TypeOK'
    BY <1>6, <2>2 DEF TypeOK, ReadRows, Goto, jobVars
  <2>4. ReadsCoverVersions'
    <3>1. ASSUME NEW u \in Worker, pc'[u] = "publishing"
          PROVE  /\ base'[u] <= Len(versions)
                 /\ \A k \in 1..base'[u] : versions[k].data <= seen'[u]
      <4>1. CASE u = w
        <5>1. base'[u] = Len(versions) /\ seen'[u] = data
          BY <1>6, <4>1 DEF ReadRows, TypeOK
        <5>2. \A k \in 1..Len(versions) : versions[k].data <= data
          BY <2>2 DEF SnapshotInv, VersionsStored
        <5> QED BY <2>2, <5>1, <5>2
      <4>2. CASE u # w
        <5>1. base'[u] = base[u] /\ seen'[u] = seen[u] /\ pc[u] = "publishing"
          BY <1>6, <3>1, <4>2 DEF ReadRows, Goto, TypeOK
        <5> QED BY <5>1 DEF SnapshotInv, ReadsCoverVersions
      <4> QED BY <4>1, <4>2
    <3>2. versions' = versions
      BY <1>6 DEF ReadRows
    <3> QED BY <3>1, <3>2 DEF ReadsCoverVersions
  <2>5. SnapshotInv'
    BY <1>6, <2>4 DEF ReadRows, SnapshotInv, VersionsStored, SnapshotCoversItsEvent, NeverOlder
  <2>6. WorkersAtJobs'
    BY <1>6, <2>1 DEF TypeOK, ReadRows, Goto, jobVars, WorkersAtJobs, Busy
  <2>7. CausesStored'
    BY <1>6 DEF ReadRows, jobVars, CausesStored
  <2>8. ReadsCoverCause'
    <3>1. seen'[w] \in cause[at[w]]..data
      BY <1>0, <1>6, <2>1 DEF TypeOK, ReadRows
    <3>2. \A u \in Worker \ {w} : seen'[u] = seen[u] /\ pc'[u] = pc[u]
      BY <1>6 DEF TypeOK, ReadRows, Goto
    <3> QED BY <1>6, <3>1, <3>2 DEF ReadRows, jobVars, ReadsCoverCause
  <2> QED BY <2>3, <2>5, <2>6, <2>7, <2>8
<1>7. ASSUME NEW w \in Worker, Publish(w) PROVE QueueInv'
  <2>1. versions' \in Seq(Version) /\ SnapshotInv'
    BY <1>7, PublishedVersion
  <2>2. at[w] \in Minute
    BY <1>7 DEF Publish, WorkersAtJobs, Busy
  <2>3. TypeOK'
    <3>1. SetJob(at[w], "succeeded") /\ Return(w) /\ UNCHANGED <<data, minute, events>>
      BY <1>7 DEF Publish
    <3>2. "succeeded" \in Waiting \cup Terminal
      BY DEF Terminal
    <3> QED BY <2>1, <2>2, <3>1, <3>2, SetJobTyped, ReturnTyped DEF TypeOK, Version, JobsTyped, WorkersTyped
  <2>4. WorkersAtJobs' /\ CausesStored' /\ ReadsCoverCause'
    BY <1>7, <2>2 DEF TypeOK, Publish, SetJob, Return, WorkersAtJobs, CausesStored,
       ReadsCoverCause, Busy, Holds
  <2> QED BY <2>1, <2>3, <2>4
<1>8. ASSUME NEW w \in Worker, HandlerFails(w) PROVE QueueInv'
  <2>1. SnapshotInv'
    <3>1. \A u \in Worker : pc'[u] = "publishing" => pc[u] = "publishing"
      BY <1>8 DEF TypeOK, HandlerFails, Goto
    <3>2. UNCHANGED <<versions, data, seen, base>>
      BY <1>8 DEF HandlerFails
    <3> QED BY <1>0, <3>1, <3>2, VersionsKept
  <2> QED BY <1>8, <2>1 DEF TypeOK, HandlerFails, Goto, jobVars, WorkersAtJobs, CausesStored,
             ReadsCoverCause, Busy
<1>9. ASSUME NEW w \in Worker, GiveBack(w) PROVE QueueInv'
  <2>1. at[w] \in Minute /\ job[at[w]] # "none"
    BY <1>9 DEF GiveBack, WorkersAtJobs, Busy
  <2>2. TypeOK'
    <3>1. ASSUME NEW s \in {"failed_terminal", "failed_retryable"}, SetJob(at[w], s)
          PROVE  TypeOK'
      <4>1. s \in Waiting \cup Terminal
        BY DEF Waiting, Terminal
      <4>2. JobsTyped' /\ WorkersTyped'
        BY <1>9, <2>1, <3>1, <4>1, SetJobTyped, ReturnTyped DEF GiveBack
      <4> QED BY <1>9, <4>2 DEF TypeOK, GiveBack, JobsTyped, WorkersTyped
    <3>2. CASE UNCHANGED jobVars
      <4>1. WorkersTyped'
        BY <1>9, ReturnTyped DEF GiveBack
      <4> QED BY <1>9, <3>2, <4>1 DEF TypeOK, GiveBack, jobVars, WorkersTyped
    <3> QED BY <1>9, <3>1, <3>2 DEF GiveBack
  <2>3. SnapshotInv'
    <3>1. \A u \in Worker : u # w => pc'[u] = pc[u] /\ seen'[u] = seen[u] /\ base'[u] = base[u]
      BY <1>9 DEF TypeOK, GiveBack, Return
    <3>2. pc'[w] # "publishing" /\ UNCHANGED <<versions, data>>
      BY <1>9 DEF TypeOK, GiveBack, Return
    <3> QED BY <1>0, <3>1, <3>2, VersionsKept
  <2>4. WorkersAtJobs' /\ CausesStored' /\ ReadsCoverCause'
    BY <1>9, <2>1 DEF TypeOK, GiveBack, SetJob, Return, jobVars, WorkersAtJobs,
       CausesStored, ReadsCoverCause, Busy
  <2> QED BY <2>2, <2>3, <2>4
<1>10. ASSUME NEW w \in Worker, Crash(w) \/ Restart(w) PROVE QueueInv'
  <2>1. CASE Crash(w)
    <3>1. SnapshotInv'
      <4>1. \A u \in Worker : u # w => pc'[u] = pc[u] /\ seen'[u] = seen[u] /\ base'[u] = base[u]
        BY <2>1 DEF TypeOK, Crash
      <4>2. pc'[w] # "publishing" /\ UNCHANGED <<versions, data>>
        BY <2>1 DEF TypeOK, Crash
      <4> QED BY <1>0, <4>1, <4>2, VersionsKept
    <3> QED BY <2>1, <3>1 DEF TypeOK, Crash, jobVars, WorkersAtJobs, CausesStored,
               ReadsCoverCause, Busy
  <2>2. CASE Restart(w)
    <3>1. SnapshotInv'
      BY <1>0, <2>2, VersionsKept DEF TypeOK, Restart, Goto
    <3> QED BY <2>2, <3>1 DEF TypeOK, Restart, Goto, jobVars, WorkersAtJobs, CausesStored,
               ReadsCoverCause, Busy
  <2> QED BY <1>10, <2>1, <2>2
<1>11. ASSUME NEW j \in Minute, LeaseLapses(j) PROVE QueueInv'
  <2>1. SnapshotInv'
    BY <1>0, <1>11, VersionsKept DEF LeaseLapses, workerVars
  <2> QED BY <1>11, <2>1 DEF TypeOK, LeaseLapses, workerVars, WorkersAtJobs, CausesStored,
             ReadsCoverCause, Busy
<1>12. ASSUME NEW j \in Minute, Reconcile(j) PROVE QueueInv'
  <2>1. job[j] # "none"
    BY <1>12 DEF Reconcile, Expired
  <2>2. TypeOK'
    BY <1>12 DEF TypeOK, Reconcile, SetJob, workerVars, Terminal, Waiting
  <2>3. SnapshotInv'
    BY <1>0, <1>12, VersionsKept DEF Reconcile, workerVars
  <2>4. WorkersAtJobs' /\ CausesStored' /\ ReadsCoverCause'
    BY <1>12, <2>1 DEF TypeOK, Reconcile, SetJob, workerVars, WorkersAtJobs,
       CausesStored, ReadsCoverCause, Busy
  <2> QED BY <2>2, <2>3, <2>4
<1>13. CASE UNCHANGED vars
  <2>1. SnapshotInv'
    BY <1>0, <1>13, VersionsKept DEF vars, workerVars
  <2> QED BY <1>13, <2>1 DEF vars, jobVars, workerVars, TypeOK, WorkersAtJobs, CausesStored,
             ReadsCoverCause
<1> QED
  BY <1>1, <1>2, <1>3, <1>4, <1>5, <1>6, <1>7, <1>8, <1>9, <1>10, <1>11, <1>12, <1>13
  DEF Next, Handle

\* The invariant of the analysis lane: types, workers at existing jobs, stored
\* causes, reads that cover them and the versions before them, and snapshots.
THEOREM QueueInvariant == Spec => []QueueInv
BY InitIInv, NextIInv, PTL DEF Spec

\* No job is ever attempted more often than max_attempts, and every variable
\* keeps its type.
THEOREM AttemptsBounded == Spec => []TypeOK
<1>1. QueueInv => TypeOK
  BY DEF QueueInv
<1> QED BY <1>1, QueueInvariant, PTL

\* A published snapshot includes the observation of the event it cites.
THEOREM SnapshotsCoverTheirEvents == Spec => []SnapshotCoversItsEvent
<1>1. QueueInv => SnapshotCoversItsEvent
  BY DEF QueueInv, SnapshotInv
<1> QED BY <1>1, QueueInvariant, PTL

\* The section never goes back to data older than a version that was there when
\* the handler read, however many replicas rebuild it and in whatever order.
THEOREM SnapshotsNeverRegress == Spec => []NeverOlder
<1>1. QueueInv => NeverOlder
  BY DEF QueueInv, SnapshotInv
<1> QED BY <1>1, QueueInvariant, PTL

\* The section changes only in the transaction in which the holder of a job
\* completes it: no lost, failed or repeated attempt touches it.
THEOREM OnlyHoldersPublish == Spec => PublishedByHolder
<1> DEFINE Fenced == versions' # versions =>
                       \E w \in Worker : \E j \in Minute :
                         at[w] = j /\ Holds(w) /\ job'[j] = "succeeded"
<1>1. ASSUME QueueInv, [Next]_vars PROVE [Fenced]_vars
  <2>1. CASE \E w \in Worker : Publish(w)
    <3>1. PICK w \in Worker : Publish(w)
      BY <2>1
    <3>2. at[w] \in Minute
      BY <1>1, <3>1 DEF QueueInv, Publish, WorkersAtJobs, Busy
    <3>3. job'[at[w]] = "succeeded" /\ Holds(w)
      BY <1>1, <3>1, <3>2 DEF QueueInv, TypeOK, Publish, SetJob
    <3> QED BY <3>2, <3>3
  <2>2. CASE ~\E w \in Worker : Publish(w)
    <3>1. versions' = versions
      BY <1>1, <2>2 DEF Next, Handle, Observe, MinutePasses, RouteEvent, Claim, StartJob,
         ReadRows, HandlerFails, GiveBack, Crash, Restart, LeaseLapses, Reconcile, vars
    <3> QED BY <3>1
  <2> QED BY <2>1, <2>2
<1> QED BY <1>1, QueueInvariant, PTL DEF Spec, PublishedByHolder
-----------------------------------------------------------------------------
\* What the run under way found is in its snapshot, and the whole snapshot is in
\* every store behind its current step.
FoundIsStored ==
  /\ step \in {"building", "observing", "publishing", "committing"} => found \subseteq snapshot[lockHolder]
  /\ step \in {"observing", "publishing", "committing"} => snapshot[lockHolder] \subseteq feed
  /\ step \in {"publishing", "committing"} => snapshot[lockHolder] \subseteq observed

\* What a source no longer shows.
Gone(s) == Published(s) \ Offered(s)

\* A cursor, and a fetch, hold published items; below what a fetch has found it
\* leaves out only what the cursor had seen or the source no longer showed.
FetchIsWhole ==
  /\ \A s \in Source : cursor[s] \subseteq Published(s)
  /\ step = "free" => found = {}
  /\ step # "free" =>
       /\ found \subseteq Published(lockHolder)
       /\ \A k \in found : \A i \in Published(lockHolder) :
            i < k => i \in found \cup cursor[lockHolder] \cup Gone(lockHolder)

FetchInv == NewsTypeOK /\ FoundIsStored /\ FetchIsWhole
CursorInv == FetchInv /\ CursorFollowsPublication

LEMMA Initially == NewsInit => CursorInv
<1> SUFFICES ASSUME NewsInit PROVE CursorInv
  OBVIOUS
<1> USE NewsAssumption DEF NewsInit
<1>1. NewsTypeOK /\ FoundIsStored /\ FetchIsWhole
  BY DEF NewsTypeOK, FoundIsStored, FetchIsWhole
<1>2. \A s \in Source : Passed(s) = {}
  BY DEF Passed
<1> QED BY <1>1, <1>2 DEF CursorInv, FetchInv, CursorFollowsPublication

\* A feed that fits one publication is published whole.
LEMMA NewestIsAll ==
  ASSUME Limit >= MaxItem, NEW items \in SUBSET Item
  PROVE  Newest(items) = items
<1> SUFFICES ASSUME NEW i \in items
             PROVE  Cardinality({k \in items : k > i}) < Limit
  BY DEF Newest, NewestOf
<1> DEFINE Later == {k \in items : k > i}
<1>1. IsFiniteSet(Item) /\ Cardinality(Item) = MaxItem
  BY FS_Interval, NewsAssumption DEF Item
<1>2. Later \subseteq Item \ {i} /\ i \in Item
  <2>1. \A k \in Item : k \in Int
    BY NewsAssumption DEF Item
  <2>2. ~(i > i)
    BY <2>1
  <2> QED
    BY <2>2
<1>3. IsFiniteSet(Item \ {i}) /\ Cardinality(Item \ {i}) = MaxItem - 1
  BY <1>1, <1>2, FS_RemoveElement
<1>4. IsFiniteSet(Later) /\ Cardinality(Later) <= Cardinality(Item \ {i})
  BY <1>2, <1>3, FS_Subset
<1>5. Cardinality(Later) \in Nat
  BY <1>4, FS_CardinalityType
<1> QED
  BY <1>3, <1>4, <1>5, NewsAssumption

\* What is gone stays gone: the sources only publish more.
LEMMA GoneStaysGone ==
  ASSUME NewsTypeOK, upstream' = upstream \/ upstream' = upstream + 1, NEW s \in Source
  PROVE  Published(s) \subseteq Published(s)' /\ Gone(s) \subseteq Gone(s)'
<1>1. upstream \in Nat /\ upstream' \in Nat /\ upstream <= upstream'
  BY NewsAssumption DEF NewsTypeOK
<1>2. Published(s) \subseteq Published(s)'
  BY <1>1 DEF Published
<1>3. SUFFICES ASSUME NEW i \in Published(s), i \notin Offered(s)
               PROVE  i \notin Offered(s)'
  BY <1>2 DEF Gone
<1> DEFINE Above == {k \in Published(s) : k > i}
           Later == {k \in Published(s)' : k > i}
<1>4. Above \subseteq Later
  BY <1>2
<1>5. IsFiniteSet(Later)
  <2>1. IsFiniteSet(1..upstream')
    BY <1>1, FS_Interval
  <2>2. Later \subseteq 1..upstream'
    BY DEF Published
  <2> QED BY <2>1, <2>2, FS_Subset
<1>6. IsFiniteSet(Above) /\ Cardinality(Above) <= Cardinality(Later)
  BY <1>4, <1>5, FS_Subset
<1>7. Cardinality(Above) \in Nat /\ Cardinality(Later) \in Nat
  BY <1>5, <1>6, FS_CardinalityType
<1>8. ~(Cardinality(Above) < FetchLimit)
  BY <1>3 DEF Offered, NewestOf
<1>9. ~(Cardinality(Later) < FetchLimit)
  <2> HIDE DEF Above, Later
  <2> QED BY <1>6, <1>7, <1>8, NewsAssumption
<1> QED BY <1>9 DEF Offered, NewestOf

LEMMA Finishes ==
  ASSUME NewsTypeOK, Finish PROVE lockHolder' = NoHolder /\ step' = "free" /\ found' = {}
BY DEF Finish, ReleaseSource

LEMMA TypesPreserved ==
  ASSUME FetchInv, [NewsNext]_newsVars
  PROVE  NewsTypeOK' /\ FoundIsStored'
<1> USE NewsAssumption DEF FetchInv
<1>1. CASE Arrive
  BY <1>1 DEF Arrive, NewsTypeOK, FoundIsStored, stored
<1>2. ASSUME NEW s \in Source, Collect(s) PROVE NewsTypeOK' /\ FoundIsStored'
  <2>1. found' \subseteq Item
    <3>1. Offered(s) \subseteq 1..upstream
      BY DEF Offered, NewestOf, Published
    <3> QED BY <1>2, <3>1 DEF Collect, NewsTypeOK, Item
  <2> QED
    BY <1>2, <2>1 DEF Collect, NewsTypeOK, FoundIsStored, stored
<1>3. CASE Merge
  BY <1>3 DEF Merge, Continue, NewsTypeOK, FoundIsStored
<1>4. CASE BuildFeed
  <2>1. feed' \subseteq Item /\ \A s \in Source : snapshot[s] \subseteq feed'
    BY <1>4 DEF BuildFeed, NewsTypeOK
  <2>2. lockHolder \in Source
    BY <1>4 DEF BuildFeed, NewsTypeOK
  <2> QED
    BY <1>4, <2>1, <2>2 DEF BuildFeed, Continue, NewsTypeOK, FoundIsStored
<1>5. CASE PersistObservations
  BY <1>5 DEF PersistObservations, Continue, NewsTypeOK, FoundIsStored
<1>6. CASE PublishEvents
  <2>1. Newest(feed) \subseteq Item
    BY DEF Newest, NewestOf, NewsTypeOK
  <2> QED
    BY <1>6, <2>1 DEF PublishEvents, Continue, NewsTypeOK, FoundIsStored
<1>7. CASE Reject
  BY <1>7, Finishes DEF Reject, Finish, NewsTypeOK, FoundIsStored, stored
<1>8. CASE CommitCursor
  <2>1. lockHolder \in Source
    BY <1>8 DEF CommitCursor, NewsTypeOK
  <2> QED
    BY <1>8, <2>1, Finishes DEF CommitCursor, Finish, NewsTypeOK, FoundIsStored
<1>9. CASE Abort
  BY <1>9, Finishes DEF Abort, Finish, NewsTypeOK, FoundIsStored, stored
<1>10. CASE UNCHANGED newsVars
  BY <1>10 DEF newsVars, stored, NewsTypeOK, FoundIsStored
<1> QED
  BY <1>1, <1>2, <1>3, <1>4, <1>5, <1>6, <1>7, <1>8, <1>9, <1>10 DEF NewsNext, Advance

LEMMA WholePreserved ==
  ASSUME FetchInv, [NewsNext]_newsVars
  PROVE  FetchIsWhole'
<1> USE DEF FetchInv
<1>1. upstream' = upstream \/ upstream' = upstream + 1
  BY DEF NewsNext, Arrive, Collect, Advance, Merge, BuildFeed, PersistObservations, PublishEvents,
         Reject, CommitCursor, Abort, Continue, Finish, newsVars
<1>2. \A s \in Source : Published(s) \subseteq Published(s)' /\ Gone(s) \subseteq Gone(s)'
  BY <1>1, GoneStaysGone
<1>3. ASSUME NEW s \in Source, Collect(s) PROVE FetchIsWhole'
  <2>1. /\ found' = Offered(s) \ cursor[s] /\ lockHolder' = s /\ step' = "merging"
        /\ cursor' = cursor /\ upstream' = upstream
    BY <1>3 DEF Collect, stored
  <2>2. Published(s)' = Published(s) /\ Offered(s)' = Offered(s) /\ Gone(s)' = Gone(s)
    BY <2>1 DEF Published, Offered, Gone
  <2>3. Offered(s) \subseteq Published(s)
    BY DEF Offered, NewestOf
  <2>4. found' \subseteq Published(s)'
    BY <2>1, <2>2, <2>3
  <2>5. \A i \in Published(s)' : i \in found' \cup cursor'[s] \cup Gone(s)'
    BY <2>1, <2>2 DEF Gone
  <2> QED BY <1>2, <2>1, <2>4, <2>5 DEF FetchIsWhole
<1>4. CASE Arrive \/ Merge \/ BuildFeed \/ PersistObservations \/ PublishEvents \/ UNCHANGED newsVars
  <2>1. UNCHANGED <<cursor, found, lockHolder>> /\ (step' = "free" <=> step = "free")
    BY <1>4 DEF Arrive, Merge, BuildFeed, PersistObservations, PublishEvents, Continue, newsVars, stored
  <2>2. CASE step = "free"
    BY <1>2, <2>1, <2>2 DEF FetchIsWhole
  <2>3. CASE step # "free"
    <3>1. PICK h \in Source : h = lockHolder
      BY <2>3 DEF NewsTypeOK
    <3>2. ASSUME NEW k \in found, NEW i \in Published(h)', i < k
          PROVE  i \in found \cup cursor[h] \cup Gone(h)'
      <4>1. k \in 1..upstream /\ i \in 1..upstream' /\ SourceOf[i] = h
        BY <2>1, <2>3, <3>1 DEF FetchIsWhole, Published
      <4>2. upstream \in Nat
        BY NewsAssumption DEF NewsTypeOK
      <4>3. i \in Published(h)
        BY <1>1, <3>2, <4>1, <4>2 DEF Published
      <4>4. i \in found \cup cursor[h] \cup Gone(h)
        BY <2>3, <3>1, <3>2, <4>3 DEF FetchIsWhole
      <4> QED BY <1>2, <4>4
    <3>3. found \subseteq Published(h)'
      BY <1>2, <2>3, <3>1 DEF FetchIsWhole
    <3>4. \A s \in Source : cursor[s] \subseteq Published(s)'
      BY <1>2 DEF FetchIsWhole
    <3>5. h = lockHolder'
      BY <2>1, <3>1
    <3> QED BY <2>1, <2>3, <3>2, <3>3, <3>4, <3>5 DEF FetchIsWhole
  <2> QED BY <2>2, <2>3
<1>5. CASE Reject \/ CommitCursor \/ Abort
  <2>1. step' = "free" /\ found' = {}
    BY <1>5, Finishes DEF Reject, CommitCursor, Abort
  <2>2. \A s \in Source : cursor'[s] \subseteq cursor[s] \cup IF s = lockHolder /\ step # "free" THEN found ELSE {}
    BY <1>5 DEF Reject, CommitCursor, Abort, stored, NewsTypeOK
  <2>3. \A s \in Source : cursor'[s] \subseteq Published(s)
    BY <2>2 DEF FetchIsWhole
  <2> QED BY <1>2, <2>1, <2>3 DEF FetchIsWhole
<1> QED BY <1>3, <1>4, <1>5 DEF NewsNext, Advance

\* What is overtaken stays so; only the end of a run lets its cursor pass more, and
\* of that all but what was gone is in the snapshot of its source.
LEMMA PassedBefore ==
  ASSUME FetchInv, [NewsNext]_newsVars, NEW s \in Source,
         NEW i, i \in Passed(s)', i \notin Overtaken(s)'
  PROVE  \/ i \in Passed(s) \ Overtaken(s)
         \/ CommitCursor /\ s = lockHolder /\ i \in snapshot[s]
<1> USE DEF FetchInv
<1>1. upstream' = upstream \/ upstream' = upstream + 1
  BY DEF NewsNext, Arrive, Collect, Advance, Merge, BuildFeed, PersistObservations, PublishEvents,
         Reject, CommitCursor, Abort, Continue, Finish, newsVars
<1>2. Published(s) \subseteq Published(s)' /\ Gone(s) \subseteq Gone(s)'
  BY <1>1, GoneStaysGone
<1>3. i \notin Gone(s) \/ i \in snapshot[s]' \cup found'
  BY <1>2 DEF Overtaken, Gone
<1>4. i \notin Overtaken(s)
  <2>1. SUFFICES ASSUME i \in Gone(s), i \in snapshot[s]' \cup found' PROVE i \in snapshot[s] \cup found
    BY <1>3 DEF Overtaken, Gone
  <2>2. CASE \E q \in Source : Collect(q)
    <3>1. PICK q \in Source : Collect(q)
      BY <2>2
    <3>2. snapshot' = snapshot /\ found' \subseteq Offered(q) /\ Offered(q) \subseteq Published(q)
      BY <3>1 DEF Collect, stored, Offered, NewestOf
    <3>3. i \notin Offered(q)
      BY <2>1, <3>2 DEF Gone, Published
    <3> QED BY <2>1, <3>2, <3>3
  <2>3. CASE ~\E q \in Source : Collect(q)
    <3>1. found' \subseteq found
      BY <2>3 DEF NewsNext, Arrive, Advance, Merge, BuildFeed, PersistObservations, PublishEvents,
             Reject, CommitCursor, Abort, Continue, Finish, newsVars
    <3>2. snapshot'[s] \subseteq snapshot[s] \cup found
      BY <2>3 DEF NewsNext, Arrive, Advance, Merge, BuildFeed, PersistObservations, PublishEvents,
             Reject, CommitCursor, Abort, Continue, Finish, newsVars, stored, NewsTypeOK
    <3> QED BY <2>1, <3>1, <3>2
  <2> QED BY <2>2, <2>3
<1>5. CASE cursor' = cursor
  BY <1>4, <1>5 DEF Passed
<1>6. CASE CommitCursor
  <2>1. /\ lockHolder \in Source /\ step = "committing"
        /\ cursor' = [cursor EXCEPT ![lockHolder] = @ \cup found]
    BY <1>6 DEF CommitCursor, NewsTypeOK
  <2>2. PICK k \in cursor'[s] : i <= k
    BY DEF Passed
  <2>3. i \in Item /\ SourceOf[i] = s
    BY DEF Passed
  <2>4. CASE k \in cursor[s]
    BY <1>4, <2>2, <2>3, <2>4 DEF Passed
  <2>5. CASE k \notin cursor[s]
    <3>1. s = lockHolder /\ k \in found
      BY <2>1, <2>2, <2>5 DEF NewsTypeOK
    <3>2. found \subseteq snapshot[s]
      BY <2>1, <3>1 DEF FoundIsStored
    <3>3. k \in Published(s)
      BY <2>1, <3>1 DEF FetchIsWhole
    <3>4. CASE i = k
      BY <1>6, <3>1, <3>2, <3>4
    <3>5. CASE i # k
      <4>1. k \in 1..upstream /\ upstream \in Nat
        BY <3>3, NewsAssumption DEF Published, NewsTypeOK
      <4>2. i < k /\ i \in Published(s)
        <5>1. i \in Nat /\ i >= 1
          BY <2>3, NewsAssumption DEF Item
        <5>2. i < k /\ i \in 1..upstream
          BY <2>2, <3>5, <4>1, <5>1
        <5> QED BY <2>3, <5>2 DEF Published
      <4>3. i \in found \cup cursor[s] \cup Gone(s)
        BY <2>1, <3>1, <4>2 DEF FetchIsWhole
      <4>4. CASE i \in cursor[s]
        <5>1. i <= i
          BY <2>3, NewsAssumption DEF Item
        <5> QED BY <1>4, <2>3, <4>4, <5>1 DEF Passed
      <4>5. CASE i \in found
        BY <1>6, <3>1, <3>2, <4>5
      <4>6. CASE i \in Gone(s) /\ i \notin found
        <5>1. i \in snapshot[s]
          BY <1>4, <4>6 DEF Overtaken, Gone
        <5> QED BY <1>6, <3>1, <5>1
      <4> QED BY <4>3, <4>4, <4>5, <4>6
    <3> QED BY <3>4, <3>5
  <2> QED BY <2>4, <2>5
<1>7. cursor' = cursor \/ CommitCursor
  BY DEF NewsNext, Arrive, Collect, Advance, Merge, BuildFeed, PersistObservations, PublishEvents,
         Reject, Abort, newsVars, stored
<1> QED BY <1>5, <1>6, <1>7

LEMMA Preserved == CursorInv /\ [NewsNext]_newsVars => CursorInv'
<1> SUFFICES ASSUME FetchInv, CursorFollowsPublication, [NewsNext]_newsVars
             PROVE  CursorInv'
  BY DEF CursorInv
<1>1. FetchInv'
  BY TypesPreserved, WholePreserved DEF FetchInv
<1>2. ASSUME NEW s \in Source, NEW i, i \in Passed(s)', i \notin Overtaken(s)'
      PROVE  i \in snapshot[s] \cap feed \cap observed
  <2>1. CASE i \in Passed(s) \ Overtaken(s)
    BY <2>1 DEF CursorFollowsPublication
  <2>2. CASE CommitCursor /\ s = lockHolder /\ i \in snapshot[s]
    BY <2>2 DEF CommitCursor, FetchInv, FoundIsStored
  <2> QED BY <1>2, <2>1, <2>2, PassedBefore
<1>3. /\ observed \subseteq observed'
      /\ \A s \in Source : /\ snapshot[s] \subseteq snapshot'[s]
                           /\ snapshot[s] \cap feed \subseteq feed'
  <2>1. CASE BuildFeed
    BY <2>1 DEF BuildFeed
  <2>2. CASE ~BuildFeed
    <3>1. feed' = feed /\ observed \subseteq observed'
      BY <2>2 DEF NewsNext, Arrive, Collect, Advance, Merge, PersistObservations, PublishEvents,
             Reject, CommitCursor, Abort, newsVars, stored
    <3>2. snapshot' = snapshot \/ Merge
      BY <2>2 DEF NewsNext, Arrive, Collect, Advance, PersistObservations, PublishEvents,
             Reject, CommitCursor, Abort, newsVars, stored
    <3>3. \A s \in Source : snapshot[s] \subseteq snapshot'[s]
      BY <3>2 DEF Merge, FetchInv, NewsTypeOK
    <3> QED BY <3>1, <3>3
  <2> QED BY <2>1, <2>2
<1>4. CursorFollowsPublication'
  <2>1. SUFFICES ASSUME NEW s \in Source, NEW i, i \in Passed(s)', i \notin Overtaken(s)'
                 PROVE  i \in snapshot'[s] \cap feed' \cap observed'
    BY DEF CursorFollowsPublication
  <2> QED BY <1>2, <1>3, <2>1
<1> QED BY <1>1, <1>4 DEF CursorInv

\* Types hold, and the lock is held exactly while a run is under way.
THEOREM CursorInvariant == NewsSpec => []CursorInv
BY Initially, Preserved, PTL DEF NewsSpec

\* The lock discipline of collect_and_publish: held exactly by the run under way.
THEOREM LockIsOwned == NewsSpec => []NewsTypeOK
<1>1. CursorInv => NewsTypeOK
  BY DEF CursorInv, FetchInv
<1> QED
  BY <1>1, CursorInvariant, PTL

\* Whatever write fails and wherever the process dies, no cursor passes an item
\* that is missing from the snapshot, the feed or the observations, except what
\* newer items had pushed out of the fetch before a collection found it.
THEOREM CursorNeverSkips == NewsSpec => []CursorFollowsPublication
<1>1. CursorInv => CursorFollowsPublication
  BY DEF CursorInv
<1> QED
  BY <1>1, CursorInvariant, PTL

-----------------------------------------------------------------------------
\* The run that is about to save its cursor has published the snapshot of its
\* source.
FoundIsPublished == step = "committing" => snapshot[lockHolder] \subseteq ledger

\* The ledger part of the invariant, for a feed that fits one publication.
LedgerInv == Limit >= MaxItem => CursorFollowsLedger /\ FoundIsPublished

LEMMA LedgerInitially == NewsInit => LedgerInv
<1> SUFFICES ASSUME NewsInit PROVE LedgerInv
  OBVIOUS
<1>1. \A s \in Source : Passed(s) = {}
  BY DEF NewsInit, Passed
<1> QED BY <1>1 DEF NewsInit, LedgerInv, CursorFollowsLedger, FoundIsPublished

LEMMA LedgerPreserved == CursorInv /\ LedgerInv /\ [NewsNext]_newsVars => LedgerInv'
<1> SUFFICES ASSUME FetchInv, Limit >= MaxItem, CursorFollowsLedger, FoundIsPublished,
                    [NewsNext]_newsVars
             PROVE  CursorFollowsLedger' /\ FoundIsPublished'
  BY DEF CursorInv, LedgerInv
<1>1. ledger \subseteq ledger'
  BY DEF NewsNext, Arrive, Collect, Advance, Merge, BuildFeed, PersistObservations, PublishEvents,
         Reject, CommitCursor, Abort, newsVars, stored
<1>2. ASSUME NEW s \in Source, NEW i, i \in Passed(s)', i \notin Overtaken(s)'
      PROVE  i \in ledger
  <2>1. CASE i \in Passed(s) \ Overtaken(s)
    BY <2>1 DEF CursorFollowsLedger
  <2>2. CASE CommitCursor /\ s = lockHolder /\ i \in snapshot[s]
    BY <2>2 DEF CommitCursor, FoundIsPublished
  <2> QED BY <1>2, <2>1, <2>2, PassedBefore
<1>3. CursorFollowsLedger'
  BY <1>1, <1>2 DEF CursorFollowsLedger
<1>4. FoundIsPublished'
  <2>1. CASE PublishEvents
    <3>1. feed \in SUBSET Item
      BY DEF FetchInv, NewsTypeOK
    <3>2. Newest(feed) = feed
      BY <3>1, NewestIsAll
    <3> QED
      BY <2>1, <3>2 DEF PublishEvents, Continue, FetchInv, FoundIsStored, FoundIsPublished
  <2>2. CASE Reject \/ CommitCursor \/ Abort
    BY <2>2, Finishes DEF Reject, CommitCursor, Abort, FetchInv, FoundIsPublished
  <2>3. CASE Merge \/ BuildFeed \/ PersistObservations
    BY <2>3 DEF Merge, BuildFeed, PersistObservations, Continue, FoundIsPublished
  <2>4. CASE Arrive \/ \E s \in Source : Collect(s)
    BY <2>4 DEF Arrive, Collect, stored, FoundIsPublished
  <2>5. CASE UNCHANGED newsVars
    BY <2>5 DEF newsVars, stored, FoundIsPublished
  <2> QED BY <2>1, <2>2, <2>3, <2>4, <2>5 DEF NewsNext, Advance
<1> QED BY <1>3, <1>4

\* While the feed fits one publication, an item that a collection found, or could
\* still find, and that the ledger lacks is still ahead of its source's cursor.
THEOREM CursorWaitsForLedger == NewsSpec => []CursorFollowsLedger
<1>1. LedgerInv => CursorFollowsLedger
  BY DEF LedgerInv, CursorFollowsLedger
<1> QED
  BY <1>1, CursorInvariant, LedgerInitially, LedgerPreserved, PTL DEF NewsSpec
=============================================================================
