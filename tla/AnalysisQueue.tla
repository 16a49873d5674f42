--------------------------- MODULE AnalysisQueue ---------------------------
(***************************************************************************)
(* The analysis lane and the section snapshots it publishes: events are    *)
(* routed to jobs that coalesce per ingestion minute, and the replicas of  *)
(* AnalysisJobWorker rebuild one section from the stored data.             *)
(*                                                                         *)
(* The stored data is a counter of its changes, and a snapshot's content   *)
(* is the count its handler read.  A job is named by its input             *)
(* fingerprint, the minute of ingestion, because enqueue_job looks at jobs *)
(* in every state.  Time is abstracted as in OperationQueue: a lease is    *)
(* fresh or has lapsed, and a job may be retried at any later moment.      *)
(* Routing is the transaction that EventOutbox commits once per event.     *)
(***************************************************************************)
EXTENDS Naturals, Sequences

CONSTANTS
  Worker,       \* replicas of the analysis worker
  MaxData,      \* bound on the changes of the stored data
  MaxMinute,    \* bound on the ingestion minutes
  MaxAttempts,  \* max_attempts of every job
  MaxCrashes,   \* bound on worker crashes
  Nobody        \* no worker

Minute == 1..MaxMinute

ASSUME QueueAssumption ==
  /\ MaxData \in Nat /\ MaxMinute \in Nat \ {0}
  /\ MaxAttempts \in Nat \ {0} /\ MaxCrashes \in Nat
  /\ Nobody \notin Worker

VARIABLES
  data, minute,                       \* the stored data, the wall clock
  events,                             \* the events waiting to be routed
  job, cause, holder, lease, attempts,\* jobs (analysis lane)
  versions,                           \* section_snapshots, oldest first
  pc, at, try, seen, crashes,         \* the workers
  base                                \* history: versions published when a worker read

jobVars    == <<job, cause, holder, lease, attempts>>
workerVars == <<pc, at, try, seen, crashes, base>>
vars       == <<data, minute, events, jobVars, versions, workerVars>>

Waiting  == {"queued", "failed_retryable"}
Terminal == {"succeeded", "failed_terminal"}

-----------------------------------------------------------------------------
(* Events *)

\* A collector stores a change and its event in one transaction.
Observe ==
  /\ data < MaxData
  /\ data' = data + 1
  /\ events' = events \cup {[minute |-> minute, data |-> data + 1]}
  /\ UNCHANGED <<minute, jobVars, versions, workerVars>>

MinutePasses ==
  /\ minute < MaxMinute
  /\ minute' = minute + 1
  /\ UNCHANGED <<data, events, jobVars, versions, workerVars>>

\* enqueue_job: one job per fingerprint, whatever became of it.
Enqueue(e) ==
  IF job[e.minute] = "none"
  THEN /\ job' = [job EXCEPT ![e.minute] = "queued"]
       /\ cause' = [cause EXCEPT ![e.minute] = e.data]
  ELSE UNCHANGED <<job, cause>>

RouteEvent(e) ==
  /\ e \in events
  /\ events' = events \ {e}
  /\ Enqueue(e)
  /\ UNCHANGED <<data, minute, holder, lease, attempts, versions, workerVars>>

-----------------------------------------------------------------------------
(* AnalysisJobWorker *)

Claimable(j) ==
  /\ job[j] \in Waiting \/ (job[j] = "leased" /\ ~lease[j])
  /\ attempts[j] < MaxAttempts

Claim(w, j) ==
  /\ pc[w] = "idle"
  /\ Claimable(j)
  /\ job' = [job EXCEPT ![j] = "leased"]
  /\ holder' = [holder EXCEPT ![j] = w]
  /\ lease' = [lease EXCEPT ![j] = TRUE]
  /\ attempts' = [attempts EXCEPT ![j] = @ + 1]
  /\ pc' = [pc EXCEPT ![w] = "claimed"]
  /\ at' = [at EXCEPT ![w] = j]
  /\ try' = [try EXCEPT ![w] = attempts[j] + 1]
  /\ UNCHANGED <<data, minute, events, cause, versions, seen, crashes, base>>

LeaseLapses(j) ==
  /\ lease[j]
  /\ lease' = [lease EXCEPT ![j] = FALSE]
  /\ UNCHANGED <<data, minute, events, job, cause, holder, attempts, versions, workerVars>>

Return(w) ==
  /\ pc' = [pc EXCEPT ![w] = "idle"]
  /\ at' = [at EXCEPT ![w] = 0]
  /\ try' = [try EXCEPT ![w] = 0]
  /\ seen' = [seen EXCEPT ![w] = 0]
  /\ base' = [base EXCEPT ![w] = 0]
  /\ UNCHANGED crashes

Goto(w, step) == pc' = [pc EXCEPT ![w] = step]

StartJob(w) ==
  /\ pc[w] = "claimed"
  /\ LET j == at[w]
         leased == job[j] = "leased" /\ holder[j] = w /\ lease[j]
     IN  \/ /\ leased
            /\ job' = [job EXCEPT ![j] = "running"]
            /\ Goto(w, "running")
            /\ UNCHANGED <<at, try, seen, crashes, base>>
         \/ ~leased /\ Return(w) /\ UNCHANGED job
  /\ UNCHANGED <<data, minute, events, cause, holder, lease, attempts, versions>>

\* Fault: the section is built from the event instead of the stored data.
ReadEvent(w) ==
  /\ pc[w] = "running"
  /\ seen' = [seen EXCEPT ![w] = cause[at[w]]]
  /\ base' = [base EXCEPT ![w] = Len(versions)]
  /\ Goto(w, "publishing")
  /\ UNCHANGED <<data, minute, events, jobVars, versions, at, try, crashes>>

\* Fault: the section's query stops before the newest row (< for <=).
ReadShort(w) ==
  /\ pc[w] = "running"
  /\ seen' = [seen EXCEPT ![w] = data - 1]
  /\ base' = [base EXCEPT ![w] = Len(versions)]
  /\ Goto(w, "publishing")
  /\ UNCHANGED <<data, minute, events, jobVars, versions, at, try, crashes>>

\* The handler reads the section's rows before it takes the section's lock.
ReadRows(w) ==
  /\ pc[w] = "running"
  /\ seen' = [seen EXCEPT ![w] = data]
  /\ base' = [base EXCEPT ![w] = Len(versions)]
  /\ Goto(w, "publishing")
  /\ UNCHANGED <<data, minute, events, jobVars, versions, at, try, crashes>>

Holds(w) == job[at[w]] = "running" /\ holder[at[w]] = w

SetJob(j, state) ==
  /\ job' = [job EXCEPT ![j] = state]
  /\ holder' = [holder EXCEPT ![j] = Nobody]
  /\ lease' = [lease EXCEPT ![j] = FALSE]
  /\ UNCHANGED <<cause, attempts>>

\* publish_section_snapshot: a new version supersedes the current one unless
\* their content hashes agree.
NewVersion(w) ==
  versions' = IF versions # <<>> /\ versions[Len(versions)].data = seen[w]
              THEN versions
              ELSE Append(versions, [data |-> seen[w], event |-> cause[at[w]], base |-> base[w]])

\* route_job and succeed_job in one transaction.
Publish(w) ==
  /\ pc[w] = "publishing"
  /\ Holds(w)
  /\ NewVersion(w)
  /\ SetJob(at[w], "succeeded")
  /\ Return(w)
  /\ UNCHANGED <<data, minute, events>>

\* The handler or its validation fails, the job was lost, or the database is down.
HandlerFails(w) ==
  /\ pc[w] \in {"running", "publishing"}
  /\ Goto(w, "failing")
  /\ UNCHANGED <<data, minute, events, jobVars, versions, at, try, seen, crashes, base>>

\* retry_job, or terminal_fail_job after the last attempt; either may be lost.
GiveBack(w) ==
  /\ pc[w] = "failing"
  /\ \/ /\ Holds(w)
        /\ SetJob(at[w], IF try[w] >= MaxAttempts THEN "failed_terminal" ELSE "failed_retryable")
     \/ UNCHANGED jobVars
  /\ Return(w)
  /\ UNCHANGED <<data, minute, events, versions>>

Crash(w) ==
  /\ pc[w] # "dead"
  /\ crashes < MaxCrashes
  /\ crashes' = crashes + 1
  /\ pc' = [pc EXCEPT ![w] = "dead"]
  /\ at' = [at EXCEPT ![w] = 0]
  /\ try' = [try EXCEPT ![w] = 0]
  /\ seen' = [seen EXCEPT ![w] = 0]
  /\ base' = [base EXCEPT ![w] = 0]
  /\ UNCHANGED <<data, minute, events, jobVars, versions>>

Restart(w) ==
  /\ pc[w] = "dead"
  /\ Goto(w, "idle")
  /\ UNCHANGED <<data, minute, events, jobVars, versions, at, try, seen, crashes, base>>

\* Fault: only a claim that was never started counts as expired.
ExpiredUnstarted(j) == job[j] = "leased" /\ ~lease[j]

Expired(j) == job[j] \in {"leased", "running"} /\ ~lease[j]

\* reconcile_jobs, by a worker's maintenance or by the full cycle.  The rest of
\* reconcile_event_pipeline repairs snapshot metadata and publishes nothing.
Reconcile(j) ==
  /\ Expired(j)
  /\ SetJob(j, IF attempts[j] >= MaxAttempts THEN "failed_terminal" ELSE "failed_retryable")
  /\ UNCHANGED <<data, minute, events, versions, workerVars>>

-----------------------------------------------------------------------------
Init ==
  /\ data = 0 /\ minute = 1 /\ events = {}
  /\ job = [j \in Minute |-> "none"]
  /\ cause = [j \in Minute |-> 0]
  /\ holder = [j \in Minute |-> Nobody]
  /\ lease = [j \in Minute |-> FALSE]
  /\ attempts = [j \in Minute |-> 0]
  /\ versions = <<>>
  /\ pc = [w \in Worker |-> "idle"]
  /\ at = [w \in Worker |-> 0]
  /\ try = [w \in Worker |-> 0]
  /\ seen = [w \in Worker |-> 0]
  /\ base = [w \in Worker |-> 0]
  /\ crashes = 0

Handle(w) == StartJob(w) \/ ReadRows(w) \/ Publish(w) \/ HandlerFails(w) \/ GiveBack(w)

Next ==
  \/ Observe \/ MinutePasses
  \/ \E e \in events : RouteEvent(e)
  \/ \E w \in Worker :
       Handle(w) \/ Crash(w) \/ Restart(w) \/ \E j \in Minute : Claim(w, j)
  \/ \E j \in Minute : LeaseLapses(j) \/ Reconcile(j)

Abandoned(j) == ~\E w \in Worker : at[w] = j

\* Events are routed, workers poll and come back, a lease nobody renews runs
\* out, and maintenance runs every 30 seconds.
Fairness ==
  /\ WF_vars(\E e \in events : RouteEvent(e))
  /\ \A w \in Worker : WF_vars(Handle(w)) /\ WF_vars(Restart(w))
  /\ \A j \in Minute :
       /\ SF_vars(\E w \in Worker : Claim(w, j))
       /\ WF_vars(Abandoned(j) /\ LeaseLapses(j))
       /\ WF_vars(Reconcile(j))

Spec     == Init /\ [][Next]_vars
FairSpec == Spec /\ Fairness
-----------------------------------------------------------------------------
(* Properties *)

TypeOK ==
  /\ data \in 0..MaxData /\ minute \in Minute
  /\ events \subseteq [minute: Minute, data: 1..MaxData]
  /\ job \in [Minute -> {"none", "leased", "running"} \cup Waiting \cup Terminal]
  /\ cause \in [Minute -> 0..MaxData]
  /\ holder \in [Minute -> Worker \cup {Nobody}]
  /\ lease \in [Minute -> BOOLEAN]
  /\ attempts \in [Minute -> 0..MaxAttempts]
  /\ versions \in Seq([data: 0..MaxData, event: 1..MaxData, base: Nat])
  /\ pc \in [Worker -> {"idle", "claimed", "running", "publishing", "failing", "dead"}]
  /\ at \in [Worker -> {0} \cup Minute]
  /\ try \in [Worker -> 0..MaxAttempts]
  /\ seen \in [Worker -> 0..MaxData]
  /\ base \in [Worker -> Nat]
  /\ crashes \in 0..MaxCrashes

\* A snapshot that cites an event (source_event_ids) was built from data that
\* includes that event's observation.
SnapshotCoversItsEvent ==
  \A i \in DOMAIN versions : versions[i].data >= versions[i].event

\* A version appears only together with the success of a job by its holder: a
\* worker that lost its job, or failed, leaves the previous snapshot in place.
PublishedByHolder ==
  [][versions' # versions =>
       \E w \in Worker : \E j \in Minute :
         at[w] = j /\ Holds(w) /\ job'[j] = "succeeded"]_vars

\* A snapshot is never older than one that was already published when its own
\* rows were read, however many replicas rebuild the section, whatever order
\* their jobs run in and however often they are retried or reconciled.  (Two
\* replicas that read at the same time may still publish in either order.)
NeverOlder ==
  \A i \in DOMAIN versions : \A k \in 1..versions[i].base :
    versions[k].data <= versions[i].data

\* Every job ends, succeeded or failed for good, across crashes, lost leases
\* and transactions that fail while a job is given back.
JobsEnd == \A j \in Minute : job[j] = "queued" ~> job[j] \in Terminal
=============================================================================
