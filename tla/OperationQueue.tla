--------------------------- MODULE OperationQueue ---------------------------
(***************************************************************************)
(* The durable operation lane: HTTP and scheduler acceptance, the jobs and *)
(* cycle_runs rows, the replicas of OperationWorker that execute them, and *)
(* the maintenance that repairs what crashed workers leave behind.         *)
(*                                                                         *)
(* A run is named by its correlation id.  The unique index                 *)
(* idx_jobs_operation_correlation allows it one operation job, so the job  *)
(* row is indexed by the run as well.                                      *)
(*                                                                         *)
(* Time is abstracted.  A lease is fresh or not, and a fresh one may lapse *)
(* at any moment, so renewing it (a no-op on a fresh lease) has no action  *)
(* of its own.  Timeouts that are only compared when a row is examined     *)
(* (not_before, the heartbeat timeout, the acceptance timeout) are chosen  *)
(* by the action that compares them.                                       *)
(***************************************************************************)
EXTENDS Naturals, FiniteSets

CONSTANTS
  Worker,       \* replicas of the operation worker
  Run,          \* correlation ids
  Component,    \* run kind and requested component
  Key,          \* idempotency keys
  Window,       \* schedule windows
  Nobody,       \* no worker, no owner, no key, no window, no run
  Request,      \* the acceptance requests callers may submit, any number of times
  MaxAttempts,  \* max_attempts of every job
  MaxCrashes    \* bound on the number of worker crashes

ASSUME RequestAssumption ==
  Request \subseteq [cid: Run, comp: Component, key: Key \cup {Nobody},
                     window: Window \cup {Nobody}]
ASSUME NobodyAssumption ==
  Nobody \notin Worker \cup Run \cup Key \cup Window \cup (Worker \X Nat)
ASSUME BoundsAssumption == MaxAttempts \in Nat \ {0} /\ MaxCrashes \in Nat

VARIABLES
  run, runKey, owner,                        \* cycle_runs
  job, identity, holder, lease, attempts,    \* jobs (operation lane)
  follow,                                    \* analysis jobs of this correlation
  pc, at, try, crashes,                      \* the workers
  reply                                      \* the latest answer to a caller

rowVars    == <<run, runKey, owner>>
jobVars    == <<job, identity, holder, lease, attempts>>
workerVars == <<pc, at, try, crashes>>
vars       == <<rowVars, jobVars, follow, workerVars, reply>>

ActiveStates   == {"queued", "leased", "running", "failed_retryable"}
TerminalStates == {"succeeded", "failed_terminal"}
\* "skipped" is status completed with result_status skipped.
OpenRuns   == {"accepted", "running"}
ClosedRuns == {"completed", "skipped", "failed", "abandoned"}
Answers    == {"accepted", "duplicate", "replayed", "conflict"}
Steps      == {"idle", "claimed", "starting", "denied", "dispatching",
               "finishing", "poisoning", "retrying", "closing", "rejecting", "dead"}

-----------------------------------------------------------------------------
(* Acceptance *)

\* A schedule window or an idempotency key makes the identity repeatable;
\* without either it is the request's own correlation.
IdentityFor(q) ==
  <<q.comp, IF q.window # Nobody THEN q.window
            ELSE IF q.key # Nobody THEN q.key ELSE q.cid>>

\* Fault: the correlation's primary key is not looked at.
FreshKey(q) == q.key # Nobody => \A r \in Run : runKey[r] # q.key

\* The INSERT of the cycle_runs row meets neither of its two unique keys.
Fresh(q) ==
  /\ run[q.cid] = "absent"
  /\ q.key # Nobody => \A r \in Run : runKey[r] # q.key

\* Fault: the identity lookup overlooks a job waiting for its retry.
DuplicateInFlight(q) ==
  {r \in Run : job[r] \in {"queued", "leased", "running"} /\ identity[r] = IdentityFor(q)}

DuplicateOf(q) == {r \in Run : job[r] \in ActiveStates /\ identity[r] = IdentityFor(q)}

\* The run a keyed retry must be checked against: the owner of the key, which
\* has to be the request's own row when that correlation already exists.
KeyedRun(q) ==
  {r \in Run : /\ q.key # Nobody
               /\ runKey[r] = q.key
               /\ run[q.cid] # "absent" => r = q.cid}

\* SELECT ... FROM jobs WHERE correlation_id = :cid LIMIT 1 does not name the lane.
JobsOf(r) ==
  (IF job[r] # "none" THEN {"operation"} ELSE {})
    \cup (IF follow[r] \in {"queued", "held", "done"} THEN {"analysis"} ELSE {})

Replays(q, r, lane) ==
  /\ r \in KeyedRun(q)
  /\ lane \in JobsOf(r)
  /\ lane = "operation" /\ identity[r] = IdentityFor(q)

Answer(q, what) == reply' = <<q, what>>

AcceptNew(q) ==
  /\ Fresh(q)
  /\ DuplicateOf(q) = {}
  /\ run' = [run EXCEPT ![q.cid] = "accepted"]
  /\ runKey' = [runKey EXCEPT ![q.cid] = q.key]
  /\ job' = [job EXCEPT ![q.cid] = "queued"]
  /\ identity' = [identity EXCEPT ![q.cid] = IdentityFor(q)]
  /\ Answer(q, "accepted")
  /\ UNCHANGED <<owner, holder, lease, attempts, follow, workerVars>>

AcceptDuplicate(q) ==
  /\ Fresh(q)
  /\ DuplicateOf(q) # {}
  /\ run' = [run EXCEPT ![q.cid] = "skipped"]
  /\ runKey' = [runKey EXCEPT ![q.cid] = q.key]
  /\ Answer(q, "duplicate")
  /\ UNCHANGED <<owner, jobVars, follow, workerVars>>

AcceptReplay(q) ==
  /\ ~Fresh(q)
  /\ \E r \in Run : \E lane \in JobsOf(r) : Replays(q, r, lane)
  /\ Answer(q, "replayed")
  /\ UNCHANGED <<rowVars, jobVars, follow, workerVars>>

\* RunAcceptanceConflict: the transaction rolls back and the caller gets a 409.
AcceptConflict(q) ==
  /\ ~Fresh(q)
  /\ \/ KeyedRun(q) = {}
     \/ \E r \in KeyedRun(q) :
          \/ JobsOf(r) = {}
          \/ \E lane \in JobsOf(r) : ~Replays(q, r, lane)
  /\ Answer(q, "conflict")
  /\ UNCHANGED <<rowVars, jobVars, follow, workerVars>>

-----------------------------------------------------------------------------
(* Rows *)

FreshWork(r)  == (job[r] \in {"leased", "running"} /\ lease[r]) \/ follow[r] = "held"
ActiveWork(r) == job[r] \in ActiveStates \/ follow[r] \in {"queued", "held"}

Token(w) == <<w, try[w]>>     \* "{worker_id}:{uuid4()}", unique per claim
Holds(w) == job[at[w]] = "running" /\ holder[at[w]] = w
Owns(w)  == owner[at[w]] = Token(w)

Goto(w, step) == pc' = [pc EXCEPT ![w] = step]
Return(w) ==
  /\ pc' = [pc EXCEPT ![w] = "idle"]
  /\ at' = [at EXCEPT ![w] = Nobody]
  /\ try' = [try EXCEPT ![w] = 0]
  /\ UNCHANGED crashes

SetJob(r, state) ==
  /\ job' = [job EXCEPT ![r] = state]
  /\ holder' = [holder EXCEPT ![r] = Nobody]
  /\ lease' = [lease EXCEPT ![r] = FALSE]
  /\ UNCHANGED <<identity, attempts>>

Reopen(r) ==
  /\ run' = [run EXCEPT ![r] = IF @ = "running" THEN "accepted" ELSE @]
  /\ owner' = [owner EXCEPT ![r] = IF run[r] = "running" THEN Nobody ELSE @]

\* A lease that nobody renewed in time.
LeaseLapses(r) ==
  /\ lease[r]
  /\ lease' = [lease EXCEPT ![r] = FALSE]
  /\ UNCHANGED <<rowVars, job, identity, holder, attempts, follow, workerVars, reply>>

-----------------------------------------------------------------------------
(* OperationWorker *)

Claimable(r) ==
  /\ \/ job[r] \in {"queued", "failed_retryable"}
     \/ job[r] = "leased" /\ ~lease[r]
  /\ attempts[r] < MaxAttempts

\* claim_jobs with limit 1; stale tells whether the run's heartbeat timed out.
Claim(w, r, stale) ==
  /\ pc[w] = "idle"
  /\ Claimable(r)
  /\ IF stale /\ ~FreshWork(r) THEN Reopen(r) ELSE UNCHANGED <<run, owner>>
  /\ job' = [job EXCEPT ![r] = "leased"]
  /\ holder' = [holder EXCEPT ![r] = w]
  /\ lease' = [lease EXCEPT ![r] = TRUE]
  /\ attempts' = [attempts EXCEPT ![r] = @ + 1]
  /\ pc' = [pc EXCEPT ![w] = "claimed"]
  /\ at' = [at EXCEPT ![w] = r]
  /\ try' = [try EXCEPT ![w] = attempts[r] + 1]
  /\ UNCHANGED <<runKey, identity, follow, crashes, reply>>

StartJob(w) ==
  /\ pc[w] = "claimed"
  /\ \/ /\ job[at[w]] = "leased" /\ holder[at[w]] = w /\ lease[at[w]]
        /\ job' = [job EXCEPT ![at[w]] = "running"]
        /\ Goto(w, "starting")
        /\ UNCHANGED <<at, try, crashes>>
     \/ /\ ~(job[at[w]] = "leased" /\ holder[at[w]] = w /\ lease[at[w]])
        /\ Return(w)
        /\ UNCHANGED job
  /\ UNCHANGED <<rowVars, identity, holder, lease, attempts, follow, reply>>

\* start_run: its own transaction.  An exception counts as "not claimed",
\* whether the row was updated before it (a lost commit reply) or not.
StartRun(w) ==
  /\ pc[w] = "starting"
  /\ \/ /\ run[at[w]] = "accepted"
        /\ run' = [run EXCEPT ![at[w]] = "running"]
        /\ owner' = [owner EXCEPT ![at[w]] = Token(w)]
        /\ \E step \in {"dispatching", "denied"} : Goto(w, step)
     \/ /\ Goto(w, "denied")
        /\ UNCHANGED <<run, owner>>
  /\ UNCHANGED <<runKey, jobVars, follow, at, try, crashes, reply>>

\* _cycle_run_status, a separate read whose answer is used afterwards.
ReadRunStatus(w) ==
  /\ pc[w] = "denied"
  /\ Goto(w, CASE run[at[w]] \in {"completed", "skipped"} -> "closing"
               [] run[at[w]] \in {"failed", "abandoned"} -> "rejecting"
               [] OTHER -> "retrying")
  /\ UNCHANGED <<rowVars, jobVars, follow, at, try, crashes, reply>>

\* The run was already finalized: the job follows it.
CloseFinished(w) ==
  /\ pc[w] \in {"closing", "rejecting"}
  /\ \/ /\ IF Holds(w)
           THEN SetJob(at[w], IF pc[w] = "closing" THEN "succeeded" ELSE "failed_terminal")
           ELSE UNCHANGED jobVars
        /\ Return(w)
     \/ /\ Goto(w, "retrying")                \* the database failed
        /\ UNCHANGED <<jobVars, at, try, crashes>>
  /\ UNCHANGED <<rowVars, follow, reply>>

\* The run's collectors publish market events that carry its correlation id.
PublishEvents(w) ==
  /\ pc[w] = "dispatching"
  /\ follow[at[w]] = "none"
  /\ follow' = [follow EXCEPT ![at[w]] = "published"]
  /\ UNCHANGED <<rowVars, jobVars, workerVars, reply>>

\* _dispatch ends: a result to store, a failure marked not retryable, or an
\* exception or retryable failure.
Dispatch(w) ==
  /\ pc[w] = "dispatching"
  /\ \E step \in {"finishing", "poisoning", "retrying"} : Goto(w, step)
  /\ UNCHANGED <<rowVars, jobVars, follow, at, try, crashes, reply>>

\* Fault: the outcome is stored on the run row's word alone.
FinishUnclaimed(w) ==
  /\ pc[w] = "finishing"
  /\ \/ /\ run[at[w]] = "running" /\ Owns(w)
        /\ run' = [run EXCEPT ![at[w]] = "completed"]
        /\ SetJob(at[w], "succeeded")
        /\ Return(w)
     \/ /\ Goto(w, "retrying")
        /\ UNCHANGED <<run, jobVars, at, try, crashes>>
  /\ UNCHANGED <<runKey, owner, follow, reply>>

\* finish_run_in_session and succeed_job in one transaction; when either finds
\* its row lost, or the database fails, neither persists.
Finish(w) ==
  /\ pc[w] = "finishing"
  /\ \/ /\ run[at[w]] = "running" /\ Owns(w) /\ Holds(w)
        /\ run' = [run EXCEPT ![at[w]] = "completed"]
        /\ SetJob(at[w], "succeeded")
        /\ Return(w)
     \/ /\ Goto(w, "retrying")
        /\ UNCHANGED <<run, jobVars, at, try, crashes>>
  /\ UNCHANGED <<runKey, owner, follow, reply>>

\* retry_job: the run goes back to accepted whoever owns it.
Retry(w) ==
  /\ pc[w] = "retrying"
  /\ try[w] < MaxAttempts
  /\ \/ /\ Holds(w) /\ attempts[at[w]] < MaxAttempts
        /\ SetJob(at[w], "failed_retryable")
        /\ Reopen(at[w])
     \/ UNCHANGED <<run, owner, jobVars>>      \* not ours, or the database failed
  /\ Return(w)
  /\ UNCHANGED <<runKey, follow, reply>>

\* Fault: the poisoned job commits although the run row was not finalized.
PoisonJobOnly(w) ==
  /\ pc[w] = "poisoning" \/ (pc[w] = "retrying" /\ try[w] >= MaxAttempts)
  /\ \/ /\ Holds(w)
        /\ SetJob(at[w], "failed_terminal")
        /\ run' = [run EXCEPT ![at[w]] =
                     IF @ \in OpenRuns /\ Owns(w) THEN "failed" ELSE @]
     \/ UNCHANGED <<run, jobVars>>
  /\ Return(w)
  /\ UNCHANGED <<runKey, owner, follow, reply>>

\* _terminal_fail: poison the job and fail the run in one transaction.
Poison(w) ==
  /\ pc[w] = "poisoning" \/ (pc[w] = "retrying" /\ try[w] >= MaxAttempts)
  /\ \/ /\ Holds(w)
        /\ run[at[w]] \in OpenRuns /\ Owns(w)
        /\ SetJob(at[w], "failed_terminal")
        /\ run' = [run EXCEPT ![at[w]] = "failed"]
     \/ UNCHANGED <<run, jobVars>>             \* rolled back
  /\ Return(w)
  /\ UNCHANGED <<runKey, owner, follow, reply>>

Crash(w) ==
  /\ pc[w] # "dead"
  /\ crashes < MaxCrashes
  /\ crashes' = crashes + 1
  /\ pc' = [pc EXCEPT ![w] = "dead"]
  /\ at' = [at EXCEPT ![w] = Nobody]
  /\ try' = [try EXCEPT ![w] = 0]
  /\ UNCHANGED <<rowVars, jobVars, follow, reply>>

\* A new process takes a new worker id; no row names the dead one's claims
\* again, so the slot may be reused.
Restart(w) ==
  /\ pc[w] = "dead"
  /\ Goto(w, "idle")
  /\ UNCHANGED <<rowVars, jobVars, follow, at, try, crashes, reply>>

-----------------------------------------------------------------------------
(* Maintenance: recover_operation_runs, then reconcile_jobs, one transaction *)

\* late: the rows whose heartbeat or acceptance timeout has passed.
Recovered(r, late) ==
  CASE run[r] = "running" /\ r \in late /\ ActiveWork(r) /\ ~FreshWork(r) -> "accepted"
    [] run[r] \in OpenRuns /\ r \in late /\ ~ActiveWork(r) -> "abandoned"
    [] OTHER -> run[r]

\* Fault: only jobs that never started are reconciled.
ExpiredBeforeStart(r) == job[r] = "leased" /\ ~lease[r]

Expired(r)   == job[r] \in {"leased", "running"} /\ ~lease[r]
Exhausted(r) == attempts[r] >= MaxAttempts

Reconciled(r, status) ==
  CASE Expired(r) /\ Exhausted(r) /\ status \in OpenRuns -> "failed"
    [] Expired(r) /\ ~Exhausted(r) /\ status = "running" -> "accepted"
    [] OTHER -> status

Maintain(w, late) ==
  /\ pc[w] = "idle"
  /\ run' = [r \in Run |-> Reconciled(r, Recovered(r, late))]
  /\ owner' = [r \in Run |-> IF run[r] = "running" /\ run'[r] = "accepted"
                             THEN Nobody ELSE owner[r]]
  /\ job' = [r \in Run |-> IF ~Expired(r) THEN job[r]
                           ELSE IF Exhausted(r) THEN "failed_terminal"
                           ELSE "failed_retryable"]
  /\ holder' = [r \in Run |-> IF Expired(r) THEN Nobody ELSE holder[r]]
  /\ UNCHANGED <<runKey, identity, lease, attempts, follow, workerVars, reply>>

-----------------------------------------------------------------------------
(* The analysis lane, as far as this one sees it *)

FollowUp(r) ==
  /\ \/ /\ follow[r] = "published"            \* the outbox routes the events
        /\ follow' = [follow EXCEPT ![r] = "queued"]
     \/ /\ follow[r] = "queued"
        /\ follow' = [follow EXCEPT ![r] = "held"]
     \/ /\ follow[r] = "held"
        /\ \E s \in {"queued", "done"} : follow' = [follow EXCEPT ![r] = s]
  /\ UNCHANGED <<rowVars, jobVars, workerVars, reply>>

-----------------------------------------------------------------------------
Init ==
  /\ run = [r \in Run |-> "absent"]
  /\ runKey = [r \in Run |-> Nobody]
  /\ owner = [r \in Run |-> Nobody]
  /\ job = [r \in Run |-> "none"]
  /\ identity = [r \in Run |-> Nobody]
  /\ holder = [r \in Run |-> Nobody]
  /\ lease = [r \in Run |-> FALSE]
  /\ attempts = [r \in Run |-> 0]
  /\ follow = [r \in Run |-> "none"]
  /\ pc = [w \in Worker |-> "idle"]
  /\ at = [w \in Worker |-> Nobody]
  /\ try = [w \in Worker |-> 0]
  /\ crashes = 0
  /\ reply = Nobody

Accept(q) == AcceptNew(q) \/ AcceptDuplicate(q) \/ AcceptReplay(q) \/ AcceptConflict(q)

\* The steps of one claimed job, in the order OperationWorker._handle takes them.
Handle(w) ==
  \/ StartJob(w) \/ StartRun(w) \/ ReadRunStatus(w) \/ CloseFinished(w)
  \/ Dispatch(w) \/ Finish(w) \/ Retry(w) \/ Poison(w)

Next ==
  \/ \E q \in Request : Accept(q)
  \/ \E w \in Worker :
       \/ Handle(w) \/ PublishEvents(w) \/ Crash(w) \/ Restart(w)
       \/ \E r \in Run, stale \in BOOLEAN : Claim(w, r, stale)
       \/ \E late \in SUBSET Run : Maintain(w, late)
  \/ \E r \in Run : LeaseLapses(r) \/ FollowUp(r)

\* What the code schedules: a live worker takes its next step, a crashed process
\* is restarted, every idle worker polls (a claimable job is eventually claimed)
\* and runs maintenance, and a lease no live worker renews runs out.
Unattended(r) == ~\E w \in Worker : at[w] = r /\ holder[r] = w

Fairness ==
  /\ \A w \in Worker : WF_vars(Handle(w)) /\ WF_vars(Restart(w))
  /\ \A r \in Run :
       /\ WF_vars(\E w \in Worker, stale \in BOOLEAN : Claim(w, r, stale))
       /\ WF_vars(Unattended(r) /\ LeaseLapses(r))
  /\ SF_vars(\E w \in Worker : Maintain(w, {}))

Spec     == Init /\ [][Next]_vars
FairSpec == Spec /\ Fairness
-----------------------------------------------------------------------------
(* Properties *)

TypeOK ==
  /\ run \in [Run -> {"absent"} \cup OpenRuns \cup ClosedRuns]
  /\ runKey \in [Run -> Key \cup {Nobody}]
  /\ owner \in [Run -> (Worker \X Nat) \cup {Nobody}]
  /\ job \in [Run -> {"none"} \cup ActiveStates \cup TerminalStates]
  /\ identity \in [Run -> (Component \X (Window \cup Key \cup Run)) \cup {Nobody}]
  /\ holder \in [Run -> Worker \cup {Nobody}]
  /\ lease \in [Run -> BOOLEAN]
  /\ attempts \in [Run -> 0..MaxAttempts]
  /\ follow \in [Run -> {"none", "published", "queued", "held", "done"}]
  /\ pc \in [Worker -> Steps]
  /\ at \in [Worker -> Run \cup {Nobody}]
  /\ try \in [Worker -> 0..MaxAttempts]
  /\ crashes \in 0..MaxCrashes
  /\ reply \in (Request \X Answers) \cup {Nobody}

\* The two rows of a run never disagree about how it ended, whoever ended it
\* and whichever transaction was lost on the way: a run is open exactly while
\* its job is active, completed exactly when the job succeeded, failed exactly
\* when the job was poisoned, and an operation run is never abandoned.
RunJobAgreement ==
  \A r \in Run :
    /\ run[r] \in OpenRuns <=> job[r] \in ActiveStates
    /\ run[r] = "completed" <=> job[r] = "succeeded"
    /\ run[r] = "failed" <=> job[r] = "failed_terminal"
    /\ run[r] # "abandoned"

\* enqueue_operation and every transition after it keep one active job per
\* logical identity: a retried or expired job still suppresses its duplicates.
OneActiveJobPerIdentity ==
  \A r, s \in Run :
    job[r] \in ActiveStates /\ job[s] \in ActiveStates /\ identity[r] = identity[s]
      => r = s

\* The attempt a worker carries in memory is the row's attempt for as long as
\* the row names that worker, so its exhaustion test and retry_job's agree.
HolderCountsAttempts ==
  \A w \in Worker :
    at[w] # Nobody /\ holder[at[w]] = w => try[w] = attempts[at[w]]

\* A result is stored for the latest claim only: a worker whose lease was
\* reclaimed cannot complete the run, even when it still owns the run row.
OutcomeOfLatestClaim ==
  [][\A r \in Run : run[r] = "running" /\ run'[r] = "completed"
       => owner[r] = <<holder[r], attempts[r]>>]_vars

\* Finalized rows are final: no retry, claim, recovery or reconciliation
\* reopens a closed run or a terminal job, or changes how it ended.
ClosedIsFinal ==
  [][\A r \in Run : /\ run[r] \in ClosedRuns => run'[r] = run[r]
                    /\ job[r] \in TerminalStates => job'[r] = job[r]]_vars

\* While a worker holds a fresh lease and owns the run, only its own step can
\* take the run from it ("fresh ownership is never clobbered").
FreshOwnershipRespected ==
  [][\A w \in Worker, r \in Run :
       at[w] = r /\ holder[r] = w /\ lease[r] /\ run[r] = "running" /\ owner[r] = Token(w)
         => \/ run'[r] = "running" /\ owner'[r] = owner[r]
            \/ at'[w] # r]_vars

\* Every accepted run reaches an end, across crashes, lost leases, lost races
\* for the run row and failed finalizations.
AcceptedRunsClose ==
  \A r \in Run : run[r] \in OpenRuns ~> run[r] \in ClosedRuns

\* The lane keeps the promise of RunPromise: leases, attempts, lost races and
\* repairs are invisible to a caller who looks at the run alone.
RunStatus == [r \in Run |-> IF run[r] \in OpenRuns THEN "pending" ELSE run[r]]
Promise == INSTANCE RunPromise WITH status <- RunStatus
PromiseKept == Promise!Spec

\* jobs.py promises a caller that lost its 202 that a retry with the same key
\* and request is answered with the original acceptance.
KeyedRetryReplays ==
  [][\A q \in Request, r \in Run :
       (/\ q.key # Nobody /\ runKey[r] = q.key /\ identity[r] = IdentityFor(q)
        /\ run[q.cid] = "absent" /\ reply # <<q, "conflict">>)
         => reply' # <<q, "conflict">>]_vars
=============================================================================
