------------------------------ MODULE CycleRun ------------------------------
(***************************************************************************)
(* Runs that their caller executes itself (the command line): a cycle over *)
(* all collectors and processors, or one component.  Such a run has a row  *)
(* in cycle_runs but no job: only its caller works on it, under session    *)
(* advisory locks, while a thread keeps the heartbeat of the row fresh and *)
(* recovery abandons rows whose heartbeat has stopped.                     *)
(*                                                                         *)
(* What a component has published is a version number.  A processor reads  *)
(* some of the versions; its input fingerprint names some of those it      *)
(* reads, and only for them does a reuse promise anything.                 *)
(*                                                                         *)
(* The events of what a run collects are routed later, and may start jobs  *)
(* in the analysis queue under the correlation of the run: recovery treats *)
(* the row of such a run as if it had a job of its own.                    *)
(***************************************************************************)
EXTENDS Naturals, FiniteSets

CONSTANTS
  Cycle,         \* runs of a whole cycle
  Solo,          \* runs of one component
  Source, Processor,   \* the enabled collectors and processors
  SoloOf,        \* the component of each solo run
  DependsOn,     \* what must have ended well before each processor runs
  Consumed,      \* whose output each processor reads, its own earlier one perhaps
  Fingerprinted, \* those of them that its fingerprint names
  CycleLock,     \* the name of the lock of cycles
  Unlocked,      \* nobody holds a lock
  MaxSyncRuns,     \* bound on the runs that are started
  MaxCycleFaults   \* bound on crashes, stalled heartbeats and lost sessions

Component == Source \cup Processor
SyncRun == Cycle \cup Solo

ASSUME CycleAssumption ==
  /\ Cycle \cap Solo = {} /\ Source \cap Processor = {}
  /\ SoloOf \in [Solo -> Component]
  /\ DependsOn \in [Processor -> SUBSET Component]
  /\ Consumed \in [Processor -> SUBSET Component]
  /\ Fingerprinted \in [Processor -> SUBSET Component]
  /\ \A p \in Processor : Fingerprinted[p] \subseteq Consumed[p]
  /\ CycleLock \notin Component /\ Unlocked \notin SyncRun
  /\ MaxSyncRuns \in Nat /\ MaxCycleFaults \in Nat

VARIABLES
  syncRow, fresh,          \* the row of each run, its heartbeat
  unrouted, active,        \* runs with events to route, and with jobs from them
  step, mode,              \* where each caller is, and the mode of a cycle
  stage, history,          \* status of each stage, sources taken from history
  work,                    \* the processor a run is busy with, and what it read
  held,                    \* holder of each advisory lock
  version, collected,      \* what is published; sources that ever succeeded
  newest, reusable,        \* inputs of the newest output; fingerprints with an output
  cycleFaults, sessionsCut

jobVars  == <<unrouted, active>>
rowVars  == <<syncRow, fresh, jobVars>>
planVars == <<mode, stage, history>>
dataVars == <<version, collected, newest, reusable>>
cycleVars == <<rowVars, step, planVars, work, held, dataVars, cycleFaults, sessionsCut>>

Inputs(p) == [d \in Consumed[p] |-> version[d]]
Fingerprint(p) == [d \in Fingerprinted[p] |-> version[d]]
Older(a, b) == \A d \in DOMAIN a : a[d] <= b[d]
Enabled(r) == IF r \in Cycle THEN Component ELSE {SoloOf[r]}
Idle == [on |-> Unlocked, print |-> <<>>, seen |-> <<>>, at |-> "none"]
\* Fault: the answer of pg_try_advisory_lock is not looked at.
NeverTaken(x) == FALSE

Taken(x) == held[x] # Unlocked
Release(r, x) == held' = [held EXCEPT ![x] = IF held[x] = r THEN Unlocked ELSE held[x]]
Fault == cycleFaults < MaxCycleFaults /\ cycleFaults' = cycleFaults + 1
NoFault == UNCHANGED <<cycleFaults, sessionsCut>>

\* The plan and its results are local to the call.
NoPlan == [x \in Component |-> "pending"]
ForgetPlan(r) ==
  /\ mode' = [mode EXCEPT ![r] = "refresh"]
  /\ stage' = [stage EXCEPT ![r] = NoPlan]
  /\ history' = [history EXCEPT ![r] = {}]

-----------------------------------------------------------------------------
(* The row: acceptance, claim, heartbeat, recovery *)

\* An acceptance whose commit was reported as an error ends the caller, and
\* the row stays behind.
AcceptSync(r) ==
  /\ step[r] = "new" /\ Cardinality({q \in SyncRun : step[q] # "new"}) < MaxSyncRuns
  /\ syncRow' = [syncRow EXCEPT ![r] = "accepted"]
  /\ fresh' = [fresh EXCEPT ![r] = TRUE]
  /\ \/ /\ step' = [step EXCEPT ![r] = "accepted"]
        /\ \E m \in (IF r \in Cycle THEN {"refresh", "analyze", "force_full"} ELSE {"refresh"}) :
             mode' = [mode EXCEPT ![r] = m]
     \/ step' = [step EXCEPT ![r] = "ended"] /\ UNCHANGED mode
  /\ UNCHANGED <<jobVars, stage, history, work, held, dataVars>> /\ NoFault

\* An abandoned row is not claimed, and the caller returns None.
StartSync(r) ==
  /\ step[r] = "accepted"
  /\ IF syncRow[r] = "accepted"
     THEN /\ syncRow' = [syncRow EXCEPT ![r] = "running"]
          /\ fresh' = [fresh EXCEPT ![r] = TRUE]
          /\ step' = [step EXCEPT ![r] = "started"]
          /\ UNCHANGED planVars
     ELSE /\ step' = [step EXCEPT ![r] = "ended"]
          /\ ForgetPlan(r)
          /\ UNCHANGED <<syncRow, fresh>>
  /\ UNCHANGED <<jobVars, work, held, dataVars>> /\ NoFault

\* The update raised: the run is failed whether or not it took effect.
StartRaises(r) ==
  /\ step[r] = "accepted"
  /\ step' = [step EXCEPT ![r] = "unclaimed"]
  /\ syncRow' \in {syncRow, [syncRow EXCEPT ![r] = IF syncRow[r] = "accepted" THEN "running" ELSE syncRow[r]]}
  /\ UNCHANGED <<fresh, jobVars, planVars, work, held, dataVars>> /\ NoFault

OpenRows == {"accepted", "running"}
Alive(r) == step[r] \notin {"new", "ended"}

BeatSync(r) ==
  /\ step[r] \in {"started", "working", "unlocked"} /\ syncRow[r] = "running" /\ ~fresh[r]
  /\ fresh' = [fresh EXCEPT ![r] = TRUE]
  /\ UNCHANGED <<syncRow, jobVars, step, planVars, work, held, dataVars>> /\ NoFault

\* The timeout of a row passes.  With a living caller that takes a stall.
Lapse(r) ==
  /\ syncRow[r] \in {"accepted", "running"} /\ fresh[r]
  /\ fresh' = [fresh EXCEPT ![r] = FALSE]
  /\ IF Alive(r) THEN Fault ELSE cycleFaults' = cycleFaults
  /\ UNCHANGED <<syncRow, jobVars, step, planVars, work, held, dataVars, sessionsCut>>

\* Fault: only rows whose caller never started are abandoned.
AbandonAccepted(r) ==
  /\ syncRow[r] = "accepted" /\ ~fresh[r] /\ r \notin active
  /\ syncRow' = [syncRow EXCEPT ![r] = "abandoned"]
  /\ UNCHANGED <<fresh, jobVars, step, planVars, work, held, dataVars>> /\ NoFault

\* recover_operation_runs.  A stale running row with active jobs is put back for
\* another worker, when none of the jobs has a fresh lease (leases come and go:
\* they are no state here); as the run has no operation job nobody claims it,
\* and its caller has lost it.  Its acceptance is older than its heartbeat was.
ReclaimSync(r) ==
  /\ syncRow[r] = "running" /\ ~fresh[r] /\ r \in active
  /\ syncRow' = [syncRow EXCEPT ![r] = "accepted"]
  /\ UNCHANGED <<fresh, jobVars, step, planVars, work, held, dataVars>> /\ NoFault

\* A stale row without active jobs is abandoned.
AbandonSync(r) ==
  /\ syncRow[r] \in {"accepted", "running"} /\ ~fresh[r] /\ r \notin active
  /\ syncRow' = [syncRow EXCEPT ![r] = "abandoned"]
  /\ UNCHANGED <<fresh, jobVars, step, planVars, work, held, dataVars>> /\ NoFault

\* The outbox worker routes the events of the run, and a route may enqueue jobs.
\* Only recovery asks for them, of rows that are stale: for others it is left out.
RouteEvents(r) ==
  /\ r \in unrouted /\ syncRow[r] \in OpenRows /\ ~fresh[r]
  /\ unrouted' = unrouted \ {r} /\ active' = active \cup {r}
  /\ UNCHANGED <<syncRow, fresh, step, planVars, work, held, dataVars>> /\ NoFault

\* All of the jobs are over.
JobsEnd(r) ==
  /\ r \in active
  /\ active' = active \ {r}
  /\ UNCHANGED <<syncRow, fresh, unrouted, step, planVars, work, held, dataVars>> /\ NoFault

\* finalize_run_safely closes a row that is still its caller's (one that does not
\* know its claim fails the row whoever has it) and swallows its own errors.
Finalize(r, outcome, from) ==
  /\ \/ /\ syncRow[r] \in from
        /\ syncRow' = [syncRow EXCEPT ![r] = IF outcome = "failed" THEN "failed" ELSE "completed"]
     \/ UNCHANGED syncRow
  /\ step' = [step EXCEPT ![r] = "ended"]
  /\ ForgetPlan(r)
  /\ UNCHANGED <<fresh, jobVars, work, held, dataVars>> /\ NoFault

\* The exception handler.
FinalizeFailure(r) ==
  \/ step[r] = "unclaimed" /\ Finalize(r, "failed", {"accepted", "running"})
  \/ step[r] = "raised" /\ Finalize(r, "failed", {"running"})

-----------------------------------------------------------------------------
(* The cycle: its lock, its plan, its result *)

Conflict(r) ==
  /\ step' = [step EXCEPT ![r] = "raised"]
  /\ UNCHANGED <<rowVars, planVars, work, held, dataVars>> /\ NoFault

\* A source that never succeeded is always due, and so is one whose check fails.
MayBeDue(c, due) ==
  /\ mode[c] = "force_full" => due = Source
  /\ mode[c] = "analyze" => due = {}
  /\ mode[c] = "refresh" => Source \ due \subseteq collected

\* A source that is not due is skipped, and counts as available if its history
\* could be read.
Plan(c, due) ==
  /\ stage' = [stage EXCEPT ![c] =
       [x \in Component |-> IF x \in Source \ due THEN "skipped" ELSE "pending"]]
  /\ \E read \in SUBSET (Source \ due) :
       history' = [history EXCEPT ![c] = IF mode[c] = "refresh" THEN read ELSE {}]
  /\ UNCHANGED mode

\* advisory_lock("cycle"), then the choice of the collectors.
TakeCycleLock(c) ==
  /\ step[c] = "started" /\ c \in Cycle
  /\ IF Taken(CycleLock) THEN Conflict(c)
     ELSE /\ held' = [held EXCEPT ![CycleLock] = c]
          /\ step' = [step EXCEPT ![c] = "working"]
          /\ \E due \in SUBSET Source : MayBeDue(c, due) /\ Plan(c, due)
          /\ UNCHANGED <<rowVars, work, dataVars>> /\ NoFault

StageStates(r) == {stage[r][x] : x \in Enabled(r)}

\* aggregate_stage_statuses: a skipped stage is a healthy one.
Aggregate(states) ==
  IF states \subseteq {"success", "skipped", "reused"} THEN "success"
  ELSE IF states = {"failed"} THEN "failed" ELSE "partial"

EndWork(r) ==
  /\ step[r] = "working" /\ work[r] = Idle
  /\ StageStates(r) \cap {"pending", "running"} = {}
  /\ step' = [step EXCEPT ![r] = "unlocked"]
  /\ IF r \in Cycle THEN Release(r, CycleLock) ELSE UNCHANGED held
  /\ UNCHANGED <<rowVars, planVars, work, dataVars>> /\ NoFault

\* The lock is given back before the row is closed, by its owner only.
FinalizeResult(r) ==
  /\ step[r] = "unlocked"
  /\ Finalize(r, Aggregate(StageStates(r)), {"running"})

-----------------------------------------------------------------------------
(* Collectors *)

\* A source that another run is collecting fails the stage of a cycle, and
\* the whole of a solo run.
BeginCollect(r, s) ==
  /\ s \in Enabled(r) \cap Source
  /\ \/ r \in Cycle /\ step[r] = "working" /\ stage[r][s] = "pending"
     \/ r \in Solo /\ step[r] = "started"
  /\ IF ~Taken(s)
     THEN /\ held' = [held EXCEPT ![s] = r]
          /\ stage' = [stage EXCEPT ![r][s] = "running"]
          /\ step' = [step EXCEPT ![r] = "working"]
          /\ UNCHANGED <<rowVars, mode, history, work, dataVars>> /\ NoFault
     ELSE IF r \in Solo THEN Conflict(r)
     ELSE /\ stage' = [stage EXCEPT ![r][s] = "failed"]
          /\ UNCHANGED <<rowVars, step, mode, history, work, held, dataVars>> /\ NoFault

\* Records are published, with their events, in the collection's own transaction;
\* the outcome is logged afterwards, and a log that cannot be written fails the
\* stage.
EndCollect(r, s) ==
  /\ s \in Source /\ stage[r][s] = "running"
  /\ \E outcome \in {"success", "partial", "failed"}, wrote \in BOOLEAN :
       /\ outcome = "partial" => wrote
       /\ version' = [version EXCEPT ![s] = IF wrote THEN @ + 1 ELSE @]
       /\ unrouted' = IF wrote THEN unrouted \cup {r} ELSE unrouted
       /\ collected' = IF outcome = "success" THEN collected \cup {s} ELSE collected
       /\ stage' = [stage EXCEPT ![r][s] = outcome]
  /\ Release(r, s)
  /\ UNCHANGED <<syncRow, fresh, active, step, mode, history, work, newest, reusable>> /\ NoFault

-----------------------------------------------------------------------------
(* Processors *)

\* A partial collection does not count, a partial or reused output does.
Available(r) ==
  history[r] \cup {x \in Component : stage[r][x] \in {"success", "reused"}}
    \cup {p \in Processor : stage[r][p] = "partial"}

Ready(r, p) ==
  \/ r \in Solo
  \/ \A d \in DependsOn[p] :
       d \in Available(r) \/ (mode[r] = "analyze" /\ d \in Source)

CollectorsDone(r) == \A s \in Source \cap Enabled(r) : stage[r][s] \notin {"pending", "running"}

MayProcess(r, p) ==
  /\ p \in Enabled(r) \cap Processor /\ work[r] = Idle
  /\ \/ r \in Cycle /\ step[r] = "working" /\ stage[r][p] = "pending" /\ CollectorsDone(r)
     \/ r \in Solo /\ step[r] = "started"

\* The lock of a processor that is busy elsewhere ends the whole run.  Else
\* the fingerprint is taken, and an output with that fingerprint is reused
\* unless the cycle is forced.
BeginProcess(r, p) ==
  /\ MayProcess(r, p) /\ Ready(r, p)
  /\ IF Taken(p)
     THEN /\ step' = [step EXCEPT ![r] = "raised"]
          /\ IF r \in Cycle THEN Release(r, CycleLock) ELSE UNCHANGED held
          /\ UNCHANGED <<rowVars, planVars, work, dataVars>> /\ NoFault
     ELSE /\ step' = [step EXCEPT ![r] = "working"]
          /\ IF Fingerprint(p) \in reusable[p] /\ mode[r] # "force_full"
             THEN /\ stage' = [stage EXCEPT ![r][p] = "reused"]
                  /\ UNCHANGED <<held, work>>
             ELSE /\ held' = [held EXCEPT ![p] = r]
                  /\ stage' = [stage EXCEPT ![r][p] = "running"]
                  /\ work' = [work EXCEPT ![r] =
                       [on |-> p, print |-> Fingerprint(p), seen |-> <<>>, at |-> "printed"]]
          /\ UNCHANGED <<rowVars, mode, history, dataVars>> /\ NoFault

\* No processor that is left has its dependencies: all of them are skipped.
SkipRest(c) ==
  /\ c \in Cycle /\ step[c] = "working" /\ work[c] = Idle /\ CollectorsDone(c)
  /\ \E p \in Processor : stage[c][p] = "pending"
  /\ \A p \in Processor : stage[c][p] = "pending" => ~Ready(c, p)
  /\ stage' = [stage EXCEPT ![c] =
       [x \in Component |-> IF @[x] = "pending" THEN "skipped" ELSE @[x]]]
  /\ UNCHANGED <<rowVars, step, mode, history, work, held, dataVars>> /\ NoFault

\* Fault: the fingerprint is taken when the inputs have been processed.
ReadThenPrint(r) ==
  /\ work[r].at = "printed"
  /\ LET p == work[r].on IN
       work' = [work EXCEPT ![r].seen = [d \in Consumed[p] |-> IF d \in Fingerprinted[p]
                                                               THEN work[r].print[d] ELSE version[d]],
                            ![r].print = Fingerprint(p), ![r].at = "read"]
  /\ UNCHANGED <<rowVars, step, planVars, held, dataVars>> /\ NoFault

\* processor.process reads its inputs after the fingerprint was taken.
ReadInputs(r) ==
  /\ work[r].at = "printed"
  /\ work' = [work EXCEPT ![r].seen = Inputs(work[r].on), ![r].at = "read"]
  /\ UNCHANGED <<rowVars, step, planVars, held, dataVars>> /\ NoFault

StageEnds(r, p, outcome) ==
  /\ stage' = [stage EXCEPT ![r][p] = outcome]
  /\ work' = [work EXCEPT ![r] = Idle]
  /\ Release(r, p)

PublishOutput(r) ==
  /\ work[r].at = "read"
  /\ LET p == work[r].on IN
     /\ newest' = [newest EXCEPT ![p] = work[r].seen]
     /\ version' = [version EXCEPT ![p] = @ + 1]
  /\ work' = [work EXCEPT ![r].at = "published"]
  /\ UNCHANGED <<rowVars, step, planVars, held, collected, reusable>> /\ NoFault

\* The model, its validation or the write of the output fails.
ProcessFails(r) ==
  /\ work[r].at \in {"printed", "read"}
  /\ StageEnds(r, work[r].on, "failed")
  /\ UNCHANGED <<rowVars, step, mode, history, dataVars>> /\ NoFault

\* The log row makes the output reusable under the fingerprint.
LogOutput(r) ==
  /\ work[r].at = "published"
  /\ LET p == work[r].on IN
     \/ /\ reusable' = [reusable EXCEPT ![p] = @ \cup {work[r].print}]
        /\ StageEnds(r, p, "success")
     \/ /\ \E outcome \in {"partial", "failed"} : StageEnds(r, p, outcome)
        /\ UNCHANGED reusable
  /\ UNCHANGED <<rowVars, step, mode, history, version, collected, newest>> /\ NoFault

-----------------------------------------------------------------------------
(* Faults *)

\* The connection that holds a lock is lost; the work goes on.
CutSession(x) ==
  /\ held[x] # Unlocked /\ Fault
  /\ held' = [held EXCEPT ![x] = Unlocked]
  /\ sessionsCut' = sessionsCut + 1
  /\ UNCHANGED <<rowVars, step, planVars, work, dataVars>>

\* The process dies; its sessions end with it.
DieSync(r) ==
  /\ Alive(r) /\ Fault
  /\ step' = [step EXCEPT ![r] = "ended"]
  /\ work' = [work EXCEPT ![r] = Idle]
  /\ ForgetPlan(r)
  /\ held' = [x \in DOMAIN held |-> IF held[x] = r THEN Unlocked ELSE held[x]]
  /\ UNCHANGED <<rowVars, dataVars, sessionsCut>>

-----------------------------------------------------------------------------
CycleInit ==
  /\ syncRow = [r \in SyncRun |-> "none"] /\ fresh = [r \in SyncRun |-> FALSE]
  /\ unrouted = {} /\ active = {}
  /\ step = [r \in SyncRun |-> "new"] /\ mode = [r \in SyncRun |-> "refresh"]
  /\ stage = [r \in SyncRun |-> NoPlan]
  /\ history = [r \in SyncRun |-> {}]
  /\ work = [r \in SyncRun |-> Idle]
  /\ held = [x \in Component \cup {CycleLock} |-> Unlocked]
  /\ version = [x \in Component |-> 0] /\ collected = {}
  /\ newest = [p \in Processor |-> [d \in Consumed[p] |-> 0]]
  /\ reusable = [p \in Processor |-> {}]
  /\ cycleFaults = 0 /\ sessionsCut = 0

\* What a living caller does next.
Execute(r) ==
  \/ StartSync(r) \/ StartRaises(r) \/ FinalizeFailure(r) \/ TakeCycleLock(r)
  \/ EndWork(r) \/ FinalizeResult(r) \/ SkipRest(r)
  \/ \E s \in Source : BeginCollect(r, s) \/ EndCollect(r, s)
  \/ \E p \in Processor : BeginProcess(r, p)
  \/ ReadInputs(r) \/ PublishOutput(r) \/ ProcessFails(r) \/ LogOutput(r)

CycleNext ==
  \/ \E r \in SyncRun :
       \/ AcceptSync(r) \/ Execute(r) \/ BeatSync(r) \/ DieSync(r)
       \/ Lapse(r) \/ ReclaimSync(r) \/ AbandonSync(r)
       \/ RouteEvents(r) \/ JobsEnd(r)
  \/ \E x \in Component \cup {CycleLock} : CutSession(x)

CycleSpec == CycleInit /\ [][CycleNext]_cycleVars

\* A caller that lives gets on (every request has a timeout), a dead one's
\* timeout passes, the operation worker runs recovery again and again, and the
\* jobs of the analysis queue end (SectionJobsEnd of AnalysisQueue).
CycleFairness ==
  \A r \in SyncRun :
    /\ WF_cycleVars(Execute(r))
    /\ WF_cycleVars(~Alive(r) /\ Lapse(r))
    /\ WF_cycleVars(AbandonSync(r)) /\ WF_cycleVars(JobsEnd(r))

-----------------------------------------------------------------------------
(* Properties *)

\* Types of the rows, callers, stages and locks of synchronous runs; every
\* lock that is held is held for a caller that is still there.
CycleTypeOK ==
  /\ syncRow \in [SyncRun -> {"none", "accepted", "running", "completed", "failed", "abandoned"}]
  /\ fresh \in [SyncRun -> BOOLEAN]
  /\ unrouted \subseteq SyncRun /\ active \subseteq SyncRun
  /\ step \in [SyncRun -> {"new", "accepted", "started", "working", "unlocked", "unclaimed",
                           "raised", "ended"}]
  /\ mode \in [SyncRun -> {"refresh", "analyze", "force_full"}]
  /\ stage \in [SyncRun -> [Component ->
       {"pending", "running", "success", "partial", "failed", "skipped", "reused"}]]
  /\ history \in [SyncRun -> SUBSET Source]
  /\ held \in [Component \cup {CycleLock} -> SyncRun \cup {Unlocked}]
  /\ version \in [Component -> Nat] /\ collected \subseteq Source
  /\ cycleFaults \in 0..MaxCycleFaults /\ sessionsCut \in 0..MaxCycleFaults
  /\ \A r \in SyncRun : work[r].on \in Processor \cup {Unlocked}
  /\ \A x \in DOMAIN held : Taken(x) => Alive(held[x])

\* As long as no session was lost, two cycles never do their work at the same
\* time, also when recovery has abandoned the row of the one that is slow.
OneCycleAtATime ==
  sessionsCut = 0 => \A c, d \in Cycle : step[c] = "working" /\ step[d] = "working" => c = d

\* A fingerprint under which an output can be reused never promises more than
\* the newest output has seen: a stage that is skipped as unchanged leaves no
\* input unread that its fingerprint names, although the fingerprint is taken
\* before the inputs are read and other runs publish them in between.  (Of what
\* a processor reads besides, which base.py does not provide for and the briefing
\* does, the fingerprint tells nothing.)
ReuseIsCurrent ==
  sessionsCut = 0 => \A p \in Processor : \A print \in reusable[p] : Older(print, newest[p])

\* Every accepted run is closed in the end, by its caller or by recovery,
\* whatever crashes, stalls or fails to be written: also one that recovery has
\* put back to accepted because of the jobs from its events, and that neither its
\* caller nor any worker can finish after that.
SyncRunsClose ==
  \A r \in SyncRun : syncRow[r] \in {"accepted", "running"} ~> syncRow[r] \notin {"accepted", "running"}

\* Runs without a job keep the promise of RunPromise too: a caller that is slow,
\* and finds its row abandoned by recovery, does not change the answer any more.
SyncStatus ==
  [r \in SyncRun |-> IF syncRow[r] = "none" THEN "absent"
                     ELSE IF syncRow[r] \in OpenRows THEN "pending" ELSE syncRow[r]]
Promise == INSTANCE RunPromise WITH Run <- SyncRun, status <- SyncStatus
SyncPromiseKept == Promise!Spec
=============================================================================
