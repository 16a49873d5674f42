----------------------------- MODULE WorkerRole -----------------------------
(***************************************************************************)
(* Replicas of the worker role: the configuration snapshot each took at    *)
(* startup, the heartbeat loop that compares it with what is committed and *)
(* publishes liveness, and the scheduler that only the holder of a session *)
(* advisory lock starts.                                                   *)
(*                                                                         *)
(* A commit of the configuration is one step here; SetupState shows why.   *)
(* A schedule is due in every minute, and when its scheduler starts if the *)
(* configuration says so (run_on_startup); the identity of the run it      *)
(* enqueues is the minute in which it does.                                *)
(***************************************************************************)
EXTENDS Naturals, FiniteSets

CONSTANTS
  Replica,
  NoLeader,      \* nobody holds the leader lock
  Ghost,         \* the session of a dead process the server still keeps
  OnStartup,     \* the versions of the configuration with run_on_startup
  MaxMinute,     \* bound on the minutes that pass
  MaxCommits,    \* bound on the commits of the configuration
  MaxMishaps,    \* bound on kills, stop signals and lost sessions
  MaxThreadDeaths  \* bound on scheduler threads that end with an error

ASSUME RoleAssumption ==
  /\ {NoLeader, Ghost} \cap Replica = {} /\ NoLeader # Ghost
  /\ IsFiniteSet(Replica) /\ MaxMinute # 0
  /\ {MaxMinute, MaxCommits, MaxMishaps, MaxThreadDeaths} \subseteq Nat

VARIABLES
  committed,         \* how many versions of the configuration were committed
  up, snap, thread,  \* each process, its snapshot, its scheduler thread
  leader,            \* holder of the scheduler-leader lock
  minute, last,      \* the clock, and the latest window each scheduler has seen
  boot,              \* the minute in which each scheduler's startup run is due, or 0
  job, jobs,         \* the job of each window: state, and how many were accepted
  starts,            \* how many schedulers with a startup run started in a minute
  row, health,       \* role_heartbeats and worker_health.json
  sessionsLost, mishaps, deaths

jobVars   == <<job, jobs>>
clockVars == <<minute, last, boot, starts, jobVars>>
beatVars  == <<row, health>>
faultVars == <<sessionsLost, mishaps, deaths>>
roleVars  == <<committed, up, snap, thread, leader, clockVars, beatVars, faultVars>>

Minute == 1..MaxMinute

Mishap == mishaps < MaxMishaps /\ mishaps' = mishaps + 1

-----------------------------------------------------------------------------
CommitConfig ==
  /\ committed < MaxCommits
  /\ committed' = committed + 1
  /\ UNCHANGED <<up, snap, thread, leader, clockVars, beatVars, faultVars>>

\* run_worker: the old health record is cleared, the configuration loaded.
StartWorker(r) ==
  /\ up[r] = "down"
  /\ up' = [up EXCEPT ![r] = "running"]
  /\ snap' = [snap EXCEPT ![r] = committed]
  /\ thread' = [thread EXCEPT ![r] = "probing"]
  /\ health' = [health EXCEPT ![r] = FALSE]
  /\ UNCHANGED <<committed, leader, clockVars, row, faultVars>>

\* A new scheduler computes its first fire from now on: the current window is
\* not due any more, except for a schedule that is run on startup.
StartsScheduler(r) ==
  /\ last' = [last EXCEPT ![r] = minute]
  /\ IF snap[r] \in OnStartup
     THEN /\ boot' = [boot EXCEPT ![r] = minute]
          /\ starts' = [starts EXCEPT ![minute] = @ + 1]
     ELSE UNCHANGED <<boot, starts>>

\* Fault: a standby starts its scheduler without having obtained the lock.
AcquireRegardless(r) ==
  /\ up[r] = "running" /\ thread[r] = "probing"
  /\ thread' = [thread EXCEPT ![r] = "leading"]
  /\ leader' = IF leader = NoLeader THEN r ELSE leader
  /\ StartsScheduler(r)
  /\ UNCHANGED <<committed, up, snap, minute, jobVars, beatVars, faultVars>>

AcquireLeader(r) ==
  /\ up[r] = "running" /\ thread[r] = "probing" /\ leader = NoLeader
  /\ thread' = [thread EXCEPT ![r] = "leading"]
  /\ leader' = r
  /\ StartsScheduler(r)
  /\ UNCHANGED <<committed, up, snap, minute, jobVars, beatVars, faultVars>>

\* start_scheduler raises: the thread ends, and the role goes on without a
\* scheduler.  Its connection is closed, which gives it back to the pool of the
\* process; the pool rolls back, which leaves the session its lock, and keeps it
\* unless it holds more connections than it keeps idle.
SchedulerThreadDies(r) ==
  /\ up[r] = "running" /\ thread[r] = "probing" /\ leader = NoLeader
  /\ deaths < MaxThreadDeaths /\ deaths' = deaths + 1
  /\ thread' = [thread EXCEPT ![r] = "ended"]
  /\ leader' \in {r, NoLeader}
  /\ UNCHANGED <<committed, up, snap, clockVars, beatVars, sessionsLost, mishaps>>

\* The connection with the lock is lost.  Nothing looks at it while the
\* scheduler runs, so the process goes on as leader.
LoseSession(r) ==
  /\ leader = r /\ Mishap
  /\ leader' = NoLeader
  /\ sessionsLost' = sessionsLost + 1
  /\ UNCHANGED <<committed, up, snap, thread, clockVars, beatVars, deaths>>

Reap ==
  /\ leader = Ghost
  /\ leader' = NoLeader
  /\ UNCHANGED <<committed, up, snap, thread, clockVars, beatVars, faultVars>>

Schedules(r) == thread[r] = "leading" /\ up[r] # "down"

\* _enqueue_scheduled_run: the window is enqueued unless a job of that identity
\* is still active; a transaction that fails is logged and not repeated.
Enqueue ==
  \/ /\ job[minute] # "active"
     /\ job' = [job EXCEPT ![minute] = "active"]
     /\ jobs' = [jobs EXCEPT ![minute] = @ + 1]
  \/ UNCHANGED jobVars

\* A startup run that is still due is coalesced with this one; if it is under
\* way, this one is skipped.
Fire(r) ==
  /\ Schedules(r) /\ last[r] < minute
  /\ last' = [last EXCEPT ![r] = minute]
  /\ \/ boot' = [boot EXCEPT ![r] = 0] /\ Enqueue
     \/ boot[r] # 0 /\ UNCHANGED <<boot, jobVars>>
  /\ UNCHANGED <<committed, up, snap, thread, leader, minute, starts, beatVars, faultVars>>

\* The startup run, which takes the window of the minute it is executed in: the
\* next one when the scheduler started at the end of its minute.  Later than
\* that it is a misfire.
FireOnStartup(r) ==
  /\ Schedules(r) /\ boot[r] # 0 /\ minute <= boot[r] + 1
  /\ boot' = [boot EXCEPT ![r] = 0]
  /\ Enqueue
  /\ UNCHANGED <<committed, up, snap, thread, leader, minute, last, starts, beatVars, faultVars>>

JobEnds(m) ==
  /\ job[m] = "active"
  /\ job' = [job EXCEPT ![m] = "done"]
  /\ UNCHANGED <<committed, up, snap, thread, leader, minute, last, boot, starts, jobs,
                 beatVars, faultVars>>

MinutePasses ==
  /\ minute < MaxMinute
  /\ minute' = minute + 1
  /\ UNCHANGED <<committed, up, snap, thread, leader, last, boot, starts, jobVars, beatVars,
                 faultVars>>

\* Fault: the loop compares its snapshot with a version it reloads itself.
BeatAnyVersion(r) ==
  /\ up[r] = "running"
  /\ \/ row' = [row EXCEPT ![r] = "running"] /\ health' = [health EXCEPT ![r] = TRUE]
     \/ row' = row /\ health' = [health EXCEPT ![r] = FALSE]
  /\ UNCHANGED <<committed, up, snap, thread, leader, clockVars, faultVars>>

\* One round of _heartbeat_loop.  Drift stops the process; the health record
\* is written after the row, and cleared when the row could not be written.
Beat(r) ==
  /\ up[r] = "running"
  /\ IF snap[r] # committed
     THEN /\ up' = [up EXCEPT ![r] = "stopping"]
          /\ row' \in {row, [row EXCEPT ![r] = "stopped"]}
          /\ health' = [health EXCEPT ![r] = FALSE]
     ELSE /\ up' = up
          /\ \/ row' = [row EXCEPT ![r] = "running"] /\ health' = [health EXCEPT ![r] = TRUE]
             \/ row' = row /\ health' = [health EXCEPT ![r] = FALSE]
  /\ UNCHANGED <<committed, snap, thread, leader, clockVars, faultVars>>

StopSignal(r) ==
  /\ up[r] = "running" /\ Mishap
  /\ up' = [up EXCEPT ![r] = "stopping"]
  /\ UNCHANGED <<committed, snap, thread, leader, clockVars, beatVars, sessionsLost, deaths>>

\* The finally block of run_worker and of the scheduler thread, and the exit of
\* the process, which ends its sessions.
ExitWorker(r) ==
  /\ up[r] = "stopping"
  /\ up' = [up EXCEPT ![r] = "down"]
  /\ thread' = [thread EXCEPT ![r] = "ended"]
  /\ boot' = [boot EXCEPT ![r] = 0]
  /\ leader' = IF leader = r THEN NoLeader ELSE leader
  /\ row' \in {row, [row EXCEPT ![r] = "stopped"]}
  /\ health' = [health EXCEPT ![r] = FALSE]
  /\ UNCHANGED <<committed, snap, minute, last, starts, jobVars, faultVars>>

\* The row and the health record of a killed process stay behind.
KillWorker(r) ==
  /\ up[r] # "down" /\ Mishap
  /\ up' = [up EXCEPT ![r] = "down"]
  /\ thread' = [thread EXCEPT ![r] = "ended"]
  /\ boot' = [boot EXCEPT ![r] = 0]
  /\ leader' = IF leader = r THEN Ghost ELSE leader
  /\ UNCHANGED <<committed, snap, minute, last, starts, jobVars, beatVars, sessionsLost, deaths>>

-----------------------------------------------------------------------------
RoleInit ==
  /\ committed = 0
  /\ up = [r \in Replica |-> "down"]
  /\ snap = [r \in Replica |-> 0]
  /\ thread = [r \in Replica |-> "ended"]
  /\ leader = NoLeader
  /\ minute = 1 /\ last = [r \in Replica |-> 0]
  /\ boot = [r \in Replica |-> 0] /\ starts = [m \in Minute |-> 0]
  /\ job = [m \in Minute |-> "none"] /\ jobs = [m \in Minute |-> 0]
  /\ row = [r \in Replica |-> "none"] /\ health = [r \in Replica |-> FALSE]
  /\ sessionsLost = 0 /\ mishaps = 0 /\ deaths = 0

RoleNext ==
  \/ \E r \in Replica :
       \/ StartWorker(r) \/ AcquireLeader(r) \/ SchedulerThreadDies(r) \/ LoseSession(r)
       \/ Fire(r) \/ FireOnStartup(r) \/ Beat(r) \/ StopSignal(r) \/ ExitWorker(r) \/ KillWorker(r)
  \/ \E m \in Minute : JobEnds(m)
  \/ CommitConfig \/ Reap \/ MinutePasses

RoleSpec == RoleInit /\ [][RoleNext]_roleVars

\* The container runtime restarts what exits, the heartbeat loop and the
\* leadership probe run every few seconds, the server drops dead sessions.
RoleFairness ==
  /\ \A r \in Replica :
       WF_roleVars(StartWorker(r)) /\ WF_roleVars(Beat(r)) /\ WF_roleVars(ExitWorker(r))
  /\ WF_roleVars(\E r \in Replica : AcquireLeader(r))
  /\ WF_roleVars(Reap)

RoleFairSpec == RoleSpec /\ RoleFairness

-----------------------------------------------------------------------------
(* Properties *)

\* Types of the variables of roles.py and scheduler.py; the leader lock is
\* never left with a process that has exited.
RoleTypeOK ==
  /\ committed \in 0..MaxCommits
  /\ up \in [Replica -> {"down", "running", "stopping"}]
  /\ snap \in [Replica -> 0..MaxCommits]
  /\ thread \in [Replica -> {"probing", "leading", "ended"}]
  /\ leader \in Replica \cup {NoLeader, Ghost}
  /\ leader \in Replica => up[leader] # "down"
  /\ minute \in Nat /\ last \in [Replica -> Nat]
  /\ boot \in [Replica -> Nat] /\ starts \in [Minute -> Nat]
  /\ job \in [Minute -> {"none", "active", "done"}]
  /\ jobs \in [Minute -> Nat]
  /\ row \in [Replica -> {"none", "running", "stopped"}]
  /\ health \in [Replica -> BOOLEAN]
  /\ sessionsLost \in Nat /\ mishaps \in Nat /\ deaths \in Nat

StartsIn(m) == IF m \in Minute THEN starts[m] ELSE 0

\* scheduler.py promises one job for a window that several schedulers fire.  The
\* identity sees to it while the job is active; after that leadership does, and
\* the first fire of a new scheduler.  So a window gets no more jobs than one,
\* one for every session a leader lost without noticing, and one for every
\* scheduler that was started in it, or in the minute before it, with the
\* schedule's startup run: whichever process dies, stops or takes over while the
\* window is due.
RepeatsHaveACause ==
  \A m \in Minute : jobs[m] <= 1 + sessionsLost + StartsIn(m) + StartsIn(m - 1)

\* Whatever was committed, killed, stopped or disconnected: in the end every
\* worker runs the committed configuration and one of them schedules.  Unless
\* every scheduler thread has died, or one that has died left the leader lock
\* with a session of its process, which goes on beating: then no other process
\* can take over.
ServiceRecovers ==
  <>[](/\ \A r \in Replica : up[r] = "running" /\ snap[r] = committed
       /\ \/ \E r \in Replica : thread[r] = "leading"
          \/ \A r \in Replica : thread[r] = "ended"
          \/ \E r \in Replica : thread[r] = "ended" /\ leader = r)
=============================================================================
