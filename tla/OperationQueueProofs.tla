------------------------ MODULE OperationQueueProofs ------------------------
(***************************************************************************)
(* Safety of the operation lane for every number of workers, runs,         *)
(* requests and attempts.                                                  *)
(***************************************************************************)
EXTENDS OperationQueue, TLAPS

LEMMA IdentityType ==
  ASSUME NEW q \in Request
  PROVE  IdentityFor(q) \in Component \X (Window \cup Key \cup Run)
  BY RequestAssumption DEF IdentityFor

\* The parts of TypeOK a finalizing transaction and the end of a handler touch.
JobsTyped ==
  /\ job \in [Run -> {"none"} \cup ActiveStates \cup TerminalStates]
  /\ identity \in [Run -> (Component \X (Window \cup Key \cup Run)) \cup {Nobody}]
  /\ holder \in [Run -> Worker \cup {Nobody}]
  /\ lease \in [Run -> BOOLEAN]
  /\ attempts \in [Run -> 0..MaxAttempts]
RunsTyped ==
  /\ run \in [Run -> {"absent"} \cup OpenRuns \cup ClosedRuns]
  /\ runKey \in [Run -> Key \cup {Nobody}]
  /\ owner \in [Run -> (Worker \X Nat) \cup {Nobody}]
WorkersTyped ==
  /\ pc \in [Worker -> Steps]
  /\ at \in [Worker -> Run \cup {Nobody}]
  /\ try \in [Worker -> 0..MaxAttempts]
  /\ crashes \in 0..MaxCrashes
RestTyped ==
  /\ follow \in [Run -> {"none", "published", "queued", "held", "done"}]
  /\ reply \in (Request \X Answers) \cup {Nobody}

LEMMA TypeParts == TypeOK <=> JobsTyped /\ RunsTyped /\ WorkersTyped /\ RestTyped
  BY DEF TypeOK, JobsTyped, RunsTyped, WorkersTyped, RestTyped

LEMMA TypePartsNext ==
  JobsTyped' /\ RunsTyped' /\ WorkersTyped' /\ RestTyped' => TypeOK'
  BY DEF TypeOK, JobsTyped, RunsTyped, WorkersTyped, RestTyped

LEMMA SetJobTyped ==
  ASSUME JobsTyped, NEW r, NEW state \in ActiveStates \cup TerminalStates, SetJob(r, state)
  PROVE  JobsTyped'
  BY NobodyAssumption DEF JobsTyped, SetJob

LEMMA ReopenTyped ==
  ASSUME RunsTyped, NEW r, Reopen(r)
  PROVE  /\ run' \in [Run -> {"absent"} \cup OpenRuns \cup ClosedRuns]
         /\ owner' \in [Run -> (Worker \X Nat) \cup {Nobody}]
  BY DEF RunsTyped, Reopen, OpenRuns, ClosedRuns

LEMMA ReturnTyped ==
  ASSUME WorkersTyped, NEW w \in Worker, Return(w)
  PROVE  WorkersTyped'
  BY BoundsAssumption DEF WorkersTyped, Return, Steps

LEMMA GotoTyped ==
  ASSUME WorkersTyped, NEW w, NEW step \in Steps, Goto(w, step), UNCHANGED <<at, try, crashes>>
  PROVE  WorkersTyped'
  BY DEF WorkersTyped, Goto

\* Every step leaves each row and each worker's memory well formed.
LEMMA TypeStep == TypeOK /\ [Next]_vars => TypeOK'
<1> SUFFICES ASSUME TypeOK, [Next]_vars PROVE TypeOK'
  OBVIOUS
<1> USE RequestAssumption, NobodyAssumption, BoundsAssumption
<1> USE DEF TypeOK, Answers, ActiveStates, TerminalStates, OpenRuns, ClosedRuns, Steps
<1>1. ASSUME NEW q \in Request, Accept(q) PROVE TypeOK'
  <2>0. q.cid \in Run /\ q.key \in Key \cup {Nobody}
    OBVIOUS
  <2>1. CASE AcceptNew(q)
    BY <2>0, <2>1, IdentityType DEF AcceptNew, Answer, workerVars
  <2>2. CASE AcceptDuplicate(q)
    BY <2>0, <2>2 DEF AcceptDuplicate, Answer, jobVars, workerVars
  <2>3. CASE AcceptReplay(q)
    BY <2>3 DEF AcceptReplay, Answer, rowVars, jobVars, workerVars
  <2>4. CASE AcceptConflict(q)
    BY <2>4 DEF AcceptConflict, Answer, rowVars, jobVars, workerVars
  <2> QED BY <1>1, <2>1, <2>2, <2>3, <2>4 DEF Accept
<1>2. ASSUME NEW w \in Worker, StartJob(w) PROVE TypeOK'
  <2>1. WorkersTyped'
    BY <1>2, TypeParts, ReturnTyped, GotoTyped DEF StartJob
  <2>2. JobsTyped' /\ RunsTyped' /\ RestTyped'
    BY <1>2 DEF StartJob, JobsTyped, RunsTyped, RestTyped, rowVars
  <2> QED BY <2>1, <2>2, TypePartsNext
<1>3. ASSUME NEW w \in Worker, StartRun(w) PROVE TypeOK'
  <2>1. WorkersTyped'
    BY <1>3, TypeParts, GotoTyped DEF StartRun
  <2>2. run' \in [Run -> {"absent"} \cup OpenRuns \cup ClosedRuns]
    BY <1>3 DEF StartRun
  <2>3. Token(w) \in Worker \X Nat
    BY <1>3 DEF Token
  <2>4. owner' \in [Run -> (Worker \X Nat) \cup {Nobody}]
    BY <1>3, <2>3 DEF StartRun
  <2>5. JobsTyped' /\ RunsTyped' /\ RestTyped'
    BY <1>3, <2>2, <2>4 DEF StartRun, JobsTyped, RunsTyped, RestTyped, jobVars
  <2> QED BY <2>1, <2>5, TypePartsNext
<1>4. ASSUME NEW w \in Worker, ReadRunStatus(w) PROVE TypeOK'
  <2>1. WorkersTyped'
    BY <1>4, TypeParts, GotoTyped DEF ReadRunStatus
  <2>2. JobsTyped' /\ RunsTyped' /\ RestTyped'
    BY <1>4 DEF ReadRunStatus, JobsTyped, RunsTyped, RestTyped, rowVars, jobVars
  <2> QED BY <2>1, <2>2, TypePartsNext
<1>5. ASSUME NEW w \in Worker, CloseFinished(w) PROVE TypeOK'
  <2>1. WorkersTyped'
    BY <1>5, TypeParts, ReturnTyped, GotoTyped DEF CloseFinished
  <2>2. JobsTyped'
    BY <1>5, TypeParts, SetJobTyped DEF CloseFinished, JobsTyped, jobVars
  <2>3. RunsTyped' /\ RestTyped'
    BY <1>5 DEF CloseFinished, RunsTyped, RestTyped, rowVars
  <2> QED BY <2>1, <2>2, <2>3, TypePartsNext
<1>6. ASSUME NEW w \in Worker, Dispatch(w) \/ PublishEvents(w) PROVE TypeOK'
  BY <1>6 DEF Dispatch, PublishEvents, Goto, rowVars, jobVars, workerVars
<1>7. ASSUME NEW w \in Worker, Finish(w) PROVE TypeOK'
  <2>1. WorkersTyped'
    BY <1>7, TypeParts, ReturnTyped, GotoTyped DEF Finish
  <2>2. JobsTyped'
    BY <1>7, TypeParts, SetJobTyped DEF Finish, JobsTyped, jobVars
  <2>3. run' \in [Run -> {"absent"} \cup OpenRuns \cup ClosedRuns]
    BY <1>7 DEF Finish
  <2>4. RunsTyped' /\ RestTyped'
    BY <1>7, <2>3 DEF Finish, RunsTyped, RestTyped
  <2> QED BY <2>1, <2>2, <2>4, TypePartsNext
<1>8. ASSUME NEW w \in Worker, Retry(w) PROVE TypeOK'
  <2>1. WorkersTyped'
    BY <1>8, TypeParts, ReturnTyped DEF Retry
  <2>2. JobsTyped'
    BY <1>8, TypeParts, SetJobTyped DEF Retry, JobsTyped, jobVars
  <2>3. Reopen(at[w]) \/ UNCHANGED <<run, owner>>
    BY <1>8 DEF Retry
  <2>4. RunsTyped' /\ RestTyped'
    BY <1>8, <2>3, TypeParts, ReopenTyped DEF Retry, RunsTyped, RestTyped
  <2> QED BY <2>1, <2>2, <2>4, TypePartsNext
<1>9. ASSUME NEW w \in Worker, Poison(w) PROVE TypeOK'
  <2>1. WorkersTyped'
    BY <1>9, TypeParts, ReturnTyped DEF Poison
  <2>2. JobsTyped'
    BY <1>9, TypeParts, SetJobTyped DEF Poison, JobsTyped, jobVars
  <2>3. run' \in [Run -> {"absent"} \cup OpenRuns \cup ClosedRuns]
    BY <1>9 DEF Poison
  <2>4. RunsTyped' /\ RestTyped'
    BY <1>9, <2>3 DEF Poison, RunsTyped, RestTyped
  <2> QED BY <2>1, <2>2, <2>4, TypePartsNext
<1>10. ASSUME NEW w \in Worker, Crash(w) \/ Restart(w) PROVE TypeOK'
  BY <1>10 DEF Crash, Restart, Goto, rowVars, jobVars
<1>11. ASSUME NEW w \in Worker, NEW r \in Run, NEW stale \in BOOLEAN, Claim(w, r, stale)
       PROVE TypeOK'
  <2>1. attempts[r] + 1 \in 0..MaxAttempts
    BY <1>11 DEF Claim, Claimable
  <2>2. JobsTyped'
    BY <1>11, <2>1 DEF Claim, JobsTyped
  <2>3. WorkersTyped'
    BY <1>11, <2>1 DEF Claim, WorkersTyped
  <2>4. Reopen(r) \/ UNCHANGED <<run, owner>>
    BY <1>11 DEF Claim
  <2>5. RunsTyped' /\ RestTyped'
    BY <1>11, <2>4, TypeParts, ReopenTyped DEF Claim, RunsTyped, RestTyped
  <2> QED BY <2>2, <2>3, <2>5, TypePartsNext
<1>12. ASSUME NEW w \in Worker, NEW late \in SUBSET Run, Maintain(w, late) PROVE TypeOK'
  <2>1. run' \in [Run -> {"absent"} \cup OpenRuns \cup ClosedRuns]
    BY <1>12 DEF Maintain, Reconciled, Recovered
  <2>2. owner' \in [Run -> (Worker \X Nat) \cup {Nobody}]
    BY <1>12 DEF Maintain
  <2>3. job' \in [Run -> {"none"} \cup ActiveStates \cup TerminalStates]
    BY <1>12 DEF Maintain
  <2> QED BY <1>12, <2>1, <2>2, <2>3 DEF Maintain, workerVars
<1>13. ASSUME NEW r \in Run, LeaseLapses(r) PROVE TypeOK'
  BY <1>13 DEF LeaseLapses, rowVars, workerVars
<1>14. ASSUME NEW r \in Run, FollowUp(r) PROVE TypeOK'
  BY <1>14 DEF FollowUp, rowVars, jobVars, workerVars
<1>15. CASE UNCHANGED vars
  BY <1>15 DEF vars, rowVars, jobVars, workerVars
<1> QED
  BY <1>1, <1>2, <1>3, <1>4, <1>5, <1>6, <1>7, <1>8, <1>9, <1>10, <1>11, <1>12,
     <1>13, <1>14, <1>15 DEF Next, Handle

\* Rows and workers are always well formed; in particular no job is ever
\* claimed more often than max_attempts allows.
THEOREM TypeCorrect == Spec => []TypeOK
<1>1. Init => TypeOK
  BY NobodyAssumption, BoundsAssumption, RequestAssumption
     DEF Init, TypeOK, ActiveStates, TerminalStates, OpenRuns, ClosedRuns, Steps
<1> QED BY <1>1, TypeStep, PTL DEF Spec

-----------------------------------------------------------------------------
(***************************************************************************)
(* Agreement of the two rows.  It is not inductive alone: a worker that    *)
(* read a closed run is about to close its job on the strength of that     *)
(* read, so the invariant also says that what it read still holds.         *)
(***************************************************************************)
ReadsStillHold ==
  \A w \in Worker :
    /\ pc[w] \notin {"idle", "dead"} => at[w] \in Run
    /\ pc[w] \in {"closing", "rejecting"} => run[at[w]] \in ClosedRuns

IInv == TypeOK /\ RunJobAgreement /\ ReadsStillHold

LEMMA InitIInv == Init => IInv
  <1>1. Init => TypeOK
    BY NobodyAssumption, BoundsAssumption, RequestAssumption
       DEF Init, TypeOK, ActiveStates, TerminalStates, OpenRuns, ClosedRuns, Steps
  <1>2. Init => RunJobAgreement
    BY DEF Init, RunJobAgreement, ActiveStates, OpenRuns
  <1>3. Init => ReadsStillHold
    BY DEF Init, ReadsStillHold
  <1> QED BY <1>1, <1>2, <1>3 DEF IInv

\* A closed run is left closed, with the outcome it has, by every step.
LEMMA ClosedRunStays ==
  ASSUME IInv, [Next]_vars, NEW r \in Run, run[r] \in ClosedRuns
  PROVE  run'[r] = run[r]
<1> USE DEF IInv, TypeOK, OpenRuns, ClosedRuns
<1>1. ASSUME NEW q \in Request, Accept(q) PROVE run'[r] = run[r]
  BY <1>1, RequestAssumption
     DEF Accept, AcceptNew, AcceptDuplicate, AcceptReplay, AcceptConflict, Fresh, rowVars
<1>2. ASSUME NEW w \in Worker, StartJob(w) \/ ReadRunStatus(w) \/ CloseFinished(w)
                                \/ Dispatch(w) \/ PublishEvents(w) \/ Crash(w) \/ Restart(w)
      PROVE run'[r] = run[r]
  BY <1>2 DEF StartJob, ReadRunStatus, CloseFinished, Dispatch, PublishEvents, Crash,
              Restart, rowVars
<1>3. ASSUME NEW w \in Worker, StartRun(w) \/ Finish(w) \/ Poison(w) PROVE run'[r] = run[r]
  BY <1>3 DEF StartRun, Finish, Poison
<1>4. ASSUME NEW w \in Worker, Retry(w) PROVE run'[r] = run[r]
  BY <1>4 DEF Retry, Reopen
<1>5. ASSUME NEW w \in Worker, NEW s \in Run, NEW stale \in BOOLEAN, Claim(w, s, stale)
      PROVE run'[r] = run[r]
  BY <1>5 DEF Claim, Reopen
<1>6. ASSUME NEW w \in Worker, NEW late \in SUBSET Run, Maintain(w, late)
      PROVE run'[r] = run[r]
  <2>1. Recovered(r, late) = run[r]
    BY DEF Recovered
  <2>2. Reconciled(r, run[r]) = run[r]
    BY DEF Reconciled
  <2> QED BY <1>6, <2>1, <2>2 DEF Maintain
<1>7. ASSUME NEW s \in Run, LeaseLapses(s) \/ FollowUp(s) PROVE run'[r] = run[r]
  BY <1>7 DEF LeaseLapses, FollowUp, rowVars
<1>8. CASE UNCHANGED vars
  BY <1>8 DEF vars, rowVars
<1> QED
  BY <1>1, <1>2, <1>3, <1>4, <1>5, <1>6, <1>7, <1>8 DEF Next, Handle

\* Whatever a step does to a worker, the closed run it once read stays closed.
LEMMA ReadsStep == IInv /\ [Next]_vars => ReadsStillHold'
<1> SUFFICES ASSUME IInv, [Next]_vars, NEW w \in Worker
             PROVE  /\ pc'[w] \notin {"idle", "dead"} => at'[w] \in Run
                    /\ pc'[w] \in {"closing", "rejecting"} => run'[at'[w]] \in ClosedRuns
  BY DEF ReadsStillHold
<1> USE DEF IInv, TypeOK
<1> DEFINE Kept == /\ pc'[w] = pc[w] /\ at'[w] = at[w]
           Done == pc'[w] \in {"idle", "dead"}
           Other == at'[w] \in Run /\ pc'[w] \notin {"closing", "rejecting"}
           Saw == at'[w] = at[w] /\ at[w] \in Run /\ run[at[w]] \in ClosedRuns
<1>1. Kept \/ Done \/ Other \/ Saw
  <2>1. ASSUME NEW q \in Request, Accept(q) PROVE Kept
    BY <2>1 DEF Accept, AcceptNew, AcceptDuplicate, AcceptReplay, AcceptConflict, workerVars
  <2>2. ASSUME NEW v \in Worker, Handle(v) PROVE Kept \/ Done \/ Other \/ Saw
    <3>1. CASE v # w
      BY <2>2, <3>1 DEF Handle, StartJob, StartRun, ReadRunStatus, CloseFinished, Dispatch,
                        Finish, Retry, Poison, Goto, Return
    <3>2. CASE v = w
      <4>1. pc[w] \notin {"idle", "dead"}
        BY <2>2, <3>2 DEF Handle, StartJob, StartRun, ReadRunStatus, CloseFinished,
                          Dispatch, Finish, Retry, Poison
      <4>2. at[w] \in Run
        BY <4>1 DEF ReadsStillHold
      <4>3. CASE ReadRunStatus(w)
        BY <4>2, <4>3 DEF ReadRunStatus, Goto, ClosedRuns, OpenRuns
      <4>4. CASE StartJob(w)
        BY <4>2, <4>4 DEF StartJob, Goto, Return
      <4>5. CASE StartRun(w)
        BY <4>2, <4>5 DEF StartRun, Goto
      <4>6. CASE CloseFinished(w)
        BY <4>2, <4>6 DEF CloseFinished, Goto, Return
      <4>7. CASE Dispatch(w)
        BY <4>2, <4>7 DEF Dispatch, Goto
      <4>8. CASE Finish(w) \/ Retry(w) \/ Poison(w)
        BY <4>2, <4>8 DEF Finish, Retry, Poison, Goto, Return
      <4> QED BY <2>2, <3>2, <4>3, <4>4, <4>5, <4>6, <4>7, <4>8 DEF Handle
    <3> QED BY <3>1, <3>2
  <2>3. ASSUME NEW v \in Worker, PublishEvents(v) PROVE Kept
    BY <2>3 DEF PublishEvents, workerVars
  <2>4. ASSUME NEW v \in Worker, Crash(v) \/ Restart(v) PROVE Kept \/ Done
    BY <2>4 DEF Crash, Restart, Goto
  <2>5. ASSUME NEW v \in Worker, NEW r \in Run, NEW stale \in BOOLEAN, Claim(v, r, stale)
        PROVE Kept \/ Other
    BY <2>5 DEF Claim
  <2>6. ASSUME NEW v \in Worker, NEW late \in SUBSET Run, Maintain(v, late) PROVE Kept
    BY <2>6 DEF Maintain, workerVars
  <2>7. ASSUME NEW r \in Run, LeaseLapses(r) \/ FollowUp(r) PROVE Kept
    BY <2>7 DEF LeaseLapses, FollowUp, workerVars
  <2>8. CASE UNCHANGED vars
    BY <2>8 DEF vars, workerVars
  <2> QED BY <2>1, <2>2, <2>3, <2>4, <2>5, <2>6, <2>7, <2>8 DEF Next
<1>2. CASE Kept
  <2>1. pc[w] \in {"closing", "rejecting"} => at[w] \in Run /\ run[at[w]] \in ClosedRuns
    BY DEF ReadsStillHold
  <2> QED BY <1>2, <2>1, ClosedRunStays DEF ReadsStillHold
<1>3. CASE Saw
  BY <1>3, ClosedRunStays
<1> QED BY <1>1, <1>2, <1>3

\* How a transaction on the jobs row leaves every other row alone.
LEMMA SetJobEffect ==
  ASSUME JobsTyped, NEW r \in Run, NEW state, SetJob(r, state), NEW s \in Run
  PROVE  job'[s] = IF s = r THEN state ELSE job[s]
  BY DEF JobsTyped, SetJob

\* Either the two rows close in one transaction or neither does; maintenance
\* repairs both in one, and cannot abandon a run whose job is active.
LEMMA AgreementStep == IInv /\ [Next]_vars => RunJobAgreement'
<1> SUFFICES ASSUME IInv, [Next]_vars, NEW r \in Run
             PROVE  /\ run'[r] \in OpenRuns <=> job'[r] \in ActiveStates
                    /\ run'[r] = "completed" <=> job'[r] = "succeeded"
                    /\ run'[r] = "failed" <=> job'[r] = "failed_terminal"
                    /\ run'[r] # "abandoned"
  BY DEF RunJobAgreement
<1> DEFINE Agree(state, outcome) ==
             /\ outcome \in OpenRuns <=> state \in ActiveStates
             /\ outcome = "completed" <=> state = "succeeded"
             /\ outcome = "failed" <=> state = "failed_terminal"
             /\ outcome # "abandoned"
<1>0. /\ JobsTyped /\ RunsTyped /\ Agree(job[r], run[r])
      /\ \A s \in Run : run[s] \in OpenRuns <=> job[s] \in ActiveStates
  BY TypeParts DEF IInv, RunJobAgreement
<1> SUFFICES Agree(job'[r], run'[r])
  OBVIOUS
<1> USE DEF ActiveStates, OpenRuns
<1>1. ASSUME NEW q \in Request, Accept(q) PROVE Agree(job'[r], run'[r])
  <2>1. CASE AcceptNew(q)
    BY <1>0, <2>1 DEF AcceptNew, Fresh, JobsTyped, RunsTyped
  <2>2. CASE AcceptDuplicate(q)
    BY <1>0, <2>2 DEF AcceptDuplicate, Fresh, JobsTyped, RunsTyped, jobVars, TerminalStates
  <2>3. CASE AcceptReplay(q) \/ AcceptConflict(q)
    BY <1>0, <2>3 DEF AcceptReplay, AcceptConflict, rowVars, jobVars
  <2> QED BY <1>1, <2>1, <2>2, <2>3 DEF Accept
<1>2. ASSUME NEW w \in Worker, StartJob(w) PROVE Agree(job'[r], run'[r])
  BY <1>0, <1>2 DEF StartJob, rowVars, JobsTyped
<1>3. ASSUME NEW w \in Worker, StartRun(w) PROVE Agree(job'[r], run'[r])
  BY <1>0, <1>3 DEF StartRun, jobVars, RunsTyped
<1>4. ASSUME NEW w \in Worker, ReadRunStatus(w) \/ Dispatch(w) \/ PublishEvents(w)
                                \/ Crash(w) \/ Restart(w)
      PROVE Agree(job'[r], run'[r])
  BY <1>0, <1>4 DEF ReadRunStatus, Dispatch, PublishEvents, Crash, Restart, rowVars, jobVars
<1>5. ASSUME NEW w \in Worker, CloseFinished(w) PROVE Agree(job'[r], run'[r])
  <2>1. at[w] \in Run /\ run[at[w]] \in ClosedRuns
    BY <1>5 DEF CloseFinished, IInv, ReadsStillHold
  <2>2. ~Holds(w)
    BY <1>0, <2>1 DEF Holds, ClosedRuns
  <2>3. UNCHANGED jobVars /\ UNCHANGED rowVars
    BY <1>5, <2>2 DEF CloseFinished
  <2> QED BY <1>0, <2>3 DEF rowVars, jobVars
<1>6. ASSUME NEW w \in Worker, Finish(w) \/ Retry(w) \/ Poison(w)
      PROVE Agree(job'[r], run'[r])
  <2>1. at[w] \in Run
    BY <1>6 DEF Finish, Retry, Poison, IInv, ReadsStillHold
  <2>2. CASE Finish(w)
    BY <1>0, <2>1, <2>2, SetJobEffect DEF Finish, Holds, RunsTyped, jobVars
  <2>3. CASE Retry(w)
    BY <1>0, <2>1, <2>3, SetJobEffect DEF Retry, Holds, Reopen, RunsTyped, jobVars
  <2>4. CASE Poison(w)
    BY <1>0, <2>1, <2>4, SetJobEffect DEF Poison, Holds, RunsTyped, jobVars
  <2> QED BY <1>6, <2>2, <2>3, <2>4
<1>7. ASSUME NEW w \in Worker, NEW s \in Run, NEW stale \in BOOLEAN, Claim(w, s, stale)
      PROVE Agree(job'[r], run'[r])
  BY <1>0, <1>7 DEF Claim, Claimable, Reopen, JobsTyped, RunsTyped
<1>8. ASSUME NEW w \in Worker, NEW late \in SUBSET Run, Maintain(w, late)
      PROVE Agree(job'[r], run'[r])
  <2>1. run'[r] = Reconciled(r, Recovered(r, late))
    BY <1>8 DEF Maintain
  <2>2. job'[r] = IF ~Expired(r) THEN job[r] ELSE IF Exhausted(r) THEN "failed_terminal"
                  ELSE "failed_retryable"
    BY <1>8 DEF Maintain
  <2>3. CASE run[r] \in OpenRuns
    <3>1. Recovered(r, late) \in OpenRuns
      BY <1>0, <2>3 DEF Recovered, ActiveWork
    <3> QED BY <1>0, <2>1, <2>2, <2>3, <3>1 DEF Reconciled
  <2>4. CASE run[r] \notin OpenRuns
    <3>1. ~Expired(r)
      BY <1>0, <2>4 DEF Expired
    <3>2. Recovered(r, late) = run[r]
      BY <2>4 DEF Recovered
    <3> QED BY <1>0, <2>1, <2>2, <2>4, <3>1, <3>2 DEF Reconciled
  <2> QED BY <2>3, <2>4
<1>9. ASSUME NEW s \in Run, LeaseLapses(s) \/ FollowUp(s) PROVE Agree(job'[r], run'[r])
  BY <1>0, <1>9 DEF LeaseLapses, FollowUp, rowVars, jobVars
<1>10. CASE UNCHANGED vars
  BY <1>0, <1>10 DEF vars, rowVars, jobVars
<1> QED
  BY <1>1, <1>2, <1>3, <1>4, <1>5, <1>6, <1>7, <1>8, <1>9, <1>10 DEF Next, Handle

LEMMA IInvAlways == Spec => []IInv
<1>1. IInv /\ [Next]_vars => IInv'
  BY TypeStep, AgreementStep, ReadsStep DEF IInv
<1> QED BY InitIInv, <1>1, PTL DEF Spec

\* A run is open exactly while its job is active, and they end alike.
THEOREM Agreement == Spec => []RunJobAgreement
<1>1. IInv => RunJobAgreement
  BY DEF IInv
<1> QED BY IInvAlways, <1>1, PTL

-----------------------------------------------------------------------------
(***************************************************************************)
(* Closed is final.                                                        *)
(***************************************************************************)

\* A job leaves the active states for good: every writer of the row demands an
\* active state first, and a correlation is inserted only once.
LEMMA TerminalJobStays ==
  ASSUME IInv, [Next]_vars, NEW r \in Run, job[r] \in TerminalStates
  PROVE  job'[r] = job[r]
<1>0. JobsTyped
  BY TypeParts DEF IInv
<1> USE DEF ActiveStates, TerminalStates, OpenRuns
<1>1. ASSUME NEW q \in Request, Accept(q) PROVE job'[r] = job[r]
  <2>1. run[r] # "absent"
    BY DEF IInv, RunJobAgreement
  <2> QED BY <1>0, <1>1, <2>1 DEF Accept, AcceptNew, AcceptDuplicate, AcceptReplay,
             AcceptConflict, Fresh, jobVars, JobsTyped
<1>2. ASSUME NEW w \in Worker, StartJob(w) \/ StartRun(w) \/ ReadRunStatus(w) \/ Dispatch(w)
                                \/ PublishEvents(w) \/ Crash(w) \/ Restart(w)
      PROVE job'[r] = job[r]
  BY <1>0, <1>2 DEF StartJob, StartRun, ReadRunStatus, Dispatch, PublishEvents, Crash,
                    Restart, jobVars, JobsTyped
<1>3. ASSUME NEW w \in Worker, CloseFinished(w) \/ Finish(w) \/ Retry(w) \/ Poison(w)
      PROVE job'[r] = job[r]
  <2>1. at[w] \in Run
    BY <1>3 DEF CloseFinished, Finish, Retry, Poison, IInv, ReadsStillHold
  <2> QED BY <1>0, <1>3, <2>1, SetJobEffect
             DEF CloseFinished, Finish, Retry, Poison, Holds, jobVars
<1>4. ASSUME NEW w \in Worker, NEW s \in Run, NEW stale \in BOOLEAN, Claim(w, s, stale)
      PROVE job'[r] = job[r]
  BY <1>0, <1>4 DEF Claim, Claimable, JobsTyped
<1>5. ASSUME NEW w \in Worker, NEW late \in SUBSET Run, Maintain(w, late)
      PROVE job'[r] = job[r]
  BY <1>0, <1>5 DEF Maintain, Expired, JobsTyped
<1>6. ASSUME NEW s \in Run, LeaseLapses(s) \/ FollowUp(s) PROVE job'[r] = job[r]
  BY <1>6 DEF LeaseLapses, FollowUp, jobVars
<1>7. CASE UNCHANGED vars
  BY <1>7 DEF vars, jobVars
<1> QED
  BY <1>1, <1>2, <1>3, <1>4, <1>5, <1>6, <1>7 DEF Next, Handle

\* No step of any worker, caller or maintenance changes how a run or a job ended.
THEOREM ClosedStaysClosed == Spec => ClosedIsFinal
<1> DEFINE Final == \A r \in Run : /\ run[r] \in ClosedRuns => run'[r] = run[r]
                                   /\ job[r] \in TerminalStates => job'[r] = job[r]
<1>1. IInv /\ [Next]_vars => [Final]_vars
  BY ClosedRunStays, TerminalJobStays
<1> QED BY IInvAlways, <1>1, PTL DEF Spec, ClosedIsFinal

-----------------------------------------------------------------------------
(***************************************************************************)
(* One active job per logical identity.                                    *)
(***************************************************************************)

\* Nothing but acceptance activates a job or gives one its identity.
LEMMA ActiveJobsWereActive ==
  ASSUME IInv, [Next]_vars, NEW r \in Run, job'[r] \in ActiveStates,
         \A q \in Request : ~AcceptNew(q)
  PROVE  job[r] \in ActiveStates /\ identity'[r] = identity[r]
<1>0. JobsTyped
  BY TypeParts DEF IInv
<1> USE DEF ActiveStates
<1>1. ASSUME NEW q \in Request, Accept(q)
      PROVE  job[r] \in ActiveStates /\ identity'[r] = identity[r]
  BY <1>1 DEF Accept, AcceptDuplicate, AcceptReplay, AcceptConflict, jobVars
<1>2. ASSUME NEW w \in Worker, StartJob(w) \/ StartRun(w) \/ ReadRunStatus(w) \/ Dispatch(w)
                                \/ PublishEvents(w) \/ Crash(w) \/ Restart(w)
      PROVE  job[r] \in ActiveStates /\ identity'[r] = identity[r]
  BY <1>0, <1>2 DEF StartJob, StartRun, ReadRunStatus, Dispatch, PublishEvents, Crash,
                    Restart, jobVars, JobsTyped
<1>3. ASSUME NEW w \in Worker, CloseFinished(w) \/ Finish(w) \/ Retry(w) \/ Poison(w)
      PROVE  job[r] \in ActiveStates /\ identity'[r] = identity[r]
  <2>1. at[w] \in Run
    BY <1>3 DEF CloseFinished, Finish, Retry, Poison, IInv, ReadsStillHold
  <2>2. CASE UNCHANGED jobVars
    BY <2>2 DEF jobVars
  <2>3. CASE Holds(w) /\ \E state \in ActiveStates \cup TerminalStates : SetJob(at[w], state)
    <3>1. identity'[r] = identity[r]
      BY <2>3 DEF SetJob
    <3>2. job[r] \in ActiveStates
      BY <1>0, <2>1, <2>3, SetJobEffect DEF Holds
    <3> QED BY <3>1, <3>2
  <2> QED BY <1>3, <2>2, <2>3 DEF CloseFinished, Finish, Retry, Poison, jobVars, TerminalStates
<1>4. ASSUME NEW w \in Worker, NEW s \in Run, NEW stale \in BOOLEAN, Claim(w, s, stale)
      PROVE  job[r] \in ActiveStates /\ identity'[r] = identity[r]
  BY <1>0, <1>4 DEF Claim, Claimable, JobsTyped
<1>5. ASSUME NEW w \in Worker, NEW late \in SUBSET Run, Maintain(w, late)
      PROVE  job[r] \in ActiveStates /\ identity'[r] = identity[r]
  BY <1>0, <1>5 DEF Maintain, Expired, JobsTyped
<1>6. ASSUME NEW s \in Run, LeaseLapses(s) \/ FollowUp(s)
      PROVE  job[r] \in ActiveStates /\ identity'[r] = identity[r]
  BY <1>6 DEF LeaseLapses, FollowUp, jobVars
<1>7. CASE UNCHANGED vars
  BY <1>7 DEF vars, jobVars
<1> QED
  BY <1>1, <1>2, <1>3, <1>4, <1>5, <1>6, <1>7 DEF Next, Handle

\* Two active jobs never stand for the same logical operation.
THEOREM OneActiveJob == Spec => []OneActiveJobPerIdentity
<1>1. Init => OneActiveJobPerIdentity
  BY DEF Init, OneActiveJobPerIdentity, ActiveStates
<1>2. ASSUME IInv, OneActiveJobPerIdentity, [Next]_vars
      PROVE  OneActiveJobPerIdentity'
  <2>1. SUFFICES ASSUME NEW r \in Run, NEW s \in Run, job'[r] \in ActiveStates,
                        job'[s] \in ActiveStates, identity'[r] = identity'[s]
                 PROVE  r = s
    BY DEF OneActiveJobPerIdentity
  <2>2. CASE \A q \in Request : ~AcceptNew(q)
    BY <1>2, <2>1, <2>2, ActiveJobsWereActive DEF OneActiveJobPerIdentity
  <2>3. ASSUME NEW q \in Request, AcceptNew(q) PROVE r = s
    <3>1. JobsTyped /\ q.cid \in Run
      BY <1>2, TypeParts, RequestAssumption DEF IInv
    <3>2. \A t \in Run : t # q.cid => job'[t] = job[t] /\ identity'[t] = identity[t]
      BY <2>3, <3>1 DEF AcceptNew, JobsTyped
    <3>3. identity'[q.cid] = IdentityFor(q)
      BY <2>3, <3>1 DEF AcceptNew, JobsTyped
    <3>4. \A t \in Run : ~(job[t] \in ActiveStates /\ identity[t] = IdentityFor(q))
      BY <2>3 DEF AcceptNew, DuplicateOf
    <3> QED BY <1>2, <2>1, <3>2, <3>3, <3>4 DEF OneActiveJobPerIdentity
  <2> QED BY <2>2, <2>3
<1> QED BY IInvAlways, <1>1, <1>2, PTL DEF Spec

-----------------------------------------------------------------------------
(***************************************************************************)
(* A result is stored for the latest claim only.                           *)
(***************************************************************************)

\* The attempt a worker carries follows the row as long as the row names it.
LEMMA HolderCountsStep == TypeOK /\ HolderCountsAttempts /\ [Next]_vars => HolderCountsAttempts'
<1> SUFFICES ASSUME TypeOK, HolderCountsAttempts, [Next]_vars, NEW w \in Worker,
                    at'[w] # Nobody, holder'[at'[w]] = w
             PROVE  try'[w] = attempts'[at'[w]]
  BY DEF HolderCountsAttempts
<1>0. JobsTyped /\ WorkersTyped /\ Nobody \notin Worker
  BY TypeParts, NobodyAssumption
<1> DEFINE Same == /\ at'[w] = at[w] /\ try'[w] = try[w] /\ attempts' = attempts
                   /\ \A s \in Run : holder'[s] \in {holder[s], Nobody}
<1>1. CASE Same
  <2>1. at[w] \in Run
    BY <1>0, <1>1 DEF WorkersTyped
  <2> QED BY <1>0, <1>1, <2>1 DEF HolderCountsAttempts
<1>2. ASSUME NEW q \in Request, Accept(q) PROVE Same
  BY <1>2 DEF Accept, AcceptNew, AcceptDuplicate, AcceptReplay, AcceptConflict, jobVars,
              workerVars
<1>3. ASSUME NEW v \in Worker, StartJob(v) \/ StartRun(v) \/ ReadRunStatus(v) \/ Dispatch(v)
                                \/ PublishEvents(v) \/ Crash(v) \/ Restart(v)
      PROVE Same
  BY <1>0, <1>3 DEF StartJob, StartRun, ReadRunStatus, Dispatch, PublishEvents, Crash,
                    Restart, Return, jobVars, workerVars, WorkersTyped
<1>4. ASSUME NEW v \in Worker, CloseFinished(v) \/ Finish(v) \/ Retry(v) \/ Poison(v)
      PROVE Same
  <2>1. /\ attempts' = attempts
        /\ \A s \in Run : holder'[s] \in {holder[s], Nobody}
    BY <1>0, <1>4 DEF CloseFinished, Finish, Retry, Poison, SetJob, jobVars, JobsTyped
  <2>2. at'[w] = at[w] /\ try'[w] = try[w]
    BY <1>0, <1>4 DEF CloseFinished, Finish, Retry, Poison, Return, workerVars, WorkersTyped
  <2> QED BY <2>1, <2>2
<1>5. ASSUME NEW v \in Worker, NEW r \in Run, NEW stale \in BOOLEAN, Claim(v, r, stale)
      PROVE try'[w] = attempts'[at'[w]]
  <2>1. CASE v = w
    BY <1>0, <1>5, <2>1 DEF Claim, JobsTyped, WorkersTyped
  <2>2. CASE v # w
    <3>1. at'[w] = at[w] /\ try'[w] = try[w] /\ at[w] \in Run /\ at[w] # r
      BY <1>0, <1>5, <2>2 DEF Claim, JobsTyped, WorkersTyped
    <3> QED BY <1>0, <1>5, <3>1 DEF Claim, JobsTyped, HolderCountsAttempts
  <2> QED BY <2>1, <2>2
<1>6. ASSUME NEW v \in Worker, NEW late \in SUBSET Run, Maintain(v, late) PROVE Same
  BY <1>0, <1>6 DEF Maintain, workerVars, JobsTyped
<1>7. ASSUME NEW s \in Run, LeaseLapses(s) \/ FollowUp(s) PROVE Same
  BY <1>7 DEF LeaseLapses, FollowUp, jobVars, workerVars
<1>8. ASSUME UNCHANGED vars PROVE Same
  BY <1>8 DEF vars, jobVars, workerVars
<1> QED
  BY <1>1, <1>2, <1>3, <1>4, <1>5, <1>6, <1>7, <1>8 DEF Next, Handle

\* A worker that the row still names remembers the row's own attempt count.
THEOREM HolderCounts == Spec => []HolderCountsAttempts
<1>1. Init => HolderCountsAttempts
  BY DEF Init, HolderCountsAttempts
<1> QED BY TypeCorrect, <1>1, HolderCountsStep, PTL DEF Spec

\* Only Finish completes a run, and only for the job's current holder.
THEOREM LatestClaimFinishes == Spec => OutcomeOfLatestClaim
<1> DEFINE Stored == \A r \in Run : run[r] = "running" /\ run'[r] = "completed"
                       => owner[r] = <<holder[r], attempts[r]>>
<1>1. ASSUME TypeOK, HolderCountsAttempts, [Next]_vars, NEW r \in Run,
             run[r] = "running", run'[r] = "completed"
      PROVE  owner[r] = <<holder[r], attempts[r]>>
  <2>0. RunsTyped /\ WorkersTyped /\ Nobody \notin Worker /\ Nobody \notin Run
    BY <1>1, TypeParts, NobodyAssumption
  <2> USE <1>1 DEF RunsTyped, OpenRuns
  <2>1. ASSUME NEW q \in Request, Accept(q) PROVE FALSE
    BY <2>0, <2>1 DEF Accept, AcceptNew, AcceptDuplicate, AcceptReplay, AcceptConflict, rowVars
  <2>2. ASSUME NEW w \in Worker, StartJob(w) \/ ReadRunStatus(w) \/ CloseFinished(w)
                          \/ Dispatch(w) \/ PublishEvents(w) \/ Crash(w) \/ Restart(w)
        PROVE FALSE
    BY <2>2 DEF StartJob, ReadRunStatus, CloseFinished, Dispatch, PublishEvents, Crash,
                Restart, rowVars
  <2>3. ASSUME NEW w \in Worker, StartRun(w) \/ Retry(w) \/ Poison(w) PROVE FALSE
    BY <2>0, <2>3 DEF StartRun, Retry, Reopen, Poison
  <2>4. ASSUME NEW w \in Worker, Finish(w) PROVE owner[r] = <<holder[r], attempts[r]>>
    <3>1. at[w] = r /\ Owns(w) /\ Holds(w)
      BY <2>0, <2>4 DEF Finish
    <3>2. try[w] = attempts[r]
      BY <2>0, <3>1 DEF Holds, HolderCountsAttempts
    <3> QED BY <3>1, <3>2 DEF Owns, Holds, Token
  <2>5. ASSUME NEW w \in Worker, NEW s \in Run, NEW stale \in BOOLEAN, Claim(w, s, stale)
        PROVE FALSE
    BY <2>0, <2>5 DEF Claim, Reopen
  <2>6. ASSUME NEW w \in Worker, NEW late \in SUBSET Run, Maintain(w, late) PROVE FALSE
    <3>1. Recovered(r, late) \in {"running", "accepted", "abandoned"}
      BY DEF Recovered
    <3>2. Reconciled(r, Recovered(r, late)) # "completed"
      BY <3>1 DEF Reconciled
    <3> QED BY <2>6, <3>2 DEF Maintain
  <2>7. ASSUME NEW s \in Run, LeaseLapses(s) \/ FollowUp(s) PROVE FALSE
    BY <2>7 DEF LeaseLapses, FollowUp, rowVars
  <2>8. CASE UNCHANGED vars
    BY <2>8 DEF vars, rowVars
  <2> QED
    BY <2>1, <2>2, <2>3, <2>4, <2>5, <2>6, <2>7, <2>8 DEF Next, Handle
<1>2. TypeOK /\ HolderCountsAttempts /\ [Next]_vars => [Stored]_vars
  BY <1>1
<1> QED BY TypeCorrect, HolderCounts, <1>2, PTL DEF Spec, OutcomeOfLatestClaim

-----------------------------------------------------------------------------
(***************************************************************************)
(* Fresh ownership.  A lease is the mark of a claimed job, so no other     *)
(* worker may claim a job while it is fresh, and recovery sees fresh work. *)
(***************************************************************************)
LeaseMeansClaimed == \A r \in Run : lease[r] => job[r] \in {"leased", "running"}

\* How a transaction on the jobs row leaves every other lease alone.
LEMMA SetJobLease ==
  ASSUME JobsTyped, NEW r \in Run, NEW state, SetJob(r, state), NEW s \in Run
  PROVE  lease'[s] = IF s = r THEN FALSE ELSE lease[s]
  BY DEF JobsTyped, SetJob

\* A lease is granted with a claim, and every step that ends a claim clears it.
LEMMA LeaseStep == IInv /\ LeaseMeansClaimed /\ [Next]_vars => LeaseMeansClaimed'
<1> SUFFICES ASSUME IInv, LeaseMeansClaimed, [Next]_vars, NEW r \in Run, lease'[r]
             PROVE  job'[r] \in {"leased", "running"}
  BY DEF LeaseMeansClaimed
<1>0. /\ JobsTyped
      /\ lease[r] => job[r] \in {"leased", "running"}
      /\ \A s \in Run : run[s] = "absent" => job[s] \notin {"leased", "running"}
  BY TypeParts DEF IInv, RunJobAgreement, LeaseMeansClaimed, OpenRuns, ActiveStates
<1>1. ASSUME NEW q \in Request, Accept(q) PROVE job'[r] \in {"leased", "running"}
  BY <1>0, <1>1 DEF Accept, AcceptNew, AcceptDuplicate, AcceptReplay, AcceptConflict, Fresh,
     jobVars, JobsTyped
<1>2. ASSUME NEW w \in Worker, StartJob(w) \/ StartRun(w) \/ ReadRunStatus(w) \/ Dispatch(w)
                                \/ PublishEvents(w) \/ Crash(w) \/ Restart(w)
      PROVE job'[r] \in {"leased", "running"}
  BY <1>0, <1>2 DEF StartJob, StartRun, ReadRunStatus, Dispatch, PublishEvents, Crash,
     Restart, jobVars, JobsTyped
<1>3. ASSUME NEW w \in Worker, CloseFinished(w) \/ Finish(w) \/ Retry(w) \/ Poison(w)
      PROVE job'[r] \in {"leased", "running"}
  <2>1. at[w] \in Run
    BY <1>3 DEF CloseFinished, Finish, Retry, Poison, IInv, ReadsStillHold
  <2>2. CASE UNCHANGED jobVars
    BY <1>0, <2>2 DEF jobVars
  <2>3. ASSUME NEW state, SetJob(at[w], state) PROVE job'[r] \in {"leased", "running"}
    <3>1. r # at[w] /\ lease[r]
      BY <1>0, <2>1, <2>3, SetJobLease
    <3> QED BY <1>0, <2>1, <2>3, <3>1, SetJobEffect
  <2> QED BY <1>3, <2>2, <2>3 DEF CloseFinished, Finish, Retry, Poison
<1>4. ASSUME NEW w \in Worker, NEW s \in Run, NEW stale \in BOOLEAN, Claim(w, s, stale)
      PROVE job'[r] \in {"leased", "running"}
  BY <1>0, <1>4 DEF Claim, JobsTyped
<1>5. ASSUME NEW w \in Worker, NEW late \in SUBSET Run, Maintain(w, late)
      PROVE job'[r] \in {"leased", "running"}
  BY <1>0, <1>5 DEF Maintain, Expired
<1>6. ASSUME NEW s \in Run, LeaseLapses(s) \/ FollowUp(s)
      PROVE job'[r] \in {"leased", "running"}
  BY <1>0, <1>6 DEF LeaseLapses, FollowUp, jobVars, JobsTyped
<1>7. CASE UNCHANGED vars
  BY <1>0, <1>7 DEF vars, jobVars
<1> QED
  BY <1>1, <1>2, <1>3, <1>4, <1>5, <1>6, <1>7 DEF Next, Handle

\* While its lease is fresh, only a worker's own last step takes its run away.
LEMMA OwnerUndisturbed ==
  ASSUME IInv, LeaseMeansClaimed, [Next]_vars, NEW w \in Worker, NEW r \in Run,
         at[w] = r, holder[r] = w, lease[r], run[r] = "running", owner[r] = Token(w)
  PROVE  (run'[r] = "running" /\ owner'[r] = owner[r]) \/ at'[w] # r
<1> DEFINE Kept == run'[r] = "running" /\ owner'[r] = owner[r]
<1>0. /\ JobsTyped /\ RunsTyped /\ WorkersTyped /\ r # Nobody
      /\ job[r] \in {"leased", "running"}
  BY TypeParts, NobodyAssumption DEF IInv, LeaseMeansClaimed
<1>1. ASSUME NEW q \in Request, Accept(q) PROVE Kept
  BY <1>0, <1>1 DEF Accept, AcceptNew, AcceptDuplicate, AcceptReplay, AcceptConflict, Fresh,
     rowVars, RunsTyped
<1>2. ASSUME NEW v \in Worker, StartJob(v) \/ ReadRunStatus(v) \/ CloseFinished(v) \/ Dispatch(v)
                                \/ PublishEvents(v) \/ Crash(v) \/ Restart(v)
      PROVE Kept
  BY <1>2 DEF StartJob, ReadRunStatus, CloseFinished, Dispatch, PublishEvents, Crash,
     Restart, rowVars
<1>3. ASSUME NEW v \in Worker, StartRun(v) PROVE Kept
  BY <1>0, <1>3 DEF StartRun, RunsTyped
<1>4. ASSUME NEW v \in Worker, Finish(v) \/ Retry(v) \/ Poison(v) PROVE Kept \/ at'[w] # r
  <2>1. at[v] \in Run
    BY <1>4 DEF Finish, Retry, Poison, IInv, ReadsStillHold
  <2>2. CASE at[v] # r \/ UNCHANGED <<run, owner>>
    BY <1>0, <1>4, <2>1, <2>2 DEF Finish, Retry, Poison, Reopen, RunsTyped
  <2>3. CASE at[v] = r /\ Holds(v) /\ Return(v)
    <3>1. v = w
      BY <2>3 DEF Holds
    <3> QED BY <1>0, <2>3, <3>1 DEF Return, WorkersTyped
  <2>4. UNCHANGED <<run, owner>> \/ (Holds(v) /\ Return(v))
    BY <1>4 DEF Finish, Retry, Poison
  <2> QED BY <2>2, <2>3, <2>4
<1>5. ASSUME NEW v \in Worker, NEW s \in Run, NEW stale \in BOOLEAN, Claim(v, s, stale)
      PROVE Kept
  <2>1. s # r
    BY <1>0, <1>5 DEF Claim, Claimable
  <2> QED BY <1>0, <1>5, <2>1 DEF Claim, Reopen, RunsTyped
<1>6. ASSUME NEW v \in Worker, NEW late \in SUBSET Run, Maintain(v, late) PROVE Kept
  <2>1. FreshWork(r) /\ ActiveWork(r) /\ ~Expired(r)
    BY <1>0 DEF FreshWork, ActiveWork, Expired, ActiveStates
  <2>2. Reconciled(r, Recovered(r, late)) = "running"
    BY <2>1 DEF Recovered, Reconciled
  <2> QED BY <1>6, <2>2 DEF Maintain
<1>7. ASSUME NEW s \in Run, LeaseLapses(s) \/ FollowUp(s) PROVE Kept
  BY <1>7 DEF LeaseLapses, FollowUp, rowVars
<1>8. CASE UNCHANGED vars
  BY <1>8 DEF vars, rowVars
<1> QED
  BY <1>1, <1>2, <1>3, <1>4, <1>5, <1>6, <1>7, <1>8 DEF Next, Handle

\* Neither a claim, nor recovery by timeout, nor reconciliation, nor the late
\* step of a worker that lost its job takes a run from a fresh owner.
THEOREM FreshOwnersKeepRuns == Spec => FreshOwnershipRespected
<1> DEFINE Respected ==
      \A w \in Worker, r \in Run :
        at[w] = r /\ holder[r] = w /\ lease[r] /\ run[r] = "running" /\ owner[r] = Token(w)
          => \/ run'[r] = "running" /\ owner'[r] = owner[r]
             \/ at'[w] # r
<1>1. Init => LeaseMeansClaimed
  BY DEF Init, LeaseMeansClaimed
<1>2. IInv /\ LeaseMeansClaimed /\ [Next]_vars => [Respected]_vars
  BY OwnerUndisturbed
<1>3. Spec => [][Respected]_vars
  <2> HIDE DEF Respected
  <2> QED BY IInvAlways, LeaseStep, <1>1, <1>2, PTL DEF Spec
<1> QED BY <1>3 DEF FreshOwnershipRespected

-----------------------------------------------------------------------------
(***************************************************************************)
(* The lane implements RunPromise.                                         *)
(***************************************************************************)

\* A step that moves runs only from open to an outcome is a Close or a stutter.
LEMMA ClosingStep ==
  ASSUME \A r \in Run : \/ RunStatus'[r] = RunStatus[r]
                        \/ RunStatus[r] = "pending" /\ RunStatus'[r] \in Promise!Outcomes
  PROVE  Promise!Close \/ RunStatus' = RunStatus
<1> DEFINE closing == {r \in Run : RunStatus'[r] # RunStatus[r]}
           outcome == [r \in closing |-> RunStatus'[r]]
<1>1. RunStatus' = [r \in Run |-> RunStatus'[r]] /\ RunStatus = [r \in Run |-> RunStatus[r]]
  BY DEF RunStatus
<1>2. CASE closing = {}
  BY <1>1, <1>2
<1>3. CASE closing # {}
  <2>1. closing \in SUBSET {r \in Run : RunStatus[r] = "pending"}
    OBVIOUS
  <2>2. outcome \in [closing -> Promise!Outcomes]
    OBVIOUS
  <2>3. RunStatus' = [r \in Run |-> IF r \in closing THEN outcome[r] ELSE RunStatus[r]]
    BY <1>1
  <2> QED BY <1>3, <2>1, <2>2, <2>3 DEF Promise!Close
<1> QED BY <1>2, <1>3

LEMMA PromiseStep == IInv /\ [Next]_vars => [Promise!Next]_RunStatus
<1> SUFFICES ASSUME IInv, [Next]_vars PROVE Promise!Next \/ RunStatus' = RunStatus
  OBVIOUS
<1> DEFINE Closing(r) == \/ RunStatus'[r] = RunStatus[r]
                         \/ RunStatus[r] = "pending" /\ RunStatus'[r] \in Promise!Outcomes
<1>0. RunsTyped
  BY TypeParts DEF IInv
<1>1. (\A r \in Run : Closing(r)) => Promise!Next \/ RunStatus' = RunStatus
  BY ClosingStep DEF Promise!Next
<1> USE DEF RunStatus, OpenRuns
<1>2. ASSUME NEW q \in Request, Accept(q) PROVE Promise!Next \/ RunStatus' = RunStatus
  <2>0. q.cid \in Run
    BY RequestAssumption
  <2>1. CASE AcceptNew(q)
    <3>1. RunStatus[q.cid] = "absent" /\ RunStatus' = [RunStatus EXCEPT ![q.cid] = "pending"]
      BY <1>0, <2>0, <2>1 DEF AcceptNew, Fresh, RunsTyped
    <3> QED BY <2>0, <3>1 DEF Promise!Next, Promise!Accept
  <2>2. CASE AcceptDuplicate(q)
    <3>1. RunStatus[q.cid] = "absent" /\ RunStatus' = [RunStatus EXCEPT ![q.cid] = "skipped"]
      BY <1>0, <2>0, <2>2 DEF AcceptDuplicate, Fresh, RunsTyped
    <3> QED BY <2>0, <3>1 DEF Promise!Next, Promise!Accept
  <2>3. CASE AcceptReplay(q) \/ AcceptConflict(q)
    BY <2>3 DEF AcceptReplay, AcceptConflict, rowVars
  <2> QED BY <1>2, <2>1, <2>2, <2>3 DEF Accept
<1>3. ASSUME NEW w \in Worker, StartJob(w) \/ ReadRunStatus(w) \/ CloseFinished(w)
                        \/ Dispatch(w) \/ PublishEvents(w) \/ Crash(w) \/ Restart(w)
      PROVE RunStatus' = RunStatus
  BY <1>3 DEF StartJob, ReadRunStatus, CloseFinished, Dispatch, PublishEvents, Crash,
              Restart, rowVars
<1>4. ASSUME NEW w \in Worker, NEW r \in Run,
             StartRun(w) \/ Finish(w) \/ Retry(w) \/ Poison(w)
      PROVE Closing(r)
  BY <1>0, <1>4 DEF StartRun, Finish, Retry, Reopen, Poison, RunsTyped, Promise!Outcomes
<1>5. ASSUME NEW w \in Worker, NEW s \in Run, NEW stale \in BOOLEAN, Claim(w, s, stale),
             NEW r \in Run
      PROVE Closing(r)
  BY <1>0, <1>5 DEF Claim, Reopen, RunsTyped
<1>6. ASSUME NEW w \in Worker, NEW late \in SUBSET Run, Maintain(w, late), NEW r \in Run
      PROVE Closing(r)
  <2>1. run'[r] = Reconciled(r, Recovered(r, late))
    BY <1>6 DEF Maintain
  <2>2. \/ Recovered(r, late) = run[r]
        \/ run[r] \in OpenRuns /\ Recovered(r, late) \in {"accepted", "abandoned"}
    BY DEF Recovered
  <2>3. \/ run'[r] = Recovered(r, late)
        \/ Recovered(r, late) \in OpenRuns /\ run'[r] \in {"failed", "accepted"}
    BY <2>1 DEF Reconciled
  <2> QED BY <1>6, <2>2, <2>3 DEF Promise!Outcomes
<1>7. ASSUME NEW s \in Run, LeaseLapses(s) \/ FollowUp(s) PROVE RunStatus' = RunStatus
  BY <1>7 DEF LeaseLapses, FollowUp, rowVars
<1>8. CASE UNCHANGED vars
  BY <1>8 DEF vars, rowVars
<1> QED
  BY <1>1, <1>2, <1>3, <1>4, <1>5, <1>6, <1>7, <1>8 DEF Next, Handle

\* Every behaviour of the lane, seen through the status of its runs alone, is
\* one the promise allows.
THEOREM LaneKeepsPromise == Spec => PromiseKept
<1>1. Init => Promise!Init
  BY DEF Init, Promise!Init, RunStatus, OpenRuns
<1> QED BY IInvAlways, <1>1, PromiseStep, PTL DEF Spec, PromiseKept, Promise!Spec
=============================================================================
