----------------------------- MODULE CycleRunProofs -----------------------------
(***************************************************************************)
(* Proofs about CycleRun: types and released locks, one cycle at a time,   *)
(* the truth of the fingerprints under which outputs are reused, and that  *)
(* the runs implement RunPromise.                                          *)
(*                                                                         *)
(* A lock is held only by a run that is doing the work it covers           *)
(* (HeldForWork), and, while no session has been lost, such a run does     *)
(* hold it (WorkIsLocked).  Versions only grow, so what was read earlier   *)
(* is older (ReadsGrow); a run that holds the lock of its processor is     *)
(* the only one to publish, so its own reading is the newest               *)
(* (NewestIsMine), and every fingerprint is older than that.               *)
(***************************************************************************)
EXTENDS CycleRun, TLAPS

Readings(p) == [Consumed[p] -> Nat]
Versions(p) == [Fingerprinted[p] -> Nat]
Prints == {<<>>} \cup UNION {Readings(p) \cup Versions(p) : p \in Processor}
Locks == Component \cup {CycleLock}
Busy(r) == work[r].at # "none"

CycleTyped ==
  /\ syncRow \in [SyncRun -> {"none", "accepted", "running", "completed", "failed", "abandoned"}]
  /\ fresh \in [SyncRun -> BOOLEAN] /\ unrouted \subseteq SyncRun /\ active \subseteq SyncRun
  /\ step \in [SyncRun -> {"new", "accepted", "started", "working", "unlocked", "unclaimed",
                           "raised", "ended"}]
  /\ mode \in [SyncRun -> {"refresh", "analyze", "force_full"}]
  /\ stage \in [SyncRun -> [Component ->
       {"pending", "running", "success", "partial", "failed", "skipped", "reused"}]]
  /\ history \in [SyncRun -> SUBSET Source]
  /\ work \in [SyncRun -> [on: Processor \cup {Unlocked}, print: Prints, seen: Prints,
                           at: {"none", "printed", "read", "published"}]]
  /\ held \in [Locks -> SyncRun \cup {Unlocked}]
  /\ version \in [Component -> Nat] /\ collected \subseteq Source
  /\ newest \in [Processor -> Prints] /\ reusable \in [Processor -> SUBSET Prints]
  /\ cycleFaults \in 0..MaxCycleFaults /\ sessionsCut \in 0..cycleFaults

HeldForWork ==
  \A x \in Locks, r \in SyncRun : held[x] = r =>
    /\ step[r] = "working"
    /\ x \in Source => x \in Enabled(r) /\ stage[r][x] = "running"
    /\ x \in Processor => Busy(r) /\ work[r].on = x
    /\ x = CycleLock => r \in Cycle

WorkIsLocked ==
  /\ \A r \in SyncRun : Busy(r) => step[r] = "working" /\ work[r].on \in Processor
  /\ sessionsCut = 0 =>
       /\ \A c \in Cycle : step[c] = "working" => held[CycleLock] = c
       /\ \A r \in SyncRun : Busy(r) => held[work[r].on] = r

ReadInOrder(r) ==
  /\ work[r].print \in Versions(work[r].on)
  /\ Older(work[r].print, Inputs(work[r].on))
  /\ work[r].at # "printed" =>
       /\ work[r].seen \in Readings(work[r].on)
       /\ Older(work[r].print, work[r].seen)
       /\ Older(work[r].seen, Inputs(work[r].on))

ReadsGrow ==
  /\ \A p \in Processor :
       /\ newest[p] \in Readings(p) /\ Older(newest[p], Inputs(p))
       /\ reusable[p] \subseteq Versions(p)
  /\ \A r \in SyncRun : Busy(r) => ReadInOrder(r)

NewestIsMine ==
  sessionsCut = 0 => \A r \in SyncRun :
    /\ work[r].at = "read" => Older(newest[work[r].on], work[r].seen)
    /\ work[r].at = "published" => newest[work[r].on] = work[r].seen

CycleInv ==
  CycleTyped /\ HeldForWork /\ WorkIsLocked /\ ReadsGrow /\ NewestIsMine /\ ReuseIsCurrent

-----------------------------------------------------------------------------
(* Order of versions *)

LEMMA OlderIsTransitive ==
  ASSUME NEW p \in Processor, NEW a \in Versions(p), NEW b \in Readings(p),
         NEW c \in Readings(p), Older(a, b), Older(b, c)
  PROVE  Older(a, c)
<1>1. Fingerprinted[p] \subseteq Consumed[p]
  BY CycleAssumption
<1>2. SUFFICES ASSUME NEW x \in Fingerprinted[p] PROVE a[x] <= c[x]
  BY DEF Older, Versions
<1>3. /\ a[x] <= b[x] /\ b[x] <= c[x]
      /\ a[x] \in Nat /\ b[x] \in Nat /\ c[x] \in Nat
  BY <1>1 DEF Older, Versions, Readings
<1> QED BY <1>3

LEMMA InputsAreVersions ==
  ASSUME version \in [Component -> Nat], NEW p \in Processor
  PROVE  /\ Inputs(p) \in Readings(p) /\ Older(Inputs(p), Inputs(p))
         /\ Fingerprint(p) \in Versions(p) /\ Older(Fingerprint(p), Inputs(p))
<1>1. Fingerprinted[p] \subseteq Consumed[p] /\ Consumed[p] \subseteq Component
  BY CycleAssumption
<1>2. \A x \in Consumed[p] : version[x] \in Nat
  BY <1>1
<1>3. Inputs(p) \in Readings(p) /\ Fingerprint(p) \in Versions(p)
  BY <1>1, <1>2 DEF Inputs, Fingerprint, Readings, Versions
<1>4. Older(Inputs(p), Inputs(p)) /\ Older(Fingerprint(p), Inputs(p))
  BY <1>1, <1>2 DEF Inputs, Fingerprint, Older
<1> QED BY <1>3, <1>4

\* What was older than the inputs stays older than them: versions only grow.
LEMMA StaysOlder ==
  ASSUME version \in [Component -> Nat], version' \in [Component -> Nat],
         \A x \in Component : version[x] <= version'[x],
         NEW p \in Processor, NEW a \in Versions(p) \cup Readings(p), Older(a, Inputs(p))
  PROVE  Older(a, Inputs(p)')
<1>1. Fingerprinted[p] \subseteq Consumed[p] /\ Consumed[p] \subseteq Component
  BY CycleAssumption
<1>2. DOMAIN a \subseteq Consumed[p] /\ \A x \in DOMAIN a : a[x] \in Nat
  BY <1>1 DEF Versions, Readings
<1>3. SUFFICES ASSUME NEW x \in DOMAIN a PROVE a[x] <= version'[x]
  BY <1>2 DEF Older, Inputs
<1>4. a[x] <= version[x] /\ a[x] \in Nat
  BY <1>2 DEF Older, Inputs
<1> QED BY <1>1, <1>2, <1>4

LEMMA PrintsCover ==
  ASSUME NEW p \in Processor
  PROVE  Versions(p) \subseteq Prints /\ Readings(p) \subseteq Prints
BY DEF Prints

-----------------------------------------------------------------------------
LEMMA CycleStarts == CycleInit => CycleInv
<1> SUFFICES ASSUME CycleInit PROVE CycleInv
  OBVIOUS
<1>1. Idle \in [on: Processor \cup {Unlocked}, print: Prints, seen: Prints,
                at: {"none", "printed", "read", "published"}] /\ Idle.at = "none"
  BY DEF Idle, Prints
<1>2. NoPlan \in [Component ->
        {"pending", "running", "success", "partial", "failed", "skipped", "reused"}]
  BY DEF NoPlan
<1>3. version \in [Component -> Nat]
  BY DEF CycleInit
<1>4. ASSUME NEW p \in Processor
      PROVE  newest[p] \in Readings(p) /\ Older(newest[p], Inputs(p))
  <2>1. Consumed[p] \subseteq Component
    BY CycleAssumption
  <2>2. newest[p] = [d \in Consumed[p] |-> 0]
    BY DEF CycleInit
  <2> QED BY <2>1, <2>2, <1>3 DEF Readings, Older, Inputs, CycleInit
<1>5. newest \in [Processor -> Prints] /\ reusable \in [Processor -> SUBSET Prints]
  <2>1. newest = [p \in Processor |-> newest[p]]
    BY DEF CycleInit
  <2> QED BY <2>1, <1>4, PrintsCover DEF CycleInit
<1>6. CycleTyped
  <2>1. cycleFaults \in 0..MaxCycleFaults /\ sessionsCut \in 0..cycleFaults
    BY CycleAssumption DEF CycleInit
  <2>2. work \in [SyncRun -> [on: Processor \cup {Unlocked}, print: Prints, seen: Prints,
                              at: {"none", "printed", "read", "published"}]]
    BY <1>1 DEF CycleInit
  <2>3. stage \in [SyncRun -> [Component ->
          {"pending", "running", "success", "partial", "failed", "skipped", "reused"}]]
    BY <1>2 DEF CycleInit
  <2> QED BY <1>3, <1>5, <2>1, <2>2, <2>3 DEF CycleInit, CycleTyped, Locks
<1>7. \A r \in SyncRun : work[r].at = "none" /\ step[r] = "new"
  BY <1>1 DEF CycleInit
<1>8. HeldForWork /\ WorkIsLocked
  BY <1>7, CycleAssumption DEF CycleInit, HeldForWork, WorkIsLocked, Busy, Locks, SyncRun
<1>9. ReadsGrow /\ NewestIsMine /\ ReuseIsCurrent
  BY <1>4, <1>7 DEF ReadsGrow, NewestIsMine, ReuseIsCurrent, Busy, CycleInit
<1> QED BY <1>6, <1>8, <1>9 DEF CycleInv

-----------------------------------------------------------------------------
(* Types *)

LEMMA CallerKeepsTypes ==
  ASSUME CycleInv, NEW r \in SyncRun,
         \/ AcceptSync(r) \/ StartSync(r) \/ StartRaises(r) \/ FinalizeFailure(r)
         \/ FinalizeResult(r) \/ BeatSync(r) \/ Lapse(r) \/ ReclaimSync(r)
         \/ AbandonSync(r) \/ RouteEvents(r) \/ JobsEnd(r)
  PROVE  CycleTyped'
<1> USE DEF CycleInv, CycleTyped
<1>1. NoPlan \in [Component ->
        {"pending", "running", "success", "partial", "failed", "skipped", "reused"}]
  BY DEF NoPlan
<1>2. /\ ForgetPlan(r) =>
           /\ mode' \in [SyncRun -> {"refresh", "analyze", "force_full"}]
           /\ stage' \in [SyncRun -> [Component ->
                {"pending", "running", "success", "partial", "failed", "skipped", "reused"}]]
           /\ history' \in [SyncRun -> SUBSET Source]
  <2>1. ForgetPlan(r) => /\ mode' = [mode EXCEPT ![r] = "refresh"]
                         /\ stage' = [stage EXCEPT ![r] = NoPlan]
                         /\ history' = [history EXCEPT ![r] = {}]
    BY DEF ForgetPlan
  <2>2. mode' = [mode EXCEPT ![r] = "refresh"]
          => mode' \in [SyncRun -> {"refresh", "analyze", "force_full"}]
    OBVIOUS
  <2>3. stage' = [stage EXCEPT ![r] = NoPlan]
          => stage' \in [SyncRun -> [Component ->
               {"pending", "running", "success", "partial", "failed", "skipped", "reused"}]]
    BY <1>1
  <2>4. history' = [history EXCEPT ![r] = {}] => history' \in [SyncRun -> SUBSET Source]
    OBVIOUS
  <2> QED BY <2>1, <2>2, <2>3, <2>4
<1>3. CASE AcceptSync(r)
  <2>1. mode' \in [SyncRun -> {"refresh", "analyze", "force_full"}]
    <3>1. mode' = mode \/ \E m \in {"refresh", "analyze", "force_full"} :
                            mode' = [mode EXCEPT ![r] = m]
      BY <1>3 DEF AcceptSync
    <3>2. mode \in [SyncRun -> {"refresh", "analyze", "force_full"}]
      OBVIOUS
    <3> HIDE DEF CycleInv, CycleTyped
    <3> QED BY <3>1, <3>2
  <2> QED BY <1>3, <2>1 DEF AcceptSync, NoFault, dataVars, jobVars
<1>4. CASE StartSync(r)
  <2>1. /\ syncRow' = syncRow \/ syncRow' = [syncRow EXCEPT ![r] = "running"]
        /\ fresh' = fresh \/ fresh' = [fresh EXCEPT ![r] = TRUE]
        /\ \E s \in {"started", "ended"} : step' = [step EXCEPT ![r] = s]
        /\ UNCHANGED <<mode, stage, history>> \/ ForgetPlan(r)
        /\ UNCHANGED <<unrouted, active, work, held, version, collected, newest, reusable>> /\ NoFault
    BY <1>4 DEF StartSync, planVars, dataVars, jobVars
  <2>2. /\ syncRow' \in [SyncRun ->
              {"none", "accepted", "running", "completed", "failed", "abandoned"}]
        /\ fresh' \in [SyncRun -> BOOLEAN]
    BY <2>1
  <2>3. step' \in [SyncRun -> {"new", "accepted", "started", "working", "unlocked", "unclaimed",
                              "raised", "ended"}]
    BY <2>1
  <2> QED BY <1>2, <2>1, <2>2, <2>3 DEF NoFault
<1>5. CASE StartRaises(r)
  BY <1>5 DEF StartRaises, NoFault, dataVars, jobVars, planVars
<1>6. CASE FinalizeFailure(r)
  BY <1>6, <1>2 DEF FinalizeFailure, Finalize, NoFault, dataVars, jobVars
<1>7. CASE FinalizeResult(r)
  BY <1>7, <1>2 DEF FinalizeResult, Finalize, NoFault, dataVars, jobVars
<1>8. CASE BeatSync(r)
  BY <1>8 DEF BeatSync, NoFault, dataVars, jobVars, planVars
<1>9. CASE Lapse(r)
  <2>1. cycleFaults' \in 0..MaxCycleFaults /\ sessionsCut' \in 0..cycleFaults'
    BY <1>9, CycleAssumption DEF Lapse, Fault
  <2> QED BY <1>9, <2>1 DEF Lapse, dataVars, jobVars, planVars
<1>10. CASE ReclaimSync(r) \/ AbandonSync(r)
  <2>1. \E s \in {"accepted", "abandoned"} : syncRow' = [syncRow EXCEPT ![r] = s]
    BY <1>10 DEF ReclaimSync, AbandonSync
  <2>2. syncRow' \in [SyncRun ->
          {"none", "accepted", "running", "completed", "failed", "abandoned"}]
    BY <2>1
  <2> QED BY <1>10, <2>2 DEF ReclaimSync, AbandonSync, NoFault, dataVars, planVars, jobVars
<1>11. CASE RouteEvents(r) \/ JobsEnd(r)
  BY <1>11 DEF RouteEvents, JobsEnd, NoFault, dataVars, planVars
<1> QED BY <1>3, <1>4, <1>5, <1>6, <1>7, <1>8, <1>9, <1>10, <1>11

LEMMA LocksKeepTypes ==
  ASSUME CycleInv, NEW r \in SyncRun, NEW x \in Locks, Release(r, x)
  PROVE  held' \in [Locks -> SyncRun \cup {Unlocked}]
BY DEF Release, CycleInv, CycleTyped

LEMMA StageEndsTypes ==
  ASSUME CycleInv, NEW r \in SyncRun, NEW p \in Processor,
         NEW outcome \in {"success", "partial", "failed"}, StageEnds(r, p, outcome)
  PROVE  /\ stage' \in [SyncRun -> [Component ->
              {"pending", "running", "success", "partial", "failed", "skipped", "reused"}]]
         /\ work' \in [SyncRun -> [on: Processor \cup {Unlocked}, print: Prints, seen: Prints,
                                   at: {"none", "printed", "read", "published"}]]
         /\ held' \in [Locks -> SyncRun \cup {Unlocked}]
<1>1. Idle \in [on: Processor \cup {Unlocked}, print: Prints, seen: Prints,
                at: {"none", "printed", "read", "published"}]
  BY DEF Idle, Prints
<1>2. held' \in [Locks -> SyncRun \cup {Unlocked}]
  BY LocksKeepTypes DEF StageEnds, Locks, Component
<1> QED BY <1>1, <1>2 DEF StageEnds, CycleInv, CycleTyped, Component

LEMMA WorkerKeepsTypes ==
  ASSUME CycleInv, NEW r \in SyncRun,
         \/ TakeCycleLock(r) \/ EndWork(r) \/ SkipRest(r)
         \/ \E s \in Source : BeginCollect(r, s) \/ EndCollect(r, s)
         \/ \E p \in Processor : BeginProcess(r, p)
  PROVE  CycleTyped'
<1> USE DEF CycleInv, CycleTyped
<1>1. CASE TakeCycleLock(r)
  <2>1. CASE Taken(CycleLock)
    BY <1>1, <2>1 DEF TakeCycleLock, Plan, Conflict, NoFault, rowVars, jobVars, planVars, dataVars
  <2>2. CASE ~Taken(CycleLock)
    <3>1. /\ held' \in [Locks -> SyncRun \cup {Unlocked}]
          /\ step' \in [SyncRun -> {"new", "accepted", "started", "working", "unlocked", "unclaimed",
                                    "raised", "ended"}]
      <4>1. held' = [held EXCEPT ![CycleLock] = r] /\ step' = [step EXCEPT ![r] = "working"]
        BY <1>1, <2>2 DEF TakeCycleLock, Plan
      <4> QED BY <4>1
    <3>2. stage' \in [SyncRun -> [Component ->
            {"pending", "running", "success", "partial", "failed", "skipped", "reused"}]]
      <4>1. PICK due \in SUBSET Source :
              stage' = [stage EXCEPT ![r] =
                [x \in Component |-> IF x \in Source \ due THEN "skipped" ELSE "pending"]]
        BY <1>1, <2>2 DEF TakeCycleLock, Plan
      <4> QED BY <4>1
    <3>3. history' \in [SyncRun -> SUBSET Source]
      <4>1. \E read \in SUBSET Source : history' = [history EXCEPT ![r] = read]
        BY <1>1, <2>2 DEF TakeCycleLock, Plan
      <4> QED BY <4>1
    <3> QED BY <1>1, <2>2, <3>1, <3>2, <3>3 DEF TakeCycleLock, Plan, NoFault, rowVars, jobVars, dataVars
  <2> QED BY <2>1, <2>2
<1>2. CASE EndWork(r)
  BY <1>2, LocksKeepTypes DEF EndWork, NoFault, rowVars, jobVars, planVars, dataVars, Locks
<1>3. CASE SkipRest(r)
  BY <1>3 DEF SkipRest, NoFault, rowVars, jobVars, dataVars
<1>4. ASSUME NEW s \in Source, BeginCollect(r, s) PROVE CycleTyped'
  <2>1. stage' \in [SyncRun -> [Component ->
          {"pending", "running", "success", "partial", "failed", "skipped", "reused"}]]
    <3>1. stage' = stage \/ \E status \in {"running", "failed"} :
                               stage' = [stage EXCEPT ![r][s] = status]
      BY <1>4 DEF BeginCollect, Conflict, planVars
    <3>2. ASSUME NEW status \in {"running", "failed"}, stage' = [stage EXCEPT ![r][s] = status]
          PROVE  stage' \in [SyncRun -> [Component ->
            {"pending", "running", "success", "partial", "failed", "skipped", "reused"}]]
      BY <3>2 DEF Component
    <3> QED BY <3>1, <3>2
  <2>2. /\ held' \in [Locks -> SyncRun \cup {Unlocked}]
        /\ step' \in [SyncRun -> {"new", "accepted", "started", "working", "unlocked", "unclaimed",
                                  "raised", "ended"}]
    <3>1. held' = held \/ held' = [held EXCEPT ![s] = r]
      BY <1>4 DEF BeginCollect, Conflict
    <3>2. step' = step \/ \E at \in {"working", "raised"} : step' = [step EXCEPT ![r] = at]
      BY <1>4 DEF BeginCollect, Conflict
    <3>3. held' \in [Locks -> SyncRun \cup {Unlocked}]
      BY <3>1
    <3>4. step' \in [SyncRun -> {"new", "accepted", "started", "working", "unlocked", "unclaimed",
                                "raised", "ended"}]
      BY <3>2
    <3> QED BY <3>3, <3>4
  <2> QED BY <1>4, <2>1, <2>2 DEF BeginCollect, Conflict, NoFault, rowVars, jobVars, planVars, dataVars
<1>5. ASSUME NEW s \in Source, EndCollect(r, s) PROVE CycleTyped'
  <2>1. held' \in [Locks -> SyncRun \cup {Unlocked}]
    BY <1>5, LocksKeepTypes DEF EndCollect, Locks, Component
  <2>2. version' \in [Component -> Nat] /\ collected' \subseteq Source
    BY <1>5 DEF EndCollect, Component
  <2> QED BY <1>5, <2>1, <2>2 DEF EndCollect, NoFault, rowVars, jobVars, Component
<1>6. ASSUME NEW p \in Processor, BeginProcess(r, p) PROVE CycleTyped'
  <2>1. CASE Taken(p)
    BY <1>6, <2>1, LocksKeepTypes
       DEF BeginProcess, NoFault, rowVars, jobVars, planVars, dataVars, Locks
  <2>2. CASE ~Taken(p)
    <3>1. Fingerprint(p) \in Prints /\ <<>> \in Prints
      BY InputsAreVersions, PrintsCover DEF Prints
    <3>2. /\ held' \in [Locks -> SyncRun \cup {Unlocked}]
          /\ stage' \in [SyncRun -> [Component ->
              {"pending", "running", "success", "partial", "failed", "skipped", "reused"}]]
          /\ step' \in [SyncRun -> {"new", "accepted", "started", "working", "unlocked", "unclaimed",
                                    "raised", "ended"}]
      <4>1. stage' \in [SyncRun -> [Component ->
              {"pending", "running", "success", "partial", "failed", "skipped", "reused"}]]
        <5>1. \E status \in {"reused", "running"} : stage' = [stage EXCEPT ![r][p] = status]
          BY <1>6, <2>2 DEF BeginProcess
        <5> QED BY <5>1 DEF Component
      <4>2. held' = held \/ held' = [held EXCEPT ![p] = r]
        BY <1>6, <2>2 DEF BeginProcess
      <4>3. step' = [step EXCEPT ![r] = "working"]
        BY <1>6, <2>2 DEF BeginProcess
      <4> QED BY <4>1, <4>2, <4>3
    <3>3. work' \in [SyncRun -> [on: Processor \cup {Unlocked}, print: Prints, seen: Prints,
                                at: {"none", "printed", "read", "published"}]]
      <4>1. \/ work' = work
            \/ work' = [work EXCEPT ![r] =
                          [on |-> p, print |-> Fingerprint(p), seen |-> <<>>, at |-> "printed"]]
        BY <1>6, <2>2 DEF BeginProcess
      <4>2. [on |-> p, print |-> Fingerprint(p), seen |-> <<>>, at |-> "printed"]
              \in [on: Processor \cup {Unlocked}, print: Prints, seen: Prints,
                   at: {"none", "printed", "read", "published"}]
        BY <3>1
      <4> QED BY <4>1, <4>2
    <3> QED BY <1>6, <2>2, <3>2, <3>3 DEF BeginProcess, NoFault, rowVars, jobVars, dataVars
  <2> QED BY <2>1, <2>2
<1> QED BY <1>1, <1>2, <1>3, <1>4, <1>5, <1>6

LEMMA ProcessingKeepsTypes ==
  ASSUME CycleInv, NEW r \in SyncRun,
         ReadInputs(r) \/ PublishOutput(r) \/ ProcessFails(r) \/ LogOutput(r)
  PROVE  CycleTyped'
<1> USE DEF CycleInv, CycleTyped
<1> DEFINE p == work[r].on
<1>0. /\ work \in [SyncRun -> [on: Processor \cup {Unlocked}, print: Prints, seen: Prints,
                             at: {"none", "printed", "read", "published"}]]
      /\ \A seen \in Prints, at \in {"none", "printed", "read", "published"} :
           /\ [work[r] EXCEPT !.seen = seen, !.at = at]
                \in [on: Processor \cup {Unlocked}, print: Prints, seen: Prints,
                     at: {"none", "printed", "read", "published"}]
           /\ [work[r] EXCEPT !.at = at]
                \in [on: Processor \cup {Unlocked}, print: Prints, seen: Prints,
                     at: {"none", "printed", "read", "published"}]
  <2>1. work[r] \in [on: Processor \cup {Unlocked}, print: Prints, seen: Prints,
                     at: {"none", "printed", "read", "published"}]
    OBVIOUS
  <2> HIDE DEF CycleInv, CycleTyped
  <2>2. ASSUME NEW seen \in Prints, NEW at \in {"none", "printed", "read", "published"}
        PROVE  [work[r] EXCEPT !.seen = seen, !.at = at]
                 \in [on: Processor \cup {Unlocked}, print: Prints, seen: Prints,
                      at: {"none", "printed", "read", "published"}]
    BY <2>1
  <2>3. ASSUME NEW at \in {"none", "printed", "read", "published"}
        PROVE  [work[r] EXCEPT !.at = at]
                 \in [on: Processor \cup {Unlocked}, print: Prints, seen: Prints,
                      at: {"none", "printed", "read", "published"}]
    BY <2>1
  <2>4. CycleTyped
    BY DEF CycleInv
  <2> QED BY <2>2, <2>3, <2>4 DEF CycleTyped
<1>1. Busy(r) /\ p \in Processor
  <2>1. Busy(r)
    BY DEF ReadInputs, PublishOutput, ProcessFails, LogOutput, Busy
  <2> QED BY <2>1 DEF WorkIsLocked
<1>2. CASE ReadInputs(r)
  <2>1. Inputs(p) \in Prints
    BY <1>1, InputsAreVersions, PrintsCover
  <2>2. work' \in [SyncRun -> [on: Processor \cup {Unlocked}, print: Prints, seen: Prints,
                              at: {"none", "printed", "read", "published"}]]
    <3>1. work' = [work EXCEPT ![r] = [work[r] EXCEPT !.seen = Inputs(p), !.at = "read"]]
      BY <1>2 DEF ReadInputs
    <3> QED BY <1>0, <2>1, <3>1
  <2> QED BY <1>2, <2>2 DEF ReadInputs, NoFault, rowVars, jobVars, planVars, dataVars
<1>3. CASE PublishOutput(r)
  <2>1. /\ newest' = [newest EXCEPT ![p] = work[r].seen]
        /\ version' = [version EXCEPT ![p] = @ + 1]
        /\ work' = [work EXCEPT ![r].at = "published"]
    BY <1>3 DEF PublishOutput
  <2>2. work[r].seen \in Prints
    OBVIOUS
  <2>3. newest' \in [Processor -> Prints]
    BY <1>1, <2>1, <2>2
  <2>4. version' \in [Component -> Nat]
    BY <1>1, <2>1 DEF Component
  <2>5. work' \in [SyncRun -> [on: Processor \cup {Unlocked}, print: Prints, seen: Prints,
                              at: {"none", "printed", "read", "published"}]]
    <3>1. work' = [work EXCEPT ![r] = [work[r] EXCEPT !.at = "published"]]
      BY <2>1
    <3> QED BY <1>0, <3>1
  <2> QED BY <1>3, <2>3, <2>4, <2>5 DEF PublishOutput, NoFault, rowVars, jobVars, planVars
<1>4. CASE ProcessFails(r)
  BY <1>1, <1>4, StageEndsTypes DEF ProcessFails, NoFault, rowVars, jobVars, dataVars
<1>5. CASE LogOutput(r)
  <2>1. reusable' \in [Processor -> SUBSET Prints]
    <3>1. work[r].print \in Prints
      OBVIOUS
    <3>2. \/ reusable' = reusable
          \/ reusable' = [reusable EXCEPT ![p] = @ \cup {work[r].print}]
      BY <1>5 DEF LogOutput
    <3>3. reusable \in [Processor -> SUBSET Prints]
      OBVIOUS
    <3> HIDE DEF CycleInv, CycleTyped, p
    <3>4. reusable[p] \cup {work[r].print} \in SUBSET Prints
      BY <1>1, <3>1, <3>3
    <3> QED BY <3>2, <3>3, <3>4
  <2>2. \E outcome \in {"success", "partial", "failed"} : StageEnds(r, p, outcome)
    BY <1>5 DEF LogOutput
  <2> QED BY <1>1, <1>5, <2>1, <2>2, StageEndsTypes DEF LogOutput, NoFault, rowVars, jobVars
<1> QED BY <1>2, <1>3, <1>4, <1>5

LEMMA FaultsKeepTypes ==
  ASSUME CycleInv,
         (\E r \in SyncRun : DieSync(r)) \/ (\E x \in Locks : CutSession(x))
  PROVE  CycleTyped'
<1> USE DEF CycleInv, CycleTyped
<1>1. ASSUME NEW r \in SyncRun, DieSync(r) PROVE CycleTyped'
  <2>1. Idle \in [on: Processor \cup {Unlocked}, print: Prints, seen: Prints,
                  at: {"none", "printed", "read", "published"}]
    BY DEF Idle, Prints
  <2>2. NoPlan \in [Component ->
          {"pending", "running", "success", "partial", "failed", "skipped", "reused"}]
    BY DEF NoPlan
  <2>3. cycleFaults' \in 0..MaxCycleFaults /\ sessionsCut' \in 0..cycleFaults'
    BY <1>1, CycleAssumption DEF DieSync, Fault
  <2>4. held' \in [Locks -> SyncRun \cup {Unlocked}]
    BY <1>1 DEF DieSync
  <2>5. work' \in [SyncRun -> [on: Processor \cup {Unlocked}, print: Prints, seen: Prints,
                              at: {"none", "printed", "read", "published"}]]
    BY <1>1, <2>1 DEF DieSync
  <2> QED BY <1>1, <2>2, <2>3, <2>4, <2>5 DEF DieSync, ForgetPlan, rowVars, jobVars, dataVars
<1>2. ASSUME NEW x \in Locks, CutSession(x) PROVE CycleTyped'
  <2>1. cycleFaults' \in 0..MaxCycleFaults /\ sessionsCut' \in 0..cycleFaults'
    BY <1>2, CycleAssumption DEF CutSession, Fault
  <2> QED BY <1>2, <2>1 DEF CutSession, rowVars, jobVars, planVars, dataVars
<1> QED BY <1>1, <1>2

-----------------------------------------------------------------------------
(* Locks *)

\* A run that is not working holds nothing and is busy with nothing.
LEMMA OnlyWorkersHold ==
  ASSUME CycleInv, NEW r \in SyncRun, step[r] # "working"
  PROVE  ~Busy(r) /\ \A x \in Locks : held[x] # r
BY DEF CycleInv, HeldForWork, WorkIsLocked

\* Steps of a caller that is not working, and of the watchers of its row.
LEMMA CallerKeepsLocks ==
  ASSUME CycleInv, NEW r \in SyncRun,
         \/ AcceptSync(r) \/ StartSync(r) \/ StartRaises(r) \/ FinalizeFailure(r)
         \/ FinalizeResult(r) \/ BeatSync(r) \/ Lapse(r) \/ ReclaimSync(r)
         \/ AbandonSync(r) \/ RouteEvents(r) \/ JobsEnd(r)
  PROVE  HeldForWork' /\ WorkIsLocked'
<1>1. UNCHANGED <<held, work, sessionsCut>>
  BY DEF AcceptSync, StartSync, StartRaises, FinalizeFailure, FinalizeResult, Finalize, BeatSync,
         Lapse, ReclaimSync, AbandonSync, RouteEvents, JobsEnd, NoFault
<1>2. \/ UNCHANGED <<step, stage>>
      \/ /\ step[r] # "working" /\ step'[r] # "working"
         /\ \A q \in SyncRun : q # r => step'[q] = step[q] /\ stage'[q] = stage[q]
  BY DEF AcceptSync, StartSync, StartRaises, FinalizeFailure, FinalizeResult, Finalize, BeatSync,
         Lapse, ReclaimSync, AbandonSync, RouteEvents, JobsEnd, ForgetPlan, planVars, CycleInv, CycleTyped
<1>3. CASE UNCHANGED <<step, stage>>
  BY <1>1, <1>3 DEF CycleInv, HeldForWork, WorkIsLocked, Busy
<1>4. CASE /\ step[r] # "working" /\ step'[r] # "working"
           /\ \A q \in SyncRun : q # r => step'[q] = step[q] /\ stage'[q] = stage[q]
  <2>1. ~Busy(r) /\ \A x \in Locks : held[x] # r
    BY <1>4, OnlyWorkersHold
  <2>2. HeldForWork'
    BY <1>1, <1>4, <2>1 DEF CycleInv, HeldForWork, Busy
  <2>3. WorkIsLocked'
    BY <1>1, <1>4, <2>1 DEF CycleInv, WorkIsLocked, Busy, SyncRun
  <2> QED BY <2>2, <2>3
<1> QED BY <1>2, <1>3, <1>4

LEMMA CycleLockKeepsLocks ==
  ASSUME CycleInv, NEW r \in SyncRun, TakeCycleLock(r) \/ EndWork(r) \/ SkipRest(r)
  PROVE  HeldForWork' /\ WorkIsLocked'
<1> USE DEF CycleInv
<1>0. CycleLock \notin Component /\ Unlocked \notin SyncRun /\ CycleLock \in Locks
  BY CycleAssumption DEF Locks
<1>1. UNCHANGED <<work, sessionsCut>>
  BY DEF TakeCycleLock, Conflict, EndWork, SkipRest, NoFault
<1>2. CASE TakeCycleLock(r)
  <2>1. ~Busy(r) /\ \A x \in Locks : held[x] # r
    BY <1>2, OnlyWorkersHold DEF TakeCycleLock
  <2>2. CASE Taken(CycleLock)
    <3>1. held' = held /\ stage' = stage /\ step' = [step EXCEPT ![r] = "raised"]
      BY <1>2, <2>2 DEF TakeCycleLock, Conflict, planVars
    <3>2. HeldForWork'
      BY <1>1, <2>1, <3>1 DEF HeldForWork, Busy, CycleTyped
    <3>3. WorkIsLocked'
      BY <1>1, <2>1, <3>1 DEF WorkIsLocked, Busy, CycleTyped, SyncRun
    <3> QED BY <3>2, <3>3
  <2>3. CASE ~Taken(CycleLock)
    <3>1. /\ r \in Cycle /\ held[CycleLock] = Unlocked
          /\ held' = [held EXCEPT ![CycleLock] = r] /\ step' = [step EXCEPT ![r] = "working"]
          /\ \A q \in SyncRun : q # r => stage'[q] = stage[q]
      BY <1>2, <2>3 DEF TakeCycleLock, Plan, Taken, CycleTyped
    <3>2. HeldForWork'
      BY <1>0, <1>1, <2>1, <3>1 DEF HeldForWork, Busy, CycleTyped, Component
    <3>3. WorkIsLocked'
      BY <1>0, <1>1, <2>1, <3>1 DEF WorkIsLocked, Busy, CycleTyped, SyncRun, Component
    <3> QED BY <3>2, <3>3
  <2> QED BY <2>2, <2>3
<1>3. CASE EndWork(r)
  <2>1. ~Busy(r) /\ step[r] = "working" /\ stage' = stage /\ step' = [step EXCEPT ![r] = "unlocked"]
    BY <1>3 DEF EndWork, Idle, Busy, planVars
  <2>2. \A x \in Locks : held[x] = r => x = CycleLock /\ r \in Cycle
    BY <1>3, <2>1 DEF EndWork, StageStates, HeldForWork, Locks, Component
  <2>3. \A x \in Locks : held'[x] = IF held[x] = r THEN Unlocked ELSE held[x]
    BY <1>3, <2>2 DEF EndWork, Release, CycleTyped
  <2>4. HeldForWork'
    <3>1. \A q \in SyncRun : q # r => step'[q] = step[q]
      BY <2>1 DEF CycleTyped
    <3>2. \A x \in Locks, q \in SyncRun : held'[x] = q => q # r /\ held[x] = q
      BY <1>0, <2>3
    <3> QED BY <1>1, <2>1, <3>1, <3>2 DEF HeldForWork, Busy
  <2>5. WorkIsLocked'
    BY <1>0, <1>1, <2>1, <2>3 DEF WorkIsLocked, Busy, CycleTyped, SyncRun, Locks, Component
  <2> QED BY <2>4, <2>5
<1>4. CASE SkipRest(r)
  <2>1. UNCHANGED <<held, step>>
    BY <1>4 DEF SkipRest
  <2>2. \A q \in SyncRun, x \in Component :
          stage[q][x] = "running" => stage'[q][x] = "running"
    BY <1>4 DEF SkipRest, CycleTyped
  <2> QED BY <1>1, <2>1, <2>2 DEF HeldForWork, WorkIsLocked, Busy, Component
<1> QED BY <1>2, <1>3, <1>4

LEMMA CollectingKeepsLocks ==
  ASSUME CycleInv, NEW r \in SyncRun, NEW s \in Source, BeginCollect(r, s) \/ EndCollect(r, s)
  PROVE  HeldForWork' /\ WorkIsLocked'
<1> USE DEF CycleInv
<1>0. /\ s \in Locks /\ s # CycleLock /\ s \notin Processor /\ Unlocked \notin SyncRun
      /\ Cycle \cap Solo = {}
  BY CycleAssumption DEF Locks, Component
<1>1. UNCHANGED <<work, sessionsCut>>
  BY DEF BeginCollect, EndCollect, Conflict, NoFault
<1>2. CASE BeginCollect(r, s)
  <2>1. CASE ~Taken(s)
    <3>1. /\ held[s] = Unlocked /\ held' = [held EXCEPT ![s] = r]
          /\ step' = [step EXCEPT ![r] = "working"]
          /\ stage' = [stage EXCEPT ![r][s] = "running"]
          /\ s \in Enabled(r)
          /\ r \in Cycle => step[r] = "working"
      BY <1>2, <2>1, <1>0 DEF BeginCollect, Taken
    <3>2. HeldForWork'
      BY <1>0, <1>1, <3>1 DEF HeldForWork, Busy, CycleTyped, Component
    <3>3. WorkIsLocked'
      BY <1>0, <1>1, <3>1 DEF WorkIsLocked, Busy, CycleTyped, SyncRun, Locks, Component
    <3> QED BY <3>2, <3>3
  <2>2. CASE Taken(s) /\ r \in Solo
    <3>1. /\ held' = held /\ stage' = stage /\ step' = [step EXCEPT ![r] = "raised"]
          /\ step[r] = "started"
      BY <1>0, <1>2, <2>2 DEF BeginCollect, Conflict, planVars
    <3>2. ~Busy(r) /\ \A x \in Locks : held[x] # r
      BY <3>1, OnlyWorkersHold
    <3>3. HeldForWork'
      BY <1>1, <3>1, <3>2 DEF HeldForWork, Busy, CycleTyped
    <3>4. WorkIsLocked'
      BY <1>1, <3>1, <3>2 DEF WorkIsLocked, Busy, CycleTyped, SyncRun
    <3> QED BY <3>3, <3>4
  <2>3. CASE Taken(s) /\ r \notin Solo
    <3>1. /\ UNCHANGED <<held, step>> /\ stage[r][s] = "pending"
          /\ stage' = [stage EXCEPT ![r][s] = "failed"]
      BY <1>2, <2>3 DEF BeginCollect
    <3>2. \A q \in SyncRun, x \in Component :
            stage[q][x] = "running" => stage'[q][x] = "running"
      BY <3>1 DEF CycleTyped
    <3> QED BY <1>1, <3>1, <3>2 DEF HeldForWork, WorkIsLocked, Busy, Component
  <2> QED BY <2>1, <2>2, <2>3
<1>3. CASE EndCollect(r, s)
  <2>1. /\ step' = step /\ Release(r, s)
        /\ \A q \in SyncRun, x \in Component : q # r \/ x # s => stage'[q][x] = stage[q][x]
    BY <1>3 DEF EndCollect, CycleTyped
  <2>2. \A x \in Locks : held'[x] = IF x = s /\ held[x] = r THEN Unlocked ELSE held[x]
    BY <2>1 DEF Release, CycleTyped
  <2>3. HeldForWork'
    <3>1. ASSUME NEW x \in Locks, NEW q \in SyncRun, held'[x] = q
          PROVE  held[x] = q /\ (x # s \/ q # r)
      BY <1>0, <2>2, <3>1
    <3> QED BY <1>0, <1>1, <2>1, <3>1 DEF HeldForWork, Busy, Component
  <2>4. WorkIsLocked'
    BY <1>0, <1>1, <2>1, <2>2 DEF WorkIsLocked, Busy, CycleTyped, SyncRun, Locks, Component
  <2> QED BY <2>3, <2>4
<1> QED BY <1>2, <1>3

LEMMA ProcessingKeepsLocks ==
  ASSUME CycleInv, NEW r \in SyncRun,
         \/ \E p \in Processor : BeginProcess(r, p)
         \/ ReadInputs(r) \/ PublishOutput(r) \/ ProcessFails(r) \/ LogOutput(r)
  PROVE  HeldForWork' /\ WorkIsLocked'
<1> USE DEF CycleInv
<1>0. /\ CycleLock \notin Component /\ Unlocked \notin SyncRun /\ CycleLock \in Locks
      /\ Cycle \cap Solo = {} /\ Source \cap Processor = {} /\ Component \subseteq Locks
  BY CycleAssumption DEF Locks
<1>1. UNCHANGED sessionsCut
  BY DEF BeginProcess, ReadInputs, PublishOutput, ProcessFails, LogOutput, NoFault
<1>2. ASSUME NEW p \in Processor, BeginProcess(r, p)
      PROVE  HeldForWork' /\ WorkIsLocked'
  <2>1. /\ ~Busy(r) /\ p \in Enabled(r)
        /\ \/ r \in Cycle /\ step[r] = "working" /\ CollectorsDone(r)
           \/ r \in Solo /\ step[r] = "started"
    BY <1>2 DEF BeginProcess, MayProcess, Idle, Busy
  <2>2. \A x \in Locks : held[x] = r => x = CycleLock /\ r \in Cycle
    <3>1. CASE r \in Cycle
      BY <2>1, <3>1 DEF HeldForWork, CollectorsDone, Locks, Component
    <3>2. CASE step[r] = "started"
      BY <3>2, OnlyWorkersHold
    <3> QED BY <2>1, <3>1, <3>2
  <2>3. CASE Taken(p)
    <3>1. UNCHANGED <<work, stage>> /\ step' = [step EXCEPT ![r] = "raised"]
      BY <1>2, <2>3 DEF BeginProcess, planVars
    <3>2. \A x \in Locks : held'[x] = IF held[x] = r THEN Unlocked ELSE held[x]
      BY <1>2, <2>2, <2>3 DEF BeginProcess, Release, CycleTyped
    <3>3. HeldForWork'
      <4>1. \A q \in SyncRun : q # r => step'[q] = step[q]
        BY <3>1 DEF CycleTyped
      <4>2. \A x \in Locks, q \in SyncRun : held'[x] = q => q # r /\ held[x] = q
        BY <1>0, <3>2
      <4> QED BY <3>1, <4>1, <4>2 DEF HeldForWork, Busy
    <3>4. WorkIsLocked'
      BY <1>0, <1>1, <2>1, <3>1, <3>2 DEF WorkIsLocked, Busy, CycleTyped, SyncRun, Component
    <3> QED BY <3>3, <3>4
  <2>4. CASE ~Taken(p)
    <3>1. /\ step' = [step EXCEPT ![r] = "working"] /\ held[p] = Unlocked
          /\ \A q \in SyncRun, x \in Source : stage'[q][x] = stage[q][x]
      <4>1. \E status \in {"reused", "running"} : stage' = [stage EXCEPT ![r][p] = status]
        BY <1>2, <2>4 DEF BeginProcess
      <4>2. ASSUME NEW status \in {"reused", "running"}, stage' = [stage EXCEPT ![r][p] = status],
                   NEW q \in SyncRun, NEW x \in Source
            PROVE  stage'[q][x] = stage[q][x]
        BY <1>0, <4>2 DEF CycleTyped
      <4> QED BY <1>2, <2>4, <4>1, <4>2 DEF BeginProcess, Taken
    <3>2. \/ UNCHANGED <<held, work>>
          \/ /\ held' = [held EXCEPT ![p] = r]
             /\ work' = [work EXCEPT ![r] =
                  [on |-> p, print |-> Fingerprint(p), seen |-> <<>>, at |-> "printed"]]
      BY <1>2, <2>4 DEF BeginProcess
    <3>3. CASE UNCHANGED <<held, work>>
      <4>1. HeldForWork'
        BY <1>0, <3>1, <3>3 DEF HeldForWork, Busy, CycleTyped
      <4>2. WorkIsLocked'
        BY <1>0, <1>1, <2>1, <3>1, <3>3 DEF WorkIsLocked, Busy, CycleTyped, SyncRun
      <4> QED BY <4>1, <4>2
    <3>4. CASE /\ held' = [held EXCEPT ![p] = r]
               /\ work' = [work EXCEPT ![r] =
                    [on |-> p, print |-> Fingerprint(p), seen |-> <<>>, at |-> "printed"]]
      <4>1. /\ Busy(r)' /\ work'[r].on = p
            /\ \A q \in SyncRun : q # r => work'[q] = work[q]
        BY <3>4 DEF Busy, CycleTyped
      <4>2. p \in Locks /\ p # CycleLock /\ p \notin Source
        BY <1>0 DEF Component
      <4>3. HeldForWork'
        <5>1. ASSUME NEW x \in Locks, NEW q \in SyncRun, held'[x] = q, x # p
              PROVE  held[x] = q /\ (q = r => x = CycleLock)
          BY <2>2, <3>4, <5>1 DEF CycleTyped
        <5>2. held'[p] = r
          BY <3>4, <4>2 DEF CycleTyped
        <5>3. step'[r] = "working" /\ \A q \in SyncRun : q # r => step'[q] = step[q]
          BY <3>1 DEF CycleTyped
        <5>4. ASSUME NEW x \in Locks, NEW q \in SyncRun, held'[x] = q, x # p
              PROVE  /\ step'[q] = "working"
                     /\ x \in Source => x \in Enabled(q) /\ stage'[q][x] = "running"
                     /\ x \in Processor => Busy(q)' /\ work'[q].on = x
                     /\ x = CycleLock => q \in Cycle
          BY <1>0, <3>1, <4>1, <5>1, <5>3, <5>4 DEF HeldForWork, Busy, Component
        <5> QED BY <4>1, <4>2, <5>2, <5>3, <5>4 DEF HeldForWork, Enabled
      <4>4. WorkIsLocked'
        <5>1. \A q \in SyncRun : q # r /\ Busy(q) /\ sessionsCut = 0 => work[q].on # p
          BY <1>0, <3>1 DEF WorkIsLocked
        <5> QED BY <1>0, <1>1, <2>1, <3>1, <3>4, <4>1, <4>2, <5>1
                DEF WorkIsLocked, Busy, CycleTyped, SyncRun, Component
      <4> QED BY <4>3, <4>4
    <3> QED BY <3>2, <3>3, <3>4
  <2> QED BY <2>3, <2>4
<1>3. CASE ReadInputs(r) \/ PublishOutput(r)
  <2>1. /\ UNCHANGED <<held, step, stage>> /\ Busy(r) /\ Busy(r)'
        /\ work'[r].on = work[r].on /\ \A q \in SyncRun : q # r => work'[q] = work[q]
    BY <1>3 DEF ReadInputs, PublishOutput, Busy, planVars, CycleTyped
  <2> QED BY <1>1, <2>1 DEF HeldForWork, WorkIsLocked, Busy
<1>4. CASE ProcessFails(r) \/ LogOutput(r)
  <2> DEFINE p == work[r].on
  <2>1. /\ step' = step /\ \E outcome \in {"success", "partial", "failed"} : StageEnds(r, p, outcome)
    BY <1>4 DEF ProcessFails, LogOutput
  <2>2. Busy(r) /\ p \in Processor
    <3>1. Busy(r)
      BY <1>4 DEF ProcessFails, LogOutput, Busy
    <3> QED BY <3>1 DEF WorkIsLocked
  <2>3. /\ ~Busy(r)' /\ \A q \in SyncRun : q # r => work'[q] = work[q]
        /\ \A q \in SyncRun, x \in Source : stage'[q][x] = stage[q][x]
    <3>1. PICK outcome \in {"success", "partial", "failed"} : StageEnds(r, p, outcome)
      BY <2>1
    <3>2. work' = [work EXCEPT ![r] = Idle] /\ Idle.at = "none"
      BY <3>1 DEF StageEnds, Idle
    <3>3. \A q \in SyncRun, x \in Source : stage'[q][x] = stage[q][x]
      BY <1>0, <2>2, <3>1 DEF StageEnds, CycleTyped
    <3> QED BY <3>2, <3>3 DEF Busy, CycleTyped
  <2>4. \A x \in Locks : held'[x] = IF x = p /\ held[x] = r THEN Unlocked ELSE held[x]
    BY <2>1 DEF StageEnds, Release, CycleTyped
  <2>5. HeldForWork'
    <3>1. ASSUME NEW x \in Locks, NEW q \in SyncRun, held'[x] = q
          PROVE  held[x] = q /\ (x # p \/ q # r)
      BY <1>0, <2>4, <3>1
    <3>2. \A x \in Locks : held'[x] = r => x \notin Processor
      BY <3>1 DEF HeldForWork
    <3> QED BY <2>1, <2>3, <3>1, <3>2 DEF HeldForWork, Busy
  <2>6. WorkIsLocked'
    <3>1. \A q \in SyncRun : q # r /\ Busy(q) /\ sessionsCut = 0 => held'[work[q].on] = q
      BY <1>0, <2>4 DEF WorkIsLocked, Component
    <3> QED BY <1>0, <1>1, <2>1, <2>2, <2>3, <2>4, <3>1
            DEF WorkIsLocked, Busy, SyncRun, Component
  <2> QED BY <2>5, <2>6
<1> QED BY <1>2, <1>3, <1>4

LEMMA FaultsKeepLocks ==
  ASSUME CycleInv,
         (\E r \in SyncRun : DieSync(r)) \/ (\E x \in Locks : CutSession(x))
  PROVE  HeldForWork' /\ WorkIsLocked'
<1> USE DEF CycleInv
<1>0. /\ CycleLock \notin Component /\ Unlocked \notin SyncRun /\ CycleLock \in Locks
      /\ Component \subseteq Locks
  BY CycleAssumption DEF Locks
<1>1. ASSUME NEW r \in SyncRun, DieSync(r) PROVE HeldForWork' /\ WorkIsLocked'
  <2>1. /\ sessionsCut' = sessionsCut /\ step' = [step EXCEPT ![r] = "ended"]
        /\ \A q \in SyncRun : q # r => stage'[q] = stage[q]
        /\ \A x \in Locks : held'[x] = IF held[x] = r THEN Unlocked ELSE held[x]
    BY <1>1 DEF DieSync, ForgetPlan, CycleTyped
  <2>2. ~Busy(r)' /\ \A q \in SyncRun : q # r => work'[q] = work[q]
    <3>1. work' = [work EXCEPT ![r] = Idle] /\ Idle.at = "none"
      BY <1>1 DEF DieSync, Idle
    <3> QED BY <3>1 DEF Busy, CycleTyped
  <2>3. HeldForWork'
    <3>1. \A q \in SyncRun : q # r => step'[q] = step[q] /\ Busy(q)' = Busy(q)
      BY <2>1, <2>2 DEF Busy, CycleTyped
    <3>2. \A x \in Locks, q \in SyncRun : held'[x] = q => q # r /\ held[x] = q
      BY <1>0, <2>1
    <3> QED BY <2>1, <2>2, <3>1, <3>2 DEF HeldForWork
  <2>4. WorkIsLocked'
    <3>1. \A q \in SyncRun : Busy(q)' => q # r /\ Busy(q) /\ work'[q] = work[q]
      BY <2>2 DEF Busy
    <3>2. \A q \in SyncRun : /\ q # r => step'[q] = step[q]
                             /\ step'[q] = "working" => q # r
      BY <2>1 DEF CycleTyped
    <3>3. \A x \in Locks, q \in SyncRun : held[x] = q /\ q # r => held'[x] = q
      BY <2>1
    <3>4. \A q \in SyncRun : Busy(q) => work[q].on \in Locks
      BY <1>0 DEF WorkIsLocked, Component
    <3> QED BY <1>0, <2>1, <3>1, <3>2, <3>3, <3>4 DEF WorkIsLocked, SyncRun
  <2> QED BY <2>3, <2>4
<1>2. ASSUME NEW x \in Locks, CutSession(x) PROVE HeldForWork' /\ WorkIsLocked'
  <2>1. /\ UNCHANGED <<step, stage, work>> /\ held' = [held EXCEPT ![x] = Unlocked]
        /\ sessionsCut' # 0
    BY <1>2, CycleAssumption DEF CutSession, planVars, CycleTyped
  <2>2. HeldForWork'
    BY <1>0, <2>1 DEF HeldForWork, Busy, CycleTyped
  <2>3. WorkIsLocked'
    BY <2>1 DEF WorkIsLocked, Busy
  <2> QED BY <2>2, <2>3
<1> QED BY <1>1, <1>2

-----------------------------------------------------------------------------
(* What was read and what may be reused *)

\* Steps that publish nothing and read nothing.
LEMMA QuietKeepsReads ==
  ASSUME CycleInv, UNCHANGED dataVars, sessionsCut' = 0 => sessionsCut = 0,
         \A r \in SyncRun : Busy(r)' => work'[r] = work[r]
  PROVE  ReadsGrow' /\ NewestIsMine' /\ ReuseIsCurrent'
<1>1. UNCHANGED <<version, newest, reusable>>
  BY DEF dataVars
<1>2. \A p \in Processor : Inputs(p)' = Inputs(p)
  BY <1>1 DEF Inputs
<1>3. \A r \in SyncRun : Busy(r)' => Busy(r) /\ work[r].on \in Processor
  BY DEF Busy, CycleInv, WorkIsLocked
<1>4. ReadsGrow'
  BY <1>1, <1>2, <1>3 DEF CycleInv, ReadsGrow, ReadInOrder
<1>5. NewestIsMine'
  BY <1>1, <1>3 DEF CycleInv, NewestIsMine, Busy
<1>6. ReuseIsCurrent'
  BY <1>1 DEF CycleInv, ReuseIsCurrent
<1> QED BY <1>4, <1>5, <1>6

LEMMA QuietSteps ==
  ASSUME CycleInv, NEW r \in SyncRun,
         \/ AcceptSync(r) \/ StartSync(r) \/ StartRaises(r) \/ FinalizeFailure(r)
         \/ FinalizeResult(r) \/ BeatSync(r) \/ Lapse(r) \/ ReclaimSync(r)
         \/ AbandonSync(r) \/ RouteEvents(r) \/ JobsEnd(r)
         \/ TakeCycleLock(r) \/ EndWork(r) \/ SkipRest(r) \/ DieSync(r) \/ ProcessFails(r)
         \/ \E s \in Source : BeginCollect(r, s)
         \/ \E x \in Locks : CutSession(x)
  PROVE  ReadsGrow' /\ NewestIsMine' /\ ReuseIsCurrent'
<1>1. UNCHANGED dataVars
  BY DEF AcceptSync, StartSync, StartRaises, FinalizeFailure, FinalizeResult, Finalize, BeatSync,
         Lapse, ReclaimSync, AbandonSync, RouteEvents, JobsEnd, TakeCycleLock, Conflict, EndWork,
         SkipRest, DieSync, ProcessFails,
         BeginCollect, CutSession
<1>2. sessionsCut' = sessionsCut \/ sessionsCut' = sessionsCut + 1
  BY DEF AcceptSync, StartSync, StartRaises, FinalizeFailure, FinalizeResult, Finalize, BeatSync,
         Lapse, ReclaimSync, AbandonSync, RouteEvents, JobsEnd, TakeCycleLock, Conflict, EndWork,
         SkipRest, DieSync, ProcessFails,
         BeginCollect, CutSession, NoFault
<1>3. work' = work \/ work' = [work EXCEPT ![r] = Idle]
  BY DEF AcceptSync, StartSync, StartRaises, FinalizeFailure, FinalizeResult, Finalize, BeatSync,
         Lapse, ReclaimSync, AbandonSync, RouteEvents, JobsEnd, TakeCycleLock, Conflict, EndWork,
         SkipRest, DieSync, ProcessFails,
         StageEnds, BeginCollect, CutSession
<1>4. \A q \in SyncRun : Busy(q)' => work'[q] = work[q]
  BY <1>3 DEF Busy, Idle, CycleInv, CycleTyped
<1>5. sessionsCut' = 0 => sessionsCut = 0
  BY <1>2, CycleAssumption DEF CycleInv, CycleTyped
<1> QED BY <1>1, <1>4, <1>5, QuietKeepsReads

\* New records of a source leave every earlier reading older.
LEMMA EndCollectKeepsReads ==
  ASSUME CycleInv, CycleTyped', NEW r \in SyncRun, NEW s \in Source, EndCollect(r, s)
  PROVE  ReadsGrow' /\ NewestIsMine' /\ ReuseIsCurrent'
<1>1. UNCHANGED <<work, newest, reusable, sessionsCut>>
  BY DEF EndCollect, NoFault
<1>2. \A x \in Component : version[x] <= version'[x]
  BY DEF EndCollect, CycleInv, CycleTyped
<1>3. /\ version \in [Component -> Nat] /\ version' \in [Component -> Nat]
  BY DEF CycleInv, CycleTyped
<1>4. \A p \in Processor : \A a \in Versions(p) \cup Readings(p) : Older(a, Inputs(p)) => Older(a, Inputs(p)')
  BY <1>2, <1>3, StaysOlder
<1>5. ReadsGrow'
  BY <1>1, <1>4 DEF CycleInv, ReadsGrow, ReadInOrder, WorkIsLocked, Busy
<1>6. NewestIsMine' /\ ReuseIsCurrent'
  BY <1>1 DEF CycleInv, NewestIsMine, ReuseIsCurrent
<1> QED BY <1>5, <1>6

LEMMA BeginProcessKeepsReads ==
  ASSUME CycleInv, NEW r \in SyncRun, NEW p \in Processor, BeginProcess(r, p)
  PROVE  ReadsGrow' /\ NewestIsMine' /\ ReuseIsCurrent'
<1>1. UNCHANGED dataVars /\ UNCHANGED sessionsCut
  BY DEF BeginProcess, NoFault
<1>2. \/ work' = work
      \/ work' = [work EXCEPT ![r] =
                    [on |-> p, print |-> Fingerprint(p), seen |-> <<>>, at |-> "printed"]]
  BY DEF BeginProcess
<1>3. CASE work' = work
  BY <1>1, <1>3, QuietKeepsReads
<1>4. CASE work' = [work EXCEPT ![r] =
                     [on |-> p, print |-> Fingerprint(p), seen |-> <<>>, at |-> "printed"]]
  <2>1. /\ work'[r] = [on |-> p, print |-> Fingerprint(p), seen |-> <<>>, at |-> "printed"]
        /\ \A q \in SyncRun : q # r => work'[q] = work[q]
    BY <1>4 DEF CycleInv, CycleTyped
  <2>2. UNCHANGED <<version, newest, reusable>> /\ \A x \in Processor : Inputs(x)' = Inputs(x)
    BY <1>1 DEF dataVars, Inputs
  <2>3. Fingerprint(p) \in Versions(p) /\ Older(Fingerprint(p), Inputs(p))
    BY InputsAreVersions DEF CycleInv, CycleTyped
  <2>4. \A q \in SyncRun : q # r => (Busy(q)' <=> Busy(q))
    BY <2>1 DEF Busy
  <2>5. \A q \in SyncRun : Busy(q) => work[q].on \in Processor
    BY DEF CycleInv, WorkIsLocked
  <2>6. ReadsGrow'
    <3>1. \A x \in Processor :
            /\ newest'[x] \in Readings(x) /\ Older(newest'[x], Inputs(x)')
            /\ reusable'[x] \subseteq Versions(x)
      BY <2>2 DEF CycleInv, ReadsGrow, ReadInOrder
    <3>2. ASSUME NEW q \in SyncRun, Busy(q)'
          PROVE  ReadInOrder(q)'
      <4>1. CASE q = r
        BY <2>1, <2>2, <2>3, <4>1 DEF ReadInOrder
      <4>2. CASE q # r
        BY <2>1, <2>2, <2>4, <2>5, <3>2, <4>2 DEF CycleInv, ReadsGrow, ReadInOrder
      <4> QED BY <4>1, <4>2
    <3> QED BY <3>1, <3>2 DEF ReadsGrow
  <2>7. NewestIsMine'
    BY <1>1, <2>1, <2>2 DEF CycleInv, NewestIsMine
  <2>8. ReuseIsCurrent'
    BY <1>1, <2>2 DEF CycleInv, ReuseIsCurrent
  <2> QED BY <2>6, <2>7, <2>8
<1> QED BY <1>2, <1>3, <1>4

\* The processor reads at least what the newest output has seen.
LEMMA ReadInputsKeepsReads ==
  ASSUME CycleInv, NEW r \in SyncRun, ReadInputs(r)
  PROVE  ReadsGrow' /\ NewestIsMine' /\ ReuseIsCurrent'
<1> DEFINE p == work[r].on
<1>1. /\ UNCHANGED <<version, newest, reusable, sessionsCut>>
      /\ work[r].at = "printed" /\ Busy(r)
      /\ work'[r] = [work[r] EXCEPT !.seen = Inputs(p), !.at = "read"]
      /\ \A q \in SyncRun : q # r => work'[q] = work[q]
  BY DEF ReadInputs, dataVars, NoFault, CycleInv, CycleTyped, Busy
<1>2. /\ work'[r].on = p /\ work'[r].print = work[r].print
      /\ work'[r].seen = Inputs(p) /\ work'[r].at = "read"
  BY <1>1 DEF CycleInv, CycleTyped
<1>3. \A x \in Processor : Inputs(x)' = Inputs(x)
  BY <1>1 DEF Inputs
<1>4. \A q \in SyncRun : Busy(q) => work[q].on \in Processor
  BY DEF CycleInv, WorkIsLocked
<1>5. Inputs(p) \in Readings(p) /\ Older(Inputs(p), Inputs(p))
  BY <1>1, <1>4, InputsAreVersions DEF CycleInv, CycleTyped
<1>6. ReadsGrow'
  <2>1. ASSUME NEW q \in SyncRun, Busy(q)'
        PROVE  ReadInOrder(q)'
    <3>1. CASE q = r
      BY <1>1, <1>2, <1>3, <1>4, <1>5, <3>1 DEF CycleInv, ReadsGrow, ReadInOrder
    <3>2. CASE q # r
      BY <1>1, <1>3, <1>4, <2>1, <3>2 DEF CycleInv, ReadsGrow, ReadInOrder, Busy
    <3> QED BY <3>1, <3>2
  <2> QED BY <1>1, <1>3, <2>1 DEF CycleInv, ReadsGrow, ReadInOrder
<1>7. NewestIsMine'
  <2>1. Older(newest[p], Inputs(p))
    BY <1>1, <1>4 DEF CycleInv, ReadsGrow, ReadInOrder
  <2> QED BY <1>1, <1>2, <2>1 DEF CycleInv, NewestIsMine
<1>8. ReuseIsCurrent'
  BY <1>1 DEF CycleInv, ReuseIsCurrent
<1> QED BY <1>6, <1>7, <1>8

\* Only the holder of the lock publishes, and what it has seen is newer than
\* all that was published before.
LEMMA PublishKeepsReads ==
  ASSUME CycleInv, CycleTyped', NEW r \in SyncRun, PublishOutput(r)
  PROVE  ReadsGrow' /\ NewestIsMine' /\ ReuseIsCurrent'
<1> DEFINE p == work[r].on
<1>1. /\ UNCHANGED <<reusable, sessionsCut>> /\ work[r].at = "read" /\ Busy(r)
      /\ work'[r] = [work[r] EXCEPT !.at = "published"]
      /\ \A q \in SyncRun : q # r => work'[q] = work[q]
  BY DEF PublishOutput, NoFault, CycleInv, CycleTyped, Busy
<1>2. /\ work'[r].on = p /\ work'[r].print = work[r].print
      /\ work'[r].seen = work[r].seen /\ work'[r].at = "published"
  BY <1>1 DEF CycleInv, CycleTyped
<1>3. \A q \in SyncRun : Busy(q) => work[q].on \in Processor
  BY DEF CycleInv, WorkIsLocked
<1>4. /\ newest' = [newest EXCEPT ![p] = work[r].seen]
      /\ version' = [version EXCEPT ![p] = @ + 1]
  BY DEF PublishOutput
<1>5. /\ newest'[p] = work[r].seen
      /\ \A x \in Processor : x # p => newest'[x] = newest[x]
  BY <1>1, <1>3, <1>4 DEF CycleInv, CycleTyped
<1>6. \A x \in Processor : \A a \in Versions(x) \cup Readings(x) : Older(a, Inputs(x)) => Older(a, Inputs(x)')
  <2>1. version \in [Component -> Nat] /\ version' \in [Component -> Nat]
    BY DEF CycleInv, CycleTyped
  <2>2. \A x \in Component : version[x] <= version'[x]
    BY <1>4, <2>1
  <2> QED BY <2>1, <2>2, StaysOlder
<1>7. work[r].seen \in Readings(p) /\ Older(work[r].seen, Inputs(p))
  BY <1>1 DEF CycleInv, ReadsGrow, ReadInOrder
<1>8. ReadsGrow'
  <2>1. ASSUME NEW q \in SyncRun, Busy(q)'
        PROVE  ReadInOrder(q)'
    <3>1. CASE q = r
      BY <1>1, <1>2, <1>3, <1>6, <3>1 DEF CycleInv, ReadsGrow, ReadInOrder
    <3>2. CASE q # r
      BY <1>1, <1>3, <1>6, <2>1, <3>2 DEF CycleInv, ReadsGrow, ReadInOrder, Busy
    <3> QED BY <3>1, <3>2
  <2>2. ASSUME NEW x \in Processor
        PROVE  /\ newest'[x] \in Readings(x) /\ Older(newest'[x], Inputs(x)')
               /\ reusable'[x] \subseteq Versions(x)
    BY <1>1, <1>3, <1>5, <1>6, <1>7 DEF CycleInv, ReadsGrow, ReadInOrder
  <2> QED BY <2>1, <2>2 DEF ReadsGrow
<1>9. NewestIsMine'
  <2>1. sessionsCut = 0 => \A q \in SyncRun : q # r /\ Busy(q) => work[q].on # p
    BY <1>1 DEF CycleInv, WorkIsLocked
  <2>2. ASSUME NEW q \in SyncRun, q # r, Busy(q), sessionsCut = 0
        PROVE  work'[q] = work[q] /\ newest'[work[q].on] = newest[work[q].on]
    BY <1>1, <1>3, <1>5, <2>1, <2>2
  <2>3. SUFFICES ASSUME sessionsCut = 0, NEW q \in SyncRun
                 PROVE  /\ work'[q].at = "read" => Older(newest'[work'[q].on], work'[q].seen)
                        /\ work'[q].at = "published" => newest'[work'[q].on] = work'[q].seen
    BY <1>1 DEF NewestIsMine
  <2>4. CASE q = r
    BY <1>2, <1>5, <2>4
  <2>5. CASE q # r /\ Busy(q)
    BY <2>2, <2>3, <2>5 DEF CycleInv, NewestIsMine
  <2>6. CASE q # r /\ ~Busy(q)
    BY <1>1, <2>6 DEF Busy
  <2> QED BY <2>4, <2>5, <2>6
<1>10. ReuseIsCurrent'
  <2>1. SUFFICES ASSUME sessionsCut = 0, NEW x \in Processor, NEW print \in reusable[x]
                 PROVE  Older(print, newest'[x])
    BY <1>1 DEF ReuseIsCurrent
  <2>2. Older(print, newest[x])
    BY <2>1 DEF CycleInv, ReuseIsCurrent
  <2>3. CASE x = p
    <3>1. Older(newest[p], work[r].seen)
      BY <1>1, <2>1 DEF CycleInv, NewestIsMine
    <3>2. print \in Versions(p) /\ newest[p] \in Readings(p)
      BY <2>3 DEF CycleInv, ReadsGrow, ReadInOrder
    <3> QED BY <1>5, <1>7, <2>2, <2>3, <3>1, <3>2, OlderIsTransitive
  <2>4. CASE x # p
    BY <1>5, <2>2, <2>4
  <2> QED BY <2>3, <2>4
<1> QED BY <1>8, <1>9, <1>10

\* The fingerprint that becomes reusable was taken before the inputs of the
\* newest output were read.
LEMMA LogKeepsReads ==
  ASSUME CycleInv, NEW r \in SyncRun, LogOutput(r)
  PROVE  ReadsGrow' /\ NewestIsMine' /\ ReuseIsCurrent'
<1> DEFINE p == work[r].on
<1>1. /\ UNCHANGED <<version, newest, sessionsCut>> /\ work[r].at = "published" /\ Busy(r)
      /\ \/ reusable' = reusable
         \/ reusable' = [reusable EXCEPT ![p] = @ \cup {work[r].print}]
  BY DEF LogOutput, NoFault, Busy
<1>2. \A q \in SyncRun : Busy(q)' => work'[q] = work[q]
  <2>1. work' = [work EXCEPT ![r] = Idle]
    BY DEF LogOutput, StageEnds
  <2> QED BY <2>1 DEF Busy, Idle, CycleInv, CycleTyped
<1>3. \A q \in SyncRun : Busy(q)' => Busy(q) /\ work[q].on \in Processor
  BY <1>2 DEF Busy, CycleInv, WorkIsLocked
<1>4. \A x \in Processor : Inputs(x)' = Inputs(x)
  BY <1>1 DEF Inputs
<1>5. p \in Processor /\ work[r].print \in Versions(p) /\ Older(work[r].print, work[r].seen)
  BY <1>1 DEF CycleInv, ReadsGrow, ReadInOrder, WorkIsLocked
<1>6. \A x \in Processor : \A print \in reusable'[x] :
        print \in reusable[x] \/ (x = p /\ print = work[r].print)
  BY <1>1, <1>5 DEF CycleInv, CycleTyped
<1>7. ReadsGrow'
  BY <1>1, <1>2, <1>3, <1>4, <1>5, <1>6 DEF CycleInv, ReadsGrow, ReadInOrder
<1>8. NewestIsMine'
  BY <1>1, <1>2, <1>3 DEF CycleInv, NewestIsMine, Busy
<1>9. ReuseIsCurrent'
  BY <1>1, <1>5, <1>6 DEF CycleInv, ReuseIsCurrent, NewestIsMine
<1> QED BY <1>7, <1>8, <1>9

-----------------------------------------------------------------------------
LEMMA CycleStep == CycleInv /\ [CycleNext]_cycleVars => CycleInv'
<1> SUFFICES ASSUME CycleInv, [CycleNext]_cycleVars PROVE CycleInv'
  OBVIOUS
<1>1. ASSUME NEW r \in SyncRun,
             \/ AcceptSync(r) \/ StartSync(r) \/ StartRaises(r) \/ FinalizeFailure(r)
             \/ FinalizeResult(r) \/ BeatSync(r) \/ Lapse(r) \/ ReclaimSync(r)
             \/ AbandonSync(r) \/ RouteEvents(r) \/ JobsEnd(r)
      PROVE  CycleInv'
  BY <1>1, CallerKeepsTypes, CallerKeepsLocks, QuietSteps DEF CycleInv
<1>2. ASSUME NEW r \in SyncRun, TakeCycleLock(r) \/ EndWork(r) \/ SkipRest(r)
      PROVE  CycleInv'
  BY <1>2, WorkerKeepsTypes, CycleLockKeepsLocks, QuietSteps DEF CycleInv
<1>3. ASSUME NEW r \in SyncRun, NEW s \in Source, BeginCollect(r, s)
      PROVE  CycleInv'
  BY <1>3, WorkerKeepsTypes, CollectingKeepsLocks, QuietSteps DEF CycleInv
<1>4. ASSUME NEW r \in SyncRun, NEW s \in Source, EndCollect(r, s)
      PROVE  CycleInv'
  <2>1. CycleTyped'
    BY <1>4, WorkerKeepsTypes
  <2> QED BY <1>4, <2>1, CollectingKeepsLocks, EndCollectKeepsReads DEF CycleInv
<1>5. ASSUME NEW r \in SyncRun, NEW p \in Processor, BeginProcess(r, p)
      PROVE  CycleInv'
  BY <1>5, WorkerKeepsTypes, ProcessingKeepsLocks, BeginProcessKeepsReads DEF CycleInv
<1>6. ASSUME NEW r \in SyncRun, ReadInputs(r)
      PROVE  CycleInv'
  BY <1>6, ProcessingKeepsTypes, ProcessingKeepsLocks, ReadInputsKeepsReads DEF CycleInv
<1>7. ASSUME NEW r \in SyncRun, PublishOutput(r)
      PROVE  CycleInv'
  <2>1. CycleTyped'
    BY <1>7, ProcessingKeepsTypes
  <2> QED BY <1>7, <2>1, ProcessingKeepsLocks, PublishKeepsReads DEF CycleInv
<1>8. ASSUME NEW r \in SyncRun, ProcessFails(r)
      PROVE  CycleInv'
  BY <1>8, ProcessingKeepsTypes, ProcessingKeepsLocks, QuietSteps DEF CycleInv
<1>9. ASSUME NEW r \in SyncRun, LogOutput(r)
      PROVE  CycleInv'
  BY <1>9, ProcessingKeepsTypes, ProcessingKeepsLocks, LogKeepsReads DEF CycleInv
<1>10. ASSUME NEW r \in SyncRun, DieSync(r)
       PROVE  CycleInv'
  BY <1>10, FaultsKeepTypes, FaultsKeepLocks, QuietSteps DEF CycleInv
<1>11. ASSUME NEW x \in Locks, CutSession(x)
       PROVE  CycleInv'
  <2>1. UNCHANGED dataVars /\ work' = work /\ sessionsCut' # 0
    BY <1>11, CycleAssumption DEF CutSession, CycleInv, CycleTyped
  <2>2. ReadsGrow' /\ NewestIsMine' /\ ReuseIsCurrent'
    BY <2>1, QuietKeepsReads
  <2> QED BY <1>11, <2>2, FaultsKeepTypes, FaultsKeepLocks DEF CycleInv
<1>12. CASE UNCHANGED cycleVars
  <2>1. /\ UNCHANGED <<syncRow, fresh, unrouted, active, step, mode, stage, history, work, held, collected>>
        /\ UNCHANGED <<version, newest, reusable, cycleFaults, sessionsCut>>
    BY <1>12 DEF cycleVars, rowVars, jobVars, planVars, dataVars
  <2>2. CycleTyped' /\ HeldForWork' /\ WorkIsLocked'
    BY <2>1 DEF CycleInv, CycleTyped, HeldForWork, WorkIsLocked, Busy
  <2>3. ReadsGrow' /\ NewestIsMine' /\ ReuseIsCurrent'
    BY <1>12, <2>1, QuietKeepsReads DEF cycleVars
  <2> QED BY <2>2, <2>3 DEF CycleInv
<1> QED
  BY <1>1, <1>2, <1>3, <1>4, <1>5, <1>6, <1>7, <1>8, <1>9, <1>10, <1>11, <1>12
     DEF CycleNext, Execute, Locks

\* The inductive invariant holds in every state of every behaviour.
THEOREM CycleInvariant == CycleSpec => []CycleInv
<1>1. CycleInit => CycleInv
  BY CycleStarts
<1>2. CycleInv /\ [CycleNext]_cycleVars => CycleInv'
  BY CycleStep
<1> QED BY <1>1, <1>2, PTL DEF CycleSpec

\* Rows, callers, stages and locks keep their types, and no advisory lock is
\* left behind by a caller that has ended, however it ended (the release in
\* the finally blocks of advisory_lock, the end of the session at a crash).
THEOREM LocksAreGivenBack == CycleSpec => []CycleTypeOK
<1>1. CycleInv => CycleTypeOK
  <2> SUFFICES ASSUME CycleInv PROVE CycleTypeOK
    OBVIOUS
  <2>1. sessionsCut \in 0..MaxCycleFaults /\ cycleFaults \in 0..MaxCycleFaults
    BY CycleAssumption DEF CycleInv, CycleTyped
  <2>2. \A x \in DOMAIN held : Taken(x) => Alive(held[x])
    BY DEF CycleInv, CycleTyped, HeldForWork, Taken, Alive
  <2>3. \A r \in SyncRun : work[r].on \in Processor \cup {Unlocked}
    BY DEF CycleInv, CycleTyped
  <2> QED BY <2>1, <2>2, <2>3 DEF CycleTypeOK, CycleInv, CycleTyped, Locks
<1> QED BY <1>1, CycleInvariant, PTL

\* As long as no session is lost, two cycles never work at the same time: the
\* advisory lock of cycles covers everything from the plan to the last stage,
\* whatever recovery writes into the row of a slow run.
THEOREM CyclesExcludeEachOther == CycleSpec => []OneCycleAtATime
<1>1. CycleInv => OneCycleAtATime
  BY DEF CycleInv, WorkIsLocked, OneCycleAtATime
<1> QED BY <1>1, CycleInvariant, PTL

\* As long as no session is lost, no fingerprint in the log of outputs is ahead
\* of what the newest output has read, so a stage that is reused as unchanged
\* (fingerprint taken before the inputs are read) leaves none of the inputs that
\* its fingerprint names unread.  Inputs that it does not name are not covered.
THEOREM ReuseLeavesNothingUnread == CycleSpec => []ReuseIsCurrent
<1>1. CycleInv => ReuseIsCurrent
  BY DEF CycleInv
<1> QED BY <1>1, CycleInvariant, PTL
-----------------------------------------------------------------------------
(* The runs keep RunPromise *)

\* A caller that has not begun has no row.
NewIsRowless == \A r \in SyncRun : step[r] = "new" => syncRow[r] = "none"

\* What one step may do to the row of a run: accept it, once, or move it while
\* it is open.
RowMoves(r) ==
  \/ syncRow'[r] = syncRow[r]
  \/ step[r] = "new" /\ syncRow'[r] = "accepted"
  \/ syncRow[r] \in OpenRows /\ syncRow'[r] \in OpenRows \cup {"completed", "failed", "abandoned"}

OnlyRowOf(r) ==
  /\ RowMoves(r) /\ \A q \in SyncRun \ {r} : syncRow'[q] = syncRow[q]
  /\ \A q \in SyncRun : step'[q] = "new" => step[q] = "new" /\ syncRow'[q] = syncRow[q]

LEMMA CallersMoveRows ==
  ASSUME CycleTyped, NewIsRowless, NEW r \in SyncRun,
         \/ AcceptSync(r) \/ StartSync(r) \/ StartRaises(r) \/ FinalizeFailure(r)
         \/ FinalizeResult(r) \/ BeatSync(r) \/ Lapse(r) \/ ReclaimSync(r)
         \/ AbandonSync(r) \/ RouteEvents(r) \/ JobsEnd(r)
  PROVE  OnlyRowOf(r)
<1>1. /\ syncRow \in [SyncRun -> {"none", "accepted", "running", "completed", "failed", "abandoned"}]
      /\ step \in [SyncRun -> {"new", "accepted", "started", "working", "unlocked", "unclaimed",
                           "raised", "ended"}]
  BY DEF CycleTyped
<1> USE <1>1 DEF OnlyRowOf, RowMoves, OpenRows
<1>2. CASE AcceptSync(r)
  BY <1>2 DEF AcceptSync
<1>3. CASE StartSync(r)
  BY <1>3 DEF StartSync
<1>4. CASE StartRaises(r)
  BY <1>4 DEF StartRaises
<1>5. CASE FinalizeFailure(r) \/ FinalizeResult(r)
  <2>1. /\ step' = [step EXCEPT ![r] = "ended"]
        /\ \/ syncRow' = syncRow
           \/ /\ syncRow[r] \in OpenRows
              /\ \E s \in {"failed", "completed"} : syncRow' = [syncRow EXCEPT ![r] = s]
    BY <1>5 DEF FinalizeFailure, FinalizeResult, Finalize
  <2> QED BY <2>1
<1>6. CASE BeatSync(r) \/ Lapse(r)
  <2>1. UNCHANGED <<syncRow, step>>
    BY <1>6 DEF BeatSync, Lapse
  <2> QED BY <2>1
<1>7. CASE ReclaimSync(r) \/ AbandonSync(r) \/ RouteEvents(r) \/ JobsEnd(r)
  <2>1. /\ step' = step
        /\ \/ syncRow' = syncRow
           \/ /\ syncRow[r] \in OpenRows
              /\ \E s \in {"accepted", "abandoned"} : syncRow' = [syncRow EXCEPT ![r] = s]
    BY <1>7 DEF ReclaimSync, AbandonSync, RouteEvents, JobsEnd
  <2> QED BY <2>1 DEF NewIsRowless
<1> QED BY <1>2, <1>3, <1>4, <1>5, <1>6, <1>7

LEMMA WorkMovesNoRow ==
  ASSUME CycleTyped, NEW r \in SyncRun,
         \/ TakeCycleLock(r) \/ EndWork(r) \/ SkipRest(r) \/ DieSync(r)
         \/ ReadInputs(r) \/ PublishOutput(r) \/ ProcessFails(r) \/ LogOutput(r)
         \/ (\E s \in Source : BeginCollect(r, s) \/ EndCollect(r, s))
         \/ (\E p \in Processor : BeginProcess(r, p))
  PROVE  OnlyRowOf(r)
<1>1. step \in [SyncRun -> {"new", "accepted", "started", "working", "unlocked", "unclaimed",
                           "raised", "ended"}]
  BY DEF CycleTyped
<1>2. syncRow' = syncRow
  BY DEF TakeCycleLock, Conflict, EndWork, SkipRest, DieSync, ReadInputs, PublishOutput, ProcessFails,
         LogOutput, BeginCollect, EndCollect, BeginProcess, rowVars, jobVars
<1>3. step' = step \/ \E s \in {"raised", "working", "unlocked", "ended"} : step' = [step EXCEPT ![r] = s]
  BY DEF TakeCycleLock, Conflict, EndWork, SkipRest, DieSync, ReadInputs, PublishOutput, ProcessFails,
         LogOutput, BeginCollect, EndCollect, BeginProcess
<1>4. \A q \in SyncRun : step'[q] = "new" => step[q] = "new"
  BY <1>1, <1>3
<1> QED BY <1>2, <1>4 DEF OnlyRowOf, RowMoves

\* Two statuses that agree on every other run differ by an update of one.
LEMMA OneStatusMoves ==
  ASSUME NEW r \in SyncRun, \A q \in SyncRun \ {r} : SyncStatus'[q] = SyncStatus[q],
         NEW s, SyncStatus'[r] = s
  PROVE  SyncStatus' = [SyncStatus EXCEPT ![r] = s]
<1>1. /\ DOMAIN SyncStatus = SyncRun /\ DOMAIN SyncStatus' = SyncRun
      /\ SyncStatus = [q \in SyncRun |-> SyncStatus[q]]
      /\ SyncStatus' = [q \in SyncRun |-> SyncStatus'[q]]
  BY DEF SyncStatus
<1> QED BY <1>1

\* A step that moves one row accepts its run, closes it, or is not seen.
LEMMA RowsKeepPromise ==
  ASSUME CycleTyped, NewIsRowless, NEW r \in SyncRun, OnlyRowOf(r)
  PROVE  NewIsRowless' /\ (Promise!Next \/ UNCHANGED SyncStatus)
<1>1. syncRow \in [SyncRun -> {"none", "accepted", "running", "completed", "failed", "abandoned"}]
  BY DEF CycleTyped
<1>2. NewIsRowless'
  BY DEF NewIsRowless, OnlyRowOf
<1>3. \A q \in SyncRun \ {r} : SyncStatus'[q] = SyncStatus[q]
  BY DEF OnlyRowOf, SyncStatus
<1>4. SyncStatus' = [SyncStatus EXCEPT ![r] = SyncStatus'[r]]
  BY <1>3, OneStatusMoves
<1>5. CASE SyncStatus'[r] = SyncStatus[r]
  <2>1. SyncStatus = [q \in SyncRun |-> SyncStatus[q]]
    BY DEF SyncStatus
  <2> QED BY <1>2, <1>4, <1>5, <2>1
<1>6. CASE SyncStatus[r] = "absent" /\ SyncStatus'[r] = "pending"
  <2>1. SyncStatus' = [SyncStatus EXCEPT ![r] = "pending"]
    BY <1>4, <1>6
  <2> QED BY <1>2, <1>6, <2>1 DEF Promise!Next, Promise!Accept
<1>7. CASE SyncStatus[r] = "pending" /\ SyncStatus'[r] \in {"completed", "failed", "abandoned"}
  <2>1. PICK end \in Promise!Outcomes : SyncStatus'[r] = end
    BY <1>7 DEF Promise!Outcomes
  <2>2. SyncStatus = [q \in SyncRun |-> SyncStatus[q]]
    BY DEF SyncStatus
  <2> DEFINE closing == {r}
             outcome == [q \in closing |-> end]
  <2>3. closing \in SUBSET {q \in SyncRun : SyncStatus[q] = "pending"} /\ closing # {}
    BY <1>7
  <2>4. outcome \in [closing -> Promise!Outcomes]
    BY <2>1
  <2>5. SyncStatus' = [q \in SyncRun |-> IF q \in closing THEN outcome[q] ELSE SyncStatus[q]]
    BY <1>4, <2>1, <2>2
  <2>6. Promise!Close
    <3> HIDE DEF closing, outcome
    <3> QED BY <2>3, <2>4, <2>5 DEF Promise!Close
  <2> QED BY <1>2, <2>6 DEF Promise!Next
<1>8. \/ SyncStatus'[r] = SyncStatus[r]
      \/ SyncStatus[r] = "absent" /\ SyncStatus'[r] = "pending"
      \/ SyncStatus[r] = "pending" /\ SyncStatus'[r] \in {"completed", "failed", "abandoned"}
  BY <1>1 DEF OnlyRowOf, RowMoves, NewIsRowless, SyncStatus, OpenRows
<1> QED BY <1>2, <1>5, <1>6, <1>7, <1>8

\* Every behaviour of the runs that their caller executes, seen through their
\* status alone, is one RunPromise allows: a row that recovery abandoned under a
\* slow caller keeps that answer, and one that recovery put back to accepted is
\* closed at most once as well.
THEOREM SyncRunsKeepPromise == CycleSpec => SyncPromiseKept
<1>1. CycleInit => NewIsRowless /\ Promise!Init
  BY DEF CycleInit, NewIsRowless, Promise!Init, SyncStatus
<1>2. CycleInv /\ NewIsRowless /\ [CycleNext]_cycleVars =>
        NewIsRowless' /\ [Promise!Next]_SyncStatus
  <2> SUFFICES ASSUME CycleInv, NewIsRowless, [CycleNext]_cycleVars
               PROVE  NewIsRowless' /\ (Promise!Next \/ UNCHANGED SyncStatus)
    OBVIOUS
  <2>1. CycleTyped
    BY DEF CycleInv
  <2>2. CASE UNCHANGED cycleVars \/ \E x \in Component \cup {CycleLock} : CutSession(x)
    <3>1. UNCHANGED <<syncRow, step>>
      BY <2>2 DEF cycleVars, rowVars, jobVars, CutSession
    <3> QED BY <3>1 DEF NewIsRowless, SyncStatus
  <2>3. CASE \E r \in SyncRun : AcceptSync(r) \/ Execute(r) \/ BeatSync(r) \/ Lapse(r)
                                \/ ReclaimSync(r) \/ AbandonSync(r) \/ DieSync(r)
                                \/ RouteEvents(r) \/ JobsEnd(r)
    <3>1. \E r \in SyncRun : OnlyRowOf(r)
      BY <2>1, <2>3, CallersMoveRows, WorkMovesNoRow DEF Execute
    <3> QED BY <2>1, <3>1, RowsKeepPromise
  <2> QED BY <2>2, <2>3 DEF CycleNext
<1> QED BY <1>1, <1>2, CycleInvariant, PTL DEF CycleSpec, SyncPromiseKept, Promise!Spec
=============================================================================
