----------------------------- MODULE SetupState -----------------------------
(***************************************************************************)
(* The committed configuration: immutable version directories, one symlink *)
(* "current" whose replacement is the commit, writers that serialize on a  *)
(* file lock, processes that keep the snapshot they loaded at startup, and *)
(* readers that validate the committed state without any lock.             *)
(*                                                                         *)
(* The contents of a version are the set of edits merged into it, for both *)
(* files that matter, operator.yaml and secrets.env.  Version 0 is the     *)
(* state before activation.  A process may die at any step; a power loss   *)
(* also undoes what no fsync has confirmed.                                *)
(***************************************************************************)
EXTENDS Naturals, FiniteSets

CONSTANTS
  Writer,       \* requests being handled by the web service at the same time
  Loader,       \* processes that load the configuration at startup
  Unlockable,   \* those of them whose state mount is read-only
  Reader,       \* concurrent evaluations of setup_complete
  Edit,         \* what the operator changes, each submitted once
  Activation,   \* the edits submitted to /setup/activate
  Nobody,
  MaxVersion,   \* bound on the versions ever staged
  MaxFaults     \* bound on crashes and power losses

ASSUME SetupAssumption ==
  /\ Activation \subseteq Edit /\ Unlockable \subseteq Loader
  /\ Nobody \notin Writer \cup Edit
  /\ MaxVersion \in Nat \ {0} /\ MaxFaults \in Nat

Version == 1..MaxVersion

VARIABLES
  dir, body,          \* the version directories and what they hold
  synced,             \* the versions whose directory entry is on stable storage
  current, durable,   \* the symlink, and its value after a power loss
  lockfile, lock,     \* .setup.lock: whether it exists, its exclusive holder
  pc, edit, target, prior,   \* the requests: step, edit, staged version, version replaced
  outcome,            \* what the caller of each edit was told
  conf,               \* the snapshot of each process
  looking, verdict, flips,   \* the readers; flips counts the commits they overlapped
  faults

writerVars == <<pc, edit, target, prior>>
readerVars == <<looking, verdict, flips>>
storeVars  == <<dir, body, synced, current, durable>>
setupVars == <<storeVars, lockfile, lock, writerVars, outcome, conf, readerVars, faults>>

Content(v) == IF v = 0 THEN {} ELSE body[v]

\* What every consumer reads through "current".
Live == Content(current)

\* What a process knows: how far its load is, the fingerprints, the two files.
Snapshot == [step: {"none", "printing", "printed", "parsing", "loaded"},
             print: [op: SUBSET Edit, sec: SUBSET Edit],
             op: SUBSET Edit, sec: SUBSET Edit]

Unloaded == [step |-> "none", print |-> [op |-> {}, sec |-> {}], op |-> {}, sec |-> {}]

-----------------------------------------------------------------------------
(* Writers *)

\* Activation is refused once setup is complete, every other edit before it.
Allowed(e) == (e \in Activation) = (current = 0)

Refuse(w, e) ==
  /\ pc[w] = "idle" /\ lock = Nobody /\ outcome[e] = "none"
  /\ ~Allowed(e)
  /\ lockfile' = TRUE
  /\ outcome' = [outcome EXCEPT ![e] = "failed"]
  /\ UNCHANGED <<storeVars, lock, writerVars, conf, readerVars, faults>>

\* read_live_state and the merge happen under the lock, so their result is Live.
Open(w, e) ==
  /\ pc[w] = "idle" /\ lock = Nobody /\ outcome[e] = "none"
  /\ Allowed(e)
  /\ lockfile' = TRUE /\ lock' = w
  /\ pc' = [pc EXCEPT ![w] = "opened"]
  /\ edit' = [edit EXCEPT ![w] = e]
  /\ outcome' = [outcome EXCEPT ![e] = "pending"]
  /\ UNCHANGED <<storeVars, target, prior, conf, readerVars, faults>>

Used == {v \in Version : dir[v] # "absent"} \cup {current}

\* Above the committed version and above every orphan.
NextVersion(n) == n \in Version /\ n - 1 \in Used /\ \A v \in Used : v < n

StageAs(w, n, content) ==
  /\ pc[w] = "opened" /\ NextVersion(n)
  /\ dir' = [dir EXCEPT ![n] = "partial"]
  /\ body' = [body EXCEPT ![n] = content]
  /\ synced' = synced \ {n}
  /\ target' = [target EXCEPT ![w] = n]
  /\ prior' = [prior EXCEPT ![w] = current]
  /\ pc' = [pc EXCEPT ![w] = "staging"]
  /\ UNCHANGED <<current, durable, lockfile, lock, edit, outcome, conf, readerVars, faults>>

\* Fault: the payload is the edit alone, not merged into what is live.
StageUnmerged(w, n) == StageAs(w, n, {edit[w]})

Stage(w, n) == StageAs(w, n, Live \cup {edit[w]})

\* All four files written, each fsynced, and the directory validated.
FinishStage(w) ==
  /\ pc[w] = "staging"
  /\ dir' = [dir EXCEPT ![target[w]] = "complete"]
  /\ pc' = [pc EXCEPT ![w] = "staged"]
  /\ UNCHANGED <<body, synced, current, durable, lockfile, lock, edit, target, prior,
                 outcome, conf, readerVars, faults>>

EndRequest(w, answer) ==
  /\ lock' = Nobody
  /\ pc' = [pc EXCEPT ![w] = "idle"]
  /\ outcome' = [outcome EXCEPT ![edit[w]] = answer]
  /\ UNCHANGED <<lockfile, edit, target, prior, conf, readerVars, faults>>

\* A storage error while staging, or a candidate the full validation rejects:
\* the directory is removed again.
Reject(w) ==
  /\ pc[w] \in {"staging", "staged"}
  /\ dir' = [dir EXCEPT ![target[w]] = "absent"]
  /\ EndRequest(w, "failed")
  /\ UNCHANGED <<body, synced, current, durable>>

\* Fault: the flip is not preceded by an fsync.
SyncNothing(w) ==
  /\ pc[w] = "staged"
  /\ pc' = [pc EXCEPT ![w] = "synced"]
  /\ UNCHANGED <<storeVars, lockfile, lock, edit, target, prior, outcome, conf,
                 readerVars, faults>>

\* The two directory fsyncs before the flip also confirm an earlier flip.
Sync(w) ==
  /\ pc[w] = "staged"
  /\ synced' = synced \cup {target[w]}
  /\ durable' = current
  /\ pc' = [pc EXCEPT ![w] = "synced"]
  /\ UNCHANGED <<dir, body, current, lockfile, lock, edit, target, prior, outcome, conf,
                 readerVars, faults>>

\* An fsync or the replacement of the link fails: the staged version stays
\* behind as an orphan and the caller hears that nothing has changed.
FailBeforeFlip(w) ==
  /\ pc[w] \in {"staged", "synced"}
  /\ EndRequest(w, "failed")
  /\ UNCHANGED storeVars

Flip(w) ==
  /\ pc[w] = "synced"
  /\ current' = target[w]
  /\ pc' = [pc EXCEPT ![w] = "flipped"]
  /\ flips' = [r \in Reader |-> IF looking[r] = 0 \/ flips[r] = 2 THEN flips[r] ELSE flips[r] + 1]
  /\ UNCHANGED <<dir, body, synced, durable, lockfile, lock, edit, target, prior, outcome,
                 conf, looking, verdict, faults>>

Confirm(w) ==
  /\ pc[w] = "flipped"
  /\ durable' = current
  /\ pc' = [pc EXCEPT ![w] = "pruning"]
  /\ UNCHANGED <<dir, body, synced, current, lockfile, lock, edit, target, prior, outcome,
                 conf, readerVars, faults>>

\* CommitDurabilityError: the update is live, and the caller is told so.
ConfirmFails(w) ==
  /\ pc[w] = "flipped"
  /\ EndRequest(w, "unsure")
  /\ UNCHANGED storeVars

\* Fault: the version that was replaced is not kept.
KeptAlone(w) == {target[w]}

Kept(w) == {target[w], prior[w]}

Prune(w, v) ==
  /\ pc[w] = "pruning"
  /\ dir[v] # "absent" /\ v \notin Kept(w)
  /\ dir' = [dir EXCEPT ![v] = "absent"]
  /\ UNCHANGED <<body, synced, current, durable, lockfile, lock, writerVars, outcome, conf,
                 readerVars, faults>>

\* Pruning is best effort: errors leave versions behind.
Reply(w) ==
  /\ pc[w] = "pruning"
  /\ EndRequest(w, "saved")
  /\ UNCHANGED storeVars

WriterDies(w) ==
  /\ faults < MaxFaults /\ pc[w] # "idle"
  /\ faults' = faults + 1
  /\ lock' = Nobody
  /\ pc' = [pc EXCEPT ![w] = "idle"]
  /\ outcome' = [outcome EXCEPT ![edit[w]] = "lost"]
  /\ UNCHANGED <<storeVars, lockfile, edit, target, prior, conf, readerVars>>

\* Of a version that was not synced anything may be left, nothing included.
PowerLoss ==
  /\ faults < MaxFaults
  /\ faults' = faults + 1
  /\ \E c \in {current, durable} : current' = c /\ durable' = c
  /\ \E left \in [Version -> {"absent", "partial", "complete"}] :
       /\ \A v \in Version :
            \/ left[v] = dir[v]
            \/ v \notin synced /\ dir[v] # "absent" /\ left[v] # "complete"
       /\ dir' = left
  /\ lock' = Nobody
  /\ pc' = [w \in Writer |-> "idle"]
  /\ outcome' = [e \in Edit |-> IF outcome[e] = "pending" THEN "lost" ELSE outcome[e]]
  /\ conf' = [l \in Loader |-> Unloaded]
  /\ looking' = [r \in Reader |-> 0]
  /\ verdict' = [r \in Reader |-> "none"]
  /\ flips' = [r \in Reader |-> 0]
  /\ UNCHANGED <<body, synced, lockfile, edit, target, prior>>

-----------------------------------------------------------------------------
(* Processes that load the configuration *)

\* The shared lock excludes writers from the fingerprints to the last parse.
LoadLocked(l) ==
  /\ conf[l].step = "none" /\ lock = Nobody
  /\ lockfile \/ l \notin Unlockable
  /\ lockfile' = TRUE
  /\ conf' = [conf EXCEPT ![l] = [step |-> "loaded", print |-> [op |-> Live, sec |-> Live],
                                  op |-> Live, sec |-> Live]]
  /\ UNCHANGED <<storeVars, lock, writerVars, outcome, readerVars, faults>>

\* A read-only mount without a lock file: fingerprints and parses, one file
\* after the other, while the first activation may be under way.
LoadStep(l, before, after, what) ==
  /\ conf[l].step = before
  /\ conf' = [conf EXCEPT ![l] = [what EXCEPT !.step = after]]
  /\ UNCHANGED <<storeVars, lockfile, lock, writerVars, outcome, readerVars, faults>>

PrintOperator(l) ==
  /\ l \in Unlockable /\ ~lockfile
  /\ LoadStep(l, "none", "printing", [conf[l] EXCEPT !.print.op = Live])
PrintSecrets(l) == LoadStep(l, "printing", "printed", [conf[l] EXCEPT !.print.sec = Live])
ParseOperator(l) == LoadStep(l, "printed", "parsing", [conf[l] EXCEPT !.op = Live])

ParseSecrets(l) == LoadStep(l, "parsing", "loaded", [conf[l] EXCEPT !.sec = Live])

\* ensure_current
Passes(l) == conf[l].print.op = Live /\ conf[l].print.sec = Live

\* A worker whose check fails exits and is started again by its container.
ExitOnDrift(l) ==
  /\ conf[l].step = "loaded" /\ lock = Nobody /\ ~Passes(l)
  /\ conf' = [conf EXCEPT ![l] = Unloaded]
  /\ UNCHANGED <<storeVars, lockfile, lock, writerVars, outcome, readerVars, faults>>

-----------------------------------------------------------------------------
(* setup_complete *)

Resolve(r) ==
  /\ looking[r] = 0 /\ current # 0 /\ verdict[r] = "none"
  /\ looking' = [looking EXCEPT ![r] = current]
  /\ flips' = [flips EXCEPT ![r] = 0]
  /\ UNCHANGED <<storeVars, lockfile, lock, writerVars, outcome, conf, verdict, faults>>

Validate(r) ==
  /\ looking[r] # 0
  /\ verdict' = [verdict EXCEPT ![r] = IF dir[looking[r]] = "complete" THEN "complete"
                                       ELSE "incomplete"]
  /\ looking' = [looking EXCEPT ![r] = 0]
  /\ UNCHANGED <<storeVars, lockfile, lock, writerVars, outcome, conf, flips, faults>>

Forget(r) ==
  /\ verdict[r] # "none"
  /\ verdict' = [verdict EXCEPT ![r] = "none"]
  /\ UNCHANGED <<storeVars, lockfile, lock, writerVars, outcome, conf, looking, flips, faults>>

-----------------------------------------------------------------------------
SetupInit ==
  /\ dir = [v \in Version |-> "absent"]
  /\ body = [v \in Version |-> {}]
  /\ synced = {} /\ current = 0 /\ durable = 0
  /\ lockfile = FALSE /\ lock = Nobody
  /\ pc = [w \in Writer |-> "idle"]
  /\ edit = [w \in Writer |-> Nobody]
  /\ target = [w \in Writer |-> 0]
  /\ prior = [w \in Writer |-> 0]
  /\ outcome = [e \in Edit |-> "none"]
  /\ conf = [l \in Loader |-> Unloaded]
  /\ looking = [r \in Reader |-> 0]
  /\ verdict = [r \in Reader |-> "none"]
  /\ flips = [r \in Reader |-> 0]
  /\ faults = 0

Write(w) ==
  \/ \E e \in Edit : Refuse(w, e) \/ Open(w, e)
  \/ \E v \in Version : Stage(w, v) \/ Prune(w, v)
  \/ FinishStage(w) \/ Reject(w) \/ Sync(w) \/ FailBeforeFlip(w)
  \/ Flip(w) \/ Confirm(w) \/ ConfirmFails(w) \/ Reply(w) \/ WriterDies(w)

Load(l) ==
  LoadLocked(l) \/ PrintOperator(l) \/ PrintSecrets(l) \/ ParseOperator(l)
    \/ ParseSecrets(l) \/ ExitOnDrift(l)

Read(r) == Resolve(r) \/ Validate(r) \/ Forget(r)

SetupNext ==
  \/ \E w \in Writer : Write(w)
  \/ \E l \in Loader : Load(l)
  \/ \E r \in Reader : Read(r)
  \/ PowerLoss

SetupSpec == SetupInit /\ [][SetupNext]_setupVars

-----------------------------------------------------------------------------
(* Properties *)

\* Types of the variables of commit_setup and of the processes around it.
SetupTypeOK ==
  /\ dir \in [Version -> {"absent", "partial", "complete"}]
  /\ body \in [Version -> SUBSET Edit]
  /\ synced \subseteq Version
  /\ current \in 0..MaxVersion /\ durable \in 0..MaxVersion
  /\ lockfile \in BOOLEAN /\ lock \in Writer \cup {Nobody}
  /\ pc \in [Writer -> {"idle", "opened", "staging", "staged", "synced", "flipped", "pruning"}]
  /\ edit \in [Writer -> Edit \cup {Nobody}]
  /\ target \in [Writer -> 0..MaxVersion] /\ prior \in [Writer -> 0..MaxVersion]
  /\ outcome \in [Edit -> {"none", "pending", "saved", "unsure", "failed", "lost"}]
  /\ conf \in [Loader -> Snapshot]
  /\ looking \in [Reader -> 0..MaxVersion]
  /\ verdict \in [Reader -> {"none", "complete", "incomplete"}]
  /\ flips \in [Reader -> 0..2] /\ faults \in 0..MaxFaults

\* "current" names a complete version from the first commit on, at every step
\* of commit_setup, after the death of a writer and after a power loss.
CommittedIsComplete ==
  /\ current # 0 => dir[current] = "complete"
  /\ durable # 0 => dir[durable] = "complete" /\ durable \in synced

\* What the caller of an edit was told stays true, whatever crashes, later
\* edits and power losses follow: a saved edit is live and a failed one is not.
AnswersStayTrue ==
  \A e \in Edit :
    /\ outcome[e] = "saved" => e \in Live
    /\ outcome[e] = "failed" => e \notin Live

\* A process that passes ensure_current runs operator values and credentials
\* of one and the same committed version, the one that is live: also one that
\* loaded without a lock while the first activation was under way.
CheckedMeansWhole ==
  \A l \in Loader :
    conf[l].step = "loaded" /\ Passes(l) => conf[l].op = Live /\ conf[l].sec = Live

\* The version that was replaced is retained, so validate_committed_state,
\* which takes no lock, does not call a complete setup incomplete unless two
\* versions were committed while it looked.
ReadersSurviveOneCommit ==
  \A r \in Reader : verdict[r] = "incomplete" => flips[r] >= 2

\* Seen through what is live, what is on stable storage and what the callers
\* were told, the whole protocol of staging, flipping, confirming and pruning is
\* SetupPromise: one step commits one edit, and no answer is ever wrong.
Commits ==
  INSTANCE SetupPromise WITH live <- Live, stable <- Content(durable), answer <- outcome
CommitsAreAtomic == Commits!Spec
=============================================================================
