---------------------------- MODULE ServiceProofs ----------------------------
(***************************************************************************)
(* Proofs about SetupState and WorkerRole: the committed configuration and *)
(* the processes that run on it.                                           *)
(*                                                                         *)
(* A request owns the lock from Open to its answer, so at most one is      *)
(* under way (OneWriter); what it stages is not reachable through either   *)
(* value of the link before the flip (StagedApart), and its edit is in     *)
(* neither (StillOutside).  A flip is preceded by the fsyncs that make its *)
(* target, and every earlier flip, survive a power loss (LinksSurvive).    *)
(* With the request behind every caller that waits (PendingIsOpen), this   *)
(* makes the protocol an implementation of SetupPromise.                   *)
(* A reader that has seen one flip looks at the version that flip replaced *)
(* (ReadersKept), and what a loader read first is contained in what it     *)
(* read later (LoadsGrow).                                                 *)
(*                                                                         *)
(* Schedulers are counted: there is at most the one with the leader lock,  *)
(* and one for every session that was lost (LeadersAreFew).  A window has  *)
(* left as many jobs as there are schedulers that have yet to fire in it,  *)
(* and startup runs that may still fall into it (WindowsOwe).              *)
(***************************************************************************)
EXTENDS SetupState, WorkerRole, FiniteSetTheorems, TLAPS

BeforeFlip == {"opened", "staging", "staged", "synced"}

OneWriter == \A w \in Writer : pc[w] # "idle" => lock = w

LinksSurvive ==
  \A c \in {current, durable} : c # 0 => dir[c] = "complete" /\ c \in synced

StagedApart ==
  \A w \in Writer :
    /\ pc[w] \in {"staging", "staged", "synced"} =>
         /\ target[w] \in Version /\ target[w] \notin {current, durable}
         /\ body[target[w]] = Live \cup {edit[w]}
    /\ pc[w] \in {"staged", "synced"} => dir[target[w]] = "complete"
    /\ pc[w] = "synced" => target[w] \in synced /\ durable = current
    /\ pc[w] \in {"flipped", "pruning"} => target[w] = current
    /\ pc[w] = "pruning" => durable = current

StillOutside ==
  \A w \in Writer :
    /\ pc[w] # "idle" => edit[w] \in Edit /\ outcome[edit[w]] = "pending"
    /\ pc[w] \in BeforeFlip => edit[w] \notin Live \cup Content(durable)
    /\ pc[w] \in {"flipped", "pruning"} => edit[w] \in Live

Told ==
  \A e \in Edit :
    /\ outcome[e] = "saved" => e \in Live /\ e \in Content(durable)
    /\ outcome[e] \in {"none", "failed"} => e \notin Live /\ e \notin Content(durable)

SetupInv ==
  SetupTypeOK /\ OneWriter /\ LinksSurvive /\ StagedApart /\ StillOutside /\ Told

Staging(w) == pc[w] \in {"staging", "staged", "synced"}

ReadersKept ==
  /\ \A w \in Writer : Staging(w) => prior[w] = current
  /\ \A r \in Reader :
       /\ looking[r] # 0 /\ flips[r] = 0 => looking[r] = current
       /\ looking[r] # 0 /\ flips[r] = 1 =>
            /\ dir[looking[r]] = "complete"
            /\ \A w \in Writer :
                 /\ Staging(w) => target[w] # looking[r]
                 /\ pc[w] \in {"flipped", "pruning"} => prior[w] = looking[r]
       /\ verdict[r] = "incomplete" => flips[r] >= 2

LoadInOrder(c) ==
  /\ c.step \in {"printing", "printed", "parsing", "loaded"} => c.print.op \subseteq Live
  /\ c.step \in {"printed", "parsing", "loaded"} =>
       c.print.op \subseteq c.print.sec /\ c.print.sec \subseteq Live
  /\ c.step \in {"parsing", "loaded"} => c.print.sec \subseteq c.op /\ c.op \subseteq Live
  /\ c.step = "loaded" => c.op \subseteq c.sec /\ c.sec \subseteq Live

LoadsGrow == \A l \in Loader : LoadInOrder(conf[l])

Leading  == {r \in Replica : thread[r] = "leading"}
Due      == {r \in Leading : last[r] < minute}
Boots(m) == {r \in Replica : boot[r] = m}
BootsIn(m) == IF m \in Minute THEN Cardinality(Boots(m)) ELSE 0

ThreadsEnd ==
  /\ \A r \in Replica : up[r] = "down" => thread[r] = "ended"
  /\ \A r \in Replica : boot[r] # 0 => thread[r] = "leading" /\ boot[r] <= minute

LeadersAreFew ==
  Cardinality(Leading) <= (IF leader \in Leading THEN 1 ELSE 0) + sessionsLost

BootsAreStarts == \A m \in Minute : Cardinality(Boots(m)) <= starts[m]

Granted(m) == 1 + sessionsLost + StartsIn(m) + StartsIn(m - 1)

WindowsOwe ==
  /\ minute \in Minute
  /\ \A m \in Minute : m > minute => jobs[m] = 0
  /\ \A m \in Minute : m < minute => jobs[m] <= Granted(m)
  /\ jobs[minute] + Cardinality(Due) + BootsIn(minute) + BootsIn(minute - 1) <= Granted(minute)

RoleInv ==
  /\ RoleTypeOK /\ ThreadsEnd /\ LeadersAreFew /\ BootsAreStarts /\ WindowsOwe
  /\ \A r \in Replica : last[r] <= minute

LEMMA StartsRight == SetupInit => SetupInv
<1> SUFFICES ASSUME SetupInit PROVE SetupInv
  OBVIOUS
<1>1. Unloaded \in Snapshot
  BY DEF Unloaded, Snapshot
<1>2. SetupTypeOK
  <2>1. MaxVersion \in Nat /\ MaxFaults \in Nat
    BY SetupAssumption
  <2>2. 0 \in 0..MaxVersion /\ 0 \in 0..MaxFaults /\ 0 \in 0..2
    BY <2>1
  <2>3. /\ dir \in [Version -> {"absent", "partial", "complete"}]
        /\ body \in [Version -> SUBSET Edit]
        /\ synced \subseteq Version
        /\ lockfile \in BOOLEAN /\ lock \in Writer \cup {Nobody}
    BY DEF SetupInit
  <2>4. /\ current \in 0..MaxVersion /\ durable \in 0..MaxVersion
        /\ target \in [Writer -> 0..MaxVersion] /\ prior \in [Writer -> 0..MaxVersion]
        /\ faults \in 0..MaxFaults
    BY <2>2 DEF SetupInit
  <2>5. /\ pc \in [Writer -> {"idle", "opened", "staging", "staged", "synced", "flipped",
                             "pruning"}]
        /\ edit \in [Writer -> Edit \cup {Nobody}]
        /\ outcome \in [Edit -> {"none", "pending", "saved", "unsure", "failed", "lost"}]
    BY DEF SetupInit
  <2>6. conf \in [Loader -> Snapshot]
    BY <1>1 DEF SetupInit
  <2>7. /\ looking \in [Reader -> 0..MaxVersion]
        /\ verdict \in [Reader -> {"none", "complete", "incomplete"}]
        /\ flips \in [Reader -> 0..2]
    BY <2>2 DEF SetupInit
  <2> QED BY <2>3, <2>4, <2>5, <2>6, <2>7 DEF SetupTypeOK
<1>3. OneWriter /\ LinksSurvive /\ StagedApart /\ StillOutside /\ Told
  BY SetupAssumption DEF SetupInit, OneWriter, LinksSurvive, StagedApart,
    StillOutside, Told, Live, Content, BeforeFlip
<1> QED BY <1>2, <1>3 DEF SetupInv

\* A step that changes only processes and readers keeps everything.
LEMMA LoadsKeep ==
  ASSUME SetupInv, NEW l \in Loader, Load(l)
  PROVE  SetupInv'
<1>1. UNCHANGED <<storeVars, lock, writerVars, outcome, readerVars, faults>>
  BY DEF Load, LoadLocked, PrintOperator, PrintSecrets, ParseOperator, ParseSecrets,
         LoadStep, ExitOnDrift
<1>2. Live \subseteq Edit
  <2>1. body \in [Version -> SUBSET Edit] /\ current \in 0..MaxVersion /\ MaxVersion \in Nat
    BY SetupAssumption DEF SetupInv, SetupTypeOK
  <2>2. current # 0 => current \in Version
    BY <2>1 DEF Version
  <2>3. current # 0 => body[current] \subseteq Edit
    BY <2>1, <2>2
  <2> QED BY <2>3 DEF Live, Content
<1>3. ASSUME NEW c \in Snapshot, NEW st \in {"printing", "printed", "parsing", "loaded"}
      PROVE  [c EXCEPT !.step = st] \in Snapshot
  <2>1. [c EXCEPT !.step = st]
          = [step |-> st, print |-> c.print, op |-> c.op, sec |-> c.sec]
    BY DEF Snapshot
  <2>2. c.print \in [op: SUBSET Edit, sec: SUBSET Edit]
        /\ c.op \in SUBSET Edit /\ c.sec \in SUBSET Edit
    BY DEF Snapshot
  <2> QED BY <2>1, <2>2 DEF Snapshot
<1>4. ASSUME NEW c \in Snapshot
      PROVE  /\ [c EXCEPT !.op = Live] \in Snapshot
             /\ [c EXCEPT !.sec = Live] \in Snapshot
             /\ [c EXCEPT !.print.op = Live] \in Snapshot
             /\ [c EXCEPT !.print.sec = Live] \in Snapshot
  <2>1. c.print \in [op: SUBSET Edit, sec: SUBSET Edit]
    BY DEF Snapshot
  <2>2. /\ [c.print EXCEPT !.op = Live] \in [op: SUBSET Edit, sec: SUBSET Edit]
        /\ [c.print EXCEPT !.sec = Live] \in [op: SUBSET Edit, sec: SUBSET Edit]
    BY <2>1, <1>2
  <2> QED BY <2>2, <1>2 DEF Snapshot
<1>5. conf[l] \in Snapshot /\ conf \in [Loader -> Snapshot]
  BY DEF SetupInv, SetupTypeOK
<1>6. \E c \in Snapshot : conf' = [conf EXCEPT ![l] = c]
  <2>1. CASE LoadLocked(l)
    <3>1. [step |-> "loaded", print |-> [op |-> Live, sec |-> Live],
           op |-> Live, sec |-> Live] \in Snapshot
      BY <1>2 DEF Snapshot
    <3> QED BY <2>1, <3>1 DEF LoadLocked
  <2>2. CASE PrintOperator(l)
    BY <2>2, <1>3, <1>4, <1>5 DEF PrintOperator, LoadStep
  <2>3. CASE PrintSecrets(l)
    BY <2>3, <1>3, <1>4, <1>5 DEF PrintSecrets, LoadStep
  <2>4. CASE ParseOperator(l)
    BY <2>4, <1>3, <1>4, <1>5 DEF ParseOperator, LoadStep
  <2>5. CASE ParseSecrets(l)
    BY <2>5, <1>3, <1>4, <1>5 DEF ParseSecrets, LoadStep
  <2>6. CASE ExitOnDrift(l)
    <3>1. Unloaded \in Snapshot
      BY DEF Unloaded, Snapshot
    <3> QED BY <2>6, <3>1 DEF ExitOnDrift
  <2> QED BY <2>1, <2>2, <2>3, <2>4, <2>5, <2>6 DEF Load
<1>7. conf' \in [Loader -> Snapshot]
  BY <1>5, <1>6
<1>8. lockfile' \in BOOLEAN
  BY DEF Load, LoadLocked, PrintOperator, PrintSecrets, ParseOperator, ParseSecrets,
         LoadStep, ExitOnDrift, SetupInv, SetupTypeOK
<1> QED
  BY <1>1, <1>7, <1>8 DEF SetupInv, SetupTypeOK, OneWriter, LinksSurvive, StagedApart,
    StillOutside, Told, storeVars, writerVars, readerVars, Live, Content

LEMMA ReadsKeep ==
  ASSUME SetupInv, NEW r \in Reader, Read(r)
  PROVE  SetupInv'
<1>1. UNCHANGED <<storeVars, lockfile, lock, writerVars, outcome, conf, faults>>
  BY DEF Read, Resolve, Validate, Forget
<1>2. /\ looking' \in [Reader -> 0..MaxVersion]
      /\ verdict' \in [Reader -> {"none", "complete", "incomplete"}]
      /\ flips' \in [Reader -> 0..2]
  <2>1. CASE Resolve(r) BY <2>1 DEF Resolve, SetupInv, SetupTypeOK
  <2>2. CASE Validate(r) BY <2>2, SetupAssumption DEF Validate, SetupInv, SetupTypeOK
  <2>3. CASE Forget(r) BY <2>3 DEF Forget, SetupInv, SetupTypeOK
  <2> QED BY <2>1, <2>2, <2>3 DEF Read
<1> QED
  BY <1>1, <1>2 DEF SetupInv, SetupTypeOK, OneWriter, LinksSurvive, StagedApart,
    StillOutside, Told, storeVars, writerVars, Live, Content

\* Only the holder of the lock is under way.
LEMMA Alone ==
  ASSUME SetupInv, NEW w \in Writer, pc[w] # "idle", NEW x \in Writer, x # w
  PROVE  pc[x] = "idle"
BY DEF SetupInv, OneWriter

LEMMA OpenKeeps ==
  ASSUME SetupInv, NEW w \in Writer, NEW e \in Edit, Open(w, e)
  PROVE  SetupInv'
<1>1. \A x \in Writer : pc[x] = "idle"
  BY SetupAssumption DEF Open, SetupInv, OneWriter
<1>2. SetupTypeOK'
  BY DEF Open, SetupInv, SetupTypeOK, storeVars, readerVars
<1>3. OneWriter'
  BY <1>1 DEF Open, SetupInv, SetupTypeOK, OneWriter
<1>4. LinksSurvive' /\ StagedApart'
  BY <1>1 DEF Open, SetupInv, SetupTypeOK, LinksSurvive, StagedApart, storeVars
<1>5. StillOutside' /\ Told'
  BY <1>1 DEF Open, SetupInv, SetupTypeOK, StillOutside, Told, storeVars, Live, Content, BeforeFlip
<1> QED BY <1>2, <1>3, <1>4, <1>5 DEF SetupInv

LEMMA RefuseKeeps ==
  ASSUME SetupInv, NEW w \in Writer, NEW e \in Edit, Refuse(w, e)
  PROVE  SetupInv'
<1>1. SetupTypeOK'
  BY DEF Refuse, SetupInv, SetupTypeOK, storeVars, readerVars, writerVars
<1>2. OneWriter' /\ LinksSurvive' /\ StagedApart'
  BY DEF Refuse, SetupInv, OneWriter, LinksSurvive, StagedApart, storeVars, writerVars, Live, Content
<1>3. StillOutside'
  BY DEF Refuse, SetupInv, SetupTypeOK, StillOutside, storeVars, writerVars, Live, Content, BeforeFlip
<1>4. Told'
  BY DEF Refuse, SetupInv, SetupTypeOK, Told, storeVars, Live, Content
<1> QED BY <1>1, <1>2, <1>3, <1>4 DEF SetupInv

\* The end of a request that has not flipped, or that has confirmed its flip.
LEMMA EndKeeps ==
  ASSUME SetupInv, NEW w \in Writer, NEW a \in {"saved", "unsure", "failed"},
         pc[w] # "idle", EndRequest(w, a),
         a = "saved" => pc[w] = "pruning",
         a = "failed" => pc[w] \in BeforeFlip,
         dir' = dir \/ (pc[w] \in {"staging", "staged"}
                          /\ dir' = [dir EXCEPT ![target[w]] = "absent"]),
         UNCHANGED <<body, synced, current, durable>>
  PROVE  SetupInv'
<1>1. SetupTypeOK'
  BY DEF EndRequest, SetupInv, SetupTypeOK, readerVars
<1>2. \A x \in Writer : pc'[x] = "idle"
  BY Alone DEF EndRequest, SetupInv, SetupTypeOK
<1>3. OneWriter' /\ StagedApart' /\ StillOutside'
  BY <1>2 DEF OneWriter, StagedApart, StillOutside, BeforeFlip
<1>4. LinksSurvive'
  BY DEF SetupInv, SetupTypeOK, LinksSurvive, StagedApart
<1>5. edit[w] \in Edit /\ outcome' = [outcome EXCEPT ![edit[w]] = a]
  BY DEF EndRequest, SetupInv, StillOutside
<1>6. Live' = Live /\ Content(durable)' = Content(durable)
  BY DEF Live, Content
<1>7. a = "saved" => edit[w] \in Live /\ edit[w] \in Content(durable)
  BY DEF SetupInv, StillOutside, StagedApart, Live
<1>8. a = "failed" => edit[w] \notin Live /\ edit[w] \notin Content(durable)
  BY DEF SetupInv, StillOutside
<1>9. Told'
  BY <1>5, <1>6, <1>7, <1>8 DEF SetupInv, SetupTypeOK, Told
<1> QED BY <1>1, <1>3, <1>4, <1>9 DEF SetupInv

LEMMA StageKeeps ==
  ASSUME SetupInv, NEW w \in Writer, NEW n \in Version, Stage(w, n)
  PROVE  SetupInv'
<1> USE SetupAssumption
<1>1. n \notin {current, durable} /\ \A c \in {current, durable} : c # 0 => c \in Version
  BY DEF Stage, StageAs, NextVersion, Used, SetupInv, SetupTypeOK, LinksSurvive, Version
<1>2. Live' = Live /\ Content(durable)' = Content(durable)
  BY <1>1 DEF Stage, StageAs, Live, Content, SetupInv, SetupTypeOK
<1>3. Live \cup {edit[w]} \subseteq Edit
  BY <1>1 DEF Stage, StageAs, SetupInv, SetupTypeOK, StillOutside, Live, Content
<1>4. SetupTypeOK'
  BY <1>3 DEF Stage, StageAs, SetupInv, SetupTypeOK, readerVars, Version
<1>5. OneWriter'
  BY DEF Stage, StageAs, SetupInv, SetupTypeOK, OneWriter
<1>6. LinksSurvive'
  BY <1>1 DEF Stage, StageAs, SetupInv, SetupTypeOK, LinksSurvive
<1>7. StagedApart'
  <2>1. \A x \in Writer : x # w => pc'[x] = "idle"
    BY Alone DEF Stage, StageAs, SetupInv, SetupTypeOK
  <2>2. pc'[w] = "staging" /\ target'[w] = n /\ edit'[w] = edit[w]
          /\ body'[n] = Live \cup {edit[w]} /\ current' = current /\ durable' = durable
    BY DEF Stage, StageAs, SetupInv, SetupTypeOK
  <2> QED BY <2>1, <2>2, <1>1, <1>2 DEF StagedApart
<1>8. StillOutside'
  BY <1>2 DEF Stage, StageAs, SetupInv, SetupTypeOK, StillOutside, BeforeFlip
<1>9. Told'
  BY <1>2 DEF Stage, StageAs, SetupInv, Told
<1> QED BY <1>4, <1>5, <1>6, <1>7, <1>8, <1>9 DEF SetupInv

LEMMA FinishStageKeeps ==
  ASSUME SetupInv, NEW w \in Writer, FinishStage(w)
  PROVE  SetupInv'
<1> USE DEF FinishStage
<1>1. target[w] \in Version /\ target[w] \notin {current, durable}
  BY DEF SetupInv, StagedApart
<1>2. SetupTypeOK'
  BY <1>1 DEF SetupInv, SetupTypeOK, readerVars
<1>3. OneWriter' /\ LinksSurvive'
  BY <1>1 DEF SetupInv, SetupTypeOK, OneWriter, LinksSurvive
<1>4. StagedApart'
  BY Alone DEF SetupInv, SetupTypeOK, StagedApart, Live, Content
<1>5. StillOutside' /\ Told'
  BY DEF SetupInv, SetupTypeOK, StillOutside, Told, Live, Content, BeforeFlip
<1> QED BY <1>2, <1>3, <1>4, <1>5 DEF SetupInv

LEMMA SyncKeeps ==
  ASSUME SetupInv, NEW w \in Writer, Sync(w)
  PROVE  SetupInv'
<1> USE DEF Sync
<1>1. target[w] \in Version /\ target[w] \notin {current, durable}
  BY DEF SetupInv, StagedApart
<1>2. SetupTypeOK'
  BY <1>1 DEF SetupInv, SetupTypeOK, readerVars
<1>3. OneWriter' /\ LinksSurvive'
  BY DEF SetupInv, SetupTypeOK, OneWriter, LinksSurvive
<1>4. StagedApart'
  BY Alone DEF SetupInv, SetupTypeOK, StagedApart, Live, Content
<1>5. StillOutside' /\ Told'
  BY DEF SetupInv, SetupTypeOK, StillOutside, Told, Live, Content, BeforeFlip
<1> QED BY <1>2, <1>3, <1>4, <1>5 DEF SetupInv

\* The flip adds the edit of the request to what is live and nothing else.
LEMMA FlipKeeps ==
  ASSUME SetupInv, NEW w \in Writer, Flip(w)
  PROVE  SetupInv'
<1>1. /\ target[w] \in Version /\ target[w] \in synced /\ durable = current
      /\ body[target[w]] = Live \cup {edit[w]} /\ dir[target[w]] = "complete"
  BY DEF Flip, SetupInv, StagedApart
<1>2. /\ current' = target[w] /\ durable' = durable /\ body' = body
      /\ pc' = [pc EXCEPT ![w] = "flipped"]
      /\ UNCHANGED <<dir, synced, lockfile, lock, edit, target, prior, outcome, conf, looking,
                     verdict, faults>>
  BY DEF Flip
<1>3. Live' = Live \cup {edit[w]} /\ Content(durable)' = Content(durable)
  BY <1>1, <1>2 DEF Live, Content, Version
<1>4. flips' \in [Reader -> 0..2]
  BY DEF Flip, SetupInv, SetupTypeOK
<1>5. SetupTypeOK'
  BY <1>1, <1>2, <1>4 DEF SetupInv, SetupTypeOK, Version
<1>6. OneWriter' /\ LinksSurvive'
  BY <1>1, <1>2 DEF SetupInv, SetupTypeOK, OneWriter, LinksSurvive, Flip
<1>7. \A x \in Writer : x # w => pc[x] = "idle" /\ pc'[x] = "idle"
  BY <1>2, Alone DEF SetupInv, SetupTypeOK, Flip
<1>8. pc'[w] = "flipped" /\ target'[w] = current'
  BY <1>2 DEF SetupInv, SetupTypeOK
<1>9. StagedApart'
  BY <1>7, <1>8 DEF StagedApart
<1>10. edit[w] \in Edit /\ outcome[edit[w]] = "pending"
  BY DEF SetupInv, StillOutside, Flip
<1>11. StillOutside'
  BY <1>2, <1>3, <1>7, <1>8, <1>10 DEF StillOutside, BeforeFlip
<1>12. Told'
  BY <1>2, <1>3, <1>10 DEF SetupInv, Told
<1> QED BY <1>5, <1>6, <1>9, <1>11, <1>12 DEF SetupInv

LEMMA ConfirmKeeps ==
  ASSUME SetupInv, NEW w \in Writer, Confirm(w)
  PROVE  SetupInv'
<1> USE DEF Confirm
<1>1. SetupTypeOK'
  BY DEF SetupInv, SetupTypeOK, readerVars
<1>2. OneWriter' /\ LinksSurvive'
  BY DEF SetupInv, SetupTypeOK, OneWriter, LinksSurvive
<1>3. StagedApart'
  BY Alone DEF SetupInv, SetupTypeOK, StagedApart, Live, Content
<1>4. StillOutside' /\ Told'
  BY DEF SetupInv, SetupTypeOK, StillOutside, Told, Live, Content, BeforeFlip
<1> QED BY <1>1, <1>2, <1>3, <1>4 DEF SetupInv

\* What is pruned is neither the committed version nor the one before it.
LEMMA PruneKeeps ==
  ASSUME SetupInv, NEW w \in Writer, NEW v \in Version, Prune(w, v)
  PROVE  SetupInv'
<1> USE DEF Prune
<1>1. v \notin {current, durable}
  BY DEF SetupInv, StagedApart, Kept
<1>2. SetupTypeOK'
  BY DEF SetupInv, SetupTypeOK, readerVars, writerVars
<1>3. OneWriter' /\ LinksSurvive'
  BY <1>1 DEF SetupInv, SetupTypeOK, OneWriter, LinksSurvive, writerVars
<1>4. StagedApart'
  BY Alone DEF SetupInv, SetupTypeOK, StagedApart, Live, Content, writerVars
<1>5. StillOutside' /\ Told'
  BY DEF SetupInv, SetupTypeOK, StillOutside, Told, Live, Content, writerVars
<1> QED BY <1>2, <1>3, <1>4, <1>5 DEF SetupInv

LEMMA DeathKeeps ==
  ASSUME SetupInv, NEW w \in Writer, WriterDies(w)
  PROVE  SetupInv'
<1>1. SetupTypeOK'
  BY SetupAssumption DEF WriterDies, SetupInv, SetupTypeOK, StillOutside, storeVars, readerVars
<1>2. \A x \in Writer : pc'[x] = "idle"
  BY Alone DEF WriterDies, SetupInv, SetupTypeOK
<1>3. OneWriter' /\ StagedApart' /\ StillOutside'
  BY <1>2 DEF OneWriter, StagedApart, StillOutside, BeforeFlip
<1>4. LinksSurvive' /\ Told'
  BY DEF WriterDies, SetupInv, SetupTypeOK, LinksSurvive, Told, StillOutside, storeVars, Live,
    Content
<1> QED BY <1>1, <1>3, <1>4 DEF SetupInv

LEMMA PowerLossKeeps ==
  ASSUME SetupInv, PowerLoss
  PROVE  SetupInv'
<1>1. PICK c \in {current, durable} : current' = c /\ durable' = c
  BY DEF PowerLoss
<1>2. /\ dir' \in [Version -> {"absent", "partial", "complete"}]
      /\ \A v \in Version : v \in synced => dir'[v] = dir[v]
  BY DEF PowerLoss
<1>3. \A x \in Writer : pc'[x] = "idle"
  BY DEF PowerLoss
<1>4. Unloaded \in Snapshot
  BY DEF Unloaded, Snapshot
<1>5. SetupTypeOK'
  BY <1>1, <1>2, <1>4, SetupAssumption DEF PowerLoss, SetupInv, SetupTypeOK
<1>6. OneWriter' /\ StagedApart' /\ StillOutside'
  BY <1>3 DEF OneWriter, StagedApart, StillOutside, BeforeFlip
<1>7. LinksSurvive'
  BY <1>1, <1>2 DEF PowerLoss, SetupInv, SetupTypeOK, LinksSurvive, Version
<1>8. Live' \in {Live, Content(durable)} /\ Content(durable)' = Live'
  BY <1>1 DEF PowerLoss, Live, Content
<1>9. Told'
  BY <1>8 DEF PowerLoss, SetupInv, SetupTypeOK, Told
<1> QED BY <1>5, <1>6, <1>7, <1>9 DEF SetupInv

LEMMA WritesKeep ==
  ASSUME SetupInv, NEW w \in Writer, Write(w)
  PROVE  SetupInv'
<1>1. CASE \E e \in Edit : Refuse(w, e) \/ Open(w, e)
  BY <1>1, RefuseKeeps, OpenKeeps
<1>2. CASE \E v \in Version : Stage(w, v) \/ Prune(w, v)
  BY <1>2, StageKeeps, PruneKeeps
<1>3. CASE Reject(w)
  BY <1>3, EndKeeps DEF Reject, BeforeFlip
<1>4. CASE FailBeforeFlip(w)
  BY <1>4, EndKeeps DEF FailBeforeFlip, BeforeFlip, storeVars
<1>5. CASE ConfirmFails(w)
  BY <1>5, EndKeeps DEF ConfirmFails, storeVars
<1>6. CASE Reply(w)
  BY <1>6, EndKeeps DEF Reply, storeVars
<1>7. CASE FinishStage(w) \/ Sync(w) \/ Flip(w) \/ Confirm(w) \/ WriterDies(w)
  BY <1>7, FinishStageKeeps, SyncKeeps, FlipKeeps, ConfirmKeeps, DeathKeeps
<1> QED BY <1>1, <1>2, <1>3, <1>4, <1>5, <1>6, <1>7 DEF Write

LEMMA SetupInductive == SetupInv /\ [SetupNext]_setupVars => SetupInv'
<1> SUFFICES ASSUME SetupInv, [SetupNext]_setupVars PROVE SetupInv'
  OBVIOUS
<1>1. CASE \E w \in Writer : Write(w)
  BY <1>1, WritesKeep
<1>2. CASE \E l \in Loader : Load(l)
  BY <1>2, LoadsKeep
<1>3. CASE \E r \in Reader : Read(r)
  BY <1>3, ReadsKeep
<1>4. CASE PowerLoss
  BY <1>4, PowerLossKeeps
<1>5. CASE UNCHANGED setupVars
  BY <1>5 DEF setupVars, storeVars, writerVars, readerVars, SetupInv, SetupTypeOK, OneWriter,
    LinksSurvive, StagedApart, StillOutside, Told, Live, Content
<1> QED BY <1>1, <1>2, <1>3, <1>4, <1>5 DEF SetupNext

\* The variables of the commit protocol keep their types.
THEOREM SetupTypeCorrect == SetupSpec => []SetupTypeOK
<1>1. SetupInv => SetupTypeOK BY DEF SetupInv
<1> QED BY <1>1, StartsRight, SetupInductive, PTL DEF SetupSpec

\* The link always names a complete version that survives a power loss.
THEOREM CommitIsAtomic == SetupSpec => []CommittedIsComplete
<1>1. SetupInv => CommittedIsComplete
  BY DEF SetupInv, LinksSurvive, CommittedIsComplete
<1> QED BY <1>1, StartsRight, SetupInductive, PTL DEF SetupSpec

\* A saved edit stays live and a failed one never becomes live.
THEOREM CommitAnswersTruly == SetupSpec => []AnswersStayTrue
<1>1. SetupInv => AnswersStayTrue
  BY DEF SetupInv, Told, AnswersStayTrue
<1> QED BY <1>1, StartsRight, SetupInductive, PTL DEF SetupSpec

-----------------------------------------------------------------------------
(* The commits implement SetupPromise *)

\* A caller that waits for an answer has a request under way.
PendingIsOpen ==
  \A e \in Edit : outcome[e] = "pending" => \E w \in Writer : pc[w] # "idle" /\ edit[w] = e

Unseen == UNCHANGED <<Live, Content(durable), outcome>>

LEMMA PendingStarts == SetupInit => PendingIsOpen
BY DEF SetupInit, PendingIsOpen

\* Requests that are not the first or the last step of a caller.
LEMMA RequestsInside ==
  ASSUME PendingIsOpen, UNCHANGED <<edit, outcome>>,
         \A w \in Writer : pc[w] # "idle" => pc'[w] # "idle"
  PROVE  PendingIsOpen'
BY DEF PendingIsOpen

\* The end of a request is an answer: nothing else changes for its caller.
LEMMA EndAnswers ==
  ASSUME SetupInv, PendingIsOpen, NEW w \in Writer, pc[w] # "idle",
         NEW a \in {"saved", "unsure", "failed", "lost"},
         UNCHANGED <<body, current, durable, edit>>,
         pc' = [pc EXCEPT ![w] = "idle"], outcome' = [outcome EXCEPT ![edit[w]] = a],
         a = "saved" => pc[w] = "pruning",
         a = "unsure" => pc[w] = "flipped",
         a = "failed" => pc[w] \in BeforeFlip
  PROVE  PendingIsOpen' /\ Commits!Next
<1>1. /\ edit[w] \in Edit /\ outcome[edit[w]] = "pending"
      /\ a \in {"saved", "unsure"} => edit[w] \in Live
      /\ a = "saved" => edit[w] \in Content(durable)
      /\ a = "failed" => edit[w] \notin Live \cup Content(durable)
  BY DEF SetupInv, StillOutside, StagedApart, BeforeFlip, Live
<1>2. PendingIsOpen'
  <2>1. SUFFICES ASSUME NEW e \in Edit, outcome'[e] = "pending"
                 PROVE  \E x \in Writer : pc'[x] # "idle" /\ edit'[x] = e
    BY DEF PendingIsOpen
  <2>2. e # edit[w] /\ outcome[e] = "pending"
    BY <2>1, <1>1 DEF SetupInv, SetupTypeOK
  <2>3. PICK x \in Writer : pc[x] # "idle" /\ edit[x] = e
    BY <2>2 DEF PendingIsOpen
  <2> QED BY <2>2, <2>3 DEF SetupInv, SetupTypeOK
<1>3. UNCHANGED <<Live, Content(durable)>>
  BY DEF Live, Content
<1>4. Commits!Answer(edit[w])
  BY <1>1, <1>3 DEF Commits!Answer
<1> QED BY <1>1, <1>2, <1>4 DEF Commits!Next

LEMMA OpenBegins ==
  ASSUME SetupInv, PendingIsOpen, NEW w \in Writer, NEW e \in Edit,
         Open(w, e) \/ Refuse(w, e)
  PROVE  PendingIsOpen' /\ Commits!Next
<1>1. UNCHANGED <<Live, Content(durable)>>
  BY DEF Open, Refuse, storeVars, Live, Content
<1>2. \A x \in Writer : pc[x] = "idle"
  BY SetupAssumption DEF Open, Refuse, SetupInv, OneWriter
<1>3. \A d \in Edit : outcome[d] # "pending"
  BY <1>2 DEF PendingIsOpen
<1>4. CASE Open(w, e)
  <2>1. /\ outcome[e] = "none" /\ outcome' = [outcome EXCEPT ![e] = "pending"]
        /\ pc'[w] = "opened" /\ edit'[w] = e
    BY <1>4 DEF Open, SetupInv, SetupTypeOK
  <2>2. PendingIsOpen'
    BY <1>3, <2>1 DEF PendingIsOpen, SetupInv, SetupTypeOK
  <2> QED BY <1>1, <1>3, <2>1, <2>2 DEF Commits!Next, Commits!Begin
<1>5. CASE Refuse(w, e)
  <2>1. outcome[e] = "none" /\ outcome' = [outcome EXCEPT ![e] = "failed"]
    BY <1>5 DEF Refuse
  <2>2. PendingIsOpen'
    BY <1>3, <2>1 DEF PendingIsOpen, SetupInv, SetupTypeOK
  <2> QED BY <1>1, <2>1, <2>2 DEF Commits!Next, Commits!Refuse
<1> QED BY <1>4, <1>5

\* Staging writes a version that neither value of the link names.
LEMMA StagingIsUnseen ==
  ASSUME SetupInv, PendingIsOpen, NEW w \in Writer,
         \/ \E v \in Version : Stage(w, v) \/ Prune(w, v)
         \/ FinishStage(w)
  PROVE  PendingIsOpen' /\ Unseen
<1>1. ASSUME NEW n \in Version, Stage(w, n) PROVE PendingIsOpen' /\ Unseen
  <2>1. n \notin {current, durable} /\ \A c \in {current, durable} : c # 0 => c \in Version
    BY <1>1, SetupAssumption
       DEF Stage, StageAs, NextVersion, Used, SetupInv, SetupTypeOK, LinksSurvive, Version
  <2>2. UNCHANGED <<Live, Content(durable)>>
    BY <1>1, <2>1 DEF Stage, StageAs, Live, Content, SetupInv, SetupTypeOK
  <2>3. UNCHANGED <<edit, outcome>> /\ \A x \in Writer : pc[x] # "idle" => pc'[x] # "idle"
    BY <1>1 DEF Stage, StageAs, SetupInv, SetupTypeOK
  <2> QED BY <2>2, <2>3, RequestsInside DEF Unseen
<1>2. ASSUME FinishStage(w) \/ \E v \in Version : Prune(w, v) PROVE PendingIsOpen' /\ Unseen
  <2>1. UNCHANGED <<body, current, durable, edit, outcome>>
    BY <1>2 DEF FinishStage, Prune, writerVars
  <2>2. \A x \in Writer : pc[x] # "idle" => pc'[x] # "idle"
    BY <1>2 DEF FinishStage, Prune, writerVars, SetupInv, SetupTypeOK
  <2> QED BY <2>1, <2>2, RequestsInside DEF Unseen, Live, Content
<1> QED BY <1>1, <1>2

\* The flip is the commit; the fsyncs on either side of it make it last.
LEMMA FlipCommits ==
  ASSUME SetupInv, PendingIsOpen, NEW w \in Writer, Sync(w) \/ Flip(w) \/ Confirm(w)
  PROVE  PendingIsOpen' /\ Commits!Next
<1>1. UNCHANGED <<edit, outcome, body>> /\ \A x \in Writer : pc[x] # "idle" => pc'[x] # "idle"
  BY DEF Sync, Flip, Confirm, SetupInv, SetupTypeOK
<1>2. PendingIsOpen'
  BY <1>1, RequestsInside
<1>3. CASE Sync(w) \/ Confirm(w)
  <2>1. Live' = Live /\ Content(durable)' = Live
    BY <1>1, <1>3 DEF Sync, Confirm, Live, Content
  <2> QED BY <1>1, <1>2, <2>1 DEF Commits!Next, Commits!Harden
<1>4. CASE Flip(w)
  <2>1. /\ target[w] \in Version /\ durable = current /\ current' = target[w] /\ durable' = durable
        /\ body[target[w]] = Live \cup {edit[w]}
    BY <1>4 DEF Flip, SetupInv, StagedApart
  <2>2. /\ edit[w] \in Edit /\ outcome[edit[w]] = "pending" /\ edit[w] \notin Live
    BY <1>4 DEF Flip, SetupInv, StillOutside, BeforeFlip
  <2>3. Live' = Live \cup {edit[w]} /\ Content(durable)' = Content(durable) /\ Content(durable) = Live
    BY <1>1, <2>1 DEF Live, Content, Version
  <2>4. Commits!Commit(edit[w])
    BY <1>1, <2>2, <2>3 DEF Commits!Commit
  <2> QED BY <1>2, <2>2, <2>4 DEF Commits!Next
<1> QED BY <1>3, <1>4

LEMMA WritesKeepPromise ==
  ASSUME SetupInv, PendingIsOpen, NEW w \in Writer, Write(w)
  PROVE  PendingIsOpen' /\ (Commits!Next \/ Unseen)
<1>1. CASE \E e \in Edit : Refuse(w, e) \/ Open(w, e)
  BY <1>1, OpenBegins
<1>2. CASE (\E v \in Version : Stage(w, v) \/ Prune(w, v)) \/ FinishStage(w)
  BY <1>2, StagingIsUnseen
<1>3. CASE Sync(w) \/ Flip(w) \/ Confirm(w)
  BY <1>3, FlipCommits
<1>4. CASE Reject(w)
  BY <1>4, EndAnswers DEF Reject, EndRequest, BeforeFlip
<1>5. CASE FailBeforeFlip(w)
  BY <1>5, EndAnswers DEF FailBeforeFlip, EndRequest, BeforeFlip, storeVars
<1>6. CASE ConfirmFails(w)
  BY <1>6, EndAnswers DEF ConfirmFails, EndRequest, storeVars
<1>7. CASE Reply(w)
  BY <1>7, EndAnswers DEF Reply, EndRequest, storeVars
<1>8. CASE WriterDies(w)
  BY <1>8, EndAnswers DEF WriterDies, storeVars
<1> QED BY <1>1, <1>2, <1>3, <1>4, <1>5, <1>6, <1>7, <1>8 DEF Write

LEMMA PowerLossUndoes ==
  ASSUME SetupInv, PowerLoss
  PROVE  PendingIsOpen' /\ Commits!Next
<1>1. PICK c \in {current, durable} : current' = c /\ durable' = c
  BY DEF PowerLoss
<1>2. Live' \in {Live, Content(durable)} /\ Content(durable)' = Live'
  BY <1>1 DEF PowerLoss, Live, Content
<1>3. outcome' = [e \in Edit |-> IF outcome[e] = "pending" THEN "lost" ELSE outcome[e]]
  BY DEF PowerLoss
<1>4. PendingIsOpen'
  BY <1>3 DEF PendingIsOpen
<1> QED BY <1>2, <1>3, <1>4 DEF Commits!Next, Commits!PowerLoss

LEMMA CommitsStep ==
  SetupInv /\ PendingIsOpen /\ [SetupNext]_setupVars =>
    PendingIsOpen' /\ [Commits!Next]_<<Live, Content(durable), outcome>>
<1> SUFFICES ASSUME SetupInv, PendingIsOpen, [SetupNext]_setupVars
             PROVE  PendingIsOpen' /\ (Commits!Next \/ Unseen)
  BY DEF Unseen
<1>1. CASE \E w \in Writer : Write(w)
  BY <1>1, WritesKeepPromise
<1>2. CASE PowerLoss
  BY <1>2, PowerLossUndoes
<1>3. CASE (\E l \in Loader : Load(l)) \/ (\E r \in Reader : Read(r)) \/ UNCHANGED setupVars
  <2>1. UNCHANGED <<storeVars, writerVars, outcome>>
    BY <1>3 DEF Load, LoadLocked, PrintOperator, PrintSecrets, ParseOperator, ParseSecrets,
                LoadStep, ExitOnDrift, Read, Resolve, Validate, Forget, setupVars
  <2> QED BY <2>1 DEF storeVars, writerVars, PendingIsOpen, Unseen, Live, Content
<1> QED BY <1>1, <1>2, <1>3 DEF SetupNext

\* The commit protocol, with its staging, fsyncs, link, pruning, deaths and
\* power losses, does nothing that SetupPromise does not allow: a commit is one
\* step that adds one edit to what is live, and every answer is true.
THEOREM CommitsKeepPromise == SetupSpec => CommitsAreAtomic
<1>1. SetupInit => Commits!Init
  BY DEF SetupInit, Commits!Init, Live, Content
<1> QED
  BY <1>1, PendingStarts, StartsRight, SetupInductive, CommitsStep, PTL
     DEF SetupSpec, CommitsAreAtomic, Commits!Spec

\* What a power loss can undo is the newest commit and nothing older.
OneCommitAtRisk ==
  /\ Content(durable) \subseteq Live
  /\ \A d, e \in Live \ Content(durable) : d = e

SavedSurvives == \A e \in Edit : outcome[e] = "saved" => e \in Content(durable)

PromiseInv ==
  /\ outcome \in [Edit -> {"none", "pending", "saved", "unsure", "failed", "lost"}]
  /\ AnswersStayTrue /\ SavedSurvives /\ OneCommitAtRisk
  /\ \A e \in Edit : outcome[e] \in {"none", "failed"} => e \notin Live \cup Content(durable)

\* SetupPromise is worth implementing: whatever does what it allows keeps every
\* answer true, loses no edit that was answered as saved, and lets a power loss
\* undo no more than the newest commit.
THEOREM PromiseIsWorthKeeping ==
  CommitsAreAtomic => [](AnswersStayTrue /\ SavedSurvives /\ OneCommitAtRisk)
<1> USE DEF PromiseInv, AnswersStayTrue, SavedSurvives, OneCommitAtRisk
<1>1. Commits!Init => PromiseInv
  BY DEF Commits!Init
<1>2. PromiseInv /\ [Commits!Next]_<<Live, Content(durable), outcome>> => PromiseInv'
  <2> SUFFICES ASSUME PromiseInv, [Commits!Next]_<<Live, Content(durable), outcome>>
               PROVE  PromiseInv'
    OBVIOUS
  <2>1. CASE Commits!Harden \/ UNCHANGED <<Live, Content(durable), outcome>>
    BY <2>1 DEF Commits!Harden
  <2>2. CASE Commits!PowerLoss
    BY <2>2 DEF Commits!PowerLoss
  <2>3. ASSUME NEW e \in Edit, Commits!Refuse(e) \/ Commits!Begin(e) PROVE PromiseInv'
    BY <2>3 DEF Commits!Refuse, Commits!Begin
  <2>4. ASSUME NEW e \in Edit, Commits!Commit(e) PROVE PromiseInv'
    BY <2>4 DEF Commits!Commit
  <2>5. ASSUME NEW e \in Edit, Commits!Answer(e) PROVE PromiseInv'
    BY <2>5 DEF Commits!Answer
  <2> QED BY <2>1, <2>2, <2>3, <2>4, <2>5 DEF Commits!Next
<1>3. PromiseInv => AnswersStayTrue /\ SavedSurvives /\ OneCommitAtRisk
  BY DEF PromiseInv
<1> HIDE DEF PromiseInv, AnswersStayTrue, SavedSurvives, OneCommitAtRisk
<1> QED BY <1>1, <1>2, <1>3, PTL DEF CommitsAreAtomic, Commits!Spec

-----------------------------------------------------------------------------
(* Readers without a lock *)

\* Steps that leave the store, the requests and the overlapped commits alone.
LEMMA ReadersUntouched ==
  ASSUME SetupInv, ReadersKept, UNCHANGED <<dir, current, writerVars, readerVars>>
  PROVE  ReadersKept'
BY DEF ReadersKept, Staging, writerVars, readerVars

LEMMA ReadersOwnSteps ==
  ASSUME SetupInv, ReadersKept, NEW r \in Reader, Read(r)
  PROVE  ReadersKept'
<1> USE DEF SetupInv, SetupTypeOK
<1>1. UNCHANGED <<dir, current, pc, target, prior>>
  BY DEF Read, Resolve, Validate, Forget, storeVars, writerVars
<1>2. /\ \A q \in Reader : q # r => /\ looking'[q] = looking[q] /\ flips'[q] = flips[q]
                                   /\ verdict'[q] = verdict[q]
  BY DEF Read, Resolve, Validate, Forget
<1>3. /\ looking'[r] # 0 /\ flips'[r] = 0 => looking'[r] = current
      /\ looking'[r] # 0 /\ flips'[r] = 1 => /\ looking'[r] = looking[r] /\ flips[r] = 1
      /\ verdict'[r] = "incomplete" => flips'[r] >= 2
  <2>1. CASE Resolve(r)
    BY <2>1 DEF Resolve, ReadersKept
  <2>2. CASE Validate(r)
    <3>1. /\ looking'[r] = 0 /\ flips' = flips /\ looking[r] # 0
          /\ verdict'[r] = "incomplete" => dir[looking[r]] # "complete"
      BY <2>2 DEF Validate
    <3>2. dir[looking[r]] # "complete" => flips[r] \notin {0, 1}
      BY <3>1 DEF ReadersKept, LinksSurvive
    <3> QED BY <3>1, <3>2
  <2>3. CASE Forget(r)
    BY <2>3 DEF Forget, ReadersKept
  <2> QED BY <2>1, <2>2, <2>3 DEF Read
<1> QED BY <1>1, <1>2, <1>3 DEF ReadersKept, Staging

\* A new version has a number that no reader can be looking at.
LEMMA StageSparesReaders ==
  ASSUME SetupInv, ReadersKept, NEW w \in Writer, NEW n \in Version, Stage(w, n)
  PROVE  ReadersKept'
<1> USE DEF SetupInv, SetupTypeOK
<1>1. /\ UNCHANGED <<current, looking, flips, verdict>>
      /\ dir' = [dir EXCEPT ![n] = "partial"]
      /\ pc'[w] = "staging" /\ target'[w] = n /\ prior'[w] = current
  BY DEF Stage, StageAs, readerVars
<1>2. \A x \in Writer : x # w => pc'[x] = "idle"
  BY Alone DEF Stage, StageAs
<1>3. \A r \in Reader : looking[r] # 0 /\ flips[r] = 1 => looking[r] # n
  <2>1. SUFFICES ASSUME NEW r \in Reader, looking[r] # 0, flips[r] = 1
                 PROVE  looking[r] # n
    OBVIOUS
  <2>2. looking[r] \in Version /\ dir[looking[r]] = "complete"
    BY <2>1, SetupAssumption DEF ReadersKept, Version
  <2>3. looking[r] \in Used
    BY <2>2 DEF Used
  <2>4. looking[r] < n
    BY <2>3 DEF Stage, StageAs, NextVersion
  <2> QED BY <2>2, <2>4, SetupAssumption DEF Version
<1> QED BY <1>1, <1>2, <1>3 DEF ReadersKept, Staging

\* The version that the flip replaces is the one that is kept.
LEMMA FlipSparesReaders ==
  ASSUME SetupInv, ReadersKept, NEW w \in Writer, Flip(w)
  PROVE  ReadersKept'
<1> USE DEF SetupInv, SetupTypeOK
<1>1. UNCHANGED <<dir, prior, target, looking, verdict>> /\ prior[w] = current
  BY DEF Flip, ReadersKept, Staging
<1>2. /\ pc'[w] = "flipped" /\ \A x \in Writer : x # w => pc'[x] = "idle"
  BY Alone DEF Flip
<1>3. \A r \in Reader :
        flips'[r] = IF looking[r] = 0 \/ flips[r] = 2 THEN flips[r] ELSE flips[r] + 1
  BY DEF Flip
<1>4. \A r \in Reader : looking[r] # 0 /\ flips'[r] = 1 =>
        looking[r] = current /\ dir[looking[r]] = "complete"
  BY <1>3 DEF ReadersKept, LinksSurvive
<1>5. \A r \in Reader : looking[r] # 0 => flips'[r] # 0
  BY <1>3
<1>6. \A r \in Reader : flips[r] >= 2 => flips'[r] >= 2
  BY <1>3
<1> QED BY <1>1, <1>2, <1>4, <1>5, <1>6 DEF ReadersKept, Staging

LEMMA PruneSparesReaders ==
  ASSUME SetupInv, ReadersKept, NEW w \in Writer, NEW v \in Version, Prune(w, v)
  PROVE  ReadersKept'
<1> USE DEF SetupInv, SetupTypeOK
<1>1. /\ UNCHANGED <<current, pc, target, prior, looking, flips, verdict>>
      /\ dir' = [dir EXCEPT ![v] = "absent"]
  BY DEF Prune, writerVars, readerVars
<1>2. \A r \in Reader : looking[r] # 0 /\ flips[r] = 1 => looking[r] # v
  BY DEF Prune, Kept, ReadersKept
<1> QED BY <1>1, <1>2 DEF ReadersKept, Staging

\* The end of a request, and every step that moves it on without a commit.
LEMMA RequestsSpareReaders ==
  ASSUME SetupInv, ReadersKept, NEW w \in Writer,
         \/ \E e \in Edit : Refuse(w, e) \/ Open(w, e)
         \/ FinishStage(w) \/ Reject(w) \/ Sync(w) \/ FailBeforeFlip(w)
         \/ Confirm(w) \/ ConfirmFails(w) \/ Reply(w) \/ WriterDies(w)
  PROVE  ReadersKept'
<1> USE DEF SetupInv, SetupTypeOK
<1>1. UNCHANGED <<current, target, prior, looking, flips, verdict>>
  BY DEF Refuse, Open, FinishStage, Reject, Sync, FailBeforeFlip, Confirm, ConfirmFails, Reply,
         WriterDies, EndRequest, storeVars, writerVars, readerVars
<1>2. \A x \in Writer :
        /\ Staging(x)' => Staging(x)
        /\ pc'[x] \in {"flipped", "pruning"} => pc[x] \in {"flipped", "pruning"}
  BY DEF Refuse, Open, FinishStage, Reject, Sync, FailBeforeFlip, Confirm, ConfirmFails, Reply,
         WriterDies, EndRequest, storeVars, writerVars, Staging
<1>3. \/ dir' = dir
      \/ dir' = [dir EXCEPT ![target[w]] = "complete"]
      \/ Staging(w) /\ dir' = [dir EXCEPT ![target[w]] = "absent"]
  BY DEF Refuse, Open, FinishStage, Reject, Sync, FailBeforeFlip, Confirm, ConfirmFails, Reply,
         WriterDies, EndRequest, storeVars, Staging
<1>4. \A r \in Reader : looking[r] # 0 /\ flips[r] = 1 => dir'[looking[r]] = "complete"
  <2>1. SUFFICES ASSUME NEW r \in Reader, looking[r] # 0, flips[r] = 1
                 PROVE  dir'[looking[r]] = "complete"
    OBVIOUS
  <2>2. looking[r] \in Version /\ dir[looking[r]] = "complete"
    BY <2>1, SetupAssumption DEF ReadersKept, Version
  <2>3. Staging(w) => target[w] # looking[r]
    BY <2>1 DEF ReadersKept
  <2> QED BY <1>3, <2>2, <2>3
<1> QED BY <1>1, <1>2, <1>4 DEF ReadersKept

LEMMA ReadersStep == SetupInv /\ ReadersKept /\ [SetupNext]_setupVars => ReadersKept'
<1> SUFFICES ASSUME SetupInv, ReadersKept, [SetupNext]_setupVars PROVE ReadersKept'
  OBVIOUS
<1>1. ASSUME NEW w \in Writer, Write(w) PROVE ReadersKept'
  BY <1>1, RequestsSpareReaders, StageSparesReaders, FlipSparesReaders, PruneSparesReaders
     DEF Write
<1>2. ASSUME NEW l \in Loader, Load(l) PROVE ReadersKept'
  <2>1. UNCHANGED <<dir, current, writerVars, readerVars>>
    BY <1>2 DEF Load, LoadLocked, PrintOperator, PrintSecrets, ParseOperator, ParseSecrets,
                LoadStep, ExitOnDrift, storeVars
  <2> QED BY <2>1, ReadersUntouched
<1>3. ASSUME NEW r \in Reader, Read(r) PROVE ReadersKept'
  BY <1>3, ReadersOwnSteps
<1>4. CASE PowerLoss
  BY <1>4 DEF PowerLoss, ReadersKept, Staging
<1>5. CASE UNCHANGED setupVars
  BY <1>5, ReadersUntouched DEF setupVars, storeVars
<1> QED BY <1>1, <1>2, <1>3, <1>4, <1>5 DEF SetupNext

\* A reader without a lock (validate_committed_state) does not take a complete
\* setup for an incomplete one unless two versions were committed while it
\* looked: the version a commit replaces is not pruned by that commit.
THEOREM ReadersSeeCompleteSetups == SetupSpec => []ReadersSurviveOneCommit
<1>1. SetupInit => ReadersKept
  BY DEF SetupInit, ReadersKept, Staging
<1>2. ReadersKept => ReadersSurviveOneCommit
  BY DEF ReadersKept, ReadersSurviveOneCommit
<1> QED BY <1>1, <1>2, StartsRight, SetupInductive, ReadersStep, PTL DEF SetupSpec

-----------------------------------------------------------------------------
(* Processes that load the configuration *)

\* Nothing but a power loss takes an edit back.
LEMMA LiveGrows ==
  ASSUME SetupInv, [SetupNext]_setupVars, ~PowerLoss
  PROVE  Live \subseteq Live'
<1> USE DEF SetupInv, SetupTypeOK
<1>1. ASSUME NEW w \in Writer, Write(w) PROVE Live \subseteq Live'
  <2>1. ASSUME NEW n \in Version, Stage(w, n) PROVE Live' = Live
    <3>1. n # current
      BY <2>1 DEF Stage, StageAs, NextVersion, Used, Version
    <3> QED BY <2>1, <3>1 DEF Stage, StageAs, Live, Content
  <2>2. ASSUME Flip(w) PROVE Live \subseteq Live'
    <3>1. target[w] \in Version /\ body[target[w]] = Live \cup {edit[w]}
      BY <2>2 DEF Flip, StagedApart
    <3> QED BY <2>2, <3>1 DEF Flip, Live, Content, Version
  <2>3. ASSUME UNCHANGED <<body, current>> PROVE Live' = Live
    BY <2>3 DEF Live, Content
  <2>4. \/ \E n \in Version : Stage(w, n)
        \/ Flip(w)
        \/ UNCHANGED <<body, current>>
    BY <1>1 DEF Write, Refuse, Open, Prune, FinishStage, Reject, Sync, FailBeforeFlip, Confirm,
                ConfirmFails, Reply, WriterDies, storeVars
  <2> QED BY <2>1, <2>2, <2>3, <2>4
<1>2. ASSUME UNCHANGED <<body, current>> PROVE Live \subseteq Live'
  BY <1>2 DEF Live, Content
<1>3. ASSUME NEW l \in Loader, Load(l) PROVE UNCHANGED <<body, current>>
  BY <1>3 DEF Load, LoadLocked, PrintOperator, PrintSecrets, ParseOperator, ParseSecrets,
              LoadStep, ExitOnDrift, storeVars
<1>4. ASSUME NEW r \in Reader, Read(r) PROVE UNCHANGED <<body, current>>
  BY <1>4 DEF Read, Resolve, Validate, Forget, storeVars
<1> QED BY <1>1, <1>2, <1>3, <1>4 DEF SetupNext, setupVars, storeVars

LEMMA LoadsStep == SetupInv /\ LoadsGrow /\ [SetupNext]_setupVars => LoadsGrow'
<1> SUFFICES ASSUME SetupInv, LoadsGrow, [SetupNext]_setupVars PROVE LoadsGrow'
  OBVIOUS
<1>1. CASE PowerLoss
  BY <1>1 DEF PowerLoss, LoadsGrow, LoadInOrder, Unloaded
<1>2. CASE ~PowerLoss
  <2>1. Live \subseteq Live'
    BY <1>2, LiveGrows
  <2>2. CASE conf' = conf
    BY <2>1, <2>2 DEF LoadsGrow, LoadInOrder
  <2>3. ASSUME NEW l \in Loader, Load(l) PROVE LoadsGrow'
    <3>1. UNCHANGED <<body, current>>
      BY <2>3 DEF Load, LoadLocked, PrintOperator, PrintSecrets, ParseOperator, ParseSecrets,
                  LoadStep, ExitOnDrift, storeVars
    <3>2. Live' = Live
      BY <3>1 DEF Live, Content
    <3>3. \A x \in Loader : x # l => conf'[x] = conf[x]
      BY <2>3 DEF Load, LoadLocked, PrintOperator, PrintSecrets, ParseOperator, ParseSecrets,
                  LoadStep, ExitOnDrift, SetupInv, SetupTypeOK
    <3>4. conf[l] \in Snapshot /\ conf \in [Loader -> Snapshot]
      BY DEF SetupInv, SetupTypeOK
    <3>5. LoadInOrder(conf'[l])
      <4>1. CASE LoadLocked(l)
        BY <3>4, <4>1 DEF LoadLocked, LoadInOrder
      <4>2. CASE PrintOperator(l)
        BY <3>4, <4>2 DEF PrintOperator, LoadStep, Snapshot, LoadInOrder
      <4>3. CASE PrintSecrets(l)
        BY <3>4, <4>3 DEF PrintSecrets, LoadStep, Snapshot, LoadsGrow, LoadInOrder
      <4>4. CASE ParseOperator(l)
        BY <3>4, <4>4 DEF ParseOperator, LoadStep, Snapshot, LoadsGrow, LoadInOrder
      <4>5. CASE ParseSecrets(l)
        BY <3>4, <4>5 DEF ParseSecrets, LoadStep, Snapshot, LoadsGrow, LoadInOrder
      <4>6. CASE ExitOnDrift(l)
        BY <3>4, <4>6 DEF ExitOnDrift, Unloaded, LoadInOrder
      <4> QED BY <2>3, <4>1, <4>2, <4>3, <4>4, <4>5, <4>6 DEF Load
    <3> QED BY <3>2, <3>3, <3>5 DEF LoadsGrow, LoadInOrder
  <2>4. \/ conf' = conf \/ \E l \in Loader : Load(l)
    BY <1>2 DEF SetupNext, Write, Refuse, Open, Stage, StageAs, Prune, FinishStage, Reject, Sync,
                FailBeforeFlip, Flip, Confirm, ConfirmFails, Reply, WriterDies, EndRequest, Read,
                Resolve, Validate, Forget, setupVars
  <2> QED BY <2>2, <2>3, <2>4
<1> QED BY <1>1, <1>2

\* A process that passes ensure_current runs operator values and credentials of
\* the live version, also one that loaded without a lock during the first
\* activation: its fingerprints are older than what it parsed.
THEOREM CheckedLoadsAreWhole == SetupSpec => []CheckedMeansWhole
<1>1. SetupInit => LoadsGrow
  BY DEF SetupInit, LoadsGrow, LoadInOrder, Unloaded
<1>2. LoadsGrow => CheckedMeansWhole
  BY DEF LoadsGrow, LoadInOrder, CheckedMeansWhole, Passes
<1> QED BY <1>1, <1>2, StartsRight, SetupInductive, LoadsStep, PTL DEF SetupSpec

-----------------------------------------------------------------------------
(* The scheduler leader *)

LEMMA Fewer ==
  ASSUME NEW S, NEW T, IsFiniteSet(T), S \subseteq T
  PROVE  Cardinality(S) \in Nat /\ Cardinality(T) \in Nat /\ Cardinality(S) <= Cardinality(T)
<1>1. S \in SUBSET T
  OBVIOUS
<1>2. IsFiniteSet(S) /\ Cardinality(S) <= Cardinality(T)
  BY <1>1, FS_Subset
<1> QED BY <1>2, FS_CardinalityType

LEMMA OneFewer ==
  ASSUME NEW S, NEW T, NEW x \in T, IsFiniteSet(T), S \subseteq T \ {x}
  PROVE  Cardinality(S) \in Nat /\ Cardinality(T) \in Nat /\ Cardinality(S) + 1 <= Cardinality(T)
<1>1. IsFiniteSet(T \ {x}) /\ Cardinality(T \ {x}) = Cardinality(T) - 1
  BY FS_RemoveElement
<1>2. /\ Cardinality(S) \in Nat /\ Cardinality(T \ {x}) \in Nat
      /\ Cardinality(S) <= Cardinality(T \ {x})
  BY <1>1, Fewer
<1>3. Cardinality(T) \in Nat
  BY FS_CardinalityType
<1> QED BY <1>1, <1>2, <1>3

LEMMA OneMore ==
  ASSUME NEW S, NEW T, NEW x, IsFiniteSet(T), S \subseteq T \cup {x}
  PROVE  Cardinality(S) \in Nat /\ Cardinality(T) \in Nat /\ Cardinality(S) <= Cardinality(T) + 1
<1>1. IsFiniteSet(T \cup {x})
      /\ (Cardinality(T \cup {x}) = Cardinality(T) \/ Cardinality(T \cup {x}) = Cardinality(T) + 1)
  BY FS_AddElement
<1>2. /\ Cardinality(S) \in Nat /\ Cardinality(T \cup {x}) \in Nat
      /\ Cardinality(S) <= Cardinality(T \cup {x})
  BY <1>1, Fewer
<1>3. Cardinality(T) \in Nat
  BY FS_CardinalityType
<1> QED BY <1>1, <1>2, <1>3

LEMMA ReplicasAreFinite ==
  /\ IsFiniteSet(Leading) /\ IsFiniteSet(Due) /\ Cardinality(Leading) \in Nat
  /\ Cardinality(Due) \in Nat /\ Cardinality(Due) <= Cardinality(Leading)
  /\ \A m : IsFiniteSet(Boots(m)) /\ Cardinality(Boots(m)) \in Nat /\ BootsIn(m) \in Nat
<1>1. IsFiniteSet(Replica)
  BY RoleAssumption
<1>2. Leading \in SUBSET Replica /\ Due \in SUBSET Leading
  BY DEF Leading, Due
<1>3. IsFiniteSet(Leading)
  BY <1>1, <1>2, FS_Subset
<1>4. IsFiniteSet(Due) /\ Cardinality(Due) <= Cardinality(Leading)
  BY <1>2, <1>3, FS_Subset
<1>5. ASSUME NEW m PROVE IsFiniteSet(Boots(m)) /\ Cardinality(Boots(m)) \in Nat /\ BootsIn(m) \in Nat
  <2>1. Boots(m) \in SUBSET Replica
    BY DEF Boots
  <2>2. IsFiniteSet(Boots(m))
    BY <1>1, <2>1, FS_Subset
  <2>3. Cardinality(Boots(m)) \in Nat
    BY <2>2, FS_CardinalityType
  <2> QED BY <2>2, <2>3 DEF BootsIn
<1>6. Cardinality(Leading) \in Nat /\ Cardinality(Due) \in Nat
  BY <1>3, <1>4, FS_CardinalityType
<1> QED BY <1>3, <1>4, <1>5, <1>6

LEMMA RolesStart == RoleInit => RoleInv
<1> SUFFICES ASSUME RoleInit PROVE RoleInv
  OBVIOUS
<1>1. RoleTypeOK /\ ThreadsEnd /\ \A r \in Replica : last[r] <= minute
  BY RoleAssumption DEF RoleInit, RoleTypeOK, ThreadsEnd
<1>2. Leading = {} /\ Due = {} /\ \A m \in Minute : Boots(m) = {}
  BY DEF RoleInit, Leading, Due, Boots, Minute
<1>3. Cardinality({}) = 0
  BY FS_EmptySet
<1>4. LeadersAreFew /\ BootsAreStarts
  BY <1>2, <1>3 DEF RoleInit, LeadersAreFew, BootsAreStarts
<1>5. minute = 1 /\ minute \in Minute /\ 0 \notin Minute /\ minute - 1 = 0
  BY RoleAssumption DEF RoleInit, Minute
<1>6. BootsIn(minute) = 0 /\ BootsIn(minute - 1) = 0
  BY <1>2, <1>3, <1>5 DEF BootsIn
<1>7. jobs[minute] = 0 /\ Granted(minute) = 1 /\ \A m \in Minute : jobs[m] = 0 /\ ~(m < minute)
  BY <1>5 DEF RoleInit, Granted, StartsIn, Minute
<1>8. WindowsOwe
  BY <1>2, <1>3, <1>5, <1>6, <1>7 DEF WindowsOwe
<1> QED BY <1>1, <1>4, <1>8 DEF RoleInv

LEMMA StillOwed ==
  ASSUME NEW jobs1 \in Nat, NEW due1 \in Nat, NEW now1 \in Nat, NEW before1 \in Nat, NEW limit1 \in Nat,
         NEW jobs2 \in Nat, NEW due2 \in Nat, NEW now2 \in Nat, NEW before2 \in Nat, NEW limit2 \in Nat,
         jobs1 + due1 + now1 + before1 <= limit1,
         jobs2 + due2 + now2 + before2 - limit2 <= jobs1 + due1 + now1 + before1 - limit1
  PROVE  jobs2 + due2 + now2 + before2 <= limit2
OBVIOUS

\* Steps that start no scheduler, fire nothing and leave the clock alone.
LEMMA QuietKeeps ==
  ASSUME RoleInv, RoleTypeOK', UNCHANGED <<minute, last, starts, jobs>>,
         sessionsLost <= sessionsLost', Leading' \subseteq Leading,
         \A r \in Replica : boot'[r] \in {0, boot[r]}
  PROVE  BootsAreStarts' /\ WindowsOwe' /\ \A r \in Replica : last'[r] <= minute'
<1> USE DEF RoleInv, RoleTypeOK
<1>1. ASSUME NEW m \in Minute
      PROVE  /\ Boots(m)' \subseteq Boots(m)
             /\ Cardinality(Boots(m)') \in Nat /\ Cardinality(Boots(m)') <= Cardinality(Boots(m))
  <2>1. Boots(m)' \subseteq Boots(m)
    BY DEF Boots, Minute
  <2> QED BY <2>1, ReplicasAreFinite, Fewer
<1>2. BootsAreStarts'
  BY <1>1, ReplicasAreFinite DEF BootsAreStarts
<1>3. \A m : BootsIn(m)' \in Nat /\ BootsIn(m)' <= BootsIn(m)
  BY <1>1, ReplicasAreFinite DEF BootsIn
<1>4. Cardinality(Due') \in Nat /\ Cardinality(Due') <= Cardinality(Due)
  <2>1. Due' \subseteq Due
    BY DEF Due
  <2> QED BY <2>1, ReplicasAreFinite, Fewer
<1>5. \A m : Granted(m) \in Nat /\ Granted(m)' \in Nat /\ Granted(m) <= Granted(m)'
  BY DEF Granted, StartsIn
<1>6. jobs[minute] + Cardinality(Due') + BootsIn(minute)' + BootsIn(minute - 1)' <= Granted(minute)'
  BY <1>3, <1>4, <1>5, ReplicasAreFinite, StillOwed DEF WindowsOwe
<1>7. WindowsOwe'
  BY <1>5, <1>6 DEF WindowsOwe
<1> QED BY <1>2, <1>7

\* Who leads and who holds the lock is as before, or a scheduler less.
LEMMA FewStill ==
  ASSUME RoleInv, sessionsLost' \in Nat, sessionsLost <= sessionsLost', Leading' \subseteq Leading,
         leader \in Leading => leader' \in Leading'
  PROVE  LeadersAreFew'
<1>1. Cardinality(Leading') \in Nat /\ Cardinality(Leading') <= Cardinality(Leading)
  BY ReplicasAreFinite, Fewer
<1> QED BY <1>1, ReplicasAreFinite DEF RoleInv, RoleTypeOK, LeadersAreFew

\* The process of the replica ends.
LEMMA LeavingKeeps ==
  ASSUME RoleInv, NEW r \in Replica, NEW held,
         held \notin Replica,
         thread' = [thread EXCEPT ![r] = "ended"],
         leader' = (IF leader = r THEN held ELSE leader),
         UNCHANGED sessionsLost
  PROVE  LeadersAreFew' /\ Leading' \subseteq Leading
<1> USE DEF RoleInv, RoleTypeOK
<1>1. Leading' = Leading \ {r}
  BY DEF Leading
<1>2. CASE leader = r /\ r \in Leading
  <2>1. leader' \notin Leading'
    BY <1>2 DEF Leading
  <2>2. Cardinality(Leading') \in Nat /\ Cardinality(Leading') + 1 <= Cardinality(Leading)
    BY <1>1, <1>2, ReplicasAreFinite, OneFewer
  <2> QED BY <1>1, <1>2, <2>1, <2>2, ReplicasAreFinite DEF LeadersAreFew
<1>3. CASE ~(leader = r /\ r \in Leading)
  <2>1. leader \in Leading => leader' \in Leading'
    BY <1>1, <1>3
  <2> QED BY <1>1, <2>1, FewStill
<1> QED BY <1>2, <1>3

LEMMA LosingKeeps ==
  ASSUME RoleInv, NEW r \in Replica, LoseSession(r)
  PROVE  LeadersAreFew'
<1> USE DEF RoleInv, RoleTypeOK
<1>1. leader' = NoLeader /\ sessionsLost' = sessionsLost + 1 /\ Leading' = Leading
  BY DEF LoseSession, Leading
<1>2. leader' \notin Leading'
  BY <1>1, RoleAssumption DEF Leading
<1> QED BY <1>1, <1>2, ReplicasAreFinite DEF LeadersAreFew

\* A scheduler that starts is not due in this window, except for its startup
\* run, which is counted.
LEMMA AcquiringKeeps ==
  ASSUME RoleInv, NEW r \in Replica, AcquireLeader(r)
  PROVE  RoleInv'
<1> USE DEF RoleInv, RoleTypeOK
<1>1. /\ up[r] = "running" /\ thread[r] = "probing" /\ leader = NoLeader
      /\ thread' = [thread EXCEPT ![r] = "leading"] /\ leader' = r
      /\ last' = [last EXCEPT ![r] = minute]
      /\ UNCHANGED <<committed, up, snap, minute, job, jobs, row, health>>
      /\ UNCHANGED <<sessionsLost, mishaps, deaths>>
  BY DEF AcquireLeader, StartsScheduler, jobVars, beatVars, faultVars
<1>2. \/ boot' = [boot EXCEPT ![r] = minute] /\ starts' = [starts EXCEPT ![minute] = @ + 1]
      \/ boot' = boot /\ starts' = starts
  BY DEF AcquireLeader, StartsScheduler
<1>3. minute \in Minute /\ minute \in Nat /\ minute # 0 /\ boot[r] = 0
  BY <1>1 DEF WindowsOwe, Minute, ThreadsEnd
<1>4. RoleTypeOK'
  <2>1. boot' \in [Replica -> Nat] /\ starts' \in [Minute -> Nat]
    BY <1>2, <1>3
  <2> QED BY <1>1, <2>1
<1>5. ThreadsEnd' /\ \A q \in Replica : last'[q] <= minute'
  BY <1>1, <1>2, <1>3 DEF ThreadsEnd
<1>6. LeadersAreFew'
  <2>1. Leading' = Leading \cup {r} /\ leader' \in Leading' /\ leader \notin Leading
    BY <1>1, RoleAssumption DEF Leading
  <2>2. Cardinality(Leading') \in Nat /\ Cardinality(Leading') <= Cardinality(Leading) + 1
    BY <2>1, ReplicasAreFinite, OneMore
  <2> QED BY <1>1, <2>1, <2>2, ReplicasAreFinite DEF LeadersAreFew
<1>7. Cardinality(Due') \in Nat /\ Cardinality(Due') <= Cardinality(Due)
  <2>1. Due' \subseteq Due
    BY <1>1, <1>3 DEF Due, Leading
  <2> QED BY <2>1, ReplicasAreFinite, Fewer
<1>8. ASSUME NEW m \in Minute
      PROVE  /\ Cardinality(Boots(m)') \in Nat /\ starts'[m] \in Nat /\ starts[m] \in Nat
             /\ Cardinality(Boots(m)') - starts'[m] <= Cardinality(Boots(m)) - starts[m]
             /\ starts[m] <= starts'[m]
  <2>0. Cardinality(Boots(m)) \in Nat /\ starts'[m] \in Nat /\ starts[m] \in Nat
    BY <1>4, ReplicasAreFinite
  <2>1. CASE boot' = boot /\ starts' = starts
    BY <2>0, <2>1, ReplicasAreFinite DEF Boots
  <2>2. CASE boot' = [boot EXCEPT ![r] = minute] /\ starts' = [starts EXCEPT ![minute] = @ + 1]
    <3>1. CASE m = minute
      <4>1. Boots(m)' \subseteq Boots(m) \cup {r}
        BY <1>3, <2>2 DEF Boots
      <4>2. Cardinality(Boots(m)') \in Nat /\ Cardinality(Boots(m)') <= Cardinality(Boots(m)) + 1
        BY <4>1, ReplicasAreFinite, OneMore
      <4>3. starts'[m] = starts[m] + 1
        BY <2>2, <3>1
      <4> QED BY <2>0, <4>2, <4>3
    <3>2. CASE m # minute
      <4>1. Boots(m)' \subseteq Boots(m)
        BY <1>3, <2>2, <3>2 DEF Boots
      <4>2. Cardinality(Boots(m)') \in Nat /\ Cardinality(Boots(m)') <= Cardinality(Boots(m))
        BY <4>1, ReplicasAreFinite, Fewer
      <4>3. starts'[m] = starts[m]
        BY <2>2, <3>2
      <4> QED BY <2>0, <4>2, <4>3
    <3> QED BY <3>1, <3>2
  <2> QED BY <1>2, <2>1, <2>2
<1>9. BootsAreStarts'
  <2>1. ASSUME NEW m \in Minute PROVE Cardinality(Boots(m)') <= starts'[m]
    <3>1. Cardinality(Boots(m)) <= starts[m] /\ Cardinality(Boots(m)) \in Nat
      BY ReplicasAreFinite DEF BootsAreStarts
    <3> QED BY <1>8, <3>1
  <2> QED BY <2>1 DEF BootsAreStarts
<1>10. ASSUME NEW CONSTANT m
       PROVE  /\ BootsIn(m)' \in Nat /\ BootsIn(m) \in Nat
              /\ StartsIn(m)' \in Nat /\ StartsIn(m) \in Nat
              /\ BootsIn(m)' - StartsIn(m)' <= BootsIn(m) - StartsIn(m)
  <2>1. CASE m \in Minute
    BY <1>8, <2>1, ReplicasAreFinite DEF BootsIn, StartsIn
  <2>2. CASE m \notin Minute
    BY <2>2 DEF BootsIn, StartsIn
  <2> QED BY <2>1, <2>2
<1>11. \A m : Granted(m) \in Nat /\ Granted(m)' \in Nat /\ Granted(m) <= Granted(m)'
  <2>1. \A m : StartsIn(m) \in Nat /\ StartsIn(m)' \in Nat /\ StartsIn(m) <= StartsIn(m)'
    BY <1>8 DEF StartsIn
  <2> QED BY <1>1, <2>1 DEF Granted
<1>12. jobs[minute] + Cardinality(Due') + BootsIn(minute)' + BootsIn(minute - 1)' <= Granted(minute)'
  <2>1. PICK n, p : n = minute /\ p = minute - 1
    OBVIOUS
  <2>2. /\ Granted(n) = 1 + sessionsLost + StartsIn(n) + StartsIn(p)
        /\ Granted(n)' = 1 + sessionsLost + StartsIn(n)' + StartsIn(p)'
    BY <1>1, <2>1 DEF Granted
  <2>3. jobs[n] + Cardinality(Due) + BootsIn(n) + BootsIn(p) <= Granted(n)
    BY <2>1 DEF WindowsOwe
  <2>4. jobs[n] \in Nat /\ n = minute' /\ p = minute' - 1
    BY <1>1, <1>3, <2>1
  <2>5. /\ BootsIn(n)' - StartsIn(n)' <= BootsIn(n) - StartsIn(n)
        /\ BootsIn(n)' \in Nat /\ BootsIn(n) \in Nat
        /\ StartsIn(n)' \in Nat /\ StartsIn(n) \in Nat
    BY <1>10
  <2>6. /\ BootsIn(p)' - StartsIn(p)' <= BootsIn(p) - StartsIn(p)
        /\ BootsIn(p)' \in Nat /\ BootsIn(p) \in Nat
        /\ StartsIn(p)' \in Nat /\ StartsIn(p) \in Nat
    BY <1>10
  <2>7. jobs[n] + Cardinality(Due') + BootsIn(n)' + BootsIn(p)' <= Granted(n)'
    BY <1>7, <1>11, <2>2, <2>3, <2>4, <2>5, <2>6, ReplicasAreFinite, StillOwed
  <2> QED BY <2>1, <2>4, <2>7
<1>13. WindowsOwe'
  BY <1>1, <1>11, <1>12 DEF WindowsOwe
<1> QED BY <1>4, <1>5, <1>6, <1>9, <1>13

\* A scheduler that fires is not due any more, with or without a job.
LEMMA FiringKeeps ==
  ASSUME RoleInv, NEW r \in Replica, Fire(r)
  PROVE  RoleInv'
<1> USE DEF RoleInv, RoleTypeOK
<1>1. /\ UNCHANGED <<committed, up, snap, thread, leader, minute, starts, row, health>>
      /\ UNCHANGED <<sessionsLost, mishaps, deaths>>
      /\ thread[r] = "leading" /\ last[r] < minute
      /\ last' = [last EXCEPT ![r] = minute]
  BY DEF Fire, Schedules, beatVars, faultVars
<1>2. boot' = boot \/ boot' = [boot EXCEPT ![r] = 0]
  BY DEF Fire
<1>3. \/ /\ job' = [job EXCEPT ![minute] = "active"]
         /\ jobs' = [jobs EXCEPT ![minute] = @ + 1]
      \/ UNCHANGED <<job, jobs>>
  BY DEF Fire, Enqueue, jobVars
<1>4. minute \in Minute
  BY DEF WindowsOwe
<1>5. RoleTypeOK'
  <2>1. job' \in [Minute -> {"none", "active", "done"}] /\ jobs' \in [Minute -> Nat]
    BY <1>3
  <2>2. last' \in [Replica -> Nat] /\ boot' \in [Replica -> Nat]
    BY <1>1, <1>2
  <2> QED BY <1>1, <2>1, <2>2
<1>6. ThreadsEnd' /\ LeadersAreFew' /\ \A q \in Replica : last'[q] <= minute'
  <2>1. Leading' = Leading
    BY <1>1 DEF Leading
  <2> QED BY <1>1, <1>2, <2>1 DEF ThreadsEnd, LeadersAreFew
<1>7. Cardinality(Due') \in Nat /\ Cardinality(Due') + 1 <= Cardinality(Due)
  <2>1. r \in Due /\ Due' \subseteq Due \ {r}
    BY <1>1 DEF Due, Leading
  <2> QED BY <2>1, ReplicasAreFinite, OneFewer
<1>8. ASSUME NEW m \in Minute
      PROVE  Cardinality(Boots(m)') \in Nat /\ Cardinality(Boots(m)') <= Cardinality(Boots(m))
  <2>1. Boots(m)' \subseteq Boots(m)
    BY <1>2 DEF Boots, Minute
  <2> QED BY <2>1, ReplicasAreFinite, Fewer
<1>9. BootsAreStarts'
  BY <1>1, <1>8, ReplicasAreFinite DEF BootsAreStarts
<1>10. \A m : BootsIn(m)' \in Nat /\ BootsIn(m)' <= BootsIn(m)
  BY <1>8, ReplicasAreFinite DEF BootsIn
<1>11. \A m : Granted(m) \in Nat /\ Granted(m)' = Granted(m)
  BY <1>1 DEF Granted, StartsIn
<1>12. jobs'[minute] \in Nat /\ jobs'[minute] <= jobs[minute] + 1
       /\ \A m \in Minute : m # minute => jobs'[m] = jobs[m]
  BY <1>3, <1>4
<1>13. jobs'[minute] + Cardinality(Due') + BootsIn(minute)' + BootsIn(minute - 1)' <= Granted(minute)'
  BY <1>1, <1>4, <1>7, <1>10, <1>11, <1>12, ReplicasAreFinite, StillOwed DEF WindowsOwe
<1>14. WindowsOwe'
  BY <1>1, <1>11, <1>12, <1>13 DEF WindowsOwe
<1> QED BY <1>5, <1>6, <1>9, <1>14

\* A startup run is executed in its minute or in the next one, which both grant
\* it a job.
LEMMA StartingUpKeeps ==
  ASSUME RoleInv, NEW r \in Replica, FireOnStartup(r)
  PROVE  RoleInv'
<1> USE DEF RoleInv, RoleTypeOK
<1>1. /\ UNCHANGED <<committed, up, snap, thread, leader, minute, last, starts, row, health>>
      /\ UNCHANGED <<sessionsLost, mishaps, deaths>>
      /\ boot' = [boot EXCEPT ![r] = 0]
      /\ boot[r] # 0 /\ minute <= boot[r] + 1
  BY DEF FireOnStartup, beatVars, faultVars
<1>2. \/ /\ job' = [job EXCEPT ![minute] = "active"]
         /\ jobs' = [jobs EXCEPT ![minute] = @ + 1]
      \/ UNCHANGED <<job, jobs>>
  BY DEF FireOnStartup, Enqueue, jobVars
<1>3. minute \in Minute /\ boot[r] \in Minute /\ boot[r] \in {minute, minute - 1}
  <2>1. boot[r] \in Nat /\ boot[r] <= minute /\ minute \in Minute /\ MaxMinute \in Nat
    BY <1>1, RoleAssumption DEF WindowsOwe, ThreadsEnd
  <2>2. minute \in Nat /\ boot[r] # 0 /\ minute <= boot[r] + 1
    BY <1>1
  <2>3. boot[r] \in {minute, minute - 1}
    BY <2>1, <2>2
  <2>4. boot[r] \in Minute
    BY <2>1, <2>2 DEF Minute
  <2> QED BY <2>1, <2>3, <2>4
<1>4. RoleTypeOK'
  <2>1. job' \in [Minute -> {"none", "active", "done"}] /\ jobs' \in [Minute -> Nat]
    BY <1>2
  <2>2. boot' \in [Replica -> Nat]
    BY <1>1
  <2> QED BY <1>1, <2>1, <2>2
<1>5. ThreadsEnd' /\ LeadersAreFew' /\ \A q \in Replica : last'[q] <= minute'
  <2>1. Leading' = Leading
    BY <1>1 DEF Leading
  <2> QED BY <1>1, <2>1 DEF ThreadsEnd, LeadersAreFew
<1>6. Due' = Due
  BY <1>1 DEF Due, Leading
<1>7. ASSUME NEW CONSTANT m \in Minute
      PROVE  Cardinality(Boots(m)') \in Nat /\ Cardinality(Boots(m)') <= Cardinality(Boots(m))
  <2>1. Boots(m)' \subseteq Boots(m)
    BY <1>1 DEF Boots, Minute
  <2> QED BY <2>1, ReplicasAreFinite, Fewer
<1>8. ASSUME NEW CONSTANT m \in Minute, boot[r] = m
      PROVE  Cardinality(Boots(m)') + 1 <= Cardinality(Boots(m))
  <2>1. r \in Boots(m) /\ Boots(m)' \subseteq Boots(m) \ {r}
    BY <1>1, <1>8 DEF Boots, Minute
  <2> QED BY <2>1, ReplicasAreFinite, OneFewer
<1>9. BootsAreStarts'
  BY <1>1, <1>7, ReplicasAreFinite DEF BootsAreStarts
<1>10. ASSUME NEW CONSTANT m
       PROVE  /\ BootsIn(m)' \in Nat /\ BootsIn(m) \in Nat /\ BootsIn(m)' <= BootsIn(m)
              /\ m \in Minute /\ boot[r] = m => BootsIn(m)' + 1 <= BootsIn(m)
  BY <1>7, <1>8, ReplicasAreFinite DEF BootsIn
<1>11. \A m : Granted(m) \in Nat /\ Granted(m)' = Granted(m)
  BY <1>1 DEF Granted, StartsIn
<1>12. jobs'[minute] \in Nat /\ jobs'[minute] <= jobs[minute] + 1
       /\ \A m \in Minute : m # minute => jobs'[m] = jobs[m]
  BY <1>2, <1>3
<1>13. jobs'[minute] + Cardinality(Due') + BootsIn(minute)' + BootsIn(minute - 1)' <= Granted(minute)'
  <2>1. PICK n, p : n = minute /\ p = minute - 1
    OBVIOUS
  <2>2. /\ BootsIn(n)' \in Nat /\ BootsIn(n) \in Nat /\ BootsIn(n)' <= BootsIn(n)
        /\ n \in Minute /\ boot[r] = n => BootsIn(n)' + 1 <= BootsIn(n)
    BY <1>10
  <2>3. /\ BootsIn(p)' \in Nat /\ BootsIn(p) \in Nat /\ BootsIn(p)' <= BootsIn(p)
        /\ p \in Minute /\ boot[r] = p => BootsIn(p)' + 1 <= BootsIn(p)
    BY <1>10
  <2>4. BootsIn(n)' + BootsIn(p)' + 1 <= BootsIn(n) + BootsIn(p)
    BY <1>3, <2>1, <2>2, <2>3
  <2>5. jobs[n] + Cardinality(Due) + BootsIn(n) + BootsIn(p) <= Granted(n)
    BY <2>1 DEF WindowsOwe
  <2>6. jobs'[n] \in Nat /\ jobs[n] \in Nat /\ jobs'[n] <= jobs[n] + 1
    BY <1>3, <1>12, <2>1
  <2>7. jobs'[n] + Cardinality(Due') + BootsIn(n)' + BootsIn(p)' <= Granted(n)'
    BY <1>6, <1>11, <2>2, <2>3, <2>4, <2>5, <2>6, ReplicasAreFinite, StillOwed
  <2> QED BY <1>1, <2>1, <2>7
<1>14. WindowsOwe'
  BY <1>1, <1>11, <1>12, <1>13 DEF WindowsOwe
<1> QED BY <1>4, <1>5, <1>9, <1>14

\* Every scheduler is due in the new minute, and those that started in the last
\* one may still have their startup run.
LEMMA PassingKeeps ==
  ASSUME RoleInv, MinutePasses
  PROVE  RoleInv'
<1> USE DEF RoleInv, RoleTypeOK
<1>1. /\ UNCHANGED <<committed, up, snap, thread, leader, last, boot, starts, job, jobs, row, health>>
      /\ UNCHANGED <<sessionsLost, mishaps, deaths>>
      /\ minute' = minute + 1 /\ minute < MaxMinute
  BY DEF MinutePasses, jobVars, beatVars, faultVars
<1>2. minute \in Minute /\ minute + 1 \in Minute
  BY <1>1, RoleAssumption DEF WindowsOwe, Minute
<1>3. RoleTypeOK' /\ ThreadsEnd' /\ \A q \in Replica : last'[q] <= minute'
  BY <1>1 DEF ThreadsEnd
<1>4. Leading' = Leading /\ \A m : Boots(m)' = Boots(m)
  BY <1>1 DEF Leading, Boots
<1>5. LeadersAreFew' /\ BootsAreStarts'
  BY <1>1, <1>4 DEF LeadersAreFew, BootsAreStarts
<1>6. Cardinality(Due') \in Nat /\ Cardinality(Due') <= 1 + sessionsLost
  <2>1. Due' \subseteq Leading
    BY <1>4 DEF Due
  <2>2. Cardinality(Due') \in Nat /\ Cardinality(Due') <= Cardinality(Leading)
    BY <2>1, ReplicasAreFinite, Fewer
  <2> QED BY <2>2, ReplicasAreFinite DEF LeadersAreFew
<1>7. ASSUME NEW CONSTANT m \in Minute PROVE BootsIn(m)' \in Nat /\ BootsIn(m)' <= starts[m]
  BY <1>4, ReplicasAreFinite DEF BootsIn, BootsAreStarts
<1>8. PICK n, p : n = minute + 1 /\ p = minute
  OBVIOUS
<1>9. n \in Minute /\ p \in Minute /\ n = minute' /\ p = minute' - 1 /\ p = n - 1
  BY <1>1, <1>2, <1>8
<1>10. jobs'[n] + Cardinality(Due') + BootsIn(n)' + BootsIn(p)' <= Granted(n)'
  <2>1. jobs'[n] = 0
    BY <1>1, <1>8, <1>9 DEF WindowsOwe
  <2>2. BootsIn(p)' \in Nat /\ BootsIn(p)' <= starts[p]
    BY <1>7, <1>9
  <2>3. Boots(n) = {}
    <3>1. minute \in Nat
      OBVIOUS
    <3>2. n # 0 /\ n > minute
      BY <1>8, <3>1
    <3>3. \A r \in Replica : boot[r] # 0 => boot[r] <= minute
      BY DEF ThreadsEnd
    <3> QED BY <1>8, <3>1, <3>2, <3>3 DEF Boots
  <2>4. BootsIn(n)' = 0
    <3>1. Boots(n)' = {}
      BY <1>4, <2>3
    <3> QED BY <1>9, <3>1, FS_EmptySet DEF BootsIn
  <2>5. Granted(n)' = 1 + sessionsLost + starts[n] + starts[p] /\ starts[n] \in Nat /\ starts[p] \in Nat
    BY <1>1, <1>9 DEF Granted, StartsIn
  <2> QED BY <1>6, <2>1, <2>2, <2>4, <2>5
<1>11. jobs[minute] <= Granted(minute)
  BY <1>2, ReplicasAreFinite DEF WindowsOwe, Granted, StartsIn
<1>12. WindowsOwe'
  <2>0. (jobs[minute] + Cardinality(Due) + BootsIn(minute) + BootsIn(minute - 1) <= Granted(minute))'
    BY <1>9, <1>10
  <2>1. \A m \in Minute : m > minute' => jobs'[m] = 0
    BY <1>1 DEF WindowsOwe, Minute
  <2>2. \A m \in Minute : m < minute' => jobs'[m] <= Granted(m)'
    <3> TAKE m \in Minute
    <3>1. m < minute' => m < minute \/ m = minute
      BY <1>1 DEF Minute
    <3>2. Granted(m)' = Granted(m)
      BY <1>1 DEF Granted, StartsIn
    <3> QED BY <1>1, <1>11, <3>1, <3>2 DEF WindowsOwe
  <2> QED BY <1>1, <1>2, <2>0, <2>1, <2>2 DEF WindowsOwe
<1> QED BY <1>3, <1>5, <1>12

LEMMA RolesStep == RoleInv /\ [RoleNext]_roleVars => RoleInv'
<1> SUFFICES ASSUME RoleInv, [RoleNext]_roleVars PROVE RoleInv'
  OBVIOUS
<1> USE DEF RoleInv, RoleTypeOK
<1>1. ASSUME NEW r \in Replica, AcquireLeader(r) PROVE RoleInv'
  BY <1>1, AcquiringKeeps
<1>2. ASSUME NEW r \in Replica, Fire(r) \/ FireOnStartup(r) PROVE RoleInv'
  BY <1>2, FiringKeeps, StartingUpKeeps
<1>3. ASSUME NEW r \in Replica, StartWorker(r) PROVE RoleInv'
  <2>1. RoleTypeOK'
    BY <1>3 DEF StartWorker, clockVars, jobVars, faultVars
  <2>2. ThreadsEnd'
    BY <1>3 DEF StartWorker, ThreadsEnd, clockVars
  <2>3. Leading' = Leading
    BY <1>3 DEF StartWorker, Leading, ThreadsEnd
  <2>4. LeadersAreFew'
    BY <1>3, <2>3 DEF StartWorker, LeadersAreFew, faultVars
  <2>5. BootsAreStarts' /\ WindowsOwe' /\ \A q \in Replica : last'[q] <= minute'
    BY <1>3, <2>1, <2>3, QuietKeeps DEF StartWorker, clockVars, jobVars, faultVars
  <2> QED BY <2>1, <2>2, <2>4, <2>5
<1>4. ASSUME NEW r \in Replica, SchedulerThreadDies(r) PROVE RoleInv'
  <2>1. RoleTypeOK'
    BY <1>4 DEF SchedulerThreadDies, clockVars, jobVars, beatVars
  <2>2. ThreadsEnd'
    BY <1>4 DEF SchedulerThreadDies, ThreadsEnd, clockVars
  <2>3. Leading' = Leading /\ leader \notin Leading
    BY <1>4, RoleAssumption DEF SchedulerThreadDies, Leading
  <2>4. LeadersAreFew'
    BY <1>4, <2>3, FewStill DEF SchedulerThreadDies
  <2>5. BootsAreStarts' /\ WindowsOwe' /\ \A q \in Replica : last'[q] <= minute'
    BY <1>4, <2>1, <2>3, QuietKeeps DEF SchedulerThreadDies, clockVars, jobVars
  <2> QED BY <2>1, <2>2, <2>4, <2>5
<1>5. ASSUME NEW r \in Replica, LoseSession(r) PROVE RoleInv'
  <2>1. RoleTypeOK'
    BY <1>5, RoleAssumption DEF LoseSession, Mishap, clockVars, jobVars, beatVars
  <2>2. ThreadsEnd'
    BY <1>5 DEF LoseSession, ThreadsEnd, clockVars
  <2>3. LeadersAreFew'
    BY <1>5, LosingKeeps
  <2>4. Leading' = Leading
    BY <1>5 DEF LoseSession, Leading
  <2>5. BootsAreStarts' /\ WindowsOwe' /\ \A q \in Replica : last'[q] <= minute'
    BY <1>5, <2>1, <2>4, QuietKeeps DEF LoseSession, clockVars, jobVars
  <2> QED BY <2>1, <2>2, <2>3, <2>5
<1>6. ASSUME NEW r \in Replica, Beat(r) PROVE RoleInv'
  <2>1. RoleTypeOK'
    <3>1. /\ up' = up \/ up' = [up EXCEPT ![r] = "stopping"]
          /\ row' = row \/ \E s \in {"running", "stopped"} : row' = [row EXCEPT ![r] = s]
          /\ \E b \in BOOLEAN : health' = [health EXCEPT ![r] = b]
      BY <1>6 DEF Beat
    <3>2. /\ up' \in [Replica -> {"down", "running", "stopping"}]
          /\ leader \in Replica => up'[leader] # "down"
      BY <3>1
    <3>3. row' \in [Replica -> {"none", "running", "stopped"}]
      BY <3>1
    <3>4. health' \in [Replica -> BOOLEAN]
      BY <3>1
    <3> QED BY <1>6, <3>2, <3>3, <3>4 DEF Beat, clockVars, jobVars, faultVars
  <2>2. ThreadsEnd'
    BY <1>6 DEF Beat, ThreadsEnd, clockVars
  <2>3. Leading' = Leading
    BY <1>6 DEF Beat, Leading
  <2>4. LeadersAreFew'
    BY <1>6, <2>3 DEF Beat, LeadersAreFew, faultVars
  <2>5. BootsAreStarts' /\ WindowsOwe' /\ \A q \in Replica : last'[q] <= minute'
    BY <1>6, <2>1, <2>3, QuietKeeps DEF Beat, clockVars, jobVars, faultVars
  <2> QED BY <2>1, <2>2, <2>4, <2>5
<1>7. ASSUME NEW r \in Replica, StopSignal(r) PROVE RoleInv'
  <2>1. RoleTypeOK'
    BY <1>7 DEF StopSignal, Mishap, clockVars, jobVars, beatVars
  <2>2. ThreadsEnd'
    BY <1>7 DEF StopSignal, ThreadsEnd, clockVars
  <2>3. Leading' = Leading
    BY <1>7 DEF StopSignal, Leading
  <2>4. LeadersAreFew'
    BY <1>7, <2>3 DEF StopSignal, LeadersAreFew
  <2>5. BootsAreStarts' /\ WindowsOwe' /\ \A q \in Replica : last'[q] <= minute'
    BY <1>7, <2>1, <2>3, QuietKeeps DEF StopSignal, clockVars, jobVars
  <2> QED BY <2>1, <2>2, <2>4, <2>5
<1>8. ASSUME NEW r \in Replica, ExitWorker(r) PROVE RoleInv'
  <2>1. RoleTypeOK'
    BY <1>8, RoleAssumption DEF ExitWorker, jobVars, faultVars
  <2>2. ThreadsEnd'
    BY <1>8 DEF ExitWorker, ThreadsEnd
  <2>3. LeadersAreFew' /\ Leading' \subseteq Leading
    BY <1>8, RoleAssumption, LeavingKeeps DEF ExitWorker, faultVars
  <2>4. BootsAreStarts' /\ WindowsOwe' /\ \A q \in Replica : last'[q] <= minute'
    BY <1>8, <2>1, <2>3, QuietKeeps DEF ExitWorker, jobVars, faultVars
  <2> QED BY <2>1, <2>2, <2>3, <2>4
<1>9. ASSUME NEW r \in Replica, KillWorker(r) PROVE RoleInv'
  <2>1. RoleTypeOK'
    BY <1>9, RoleAssumption DEF KillWorker, Mishap, jobVars, beatVars
  <2>2. ThreadsEnd'
    BY <1>9 DEF KillWorker, ThreadsEnd
  <2>3. LeadersAreFew' /\ Leading' \subseteq Leading
    BY <1>9, RoleAssumption, LeavingKeeps DEF KillWorker
  <2>4. BootsAreStarts' /\ WindowsOwe' /\ \A q \in Replica : last'[q] <= minute'
    BY <1>9, <2>1, <2>3, QuietKeeps DEF KillWorker, jobVars
  <2> QED BY <2>1, <2>2, <2>3, <2>4
<1>10. ASSUME NEW m \in Minute, JobEnds(m) PROVE RoleInv'
  <2>1. RoleTypeOK'
    BY <1>10 DEF JobEnds, beatVars, faultVars
  <2>2. ThreadsEnd' /\ Leading' = Leading
    BY <1>10 DEF JobEnds, ThreadsEnd, Leading
  <2>3. LeadersAreFew'
    BY <1>10, <2>2 DEF JobEnds, LeadersAreFew, faultVars
  <2>4. BootsAreStarts' /\ WindowsOwe' /\ \A q \in Replica : last'[q] <= minute'
    BY <1>10, <2>1, <2>2, QuietKeeps DEF JobEnds, faultVars
  <2> QED BY <2>1, <2>2, <2>3, <2>4
<1>11. CASE CommitConfig
  <2>1. RoleTypeOK'
    BY <1>11, RoleAssumption DEF CommitConfig, clockVars, jobVars, beatVars, faultVars
  <2>2. ThreadsEnd' /\ Leading' = Leading
    BY <1>11 DEF CommitConfig, ThreadsEnd, Leading, clockVars
  <2>3. LeadersAreFew'
    BY <1>11, <2>2 DEF CommitConfig, LeadersAreFew, faultVars
  <2>4. BootsAreStarts' /\ WindowsOwe' /\ \A q \in Replica : last'[q] <= minute'
    BY <1>11, <2>1, <2>2, QuietKeeps DEF CommitConfig, clockVars, jobVars, faultVars
  <2> QED BY <2>1, <2>2, <2>3, <2>4
<1>12. CASE Reap
  <2>1. RoleTypeOK'
    BY <1>12, RoleAssumption DEF Reap, clockVars, jobVars, beatVars, faultVars
  <2>2. ThreadsEnd' /\ Leading' = Leading /\ leader \notin Leading
    BY <1>12, RoleAssumption DEF Reap, ThreadsEnd, Leading, clockVars
  <2>3. LeadersAreFew'
    BY <1>12, <2>2, FewStill DEF Reap, faultVars
  <2>4. BootsAreStarts' /\ WindowsOwe' /\ \A q \in Replica : last'[q] <= minute'
    BY <1>12, <2>1, <2>2, QuietKeeps DEF Reap, clockVars, jobVars, faultVars
  <2> QED BY <2>1, <2>2, <2>3, <2>4
<1>13. CASE MinutePasses
  BY <1>13, PassingKeeps
<1>14. CASE UNCHANGED roleVars
  <2>1. RoleTypeOK'
    BY <1>14 DEF roleVars, clockVars, jobVars, beatVars, faultVars
  <2>2. ThreadsEnd' /\ Leading' = Leading
    BY <1>14 DEF roleVars, ThreadsEnd, Leading, clockVars
  <2>3. LeadersAreFew'
    BY <1>14, <2>2 DEF roleVars, LeadersAreFew, faultVars
  <2>4. BootsAreStarts' /\ WindowsOwe' /\ \A q \in Replica : last'[q] <= minute'
    BY <1>14, <2>1, <2>2, QuietKeeps DEF roleVars, clockVars, jobVars, faultVars
  <2> QED BY <2>1, <2>2, <2>3, <2>4
<1> QED
  BY <1>1, <1>2, <1>3, <1>4, <1>5, <1>6, <1>7, <1>8, <1>9, <1>10, <1>11, <1>12, <1>13, <1>14
     DEF RoleNext

\* The variables of the roles keep their types, and the leader lock is never
\* left with a process that has exited (the finally block of the scheduler).
THEOREM RoleTypeCorrect == RoleSpec => []RoleTypeOK
<1>1. RoleInv => RoleTypeOK BY DEF RoleInv
<1> QED BY <1>1, RolesStart, RolesStep, PTL DEF RoleSpec

\* A window gets one job, and no more than one further job for every session a
\* leader has lost and for every startup run of its schedule (run_on_startup) in
\* it or in the minute before: what dies, restarts or takes over in the window
\* gives it no other.
THEOREM RepeatsAreCaused == RoleSpec => []RepeatsHaveACause
<1>1. RoleInv => RepeatsHaveACause
  <2> SUFFICES ASSUME RoleInv, NEW m \in Minute PROVE jobs[m] <= Granted(m)
    BY DEF RepeatsHaveACause, Granted
  <2>1. Granted(m) \in Nat /\ jobs[m] \in Nat /\ minute \in Minute
    BY DEF RoleInv, RoleTypeOK, Granted, StartsIn, WindowsOwe
  <2>2. m < minute \/ m = minute \/ m > minute
    BY <2>1 DEF Minute
  <2>3. jobs[minute] <= Granted(minute)
    BY ReplicasAreFinite DEF RoleInv, RoleTypeOK, WindowsOwe, Granted, StartsIn
  <2> QED BY <2>1, <2>2, <2>3 DEF RoleInv, WindowsOwe
<1> QED BY <1>1, RolesStart, RolesStep, PTL DEF RoleSpec
=============================================================================
