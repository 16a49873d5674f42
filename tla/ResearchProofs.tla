--------------------------- MODULE ResearchProofs ---------------------------
(* What ResearchCases promises of the snapshots of a case and of the data    *)
(* its hypotheses need, ResearchReplay of what replays see and are credited *)
(* with, and InvestmentDocuments of claims and observations: for every      *)
(* number of cases, jobs, commands, documents, callers and workers.         *)
EXTENDS ResearchReplay, InvestmentDocuments, FiniteSetTheorems, WellFoundedInduction, TLAPS

\* A row shows the number and the lifecycle of its last snapshot, its snapshots
\* are numbered without a gap and a double, and data is asked for the hypotheses
\* they show.
RowIsSound(r) ==
  /\ r \in CaseRow
  /\ IsFiniteSet(r.snapshots) /\ Cardinality(r.snapshots) = r.version
  /\ {s.version : s \in r.snapshots} = 1..r.version
  /\ \A s \in CurrentSnapshots(r) : s.state = r.state
  /\ \A s \in r.snapshots : s.edge = "hypothesis" => r.request # "none"

PlannedMove == [case: Case, to: States, payload: Snapshot]
CaseGroup == [case: Case, input: Nat, first: Nat, last: Nat, done: BOOLEAN]
GroupAnswer == [edge: Answer, valued: BOOLEAN, reviewed: BOOLEAN]

\* Committed rows and those the transactions have made of them are sound; a job
\* that is in a stage has a group.
CasesInv ==
  /\ ResearchTypeOK
  /\ \A c \in Case : RowIsSound(stored[c]) /\ RowIsSound(work[c])
  /\ plan \in [Job -> Seq(PlannedMove)]
  /\ groups \in [Job -> Seq(CaseGroup)]
  /\ answer \in [Job -> GroupAnswer]
  /\ \A j \in Job : pc[j] \in InGroup \ {"groups"} => groups[j] # << >>

\* A job that has the row of its group works on it, and past the requests a
\* hypothesis of its answer is asked for.
AtStage(j) ==
  pc[j] \in InGroup \ {"groups", "upsert"} =>
    LET c == Head(groups[j]).case
    IN  /\ lock[c] = j
        /\ pc[j] = "requests" /\ answer[j].edge = "hypothesis" => work[c].edge # "absent"
        /\ pc[j] \in {"value", "review", "publish"} /\ answer[j].edge = "hypothesis"
             => work[c].request # "none"

\* A request that is committed stays, and so the snapshots a refresh is about to
\* copy show no hypothesis without one.
AskedInv ==
  /\ \A c \in Case : stored[c].request # "none" => work[c].request # "none"
  /\ \A j \in Job : \A n \in DOMAIN plan[j] :
       plan[j][n].payload.edge = "hypothesis" => stored[plan[j][n].case].request # "none"
  /\ \A j \in Job : AtStage(j)

ResearchInv == CasesInv /\ AskedInv
-----------------------------------------------------------------------------
(* What the helpers return *)

LEMMA BuiltSequence ==
  ASSUME NEW S, NEW n \in Nat, NEW f \in [1..n -> S]
  PROVE  f \in Seq(S)
OBVIOUS

LEMMA StatesAreStates ==
  ASSUME NEW r \in CaseRow, NEW n, NEW complete
  PROVE  Gated(NextState(r, n, complete), r) \in States
<1>1. \A m, days : ActiveState(m, days, n, complete) \in States
  BY DEF ActiveState, States, Ready
<1>2. NextState(r, n, complete) \in States
  BY <1>1 DEF NextState, States
<1> QED BY <1>2 DEF Gated, States

LEMMA PayloadsAreSnapshots ==
  ASSUME NEW r \in CaseRow
  PROVE  Payload(r) \in Snapshot
<1>1. Empty \in Snapshot
  BY DEF Empty, Snapshot, States, Answer
<1>2. CurrentSnapshots(r) \subseteq Snapshot
  BY DEF CurrentSnapshots, CaseRow
<1> QED BY <1>1, <1>2 DEF Payload

LEMMA FirstRowIsSound == RowIsSound(NoCase)
<1>1. {s.version : s \in {}} = {} /\ 1..0 = {}
  OBVIOUS
<1> QED
  BY <1>1, FS_EmptySet
  DEF RowIsSound, NoCase, CaseRow, States, Answer, CurrentSnapshots, Open

\* publish_case_snapshot numbers the snapshot after the row it has locked.
LEMMA PublishedRowIsSound ==
  ASSUME NEW r, RowIsSound(r), NEW s \in Snapshot, s.version = NextVersion(r),
         s.edge = "hypothesis" => r.request # "none"
  PROVE  RowIsSound(Published(r, s))
<1> DEFINE p == Published(r, s)
<1> USE DEF RowIsSound
<1>0. r.version \in Nat /\ r.snapshots \subseteq Snapshot /\ r.state \in States /\ s.version \in Nat
      /\ s.state \in States
  BY DEF CaseRow, Snapshot
<1>1. /\ p.version = r.version + 1 /\ p.state = s.state
      /\ p.snapshots = r.snapshots \cup {s} /\ p.edge = r.edge /\ p.request = r.request
      /\ p \in CaseRow
  BY <1>0 DEF Published, NextVersion, CaseRow
<1>2. \A t \in r.snapshots : t.version \in 1..r.version
  OBVIOUS
<1>3. s \notin r.snapshots
  BY <1>0, <1>2 DEF NextVersion
<1>4. IsFiniteSet(p.snapshots) /\ Cardinality(p.snapshots) = p.version
  <2>1. IsFiniteSet(r.snapshots) /\ Cardinality(r.snapshots) = r.version
    OBVIOUS
  <2> HIDE DEF p, RowIsSound
  <2>2. /\ IsFiniteSet(r.snapshots \cup {s})
        /\ Cardinality(r.snapshots \cup {s}) = Cardinality(r.snapshots) + 1
    BY <1>3, <2>1, FS_AddElement
  <2> QED BY <1>1, <2>1, <2>2
<1>5. {t.version : t \in p.snapshots} = 1..p.version
  <2>1. {t.version : t \in p.snapshots} = {t.version : t \in r.snapshots} \cup {s.version}
    BY <1>1
  <2>2. 1..(r.version + 1) = 1..r.version \cup {r.version + 1}
    BY <1>0
  <2> QED BY <2>1, <2>2, <1>1 DEF NextVersion
<1>6. \A t \in CurrentSnapshots(p) : t.state = p.state
  BY <1>0, <1>1, <1>2 DEF CurrentSnapshots
<1>7. \A t \in p.snapshots : t.edge = "hypothesis" => p.request # "none"
  BY <1>1
<1> QED BY <1>1, <1>4, <1>5, <1>6, <1>7

\* A stage that keeps the snapshots and the request keeps the row sound.
LEMMA ChangedRowIsSound ==
  ASSUME NEW r, RowIsSound(r), NEW q \in CaseRow,
         q.version = r.version, q.state = r.state, q.snapshots = r.snapshots,
         r.request # "none" => q.request # "none"
  PROVE  RowIsSound(q)
BY DEF RowIsSound, CurrentSnapshots

\* The edges of the group.
LEMMA WithEdgeIsSound ==
  ASSUME NEW r, RowIsSound(r), NEW g \in CaseGroup, NEW edge \in Answer
  PROVE  /\ RowIsSound(WithEdge(r, g, edge))
         /\ WithEdge(r, g, edge).request = r.request
         /\ edge # "absent" => WithEdge(r, g, edge).edge # "absent"
<1> DEFINE e == WithEdge(r, g, edge)
<1>0. r \in CaseRow
  BY DEF RowIsSound
<1>1. /\ e \in CaseRow /\ e.version = r.version /\ e.state = r.state
      /\ e.snapshots = r.snapshots /\ e.request = r.request
      /\ edge # "absent" => e.edge # "absent"
  BY <1>0 DEF WithEdge, CaseRow, CaseGroup, Answer
<1> HIDE DEF e
<1>2. RowIsSound(e)
  BY <1>1, ChangedRowIsSound
<1> QED BY <1>1, <1>2 DEF e

\* The requests they call for.
LEMMA WithRequestIsSound ==
  ASSUME NEW r, RowIsSound(r), NEW g \in CaseGroup, NEW edge \in Answer, NEW matched \in BOOLEAN
  PROVE  /\ RowIsSound(WithRequest(r, g, edge, matched))
         /\ r.request # "none" => WithRequest(r, g, edge, matched).request # "none"
         /\ edge = "hypothesis" /\ r.edge # "absent"
              => WithRequest(r, g, edge, matched).request # "none"
<1> DEFINE q == WithRequest(r, g, edge, matched)
<1>0. r \in CaseRow
  BY DEF RowIsSound
<1>1. \/ q = [r EXCEPT !.request = "unresolved", !.asked = g.input]
      \/ q = [r EXCEPT !.request = "satisfied"]
      \/ q = r /\ ~(edge = "hypothesis" /\ r.edge # "absent" /\ r.request = "none")
  BY DEF WithRequest
<1>2. /\ q \in CaseRow /\ q.version = r.version /\ q.state = r.state
      /\ q.snapshots = r.snapshots
      /\ r.request # "none" => q.request # "none"
      /\ edge = "hypothesis" /\ r.edge # "absent" => q.request # "none"
  <2>0. g.input \in Nat
    BY DEF CaseGroup
  <2> HIDE DEF q
  <2>1. CASE q = [r EXCEPT !.request = "unresolved", !.asked = g.input]
    <3>1. q \in CaseRow
      BY <1>0, <2>0, <2>1 DEF CaseRow
    <3> QED BY <1>0, <2>1, <3>1 DEF CaseRow
  <2>2. CASE q = [r EXCEPT !.request = "satisfied"]
    <3>1. q \in CaseRow
      BY <1>0, <2>2 DEF CaseRow
    <3> QED BY <1>0, <2>2, <3>1 DEF CaseRow
  <2>3. CASE q = r /\ ~(edge = "hypothesis" /\ r.edge # "absent" /\ r.request = "none")
    BY <1>0, <2>3
  <2> QED BY <1>1, <2>1, <2>2, <2>3
<1> HIDE DEF q
<1>3. RowIsSound(q)
  BY <1>2, ChangedRowIsSound
<1> QED BY <1>2, <1>3 DEF q
-----------------------------------------------------------------------------
(* Every step keeps it *)

LEMMA JobsAreFinite == IsFiniteSet(Case) /\ NoJob \notin Job
BY ResearchAssumption, FS_Interval DEF Case, Job

LEMMA CasesInitInv == ResearchInit => CasesInv
<1> SUFFICES ASSUME ResearchInit PROVE CasesInv
  OBVIOUS
<1>1. NoCase \in CaseRow
  BY FirstRowIsSound DEF RowIsSound
<1>2. ResearchTypeOK
  BY <1>1, ResearchAssumption DEF ResearchInit, ResearchTypeOK
<1>3. \A c \in Case : RowIsSound(stored[c]) /\ RowIsSound(work[c])
  BY FirstRowIsSound DEF ResearchInit
<1>4. /\ plan \in [Job -> Seq(PlannedMove)] /\ groups \in [Job -> Seq(CaseGroup)]
      /\ answer \in [Job -> GroupAnswer]
  BY DEF ResearchInit, NoAnswer, GroupAnswer, Answer
<1> QED BY <1>2, <1>3, <1>4 DEF CasesInv, ResearchInit, InGroup

LEMMA WhatAJobSees ==
  ASSUME CasesInv, NEW j \in Job, NEW c \in Case
  PROVE  RowIsSound(Sees(j, c)) /\ Sees(j, c) \in CaseRow
BY DEF CasesInv, Sees, RowIsSound

\* A job writes a sound row, the row's lock in its hands.
LEMMA RowWritten ==
  ASSUME CasesInv, NEW j \in Job, NEW c \in Case, NEW q, RowIsSound(q),
         work' = [work EXCEPT ![c] = q], lock' \in {lock, [lock EXCEPT ![c] = j]},
         UNCHANGED <<day, sources, stored, runs>>,
         pc' \in [Job -> {"idle", "refresh"} \cup InGroup]
  PROVE  ResearchTypeOK' /\ \A d \in Case : RowIsSound(stored'[d]) /\ RowIsSound(work'[d])
BY DEF CasesInv, ResearchTypeOK, RowIsSound

LEMMA NothingWritten ==
  ASSUME CasesInv, UNCHANGED <<day, sources, stored, work, lock>>,
         runs' \in [Job -> 0..MaxRuns], pc' \in [Job -> {"idle", "refresh"} \cup InGroup]
  PROVE  ResearchTypeOK' /\ \A d \in Case : RowIsSound(stored'[d]) /\ RowIsSound(work'[d])
BY DEF CasesInv, ResearchTypeOK

LEMMA SourcesInv ==
  ASSUME CasesInv, DayPasses \/ \E c \in Case : NewEvidence(c)
  PROVE  CasesInv'
<1>1. CASE DayPasses
  BY <1>1, ResearchAssumption DEF DayPasses, CasesInv, ResearchTypeOK
<1>2. ASSUME NEW c \in Case, NewEvidence(c) PROVE CasesInv'
  <2>1. sources' \in [Case -> [count: 0..MaxEvidence, first: 0..MaxDay, last: 0..MaxDay]]
    <3> DEFINE old == sources[c]
               new == [count |-> old.count + 1, first |-> IF old.count = 0 THEN day ELSE old.first,
                       last |-> day]
    <3>1. /\ sources \in [Case -> [count: 0..MaxEvidence, first: 0..MaxDay, last: 0..MaxDay]]
          /\ day \in 0..MaxDay /\ old.count < MaxEvidence /\ sources' = [sources EXCEPT ![c] = new]
      BY <1>2 DEF NewEvidence, CasesInv, ResearchTypeOK
    <3>2. old \in [count: 0..MaxEvidence, first: 0..MaxDay, last: 0..MaxDay]
      BY <3>1
    <3>3. old.count + 1 \in 0..MaxEvidence
      BY <3>1, <3>2, ResearchAssumption
    <3>4. new \in [count: 0..MaxEvidence, first: 0..MaxDay, last: 0..MaxDay]
      BY <3>1, <3>2, <3>3
    <3> HIDE DEF new
    <3> QED BY <3>1, <3>4
  <2> QED BY <1>2, <2>1 DEF NewEvidence, CasesInv, ResearchTypeOK
<1> QED BY <1>1, <1>2

\* What a transaction does to the rows as a whole.
LEMMA UndoneRows ==
  ASSUME CasesInv, NEW j \in Job, Undo(j)
  PROVE  /\ work' \in [Case -> CaseRow] /\ lock' \in [Case -> Job \cup {NoJob}]
         /\ \A c \in Case : RowIsSound(work'[c])
BY DEF CasesInv, ResearchTypeOK, Undo, RowIsSound

LEMMA RollBackInv ==
  ASSUME CasesInv, NEW j \in Job, RollBack(j)
  PROVE  CasesInv'
<1>1. ResearchTypeOK' /\ \A c \in Case : RowIsSound(stored'[c]) /\ RowIsSound(work'[c])
  BY UndoneRows DEF RollBack, CasesInv, ResearchTypeOK
<1>2. /\ plan' \in [Job -> Seq(PlannedMove)] /\ groups' \in [Job -> Seq(CaseGroup)]
      /\ answer' \in [Job -> GroupAnswer]
  BY DEF RollBack, CasesInv, NoAnswer, GroupAnswer, Answer
<1>3. \A k \in Job : pc'[k] \in InGroup \ {"groups"} => groups'[k] # << >>
  BY DEF RollBack, CasesInv, ResearchTypeOK, InGroup
<1> QED BY <1>1, <1>2, <1>3 DEF CasesInv

LEMMA CommitInv ==
  ASSUME CasesInv, NEW j \in Job, Commit(j)
  PROVE  CasesInv'
<1>1. stored' \in [Case -> CaseRow] /\ lock' \in [Case -> Job \cup {NoJob}]
  BY DEF Commit, CasesInv, ResearchTypeOK
<1>2. \A c \in Case : RowIsSound(stored'[c]) /\ RowIsSound(work'[c])
  BY DEF Commit, CasesInv, ResearchTypeOK
<1>3. \A k \in Job : pc'[k] \in InGroup \ {"groups"} => groups'[k] # << >>
  BY DEF Commit, CasesInv, ResearchTypeOK, InGroup
<1> QED BY <1>1, <1>2, <1>3 DEF CasesInv, ResearchTypeOK, Commit

LEMMA FailRefreshInv ==
  ASSUME CasesInv, NEW j \in Job, FailRefresh(j)
  PROVE  CasesInv'
<1>1. ResearchTypeOK' /\ \A c \in Case : RowIsSound(stored'[c]) /\ RowIsSound(work'[c])
  BY UndoneRows DEF FailRefresh, CasesInv, ResearchTypeOK
<1> QED BY <1>1 DEF CasesInv, FailRefresh

LEMMA StartDiscoveryInv ==
  ASSUME CasesInv, NEW j \in Job, StartDiscovery(j)
  PROVE  CasesInv'
<1>1. PICK moving \in SUBSET Case :
        \E order \in SetToSeqs(moving) :
          plan' = [plan EXCEPT ![j] = [n \in DOMAIN order |->
                     [case |-> order[n], to |-> Transition(stored[order[n]]),
                      payload |-> Payload(stored[order[n]])]]]
  BY DEF StartDiscovery
<1>2. PICK order \in [1..Cardinality(moving) -> moving] :
        plan' = [plan EXCEPT ![j] = [n \in DOMAIN order |->
                     [case |-> order[n], to |-> Transition(stored[order[n]]),
                      payload |-> Payload(stored[order[n]])]]]
  BY <1>1 DEF SetToSeqs
<1>3. Cardinality(moving) \in Nat
  BY JobsAreFinite, FS_Subset, FS_CardinalityType
<1>4. \A n \in DOMAIN order :
        [case |-> order[n], to |-> Transition(stored[order[n]]),
         payload |-> Payload(stored[order[n]])] \in PlannedMove
  <2> SUFFICES ASSUME NEW n \in DOMAIN order
               PROVE  /\ Transition(stored[order[n]]) \in States
                      /\ Payload(stored[order[n]]) \in Snapshot
                      /\ order[n] \in Case
    BY DEF PlannedMove
  <2>1. stored[order[n]] \in CaseRow /\ order[n] \in Case
    BY DEF CasesInv, ResearchTypeOK
  <2> QED BY <2>1, StatesAreStates, PayloadsAreSnapshots DEF Transition
<1> DEFINE planned == [n \in DOMAIN order |->
                     [case |-> order[n], to |-> Transition(stored[order[n]]),
                      payload |-> Payload(stored[order[n]])]]
<1>8. planned \in [1..Cardinality(moving) -> PlannedMove]
  BY <1>4
<1>9. planned \in Seq(PlannedMove)
  BY <1>3, <1>8, BuiltSequence
<1>5. plan' \in [Job -> Seq(PlannedMove)]
  <2> HIDE DEF planned
  <2>1. plan' = [plan EXCEPT ![j] = planned]
    BY <1>2 DEF planned
  <2> QED BY <1>9, <2>1 DEF CasesInv
<1>6. /\ runs' \in [Job -> 0..MaxRuns] /\ pc' \in [Job -> {"idle", "refresh"} \cup InGroup]
  BY ResearchAssumption DEF StartDiscovery, CasesInv, ResearchTypeOK
<1>7. \A k \in Job : pc'[k] \in InGroup \ {"groups"} => groups'[k] # << >>
  BY DEF StartDiscovery, CasesInv, ResearchTypeOK, InGroup
<1> QED BY <1>5, <1>6, <1>7, NothingWritten DEF StartDiscovery, CasesInv

LEMMA RefreshInv ==
  ASSUME CasesInv, AskedInv, NEW j \in Job, Refresh(j)
  PROVE  CasesInv'
<1> DEFINE p == Head(plan[j])
           r == Sees(j, p.case)
           s == [p.payload EXCEPT !.version = NextVersion(r), !.state = p.to, !.by = "refresh"]
<1>1. p \in PlannedMove /\ Tail(plan[j]) \in Seq(PlannedMove)
  BY DEF Refresh, CasesInv
<1>2. p.case \in Case /\ RowIsSound(r) /\ r \in CaseRow
  BY <1>1, WhatAJobSees DEF PlannedMove
<1>3. s \in Snapshot /\ s.version = NextVersion(r)
  <2>1. NextVersion(r) \in Nat
    BY <1>2 DEF NextVersion, CaseRow
  <2>2. p.payload \in Snapshot /\ p.to \in States
    BY <1>1 DEF PlannedMove
  <2> HIDE DEF p, r
  <2> QED BY <2>1, <2>2 DEF Snapshot
<1>7. s.edge = "hypothesis" => r.request # "none"
  <2>1. 1 \in DOMAIN plan[j] /\ p = plan[j][1]
    BY DEF Refresh, CasesInv
  <2>2. s.edge = p.payload.edge
    <3>1. p.payload \in Snapshot
      BY <1>1 DEF PlannedMove
    <3> QED BY <3>1 DEF Snapshot
  <2>3. p.payload.edge = "hypothesis" => stored[p.case].request # "none"
    BY <2>1 DEF AskedInv
  <2>4. stored[p.case].request # "none" => r.request # "none"
    BY <1>2 DEF AskedInv, Sees
  <2> HIDE DEF s, p, r
  <2> QED BY <2>2, <2>3, <2>4
<1>4. RowIsSound(Published(r, s))
  BY <1>2, <1>3, <1>7, PublishedRowIsSound
<1>5. /\ work' = [work EXCEPT ![p.case] = Published(r, s)] /\ lock' = [lock EXCEPT ![p.case] = j]
      /\ plan' = [plan EXCEPT ![j] = Tail(@)]
      /\ UNCHANGED <<day, sources, stored, pc, runs, groups, answer>>
  BY DEF Refresh
<1>6. ResearchTypeOK' /\ \A d \in Case : RowIsSound(stored'[d]) /\ RowIsSound(work'[d])
  BY <1>2, <1>4, <1>5, RowWritten DEF CasesInv, ResearchTypeOK
<1> QED BY <1>1, <1>5, <1>6 DEF CasesInv

LEMMA GroupsAreGroups ==
  ASSUME CasesInv, NEW j \in Job, NEW c \in Case
  PROVE  Group(j, c) \in CaseGroup
BY DEF Group, CaseGroup, CasesInv, ResearchTypeOK, Completed

LEMMA CollectGroupsInv ==
  ASSUME CasesInv, NEW j \in Job, CollectGroups(j)
  PROVE  CasesInv'
<1>1. PICK some \in SUBSET Case : \E order \in SetToSeqs(some) :
        groups' = [groups EXCEPT ![j] = [i \in DOMAIN order |-> Group(j, order[i])]]
  BY DEF CollectGroups
<1>2. PICK order \in [1..Cardinality(some) -> some] :
        groups' = [groups EXCEPT ![j] = [i \in DOMAIN order |-> Group(j, order[i])]]
  BY <1>1 DEF SetToSeqs
<1>3. Cardinality(some) \in Nat
  BY JobsAreFinite, FS_Subset, FS_CardinalityType
<1>4. \A i \in DOMAIN order : Group(j, order[i]) \in CaseGroup
  BY GroupsAreGroups
<1> DEFINE built == [i \in DOMAIN order |-> Group(j, order[i])]
<1>8. built \in [1..Cardinality(some) -> CaseGroup]
  BY <1>4
<1>9. built \in Seq(CaseGroup)
  BY <1>3, <1>8, BuiltSequence
<1>5. groups' \in [Job -> Seq(CaseGroup)]
  <2> HIDE DEF built
  <2>1. groups' = [groups EXCEPT ![j] = built]
    BY <1>2 DEF built
  <2> QED BY <1>9, <2>1 DEF CasesInv
<1>6. \A k \in Job : pc'[k] \in InGroup \ {"groups"} => groups'[k] # << >>
  BY DEF CollectGroups, CasesInv, ResearchTypeOK, InGroup
<1>7. pc' \in [Job -> {"idle", "refresh"} \cup InGroup] /\ runs' \in [Job -> 0..MaxRuns]
  BY DEF CollectGroups, CasesInv, ResearchTypeOK, InGroup
<1> QED BY <1>5, <1>6, <1>7, NothingWritten DEF CollectGroups, CasesInv

LEMMA StartUpdateInv ==
  ASSUME CasesInv, NEW j \in Update, StartUpdate(j)
  PROVE  CasesInv'
<1>1. j \in Job /\ UpdateOf[j] \in Case
  BY ResearchAssumption DEF Job
<1>2. groups' \in [Job -> Seq(CaseGroup)]
  BY <1>1, GroupsAreGroups DEF StartUpdate, CasesInv
<1>3. \A k \in Job : pc'[k] \in InGroup \ {"groups"} => groups'[k] # << >>
  BY <1>1 DEF StartUpdate, CasesInv, ResearchTypeOK, InGroup
<1>4. pc' \in [Job -> {"idle", "refresh"} \cup InGroup] /\ runs' \in [Job -> 0..MaxRuns]
  <2>1. /\ pc' = [pc EXCEPT ![j] = "groups"] /\ runs' = [runs EXCEPT ![j] = @ + 1]
        /\ runs[j] < MaxRuns
    BY DEF StartUpdate
  <2>2. pc' \in [Job -> {"idle", "refresh"} \cup InGroup]
    <3>1. pc \in [Job -> {"idle", "refresh"} \cup InGroup] /\ "groups" \in InGroup
      BY DEF CasesInv, ResearchTypeOK, InGroup
    <3> QED BY <2>1, <3>1
  <2>3. runs \in [Job -> 0..MaxRuns] /\ runs[j] + 1 \in 0..MaxRuns
    <3>1. runs \in [Job -> 0..MaxRuns]
      BY DEF CasesInv, ResearchTypeOK
    <3>2. runs[j] \in 0..MaxRuns /\ MaxRuns \in Nat
      BY <1>1, <3>1, ResearchAssumption
    <3> QED BY <2>1, <3>1, <3>2
  <2>4. runs' \in [Job -> 0..MaxRuns]
    BY <2>1, <2>3
  <2> QED BY <2>2, <2>4
<1> QED BY <1>2, <1>3, <1>4, NothingWritten DEF StartUpdate, CasesInv

\* The job is done with its group, or with all of them.
LEMMA GroupDone ==
  ASSUME CasesInv, NEW j \in Job, NEW rest \in Seq(CaseGroup),
         groups' = [groups EXCEPT ![j] = rest], pc' = [pc EXCEPT ![j] = "groups"],
         answer' = [answer EXCEPT ![j] = NoAnswer]
  PROVE  /\ groups' \in [Job -> Seq(CaseGroup)] /\ answer' \in [Job -> GroupAnswer]
         /\ \A k \in Job : pc'[k] \in InGroup \ {"groups"} => groups'[k] # << >>
         /\ pc' \in [Job -> {"idle", "refresh"} \cup InGroup]
BY DEF CasesInv, ResearchTypeOK, InGroup, NoAnswer, GroupAnswer, Answer

LEMMA LeavesGroupInv ==
  ASSUME CasesInv, NEW j \in Job,
         SkipGroup(j) \/ FailGroup(j) \/ BudgetSpent(j)
  PROVE  CasesInv'
<1>1. groups[j] \in Seq(CaseGroup)
  BY DEF CasesInv
<1>2. /\ \E rest \in Seq(CaseGroup) : groups' = [groups EXCEPT ![j] = rest]
      /\ pc' = [pc EXCEPT ![j] = "groups"] /\ answer' = [answer EXCEPT ![j] = NoAnswer]
      /\ UNCHANGED <<day, sources, stored, work, lock, runs, plan>>
  <2>1. CASE SkipGroup(j) \/ FailGroup(j)
    <3>1. groups[j] # << >> /\ groups' = [groups EXCEPT ![j] = Tail(groups[j])]
      BY <2>1 DEF SkipGroup, FailGroup, NextGroup
    <3>2. Tail(groups[j]) \in Seq(CaseGroup)
      BY <1>1, <3>1
    <3> QED BY <2>1, <3>1, <3>2 DEF SkipGroup, FailGroup, NextGroup
  <2>2. CASE BudgetSpent(j)
    <3>1. << >> \in Seq(CaseGroup)
      OBVIOUS
    <3> QED BY <2>2, <3>1 DEF BudgetSpent
  <2> QED BY <2>1, <2>2
<1>3. ResearchTypeOK' /\ \A d \in Case : RowIsSound(stored'[d]) /\ RowIsSound(work'[d])
  BY <1>2, GroupDone, NothingWritten DEF CasesInv, ResearchTypeOK
<1> QED BY <1>2, <1>3, GroupDone DEF CasesInv

\* The job goes on to the next stage of its group.
LEMMA NextStage ==
  ASSUME CasesInv, NEW j \in Job, NEW stage \in InGroup, NEW a \in GroupAnswer,
         pc' = [pc EXCEPT ![j] = stage], answer' = [answer EXCEPT ![j] = a],
         groups[j] # << >>, UNCHANGED groups
  PROVE  /\ answer' \in [Job -> GroupAnswer]
         /\ \A k \in Job : pc'[k] \in InGroup \ {"groups"} => groups'[k] # << >>
         /\ pc' \in [Job -> {"idle", "refresh"} \cup InGroup]
BY DEF CasesInv, ResearchTypeOK

LEMMA ProposeCaseInv ==
  ASSUME CasesInv, NEW j \in Job, ProposeCase(j)
  PROVE  CasesInv'
<1>1. /\ pc' = [pc EXCEPT ![j] = "upsert"] /\ answer' = [answer EXCEPT ![j] = answer[j]]
      /\ groups[j] # << >> /\ UNCHANGED <<day, sources, stored, work, lock, runs, plan, groups>>
      /\ answer[j] \in GroupAnswer
  BY DEF ProposeCase, CasesInv
<1>2. /\ answer' \in [Job -> GroupAnswer]
      /\ \A k \in Job : pc'[k] \in InGroup \ {"groups"} => groups'[k] # << >>
      /\ pc' \in [Job -> {"idle", "refresh"} \cup InGroup]
  BY <1>1, NextStage DEF InGroup
<1> QED BY <1>1, <1>2, NothingWritten DEF CasesInv, ResearchTypeOK

LEMMA HeadOfGroups ==
  ASSUME CasesInv, NEW j \in Job, pc[j] \in InGroup \ {"groups"}
  PROVE  /\ groups[j] # << >> /\ Head(groups[j]) \in CaseGroup
         /\ Head(groups[j]).case \in Case /\ Tail(groups[j]) \in Seq(CaseGroup)
         /\ RowIsSound(work[Head(groups[j]).case])
<1>1. groups[j] # << >> /\ groups[j] \in Seq(CaseGroup)
  BY DEF CasesInv
<1>2. Head(groups[j]) \in CaseGroup /\ Tail(groups[j]) \in Seq(CaseGroup)
  BY <1>1
<1> QED BY <1>1, <1>2 DEF CaseGroup, CasesInv

LEMMA UpsertInv ==
  ASSUME CasesInv, NEW j \in Job, Upsert(j)
  PROVE  CasesInv'
<1> DEFINE g == Head(groups[j])
           r == Sees(j, g.case)
           q == [r EXCEPT !.exists = TRUE,
                          !.count = IF g.input > @ THEN g.input ELSE @,
                          !.first = IF r.exists /\ @ < g.first THEN @ ELSE g.first,
                          !.last = IF g.last > @ THEN g.last ELSE @]
<1>1. groups[j] # << >> /\ g \in CaseGroup /\ g.case \in Case
  BY HeadOfGroups DEF Upsert, InGroup
<1>2. RowIsSound(r) /\ r \in CaseRow
  BY <1>1, WhatAJobSees
<1>3. q \in CaseRow
  BY <1>1, <1>2 DEF CaseRow, CaseGroup
<1>4. /\ q.version = r.version /\ q.state = r.state /\ q.snapshots = r.snapshots
      /\ q.edge = r.edge /\ q.request = r.request
  BY <1>2 DEF CaseRow
<1>5. RowIsSound(q)
  <2> HIDE DEF q, r
  <2> QED BY <1>2, <1>3, <1>4, ChangedRowIsSound
<1>6. /\ work' = [work EXCEPT ![g.case] = q] /\ lock' = [lock EXCEPT ![g.case] = j]
      /\ pc' = [pc EXCEPT ![j] = "causal"] /\ answer' = [answer EXCEPT ![j] = answer[j]]
      /\ answer[j] \in GroupAnswer
      /\ UNCHANGED <<day, sources, stored, runs, plan, groups>>
  BY DEF Upsert, CasesInv
<1> HIDE DEF q
<1>7. /\ answer' \in [Job -> GroupAnswer]
      /\ \A k \in Job : pc'[k] \in InGroup \ {"groups"} => groups'[k] # << >>
      /\ pc' \in [Job -> {"idle", "refresh"} \cup InGroup]
  BY <1>1, <1>6, NextStage DEF InGroup
<1>8. ResearchTypeOK' /\ \A d \in Case : RowIsSound(stored'[d]) /\ RowIsSound(work'[d])
  BY <1>1, <1>5, <1>6, <1>7, RowWritten
<1> QED BY <1>6, <1>7, <1>8 DEF CasesInv

LEMMA CausalInv ==
  ASSUME CasesInv, NEW j \in Job, NEW edge \in Answer, Causal(j, edge)
  PROVE  CasesInv'
<1> DEFINE g == Head(groups[j])
           q == WithEdge(work[g.case], g, edge)
           a == [answer[j] EXCEPT !.edge = edge]
<1>1. groups[j] # << >> /\ g \in CaseGroup /\ g.case \in Case /\ RowIsSound(work[g.case])
  BY HeadOfGroups DEF Causal, InGroup
<1>2. RowIsSound(q)
  BY <1>1, WithEdgeIsSound
<1>3. a \in GroupAnswer
  BY DEF CasesInv, GroupAnswer
<1>4. /\ work' = [work EXCEPT ![g.case] = q] /\ pc' = [pc EXCEPT ![j] = "requests"]
      /\ answer' = [answer EXCEPT ![j] = a] /\ lock' = lock
      /\ UNCHANGED <<day, sources, stored, runs, plan, groups>>
  BY DEF Causal, CasesInv
<1> HIDE DEF q, a
<1>5. /\ answer' \in [Job -> GroupAnswer]
      /\ \A k \in Job : pc'[k] \in InGroup \ {"groups"} => groups'[k] # << >>
      /\ pc' \in [Job -> {"idle", "refresh"} \cup InGroup]
  BY <1>1, <1>3, <1>4, NextStage DEF InGroup
<1>6. ResearchTypeOK' /\ \A d \in Case : RowIsSound(stored'[d]) /\ RowIsSound(work'[d])
  BY <1>1, <1>2, <1>4, <1>5, RowWritten
<1> QED BY <1>4, <1>5, <1>6 DEF CasesInv

LEMMA RequestInv ==
  ASSUME CasesInv, NEW j \in Job, NEW matched \in BOOLEAN, Request(j, matched)
  PROVE  CasesInv'
<1> DEFINE g == Head(groups[j])
           q == WithRequest(work[g.case], g, answer[j].edge, matched)
<1>1. groups[j] # << >> /\ g \in CaseGroup /\ g.case \in Case /\ RowIsSound(work[g.case])
  BY HeadOfGroups DEF Request, InGroup
<1>2. answer[j] \in GroupAnswer /\ answer[j].edge \in Answer
  BY DEF CasesInv, GroupAnswer
<1>3. RowIsSound(q)
  BY <1>1, <1>2, WithRequestIsSound
<1>4. /\ work' = [work EXCEPT ![g.case] = q] /\ pc' = [pc EXCEPT ![j] = "value"]
      /\ answer' = [answer EXCEPT ![j] = answer[j]] /\ lock' = lock
      /\ UNCHANGED <<day, sources, stored, runs, plan, groups>>
  BY DEF Request, CasesInv
<1> HIDE DEF q
<1>5. /\ answer' \in [Job -> GroupAnswer]
      /\ \A k \in Job : pc'[k] \in InGroup \ {"groups"} => groups'[k] # << >>
      /\ pc' \in [Job -> {"idle", "refresh"} \cup InGroup]
  BY <1>1, <1>2, <1>4, NextStage DEF InGroup
<1>6. ResearchTypeOK' /\ \A d \in Case : RowIsSound(stored'[d]) /\ RowIsSound(work'[d])
  BY <1>1, <1>3, <1>4, <1>5, RowWritten
<1> QED BY <1>4, <1>5, <1>6 DEF CasesInv

LEMMA AssessInv ==
  ASSUME CasesInv, NEW j \in Job, NEW valued \in BOOLEAN, Assess(j, valued)
  PROVE  CasesInv'
<1> DEFINE g == Head(groups[j])
           r == work[g.case]
           q == [r EXCEPT !.valued = valued]
           a == [answer[j] EXCEPT !.valued = valued]
<1>1. groups[j] # << >> /\ g \in CaseGroup /\ g.case \in Case /\ RowIsSound(r)
  BY HeadOfGroups DEF Assess, InGroup
<1>2. RowIsSound(q)
  <2>1. r \in CaseRow
    BY <1>1 DEF RowIsSound
  <2>2. /\ q \in CaseRow /\ q.version = r.version /\ q.state = r.state
        /\ q.snapshots = r.snapshots /\ q.edge = r.edge /\ q.request = r.request
    BY <2>1 DEF CaseRow
  <2> QED BY <1>1, <2>1, <2>2, ChangedRowIsSound
<1>3. a \in GroupAnswer
  BY DEF CasesInv, GroupAnswer
<1>4. /\ work' = [work EXCEPT ![g.case] = q] /\ pc' = [pc EXCEPT ![j] = "review"]
      /\ answer' = [answer EXCEPT ![j] = a] /\ lock' = lock
      /\ UNCHANGED <<day, sources, stored, runs, plan, groups>>
  BY DEF Assess, CasesInv
<1> HIDE DEF q, a
<1>5. /\ answer' \in [Job -> GroupAnswer]
      /\ \A k \in Job : pc'[k] \in InGroup \ {"groups"} => groups'[k] # << >>
      /\ pc' \in [Job -> {"idle", "refresh"} \cup InGroup]
  BY <1>1, <1>3, <1>4, NextStage DEF InGroup
<1>6. ResearchTypeOK' /\ \A d \in Case : RowIsSound(stored'[d]) /\ RowIsSound(work'[d])
  BY <1>1, <1>2, <1>4, <1>5, RowWritten
<1> QED BY <1>4, <1>5, <1>6 DEF CasesInv

LEMMA ReviewInv ==
  ASSUME CasesInv, NEW j \in Job, NEW reviewed \in BOOLEAN, Review(j, reviewed)
  PROVE  CasesInv'
<1> DEFINE a == [answer[j] EXCEPT !.reviewed = reviewed]
<1>1. groups[j] # << >>
  BY HeadOfGroups DEF Review, InGroup
<1>2. a \in GroupAnswer
  BY DEF CasesInv, GroupAnswer
<1>3. /\ pc' = [pc EXCEPT ![j] = "publish"] /\ answer' = [answer EXCEPT ![j] = a]
      /\ UNCHANGED <<day, sources, stored, work, lock, runs, plan, groups>>
  BY DEF Review
<1> HIDE DEF a
<1>4. /\ answer' \in [Job -> GroupAnswer]
      /\ \A k \in Job : pc'[k] \in InGroup \ {"groups"} => groups'[k] # << >>
      /\ pc' \in [Job -> {"idle", "refresh"} \cup InGroup]
  BY <1>1, <1>2, <1>3, NextStage DEF InGroup
<1> QED BY <1>3, <1>4, NothingWritten DEF CasesInv, ResearchTypeOK

LEMMA PublishInv ==
  ASSUME CasesInv, AskedInv, NEW j \in Job, Publish(j)
  PROVE  CasesInv'
<1> DEFINE g == Head(groups[j])
           r == work[g.case]
           a == answer[j]
           state == Gated(NextState(r, Cardinality(r.snapshots) + 1,
                                    a.edge # "absent" /\ a.valued /\ a.reviewed), r)
           s == [version |-> NextVersion(r), state |-> state, input |-> g.input,
                 edge |-> a.edge, open |-> Open(r), valued |-> a.valued,
                 reviewed |-> a.reviewed,
                 done |-> IF j \in Discovery THEN g.input ELSE 0, by |-> "pipeline"]
<1>1. groups[j] # << >> /\ g \in CaseGroup /\ g.case \in Case /\ RowIsSound(r)
      /\ Tail(groups[j]) \in Seq(CaseGroup)
  BY HeadOfGroups DEF Publish, InGroup
<1>2. r \in CaseRow /\ a \in GroupAnswer
  BY <1>1 DEF RowIsSound, CasesInv
<1>3. state \in States
  BY <1>2, StatesAreStates
<1>4. s \in Snapshot /\ s.version = NextVersion(r)
  <2> HIDE DEF state, r, g, a
  <2>1. NextVersion(r) \in Nat /\ g.input \in Nat
    BY <1>1, <1>2 DEF NextVersion, CaseRow, CaseGroup
  <2>3. (IF j \in Discovery THEN g.input ELSE 0) \in Nat
    BY <2>1
  <2>2. a.edge \in Answer /\ a.valued \in BOOLEAN /\ a.reviewed \in BOOLEAN
    BY <1>2 DEF GroupAnswer
  <2>4. Open(r) \in BOOLEAN
    BY Zenon DEF Open
  <2>5. s.version = NextVersion(r)
    BY DEF s
  <2>6. s \in Snapshot
    BY <1>3, <2>1, <2>2, <2>3, <2>4, Zenon DEF Snapshot
  <2> QED BY <2>5, <2>6
<1>5. /\ \E q \in {r, Published(r, s)} : work' = [work EXCEPT ![g.case] = q]
      /\ NextGroup(j) /\ UNCHANGED <<day, sources, stored, lock, runs, plan>>
  BY DEF Publish
<1>9. s.edge = "hypothesis" => r.request # "none"
  <2>1. pc[j] = "publish" /\ s.edge = a.edge
    BY DEF Publish
  <2> QED BY <2>1 DEF AskedInv, AtStage, InGroup
<1>6. RowIsSound(Published(r, s))
  BY <1>1, <1>4, <1>9, PublishedRowIsSound
<1>7. /\ groups' \in [Job -> Seq(CaseGroup)] /\ answer' \in [Job -> GroupAnswer]
      /\ \A k \in Job : pc'[k] \in InGroup \ {"groups"} => groups'[k] # << >>
      /\ pc' \in [Job -> {"idle", "refresh"} \cup InGroup]
  BY <1>1, <1>5, GroupDone DEF NextGroup
<1>8. ResearchTypeOK' /\ \A d \in Case : RowIsSound(stored'[d]) /\ RowIsSound(work'[d])
  <2> HIDE DEF s, r, g
  <2> QED BY <1>1, <1>5, <1>6, <1>7, RowWritten
<1> QED BY <1>5, <1>7, <1>8 DEF CasesInv

LEMMA CasesNextInv == CasesInv /\ AskedInv /\ [ResearchNext]_researchVars => CasesInv'
<1> SUFFICES ASSUME CasesInv, AskedInv, [ResearchNext]_researchVars PROVE CasesInv'
  OBVIOUS
<1>1. CASE UNCHANGED researchVars
  BY <1>1 DEF researchVars, CasesInv, ResearchTypeOK
<1>2. CASE DayPasses \/ \E c \in Case : NewEvidence(c)
  BY <1>2, SourcesInv
<1>3. ASSUME NEW j \in Job, Start(j) PROVE CasesInv'
  BY <1>3, StartDiscoveryInv, StartUpdateInv DEF Start
<1>4. ASSUME NEW j \in Job, Step(j) PROVE CasesInv'
  BY <1>4, RefreshInv, CollectGroupsInv, LeavesGroupInv, ProposeCaseInv, UpsertInv,
     CausalInv, RequestInv, AssessInv, ReviewInv, PublishInv, CommitInv DEF Step
<1>5. ASSUME NEW j \in Job,
             FailGroup(j) \/ BudgetSpent(j) \/ FailRefresh(j) \/ FailUpdate(j) \/ LoseLease(j)
      PROVE  CasesInv'
  BY <1>5, LeavesGroupInv, FailRefreshInv, RollBackInv DEF FailUpdate, LoseLease
<1> QED BY <1>1, <1>2, <1>3, <1>4, <1>5 DEF ResearchNext
-----------------------------------------------------------------------------
(* Every step keeps what is asked for *)

\* A step of j leaves the other jobs and the rows they have alone.
OnlyOwn(j) ==
  \A k \in Job \ {j} :
    /\ pc'[k] = pc[k] /\ groups'[k] = groups[k] /\ answer'[k] = answer[k]
    /\ \A c \in Case : lock[c] = k => lock'[c] = k /\ work'[c] = work[c]

LEMMA OthersStay ==
  ASSUME CasesInv, AskedInv, NEW j \in Job, OnlyOwn(j), NEW k \in Job \ {j}
  PROVE  AtStage(k)'
<1> SUFFICES ASSUME pc[k] \in InGroup \ {"groups", "upsert"} PROVE AtStage(k)'
  BY DEF OnlyOwn, AtStage
<1> DEFINE c == Head(groups[k]).case
<1>1. c \in Case
  BY HeadOfGroups
<1>2. lock[c] = k
  BY DEF AskedInv, AtStage
<1>3. lock'[c] = k /\ work'[c] = work[c] /\ Head(groups'[k]).case = c
  BY <1>1, <1>2 DEF OnlyOwn
<1> QED BY <1>2, <1>3 DEF AskedInv, AtStage, OnlyOwn

LEMMA PlansStay ==
  ASSUME CasesInv, AskedInv, NEW k \in Job,
         \A c \in Case : stored[c].request # "none" => stored'[c].request # "none",
         \/ plan'[k] = plan[k] \/ plan'[k] = << >>
         \/ (plan[k] # << >> /\ plan'[k] = Tail(plan[k]))
  PROVE  \A n \in DOMAIN plan'[k] :
           plan'[k][n].payload.edge = "hypothesis" => stored'[plan'[k][n].case].request # "none"
<1>1. plan[k] \in Seq(PlannedMove)
  BY DEF CasesInv
<1>2. \A n \in DOMAIN plan'[k] : \E m \in DOMAIN plan[k] : plan'[k][n] = plan[k][m]
  <2>1. CASE plan[k] # << >> /\ plan'[k] = Tail(plan[k])
    BY <1>1, <2>1
  <2>2. CASE plan'[k] = << >>
    BY <2>2
  <2>3. CASE plan'[k] = plan[k]
    BY <2>3
  <2> QED BY <2>1, <2>2, <2>3
<1>3. \A m \in DOMAIN plan[k] : plan[k][m].case \in Case
  <2>1. \A m \in DOMAIN plan[k] : plan[k][m] \in PlannedMove
    BY <1>1
  <2> QED BY <2>1 DEF PlannedMove
<1>4. \A m \in DOMAIN plan[k] : plan[k][m].payload.edge = "hypothesis"
        => stored'[plan[k][m].case].request # "none"
  BY <1>3 DEF AskedInv
<1> QED BY <1>2, <1>4, Zenon

\* A job starts or leaves a group, or is about to take one up.
LEMMA BetweenStages ==
  ASSUME CasesInv, AskedInv, NEW j \in Job, NEW at \in {"refresh", "groups", "upsert"},
         pc' = [pc EXCEPT ![j] = at],
         \A k \in Job \ {j} : groups'[k] = groups[k] /\ answer'[k] = answer[k],
         UNCHANGED <<stored, work, lock, plan>>
  PROVE  AskedInv'
<1>1. pc'[j] = at /\ OnlyOwn(j)
  BY DEF OnlyOwn, CasesInv, ResearchTypeOK
<1>2. \A k \in Job : AtStage(k)'
  BY <1>1, OthersStay DEF AtStage, InGroup
<1>3. \A k \in Job : \A n \in DOMAIN plan'[k] :
        plan'[k][n].payload.edge = "hypothesis" => stored'[plan'[k][n].case].request # "none"
  BY DEF AskedInv
<1> QED BY <1>2, <1>3 DEF AskedInv

LEMMA GroupsAsked ==
  ASSUME CasesInv, AskedInv, NEW j \in Job,
         \/ SkipGroup(j) \/ FailGroup(j) \/ BudgetSpent(j)
         \/ ProposeCase(j) \/ CollectGroups(j)
         \/ (j \in Update /\ StartUpdate(j))
  PROVE  AskedInv'
<1>1. /\ \E at \in {"refresh", "groups", "upsert"} : pc' = [pc EXCEPT ![j] = at]
      /\ UNCHANGED <<stored, work, lock, plan>>
  BY DEF SkipGroup, FailGroup, BudgetSpent, ProposeCase, CollectGroups, StartUpdate, NextGroup
<1>2. groups \in [Job -> Seq(CaseGroup)] /\ answer \in [Job -> GroupAnswer]
  BY DEF CasesInv
<1>3. \A k \in Job \ {j} : groups'[k] = groups[k] /\ answer'[k] = answer[k]
  <2>1. (\E x : groups' = [groups EXCEPT ![j] = x]) \/ groups' = groups
    BY DEF SkipGroup, FailGroup, BudgetSpent, ProposeCase, CollectGroups, StartUpdate, NextGroup
  <2>2. (\E x : answer' = [answer EXCEPT ![j] = x]) \/ answer' = answer
    BY DEF SkipGroup, FailGroup, BudgetSpent, ProposeCase, CollectGroups, StartUpdate, NextGroup
  <2> QED BY <1>2, <2>1, <2>2
<1> QED BY <1>1, <1>3, BetweenStages

LEMMA StartDiscoveryAsked ==
  ASSUME CasesInv, AskedInv, NEW j \in Job, StartDiscovery(j)
  PROVE  AskedInv'
<1>1. pc'[j] = "refresh" /\ OnlyOwn(j) /\ UNCHANGED <<stored, work>>
  BY DEF StartDiscovery, OnlyOwn, CasesInv, ResearchTypeOK
<1>2. \A k \in Job : AtStage(k)'
  BY <1>1, OthersStay DEF AtStage, InGroup
<1>3. PICK moving \in SUBSET Case :
        \E order \in SetToSeqs(moving) :
          plan' = [plan EXCEPT ![j] = [n \in DOMAIN order |->
                     [case |-> order[n], to |-> Transition(stored[order[n]]),
                      payload |-> Payload(stored[order[n]])]]]
  BY DEF StartDiscovery
<1>4. PICK order \in [1..Cardinality(moving) -> moving] :
        plan' = [plan EXCEPT ![j] = [n \in DOMAIN order |->
                     [case |-> order[n], to |-> Transition(stored[order[n]]),
                      payload |-> Payload(stored[order[n]])]]]
  BY <1>3 DEF SetToSeqs
<1>5. \A c \in Case : Payload(stored[c]).edge = "hypothesis" => stored[c].request # "none"
  <2> TAKE c \in Case
  <2>1. RowIsSound(stored[c])
    BY DEF CasesInv
  <2>2. Payload(stored[c]) = Empty \/ Payload(stored[c]) \in stored[c].snapshots
    BY DEF Payload, CurrentSnapshots
  <2>3. Empty.edge = "absent"
    BY DEF Empty
  <2> QED BY <2>1, <2>2, <2>3 DEF RowIsSound
<1>6. \A k \in Job : \A n \in DOMAIN plan'[k] :
        plan'[k][n].payload.edge = "hypothesis" => stored'[plan'[k][n].case].request # "none"
  <2> TAKE k \in Job
  <2>1. CASE k # j
    <3>1. plan'[k] = plan[k]
      BY <1>4, <2>1 DEF CasesInv
    <3> QED BY <1>1, <3>1 DEF AskedInv
  <2>2. CASE k = j
    <3>1. plan'[j] = [n \in DOMAIN order |->
                     [case |-> order[n], to |-> Transition(stored[order[n]]),
                      payload |-> Payload(stored[order[n]])]]
      BY <1>4 DEF CasesInv
    <3>2. \A n \in DOMAIN order : order[n] \in Case
      OBVIOUS
    <3> QED BY <1>1, <1>5, <2>2, <3>1, <3>2
  <2> QED BY <2>1, <2>2
<1> QED BY <1>1, <1>2, <1>6 DEF AskedInv

\* A job gives its rows back, written or not.
LEMMA UndoneAsked ==
  ASSUME CasesInv, AskedInv, NEW j \in Job,
         RollBack(j) \/ FailRefresh(j) \/ Commit(j)
  PROVE  AskedInv'
<1>1. pc'[j] \in {"idle", "refresh"} /\ OnlyOwn(j)
  <2>1. /\ lock' = [c \in Case |-> IF lock[c] = j THEN NoJob ELSE lock[c]]
        /\ \A c \in Case : lock[c] # j => work'[c] = work[c]
    BY DEF RollBack, FailRefresh, Commit, Undo
  <2>2. /\ pc' \in {pc, [pc EXCEPT ![j] = "idle"]}
        /\ groups' \in {groups, [groups EXCEPT ![j] = << >>]}
        /\ answer' \in {answer, [answer EXCEPT ![j] = NoAnswer]}
        /\ pc' = pc => pc[j] \in {"idle", "refresh"}
    <3>1. RollBack(j) => /\ pc' = [pc EXCEPT ![j] = "idle"]
                         /\ groups' = [groups EXCEPT ![j] = << >>]
                         /\ answer' = [answer EXCEPT ![j] = NoAnswer]
      BY DEF RollBack
    <3>2. FailRefresh(j) => pc[j] = "refresh" /\ UNCHANGED <<pc, groups, answer>>
      BY DEF FailRefresh
    <3>3. Commit(j) => pc' = [pc EXCEPT ![j] = "idle"] /\ UNCHANGED <<groups, answer>>
      BY DEF Commit
    <3>4. pc' = [pc EXCEPT ![j] = "idle"] /\ pc' = pc => pc[j] = "idle"
      BY DEF CasesInv, ResearchTypeOK
    <3> QED BY <3>1, <3>2, <3>3, <3>4
  <2>3. pc \in [Job -> {"idle", "refresh"} \cup InGroup] /\ groups \in [Job -> Seq(CaseGroup)]
        /\ answer \in [Job -> GroupAnswer]
    BY DEF CasesInv, ResearchTypeOK
  <2>4. \A k \in Job \ {j} : pc'[k] = pc[k] /\ groups'[k] = groups[k] /\ answer'[k] = answer[k]
    BY <2>2, <2>3
  <2>5. pc'[j] \in {"idle", "refresh"}
    BY <2>2, <2>3
  <2> QED BY <2>1, <2>4, <2>5 DEF OnlyOwn
<1>2. \A k \in Job : AtStage(k)'
  BY <1>1, OthersStay DEF AtStage, InGroup
<1>3. \A c \in Case : /\ stored[c].request # "none" => stored'[c].request # "none"
                      /\ stored'[c].request # "none" => work'[c].request # "none"
  <2> TAKE c \in Case
  <2>1. stored[c].request # "none" => work[c].request # "none"
    BY DEF AskedInv
  <2>2. CASE RollBack(j) \/ FailRefresh(j)
    <3>1. stored' = stored /\ work' = [d \in Case |-> IF lock[d] = j THEN stored[d] ELSE work[d]]
      BY <2>2 DEF RollBack, FailRefresh, Undo
    <3> QED BY <2>1, <3>1
  <2>3. CASE Commit(j)
    <3>1. work' = work /\ stored' = [d \in Case |-> IF lock[d] = j THEN work[d] ELSE stored[d]]
      BY <2>3 DEF Commit
    <3> QED BY <2>1, <3>1
  <2> QED BY <2>2, <2>3
<1>4. \A k \in Job : plan'[k] = plan[k] \/ plan'[k] = << >>
  BY DEF RollBack, FailRefresh, Commit, CasesInv
<1> QED BY <1>2, <1>3, <1>4, PlansStay DEF AskedInv

\* A job writes a row no other job has and keeps what is asked for it.
WritesRow(j, c, q) ==
  /\ lock[c] \in {NoJob, j} /\ (stored[c].request # "none" => q.request # "none")
  /\ work' = [work EXCEPT ![c] = q] /\ lock' \in {lock, [lock EXCEPT ![c] = j]}
  /\ UNCHANGED stored
OthersGoOn(j) ==
  /\ \A k \in Job \ {j} : pc'[k] = pc[k] /\ groups'[k] = groups[k] /\ answer'[k] = answer[k]
  /\ \A k \in Job : plan'[k] = plan[k] \/ (plan[k] # << >> /\ plan'[k] = Tail(plan[k]))

LEMMA RowAsked ==
  ASSUME CasesInv, AskedInv, NEW j \in Job, NEW c \in Case, NEW q,
         WritesRow(j, c, q), OthersGoOn(j), AtStage(j)'
  PROVE  AskedInv'
<1>1. OnlyOwn(j)
  BY JobsAreFinite DEF OnlyOwn, CasesInv, ResearchTypeOK, WritesRow, OthersGoOn
<1>2. \A k \in Job : AtStage(k)'
  BY <1>1, OthersStay
<1>3. \A d \in Case : /\ stored[d].request # "none" => stored'[d].request # "none"
                      /\ stored'[d].request # "none" => work'[d].request # "none"
  BY DEF AskedInv, CasesInv, ResearchTypeOK, WritesRow
<1>4. \A k \in Job : \A n \in DOMAIN plan'[k] :
        plan'[k][n].payload.edge = "hypothesis" => stored'[plan'[k][n].case].request # "none"
  BY <1>3, PlansStay DEF OthersGoOn
<1> QED BY <1>2, <1>3, <1>4 DEF AskedInv

LEMMA SeenRequestsStay ==
  ASSUME CasesInv, AskedInv, NEW j \in Job, NEW c \in Case
  PROVE  stored[c].request # "none" => Sees(j, c).request # "none"
BY DEF AskedInv, Sees

LEMMA RefreshAsked ==
  ASSUME CasesInv, AskedInv, NEW j \in Job, Refresh(j)
  PROVE  AskedInv'
<1> DEFINE p == Head(plan[j])
           r == Sees(j, p.case)
           s == [p.payload EXCEPT !.version = NextVersion(r), !.state = p.to, !.by = "refresh"]
<1>1. p.case \in Case
  <2>1. plan[j] \in Seq(PlannedMove) /\ plan[j] # << >>
    BY DEF Refresh, CasesInv
  <2>2. p \in PlannedMove
    BY <2>1
  <2> QED BY <2>2 DEF PlannedMove
<1>2. r \in CaseRow /\ (stored[p.case].request # "none" => r.request # "none")
  BY <1>1, WhatAJobSees, SeenRequestsStay
<1>3. Published(r, s).request = r.request
  <2> HIDE DEF s, r
  <2> QED BY <1>2 DEF Published, CaseRow
<1>4. /\ work' = [work EXCEPT ![p.case] = Published(r, s)] /\ lock' = [lock EXCEPT ![p.case] = j]
      /\ lock[p.case] \in {NoJob, j} /\ plan' = [plan EXCEPT ![j] = Tail(@)] /\ plan[j] # << >>
      /\ UNCHANGED <<stored, pc, groups, answer>> /\ pc[j] = "refresh"
  BY DEF Refresh, MayLock
<1> HIDE DEF p, r, s
<1>5. AtStage(j)'
  BY <1>4 DEF AtStage, InGroup
<1>6. OthersGoOn(j)
  BY <1>4 DEF CasesInv, OthersGoOn
<1>7. WritesRow(j, p.case, Published(r, s))
  BY <1>2, <1>3, <1>4 DEF WritesRow
<1> QED BY <1>1, <1>5, <1>6, <1>7, RowAsked

LEMMA UpsertAsked ==
  ASSUME CasesInv, AskedInv, NEW j \in Job, Upsert(j)
  PROVE  AskedInv'
<1> DEFINE g == Head(groups[j])
           r == Sees(j, g.case)
           q == [r EXCEPT !.exists = TRUE,
                          !.count = IF g.input > @ THEN g.input ELSE @,
                          !.first = IF r.exists /\ @ < g.first THEN @ ELSE g.first,
                          !.last = IF g.last > @ THEN g.last ELSE @]
<1>1. g.case \in Case
  BY HeadOfGroups DEF Upsert, InGroup
<1>2. r \in CaseRow /\ (stored[g.case].request # "none" => r.request # "none")
  BY <1>1, WhatAJobSees, SeenRequestsStay
<1>3. q.request = r.request
  BY <1>2 DEF CaseRow
<1>4. /\ work' = [work EXCEPT ![g.case] = q] /\ lock' = [lock EXCEPT ![g.case] = j]
      /\ lock[g.case] \in {NoJob, j} /\ pc' = [pc EXCEPT ![j] = "causal"]
      /\ UNCHANGED <<stored, plan, groups, answer>>
  BY DEF Upsert, MayLock
<1> HIDE DEF q, r
<1>5. AtStage(j)'
  <2>1. pc'[j] = "causal" /\ lock'[g.case] = j /\ Head(groups'[j]).case = g.case
    BY <1>1, <1>4 DEF CasesInv, ResearchTypeOK
  <2> QED BY <2>1 DEF AtStage
<1>6. OthersGoOn(j)
  BY <1>4 DEF CasesInv, ResearchTypeOK, OthersGoOn
<1>7. WritesRow(j, g.case, q)
  BY <1>2, <1>3, <1>4 DEF WritesRow
<1> QED BY <1>1, <1>5, <1>6, <1>7, RowAsked

\* A stage of a group, from its row to what it makes of it.
LEMMA StageAsked ==
  ASSUME CasesInv, AskedInv, NEW j \in Job, NEW at, NEW a, NEW q,
         pc[j] \in InGroup \ {"groups", "upsert"},
         work[Head(groups[j]).case].request # "none" => q.request # "none",
         work' = [work EXCEPT ![Head(groups[j]).case] = q],
         pc' = [pc EXCEPT ![j] = at], answer' = [answer EXCEPT ![j] = a],
         UNCHANGED <<stored, lock, plan, groups>>,
         at = "requests" /\ a.edge = "hypothesis" => q.edge # "absent",
         at \in {"value", "review", "publish"} /\ a.edge = "hypothesis" => q.request # "none"
  PROVE  AskedInv'
<1> DEFINE c == Head(groups[j]).case
<1>1. c \in Case /\ lock[c] = j
  BY HeadOfGroups DEF AskedInv, AtStage
<1>2. stored[c].request # "none" => q.request # "none"
  BY <1>1 DEF AskedInv
<1>3. /\ pc'[j] = at /\ answer'[j] = a /\ work'[c] = q
      /\ \A k \in Job \ {j} : pc'[k] = pc[k] /\ answer'[k] = answer[k]
  BY <1>1 DEF CasesInv, ResearchTypeOK
<1>4. AtStage(j)'
  BY <1>1, <1>3 DEF AtStage
<1>5. OthersGoOn(j)
  BY <1>3 DEF OthersGoOn
<1>6. WritesRow(j, c, q)
  BY <1>1, <1>2 DEF WritesRow
<1> HIDE DEF c
<1> QED BY <1>1, <1>4, <1>5, <1>6, RowAsked

LEMMA CausalAsked ==
  ASSUME CasesInv, AskedInv, NEW j \in Job, NEW edge \in Answer, Causal(j, edge)
  PROVE  AskedInv'
<1> DEFINE g == Head(groups[j])
           q == WithEdge(work[g.case], g, edge)
           a == [answer[j] EXCEPT !.edge = edge]
<1>1. g \in CaseGroup /\ RowIsSound(work[g.case]) /\ pc[j] = "causal"
  BY HeadOfGroups DEF Causal, InGroup
<1>2. /\ work[g.case].request # "none" => q.request # "none"
      /\ edge # "absent" => q.edge # "absent"
  BY <1>1, WithEdgeIsSound
<1>3. a.edge = edge
  BY DEF CasesInv, GroupAnswer
<1>4. /\ work' = [work EXCEPT ![g.case] = q] /\ pc' = [pc EXCEPT ![j] = "requests"]
      /\ answer' = [answer EXCEPT ![j] = a] /\ UNCHANGED <<stored, lock, plan, groups>>
  BY DEF Causal
<1> HIDE DEF q, a
<1> QED BY <1>1, <1>2, <1>3, <1>4, StageAsked DEF InGroup

LEMMA RequestAsked ==
  ASSUME CasesInv, AskedInv, NEW j \in Job, NEW matched \in BOOLEAN, Request(j, matched)
  PROVE  AskedInv'
<1> DEFINE g == Head(groups[j])
           q == WithRequest(work[g.case], g, answer[j].edge, matched)
<1>1. g \in CaseGroup /\ RowIsSound(work[g.case]) /\ pc[j] = "requests"
  BY HeadOfGroups DEF Request, InGroup
<1>2. answer[j] \in GroupAnswer /\ answer[j].edge \in Answer
  BY DEF CasesInv, GroupAnswer
<1>3. answer[j].edge = "hypothesis" => work[g.case].edge # "absent"
  BY <1>1 DEF AskedInv, AtStage, InGroup
<1>4. /\ work[g.case].request # "none" => q.request # "none"
      /\ answer[j].edge = "hypothesis" => q.request # "none"
  BY <1>1, <1>2, <1>3, WithRequestIsSound
<1>5. /\ work' = [work EXCEPT ![g.case] = q] /\ pc' = [pc EXCEPT ![j] = "value"]
      /\ answer' = [answer EXCEPT ![j] = answer[j]]
      /\ UNCHANGED <<stored, lock, plan, groups>>
  BY DEF Request, CasesInv
<1> HIDE DEF q
<1> QED BY <1>1, <1>4, <1>5, StageAsked DEF InGroup

LEMMA AssessAsked ==
  ASSUME CasesInv, AskedInv, NEW j \in Job, NEW valued \in BOOLEAN, Assess(j, valued)
  PROVE  AskedInv'
<1> DEFINE g == Head(groups[j])
           q == [work[g.case] EXCEPT !.valued = valued]
           a == [answer[j] EXCEPT !.valued = valued]
<1>1. g.case \in Case /\ RowIsSound(work[g.case]) /\ pc[j] = "value"
  BY HeadOfGroups DEF Assess, InGroup
<1>2. q.request = work[g.case].request
  BY <1>1 DEF RowIsSound, CaseRow
<1>3. a.edge = answer[j].edge
  BY DEF CasesInv, GroupAnswer
<1>4. answer[j].edge = "hypothesis" => work[g.case].request # "none"
  BY <1>1 DEF AskedInv, AtStage, InGroup
<1>5. /\ work' = [work EXCEPT ![g.case] = q] /\ pc' = [pc EXCEPT ![j] = "review"]
      /\ answer' = [answer EXCEPT ![j] = a] /\ UNCHANGED <<stored, lock, plan, groups>>
  BY DEF Assess
<1> HIDE DEF q, a
<1> QED BY <1>1, <1>2, <1>3, <1>4, <1>5, StageAsked DEF InGroup

LEMMA ReviewAsked ==
  ASSUME CasesInv, AskedInv, NEW j \in Job, NEW reviewed \in BOOLEAN, Review(j, reviewed)
  PROVE  AskedInv'
<1> DEFINE g == Head(groups[j])
           a == [answer[j] EXCEPT !.reviewed = reviewed]
<1>1. g.case \in Case /\ pc[j] = "review"
  BY HeadOfGroups DEF Review, InGroup
<1>2. a.edge = answer[j].edge
  BY DEF CasesInv, GroupAnswer
<1>3. answer[j].edge = "hypothesis" => work[g.case].request # "none"
  BY <1>1 DEF AskedInv, AtStage, InGroup
<1>4. /\ work' = [work EXCEPT ![g.case] = work[g.case]] /\ pc' = [pc EXCEPT ![j] = "publish"]
      /\ answer' = [answer EXCEPT ![j] = a] /\ UNCHANGED <<stored, lock, plan, groups>>
  BY <1>1 DEF Review, CasesInv, ResearchTypeOK
<1> HIDE DEF a
<1> QED BY <1>1, <1>2, <1>3, <1>4, StageAsked DEF InGroup

LEMMA PublishAsked ==
  ASSUME CasesInv, AskedInv, NEW j \in Job, Publish(j)
  PROVE  AskedInv'
<1> DEFINE g == Head(groups[j])
           r == work[g.case]
<1>1. g.case \in Case /\ r \in CaseRow /\ pc[j] = "publish"
  BY HeadOfGroups DEF Publish, InGroup, RowIsSound
<1>2. lock[g.case] = j
  BY <1>1 DEF AskedInv, AtStage, InGroup
<1>3. PICK q : work' = [work EXCEPT ![g.case] = q] /\ q.request = r.request
  <2>1. \E s : work' = [work EXCEPT ![g.case] = r]
               \/ work' = [work EXCEPT ![g.case] = Published(r, s)]
    BY DEF Publish
  <2>2. \A s : Published(r, s).request = r.request
    BY <1>1 DEF Published, CaseRow
  <2> QED BY <2>1, <2>2
<1>4. /\ pc' = [pc EXCEPT ![j] = "groups"] /\ answer' = [answer EXCEPT ![j] = NoAnswer]
      /\ groups' = [groups EXCEPT ![j] = Tail(@)] /\ UNCHANGED <<stored, lock, plan>>
  BY DEF Publish, NextGroup
<1>5. AtStage(j)'
  BY <1>4 DEF AtStage, InGroup, CasesInv, ResearchTypeOK
<1>6. OthersGoOn(j)
  BY <1>4 DEF CasesInv, ResearchTypeOK, OthersGoOn
<1>7. stored[g.case].request # "none" => r.request # "none"
  BY <1>1 DEF AskedInv
<1>8. WritesRow(j, g.case, q)
  BY <1>2, <1>3, <1>4, <1>7 DEF WritesRow
<1> QED BY <1>1, <1>5, <1>6, <1>8, RowAsked

LEMMA AskedNextInv == CasesInv /\ AskedInv /\ [ResearchNext]_researchVars => AskedInv'
<1> SUFFICES ASSUME CasesInv, AskedInv, [ResearchNext]_researchVars PROVE AskedInv'
  OBVIOUS
<1>1. CASE UNCHANGED researchVars
  BY <1>1 DEF researchVars, AskedInv, AtStage
<1>2. CASE DayPasses \/ \E c \in Case : NewEvidence(c)
  BY <1>2 DEF DayPasses, NewEvidence, AskedInv, AtStage
<1>3. ASSUME NEW j \in Job, Start(j) PROVE AskedInv'
  BY <1>3, StartDiscoveryAsked, GroupsAsked DEF Start
<1>4. ASSUME NEW j \in Job, Step(j) PROVE AskedInv'
  BY <1>4, RefreshAsked, GroupsAsked, UpsertAsked, CausalAsked, RequestAsked, AssessAsked,
     ReviewAsked, PublishAsked, UndoneAsked DEF Step
<1>5. ASSUME NEW j \in Job,
             FailGroup(j) \/ BudgetSpent(j) \/ FailRefresh(j) \/ FailUpdate(j) \/ LoseLease(j)
      PROVE  AskedInv'
  BY <1>5, GroupsAsked, UndoneAsked DEF FailUpdate, LoseLease
<1> QED BY <1>1, <1>2, <1>3, <1>4, <1>5 DEF ResearchNext

LEMMA AskedInitInv == ResearchInit => AskedInv
BY DEF ResearchInit, AskedInv, AtStage, InGroup
-----------------------------------------------------------------------------
\* In every reachable state the committed rows and those that transactions
\* work on are sound, and every hypothesis a job is about to publish or to copy
\* is asked for, whatever the models answer and whichever jobs are lost.
THEOREM ResearchInvariant == ResearchSpec => []ResearchInv
<1>1. ResearchInit => ResearchInv
  BY CasesInitInv, AskedInitInv DEF ResearchInv
<1>2. ResearchInv /\ [ResearchNext]_researchVars => ResearchInv'
  BY CasesNextInv, AskedNextInv DEF ResearchInv
<1> QED BY <1>1, <1>2, PTL DEF ResearchSpec

\* Jobs that number the snapshots of a case in long transactions leave no gap
\* and no double, and the row shows the last.
THEOREM SnapshotsAreNumbered == ResearchSpec => []CaseShowsItsLastSnapshot
<1>1. ResearchInv => CaseShowsItsLastSnapshot
  BY DEF ResearchInv, CasesInv, RowIsSound, CaseShowsItsLastSnapshot
<1> QED BY <1>1, ResearchInvariant, PTL

\* No case shows a hypothesis without a data request, also when a group fails
\* between the savepoint of its edges and that of their requests.
THEOREM DataIsAskedFor == ResearchSpec => []ShownHypothesesAreAsked
<1>1. ResearchInv => ShownHypothesesAreAsked
  BY DEF ResearchInv, CasesInv, RowIsSound, ShownHypothesesAreAsked
<1> QED BY <1>1, ResearchInvariant, PTL
-----------------------------------------------------------------------------
StoredRow == [source: Nat, acquired: Nat, created: Nat, updated: Nat, content: Nat]
EvidenceItem == [content: Nat, source: Nat, from: Nat, validFrom: Nat]

\* Overwriting moves the stamp of the table; what is never overwritten still
\* has the stamps it was written with.
ContentIsStamped(r, table) ==
  \/ table \in Silent
  \/ /\ table \in Stamped
     /\ \/ r.content = r[StampOf[table]]
        \/ table = "expectations_sentiment" /\ r.content = r.created
  \/ /\ table \notin Stamped
     /\ r.acquired = r.content /\ r.created = r.content /\ r.updated = r.content

TableInv ==
  /\ clock \in Nat \ {0} /\ kind \in Adapter /\ rows \subseteq StoredRow
  /\ \A r \in rows : ContentIsStamped(r, kind)

CaseState == [state: States \cup {"none"}, snapshots: Nat, began: Nat, detected: Nat]
CaseDraft == [edges: {"none", "hypothesis", "supported"}, valued: BOOLEAN, reviewed: BOOLEAN,
              written: BOOLEAN]
FiledRun == [by: Command, number: Nat, source: {"database", "benchmark"},
             series: Series \cup {0}, date: Nat,
             status: Done \cup {"leakage_failed", "failed"}, leaked: BOOLEAN,
             evidence: SUBSET Nat, cost: Nat, result: CaseState]
ReplayRun == [pc: {"idle", "next", "over"} \cup InReplay, source: {"database", "benchmark"},
              series: Series \cup {0}, dates: Seq(Nat), date: Nat,
              evidence: SUBSET EvidenceItem, groups: Nat, cost: Nat, draft: CaseDraft,
              result: CaseState, errors: BOOLEAN, leaked: BOOLEAN,
              filing: SUBSET FiledRun, aborted: BOOLEAN]
InCase == {"causal", "value", "adversarial", "deliverable", "conclude"}
-----------------------------------------------------------------------------
(* Numbers *)

LEMMA LeastNumber ==
  ASSUME NEW S \in SUBSET Nat, S # {}
  PROVE  Earliest(S) \in S /\ \A n \in S : Earliest(S) <= n
<1>1. IsWellFoundedOn(OpToRel(<, Nat), Nat)
  BY NatLessThanWellFounded, Zenon
<1>2. \E x \in S : \A y \in S : ~ (<<y, x>> \in OpToRel(<, Nat))
  BY <1>1, WFMin, Zenon
<1>3. \A x, y \in Nat : x < y => <<x, y>> \in OpToRel(<, Nat)
  BY Zenon DEF OpToRel
<1>4. \A y \in S : y \in Nat
  OBVIOUS
<1>5. \E x \in S : \A y \in S : ~ (y < x)
  BY <1>2, <1>3, <1>4, Zenon
<1>6. \E x \in S : \A y \in S : x <= y
  BY <1>4, <1>5
<1> QED BY <1>6 DEF Earliest

LEMMA LatestOfTwo ==
  ASSUME NEW a \in Nat, NEW b \in Nat
  PROVE  /\ Latest({a, b}) \in Nat /\ a <= Latest({a, b}) /\ b <= Latest({a, b})
<1>1. \E t \in {a, b} : \A u \in {a, b} : u <= t
  OBVIOUS
<1> QED BY <1>1 DEF Latest

LEMMA LatestOfThree ==
  ASSUME NEW a \in Nat, NEW b \in Nat, NEW c \in Nat
  PROVE  /\ Latest({a, b, c}) \in Nat
         /\ a <= Latest({a, b, c}) /\ b <= Latest({a, b, c}) /\ c <= Latest({a, b, c})
<1>1. \E t \in {a, b, c} : \A u \in {a, b, c} : u <= t
  OBVIOUS
<1> QED BY <1>1 DEF Latest

LEMMA LatestOfFour ==
  ASSUME NEW a \in Nat, NEW b \in Nat, NEW c \in Nat, NEW d \in Nat
  PROVE  /\ Latest({a, b, c, d}) \in Nat
         /\ a <= Latest({a, b, c, d}) /\ b <= Latest({a, b, c, d})
         /\ c <= Latest({a, b, c, d}) /\ d <= Latest({a, b, c, d})
<1>1. \E t \in {a, b, c, d} : \A u \in {a, b, c, d} : u <= t
  OBVIOUS
<1> QED BY <1>1 DEF Latest
-----------------------------------------------------------------------------
(* The tables *)

LEMMA StampsOfTables ==
  /\ Stamped = {"macro_observations", "market_confirmations", "investment_observations",
                "investment_analyses", "public_equities", "public_equity_trends",
                "positioning_reports", "expectations_sentiment"}
  /\ \A k \in Stamped : /\ k = "expectations_sentiment" => StampOf[k] = "source"
                        /\ k = "positioning_reports" => StampOf[k] = "acquired"
                        /\ k \notin {"expectations_sentiment", "positioning_reports"}
                           => StampOf[k] = "updated"
BY DEF Stamped, StampOf

\* An item is available when its content was written, or later.
LEMMA ItemsAreDated ==
  ASSUME TableInv, NEW r \in rows
  PROVE  /\ Item(r) \in EvidenceItem
         /\ kind \notin Silent => Item(r).content <= Item(r).from
<1> DEFINE s == r.source a == r.acquired c == r.created u == r.updated
<1>0. /\ s \in Nat /\ a \in Nat /\ c \in Nat /\ u \in Nat /\ r.content \in Nat
  BY DEF TableInv, StoredRow
<1>1. r["source"] = s /\ r["acquired"] = a /\ r["updated"] = u
  OBVIOUS
<1> HIDE DEF s, a, c, u
<1>2. /\ kind \notin Silent
      => IF kind \notin Stamped THEN a = r.content /\ c = r.content /\ u = r.content
         ELSE \/ r.content = CASE kind = "expectations_sentiment" -> s
                               [] kind = "positioning_reports" -> a
                               [] OTHER -> u
              \/ kind = "expectations_sentiment" /\ r.content = c
  BY <1>1, StampsOfTables DEF TableInv, ContentIsStamped, a, c, u, s
<1>3. AvailableFrom(r) \in Nat
  BY <1>0, LatestOfTwo, LatestOfThree, LatestOfFour
  DEF TableInv, Adapter, AvailableFrom, MacroObservationFrom, OfficialDocumentFrom,
      MacroReleaseFrom, MarketStateFrom, StoryFrom, ConfirmationFrom, ObservationFrom,
      FilingDeltaFrom, AnalysisFrom, SourceClaimFrom, BarFrom, TrendFrom,
      CorporateActionFrom, PositioningFrom, OptionsFrom, ExpectationsFrom, s, a, c, u
<1>4. kind \notin Silent => r.content <= AvailableFrom(r)
  <2> SUFFICES ASSUME kind \notin Silent PROVE r.content <= AvailableFrom(r)
    OBVIOUS
  <2>1. CASE kind \in {"market_confirmations", "investment_observations",
                       "investment_analyses"}
    BY <1>0, <1>2, <2>1, StampsOfTables, LatestOfTwo
    DEF AvailableFrom, ConfirmationFrom, ObservationFrom, AnalysisFrom, s, a, c, u
  <2>2. CASE kind \in {"macro_observations", "public_equities", "public_equity_trends"}
    BY <1>0, <1>2, <2>2, StampsOfTables, LatestOfThree
    DEF AvailableFrom, MacroObservationFrom, BarFrom, TrendFrom, s, a, c, u
  <2>3. CASE kind \in {"positioning_reports", "expectations_sentiment"}
    BY <1>0, <1>2, <2>3, StampsOfTables, LatestOfFour
    DEF AvailableFrom, PositioningFrom, ExpectationsFrom, s, a, c, u
  <2>4. CASE kind \in {"macro_releases", "story_clusters", "option_chain_snapshots"}
    BY <1>0, <1>2, <2>4, StampsOfTables, LatestOfTwo
    DEF AvailableFrom, MacroReleaseFrom, StoryFrom, OptionsFrom, s, a, c, u
  <2>5. CASE kind \in {"source_claims", "corporate_actions"}
    BY <1>0, <1>2, <2>5, StampsOfTables
    DEF AvailableFrom, SourceClaimFrom, CorporateActionFrom, s, a, c, u
  <2> QED BY <2>1, <2>2, <2>3, <2>4, <2>5 DEF TableInv, Adapter, Silent
<1>5. /\ Item(r).content = r.content /\ Item(r).from = AvailableFrom(r)
  BY DEF Item
<1> HIDE DEF AvailableFrom
<1>6. Item(r) \in EvidenceItem
  BY <1>0, <1>3 DEF Item, EvidenceItem, s, c
<1> QED BY <1>4, <1>5, <1>6

LEMMA TimePassesInv ==
  ASSUME TableInv, TimePasses
  PROVE  TableInv'
BY DEF TableInv, TimePasses

\* The writing transaction's time is one of the row's stamps afterwards.
LEMMA WriteInv ==
  ASSUME TableInv, Write
  PROVE  TableInv'
<1>1. PICK begun \in (clock - 1)..clock :
        \/ \E source \in 0..begun : Insert(begun, source)
        \/ Overwrite(begun) \/ OverwriteSilently(begun) \/ AddVersion(begun)
  BY DEF Write
<1>2. begun \in Nat
  BY DEF TableInv
<1>3. ASSUME NEW source \in Nat
      PROVE  NewRow(source, begun) \in StoredRow /\ ContentIsStamped(NewRow(source, begun), kind)
  <2>1. NewRow(source, begun) \in StoredRow
    BY <1>2 DEF NewRow, StoredRow
  <2> DEFINE q == NewRow(source, begun)
  <2>4. /\ q.acquired = begun /\ q.created = begun /\ q.updated = begun /\ q.content = begun
        /\ q["acquired"] = begun /\ q["updated"] = begun
    BY DEF NewRow
  <2> HIDE DEF q
  <2>5. ContentIsStamped(q, kind)
    <3>1. CASE kind \in Stamped
      <4>1. \/ StampOf[kind] \in {"acquired", "updated"} \/ kind = "expectations_sentiment"
        BY <3>1, StampsOfTables
      <4> QED BY <3>1, <4>1, <2>4 DEF ContentIsStamped
    <3>2. CASE kind \notin Stamped
      BY <3>2, <2>4 DEF ContentIsStamped
    <3> QED BY <3>1, <3>2
  <2>2. ContentIsStamped(NewRow(source, begun), kind)
    BY <2>5 DEF q
  <2> QED BY <2>1, <2>2
<1>4. CASE \E source \in 0..begun : Insert(begun, source)
  <2>1. PICK source \in Nat : rows' = {NewRow(source, begun)} /\ clock' = clock /\ kind' = kind
    BY <1>4, <1>2 DEF Insert
  <2> QED BY <1>3, <2>1 DEF TableInv
<1>5. CASE Overwrite(begun)
  <2>1. PICK r \in rows : rows' = {[r EXCEPT ![StampOf[kind]] = begun, !.content = begun]}
    BY <1>5 DEF Overwrite
  <2>2. kind \in Stamped /\ r \in StoredRow /\ clock' = clock /\ kind' = kind
    BY <1>5 DEF Overwrite, TableInv
  <2> DEFINE q == [r EXCEPT ![StampOf[kind]] = begun, !.content = begun]
  <2>3. StampOf[kind] \in {"source", "acquired", "updated"}
    BY <2>2, StampsOfTables
  <2>4. q \in StoredRow /\ q[StampOf[kind]] = begun /\ q.content = begun
    <3> DEFINE stamp == StampOf[kind]
    <3>1. stamp \in {"source", "acquired", "updated"} /\ stamp # "content"
      BY <2>3
    <3> HIDE DEF stamp
    <3>2. [r EXCEPT ![stamp] = begun, !.content = begun] \in StoredRow
      <4>1. CASE stamp = "source"
        BY <4>1, <1>2, <2>2 DEF StoredRow
      <4>2. CASE stamp = "acquired"
        BY <4>2, <1>2, <2>2 DEF StoredRow
      <4>3. CASE stamp = "updated"
        BY <4>3, <1>2, <2>2 DEF StoredRow
      <4> QED BY <3>1, <4>1, <4>2, <4>3
    <3>3. /\ [r EXCEPT ![stamp] = begun, !.content = begun][stamp] = begun
          /\ [r EXCEPT ![stamp] = begun, !.content = begun].content = begun
      <4>1. CASE stamp = "source"
        BY <4>1, <1>2, <2>2 DEF StoredRow
      <4>2. CASE stamp = "acquired"
        BY <4>2, <1>2, <2>2 DEF StoredRow
      <4>3. CASE stamp = "updated"
        BY <4>3, <1>2, <2>2 DEF StoredRow
      <4> QED BY <3>1, <4>1, <4>2, <4>3
    <3> QED BY <3>2, <3>3 DEF stamp
  <2> HIDE DEF q
  <2>5. ContentIsStamped(q, kind)
    BY <2>2, <2>4 DEF ContentIsStamped
  <2>6. rows' = {q}
    BY <2>1 DEF q
  <2> QED BY <2>2, <2>4, <2>5, <2>6 DEF TableInv
<1>6. CASE OverwriteSilently(begun)
  <2>1. PICK r \in rows : rows' = {[r EXCEPT !.content = begun]}
    BY <1>6 DEF OverwriteSilently
  <2>2. kind \in Silent /\ r \in StoredRow /\ clock' = clock /\ kind' = kind
    BY <1>6 DEF OverwriteSilently, TableInv
  <2>3. [r EXCEPT !.content = begun] \in StoredRow
    BY <1>2, <2>2 DEF StoredRow
  <2> QED BY <2>1, <2>2, <2>3 DEF TableInv, ContentIsStamped
<1>7. CASE AddVersion(begun)
  <2>1. PICK r \in rows : rows' = rows \cup {NewRow(r.source, begun)}
    BY <1>7 DEF AddVersion
  <2>2. r.source \in Nat /\ clock' = clock /\ kind' = kind
    BY <1>7 DEF AddVersion, TableInv, StoredRow
  <2> QED BY <1>3, <2>1, <2>2 DEF TableInv
<1> QED BY <1>1, <1>4, <1>5, <1>6, <1>7

\* What a query or a lookup yields is in the table.
LEMMA QueriesRead ==
  ASSUME NEW cutoff
  PROVE  /\ \A i \in Collected(cutoff) : \E r \in rows : i = Item(r)
         /\ \A i \in Found(cutoff) : /\ i.from <= cutoff
                                    /\ \E r \in rows : i = Item(r)
<1>1. ASSUME NEW columns PROVE By(cutoff, columns) \subseteq rows
  BY DEF By
<1>2. ASSUME NEW columns PROVE Newest(By(cutoff, columns)) \subseteq rows
  BY <1>1 DEF Newest
<1>3. Query(cutoff) \subseteq rows
  BY <1>1, <1>2 DEF Query
<1>4. OptionQuery(cutoff) \subseteq rows /\ StoryQuery(cutoff) \subseteq rows
  BY <1>1, <1>2 DEF OptionQuery, StoryQuery
<1>5. /\ DocumentLookup(cutoff) \subseteq rows /\ ClaimLookup(cutoff) \subseteq rows
      /\ DeltaLookup(cutoff) \subseteq rows /\ ObservationLookup(cutoff) \subseteq rows
      /\ AnalysisLookup(cutoff) \subseteq rows /\ StoryLookup(cutoff) \subseteq rows
  BY <1>1, <1>2 DEF DocumentLookup, ClaimLookup, DeltaLookup, ObservationLookup,
     AnalysisLookup, StoryLookup
<1>6. MarketLookup(cutoff) \subseteq rows
  BY <1>1 DEF MarketLookup
<1> QED BY <1>3, <1>4, <1>5, <1>6 DEF Collected, Found
-----------------------------------------------------------------------------
(* What a case is credited with *)

\* The dates at which a series had completed with the case before the run's.
SeenDates(r, S) ==
  {s.date : s \in {t \in S : /\ t.source = r.source /\ t.series = r.series
                            /\ t.date < r.date /\ t.status \in Done
                            /\ t.result # NoResult}}
Credited(r, S) ==
  r.result # NoResult =>
    /\ r.result.snapshots <= Cardinality(SeenDates(r, S)) + 1
    /\ r.result.detected \in SeenDates(r, S) \cup {r.date}

LEMMA DatesAreFinite ==
  ASSUME NEW S, IsFiniteSet(S)
  PROVE  IsFiniteSet({s.date : s \in S})
<1> DEFINE f == [s \in S |-> s.date]
<1>1. f \in Surjection(S, {s.date : s \in S})
  BY DEF Surjection
<1> QED BY <1>1, FS_Surjection

LEMMA MoreRunsMoreDates ==
  ASSUME NEW r, NEW S, NEW T, S \subseteq T, IsFiniteSet(T)
  PROVE  /\ SeenDates(r, S) \subseteq SeenDates(r, T)
         /\ IsFiniteSet(SeenDates(r, S)) /\ IsFiniteSet(SeenDates(r, T))
         /\ Cardinality(SeenDates(r, S)) \in Nat /\ Cardinality(SeenDates(r, T)) \in Nat
         /\ Cardinality(SeenDates(r, S)) <= Cardinality(SeenDates(r, T))
<1> DEFINE Of(U) == {t \in U : /\ t.source = r.source /\ t.series = r.series
                               /\ t.date < r.date /\ t.status \in Done
                               /\ t.result # NoResult}
<1>1. Of(T) \in SUBSET T /\ Of(S) \in SUBSET T /\ Of(S) \subseteq Of(T)
  OBVIOUS
<1>2. IsFiniteSet(Of(T)) /\ IsFiniteSet(Of(S))
  BY <1>1, FS_Subset
<1>3. SeenDates(r, S) = {s.date : s \in Of(S)} /\ SeenDates(r, T) = {s.date : s \in Of(T)}
  BY DEF SeenDates
<1>4. SeenDates(r, S) \in SUBSET SeenDates(r, T)
  BY DEF SeenDates
<1>5. IsFiniteSet(SeenDates(r, T)) /\ IsFiniteSet(SeenDates(r, S))
  <2> HIDE DEF Of
  <2> QED BY <1>2, <1>3, DatesAreFinite
<1> QED BY <1>4, <1>5, FS_Subset, FS_CardinalityType

LEMMA CreditStays ==
  ASSUME NEW r, NEW S, NEW T, S \subseteq T, IsFiniteSet(T), Credited(r, S),
         r.result # NoResult => r.result.snapshots \in Nat
  PROVE  Credited(r, T)
BY MoreRunsMoreDates DEF Credited

LEMMA SameCredit ==
  ASSUME NEW r, NEW q, NEW S, Credited(r, S), q.source = r.source, q.series = r.series,
         q.date = r.date, q.result = r.result
  PROVE  Credited(q, S)
BY DEF Credited, SeenDates
-----------------------------------------------------------------------------
(* The commands *)

\* What holds of a command whatever its stage.
RunIsSound(run, table, committed) ==
  /\ run \in ReplayRun
  /\ run.groups > 0 => run.evidence # {}
  /\ run.pc \in InCase => run.groups > 0
  /\ run.source = "database" /\ table \notin Silent
     => \A i \in run.evidence : i.content <= run.date
  /\ IsFiniteSet(run.filing)
  /\ \A r \in run.filing : r.status \in Done => ~r.leaked
  /\ \A r \in run.filing : Credited(r, committed \cup run.filing)
  /\ Credited(run, committed \cup run.filing)

FiledInv ==
  /\ filed \subseteq FiledRun /\ IsFiniteSet(filed)
  /\ \A r \in filed : r.status \in Done => ~r.leaked
  /\ \A r \in filed : Credited(r, filed)

ReplayInv ==
  /\ TableInv /\ FiledInv
  /\ command \in [Command -> ReplayRun]
  /\ \A c \in Command : RunIsSound(command[c], kind, filed)

LEMMA IdleIsSound ==
  ASSUME NEW table, NEW committed
  PROVE  /\ RunIsSound(Idle, table, committed)
         /\ RunIsSound([Idle EXCEPT !.pc = "next", !.aborted = TRUE], table, committed)
         /\ RunIsSound([Idle EXCEPT !.pc = "over"], table, committed)
         /\ \A source \in {"database", "benchmark"}, series \in Series, dates \in Seq(Nat) :
              RunIsSound([Idle EXCEPT !.pc = "next", !.source = source, !.series = series,
                                      !.dates = dates], table, committed)
<1>1. NoResult \in CaseState /\ NoEdges \in CaseDraft
  BY DEF NoResult, CaseState, NoEdges, CaseDraft
<1>2. << >> \in Seq(Nat)
  OBVIOUS
<1>3. ASSUME NEW q \in ReplayRun, q.pc \notin InCase, q.groups = 0, q.evidence = {},
             q.filing = {}, q.result = NoResult
      PROVE  RunIsSound(q, table, committed)
  BY <1>3, FS_EmptySet DEF RunIsSound, Credited
<1>4. RunIsSound(Idle, table, committed)
  <2>1. Idle \in ReplayRun
    BY <1>1, <1>2 DEF Idle, ReplayRun
  <2> QED BY <1>3, <2>1 DEF Idle, InCase
<1>5. RunIsSound([Idle EXCEPT !.pc = "next", !.aborted = TRUE], table, committed)
  <2>1. [Idle EXCEPT !.pc = "next", !.aborted = TRUE] \in ReplayRun
    BY <1>1, <1>2 DEF Idle, ReplayRun
  <2> QED BY <1>3, <2>1 DEF Idle, InCase
<1>6. RunIsSound([Idle EXCEPT !.pc = "over"], table, committed)
  <2>1. [Idle EXCEPT !.pc = "over"] \in ReplayRun
    BY <1>1, <1>2 DEF Idle, ReplayRun
  <2> QED BY <1>3, <2>1 DEF Idle, InCase
<1>7. ASSUME NEW source \in {"database", "benchmark"}, NEW series \in Series, NEW dates \in Seq(Nat)
      PROVE  RunIsSound([Idle EXCEPT !.pc = "next", !.source = source, !.series = series,
                                     !.dates = dates], table, committed)
  <2>1. [Idle EXCEPT !.pc = "next", !.source = source, !.series = series, !.dates = dates]
        \in ReplayRun
    BY <1>1, <1>2 DEF Idle, ReplayRun
  <2> QED BY <1>3, <2>1 DEF Idle, InCase
<1> QED BY <1>4, <1>5, <1>6, <1>7

\* A run that keeps its table, its case and what it has filed stays sound.
LEMMA SameCase ==
  ASSUME NEW table, NEW committed, NEW x, RunIsSound(x, table, committed), NEW q \in ReplayRun,
         q.source = x.source, q.series = x.series, q.date = x.date, q.evidence = x.evidence,
         q.result = x.result, q.filing = x.filing,
         q.groups > 0 => x.groups > 0, q.pc \in InCase => q.groups > 0
  PROVE  RunIsSound(q, table, committed)
<1>1. Credited(q, committed \cup q.filing)
  BY SameCredit DEF RunIsSound
<1> QED BY <1>1 DEF RunIsSound

LEMMA CommandMoves ==
  ASSUME ReplayInv, NEW c \in Command, NEW q, RunIsSound(q, kind, filed),
         command' = [command EXCEPT ![c] = q], UNCHANGED <<clock, kind, rows, filed>>
  PROVE  ReplayInv'
<1>1. TableInv' /\ FiledInv'
  BY DEF ReplayInv, TableInv, FiledInv
<1>2. q \in ReplayRun
  BY DEF RunIsSound
<1> QED BY <1>1, <1>2 DEF ReplayInv

LEMMA ReplayInitInv == ReplayInit => ReplayInv
<1> SUFFICES ASSUME ReplayInit PROVE ReplayInv
  OBVIOUS
<1>1. TableInv
  BY ReplayAssumption DEF ReplayInit, TableInv
<1>2. FiledInv
  BY FS_EmptySet DEF ReplayInit, FiledInv
<1>3. Idle \in ReplayRun
  BY IdleIsSound DEF RunIsSound
<1> QED BY <1>1, <1>2, <1>3, IdleIsSound DEF ReplayInv, ReplayInit

LEMMA TablesInv ==
  ASSUME ReplayInv, TimePasses \/ Write
  PROVE  ReplayInv'
<1>1. TableInv'
  BY TimePassesInv, WriteInv DEF ReplayInv
<1>2. UNCHANGED <<kind, command, filed>>
  BY DEF TimePasses, Write, Insert, Overwrite, OverwriteSilently, AddVersion
<1> QED BY <1>1, <1>2 DEF ReplayInv, FiledInv

LEMMA StartSomeInv ==
  ASSUME ReplayInv, NEW c \in Command, StartSome(c)
  PROVE  ReplayInv'
<1>1. PICK source \in {"database", "benchmark"}, series \in Series, dates \in ReplayDates :
        StartReplay(c, source, series, dates)
  BY DEF StartSome
<1>2. dates \in Seq(Nat)
  BY ReplayAssumption
<1> QED BY <1>1, <1>2, IdleIsSound, CommandMoves DEF StartReplay

LEMMA StagesCost ==
  ASSUME NEW cost \in Nat
  PROVE  \A end \in StageEnds(cost) : end.cost \in Nat /\ end.ok \in BOOLEAN
<1>1. Price \subseteq Nat
  BY ReplayAssumption
<1> DEFINE E == [ok: BOOLEAN, cost: Nat]
           Call(c) == IF Affordable(c) THEN {c + p : p \in Price} ELSE {}
           Answered(c) == IF c <= RunBudget
                          THEN {[ok |-> TRUE, cost |-> c], [ok |-> FALSE, cost |-> c]}
                          ELSE {[ok |-> FALSE, cost |-> c]}
           Repaired(c) == IF c <= RunBudget THEN UNION {Answered(d) : d \in Call(c)} ELSE {}
<1>2. ASSUME NEW c \in Nat PROVE Call(c) \subseteq Nat
  BY <1>1
<1>3. ASSUME NEW c \in Nat PROVE Answered(c) \subseteq E
  <2>1. [ok |-> TRUE, cost |-> c] \in E /\ [ok |-> FALSE, cost |-> c] \in E
    OBVIOUS
  <2> HIDE DEF E
  <2> QED BY <2>1
<1>4. ASSUME NEW c \in Nat PROVE Repaired(c) \subseteq E
  <2> HIDE DEF E, Call, Answered
  <2> QED BY <1>2, <1>3
<1>5. StageEnds(cost) = {[ok |-> TRUE, cost |-> cost], [ok |-> FALSE, cost |-> cost]}
                          \cup UNION {Answered(c) \cup Repaired(c) : c \in Call(cost)}
  BY DEF StageEnds
<1>6. {[ok |-> TRUE, cost |-> cost], [ok |-> FALSE, cost |-> cost]} \subseteq E
  OBVIOUS
<1>7. StageEnds(cost) \subseteq E
  <2> HIDE DEF E, Call, Answered, Repaired
  <2> QED BY <1>2, <1>3, <1>4, <1>5, <1>6
<1> QED BY <1>7

\* A stage leads to the run it passes to or to the one it fails to, at a cost.
LEMMA StageInv ==
  ASSUME ReplayInv, NEW c \in Command, NEW passed, NEW failed,
         RunIsSound(passed, kind, filed), RunIsSound(failed, kind, filed),
         Stage(c, passed, failed), UNCHANGED <<clock, kind, rows, filed>>
  PROVE  ReplayInv'
<1>1. command[c] \in ReplayRun
  BY DEF ReplayInv
<1>2. command[c].cost \in Nat
  BY <1>1 DEF ReplayRun
<1>3. PICK end \in StageEnds(command[c].cost), leaks \in BOOLEAN :
        command' = [command EXCEPT ![c] =
          [(IF end.ok /\ ~leaks THEN passed ELSE failed) EXCEPT
             !.cost = end.cost, !.leaked = @ \/ (end.ok /\ leaks),
             !.errors = @ \/ ~end.ok \/ leaks]]
  BY DEF Stage
<1>4. end.cost \in Nat /\ end.ok \in BOOLEAN
  BY <1>2, StagesCost
<1>5. PICK x : /\ RunIsSound(x, kind, filed)
               /\ command' = [command EXCEPT ![c] =
                    [x EXCEPT !.cost = end.cost, !.leaked = @ \/ (end.ok /\ leaks),
                              !.errors = @ \/ ~end.ok \/ leaks]]
  BY <1>3
<1> DEFINE q == [x EXCEPT !.cost = end.cost, !.leaked = @ \/ (end.ok /\ leaks),
                          !.errors = @ \/ ~end.ok \/ leaks]
<1>6. x \in ReplayRun
  BY <1>5 DEF RunIsSound
<1>7. /\ q \in ReplayRun
      /\ q.source = x.source /\ q.series = x.series /\ q.date = x.date
      /\ q.evidence = x.evidence /\ q.result = x.result /\ q.filing = x.filing
      /\ q.groups = x.groups /\ q.pc = x.pc
  BY <1>4, <1>6 DEF ReplayRun
<1> HIDE DEF q
<1>8. RunIsSound(q, kind, filed)
  BY <1>5, <1>7, SameCase DEF RunIsSound
<1> QED BY <1>5, <1>8, CommandMoves DEF q

LEMMA RunOfCommand ==
  ASSUME ReplayInv, NEW c \in Command
  PROVE  command[c] \in ReplayRun /\ RunIsSound(command[c], kind, filed)
BY DEF ReplayInv

LEMMA BeginDateInv ==
  ASSUME ReplayInv, NEW c \in Command, BeginDate(c)
  PROVE  ReplayInv'
<1> DEFINE run == command[c]
           date == Head(run.dates)
           seen == Visible(IF run.source = "database" THEN Collected(date) ELSE EpisodeEvidence,
                           date)
           q == [run EXCEPT !.pc = "claims", !.dates = Tail(@), !.date = date, !.evidence = seen,
                            !.groups = IF seen = {} THEN 0 ELSE MaxGroups, !.cost = 0,
                            !.result = NoResult, !.errors = FALSE, !.leaked = FALSE]
<1>1. run \in ReplayRun /\ RunIsSound(run, kind, filed)
  BY RunOfCommand
<1>2. date \in Nat /\ Tail(run.dates) \in Seq(Nat)
  BY <1>1 DEF BeginDate, ReplayRun
<1>3. seen \subseteq EvidenceItem
  <2>1. Collected(date) \subseteq EvidenceItem
    BY QueriesRead, ItemsAreDated DEF ReplayInv
  <2>2. EpisodeEvidence \subseteq EvidenceItem
    BY ReplayAssumption DEF EpisodeEvidence, EvidenceItem
  <2> HIDE DEF date, run
  <2> QED BY <2>1, <2>2 DEF Visible
<1>4. run.source = "database" /\ kind \notin Silent => \A i \in seen : i.content <= date
  <2> SUFFICES ASSUME run.source = "database", kind \notin Silent, NEW i \in seen
               PROVE  i.content <= date
    OBVIOUS
  <2>1. i \in Collected(date) /\ ~(i.from > date)
    BY DEF Visible, Excluded
  <2>2. i \in EvidenceItem /\ i.content <= i.from
    BY <2>1, QueriesRead, ItemsAreDated DEF ReplayInv
  <2> HIDE DEF date, run, seen
  <2> QED BY <1>2, <2>1, <2>2 DEF EvidenceItem
<1>5. NoResult \in CaseState /\ MaxGroups \in Nat
  BY ReplayAssumption DEF NoResult, CaseState
<1>6. command' = [command EXCEPT ![c] = q] /\ UNCHANGED <<clock, kind, rows, filed>>
  BY DEF BeginDate
<1> HIDE DEF seen, date, run
<1>7. q \in ReplayRun
  BY <1>1, <1>2, <1>3, <1>5 DEF ReplayRun, InReplay
<1>8. /\ q.pc = "claims" /\ q.source = run.source /\ q.date = date /\ q.evidence = seen
      /\ q.groups = (IF seen = {} THEN 0 ELSE MaxGroups) /\ q.result = NoResult
      /\ q.filing = run.filing
  BY <1>1 DEF ReplayRun
<1> HIDE DEF q
<1>9. RunIsSound(q, kind, filed)
  <2>1. Credited(q, filed \cup q.filing)
    BY <1>8 DEF Credited
  <2>2. q.groups > 0 => q.evidence # {}
    BY <1>8
  <2> QED BY <1>1, <1>4, <1>7, <1>8, <2>1, <2>2 DEF RunIsSound, InCase
<1> QED BY <1>6, <1>9, CommandMoves

LEMMA NextGroupOfIsSound ==
  ASSUME NEW run, NEW table, NEW committed, RunIsSound(run, table, committed), run.groups > 0
  PROVE  /\ RunIsSound(NextGroupOf(run), table, committed)
         /\ NextGroupOf(run).groups = run.groups - 1
<1> DEFINE q == NextGroupOf(run)
<1>1. run \in ReplayRun /\ NoEdges \in CaseDraft
  BY DEF RunIsSound, NoEdges, CaseDraft
<1>5. run.groups \in Nat /\ run.groups - 1 \in Nat
  <2>1. run.groups \in Nat
    BY <1>1 DEF ReplayRun
  <2> QED BY <2>1
<1>6. q = [run EXCEPT !.pc = "groups", !.groups = run.groups - 1, !.draft = NoEdges]
  BY DEF NextGroupOf
<1>2. /\ q \in ReplayRun /\ q.pc = "groups" /\ q.groups = run.groups - 1
      /\ q.source = run.source /\ q.series = run.series /\ q.date = run.date
      /\ q.evidence = run.evidence /\ q.result = run.result /\ q.filing = run.filing
  BY <1>1, <1>5, <1>6 DEF ReplayRun, InReplay
<1> HIDE DEF q
<1>3. q.pc \notin InCase
  BY <1>2 DEF InCase
<1>4. RunIsSound(q, table, committed)
  BY <1>2, <1>3, SameCase
<1> QED BY <1>2, <1>4 DEF q

\* A run that only moves on to another stage.
LEMMA OtherStage ==
  ASSUME ReplayInv, NEW c \in Command, NEW stage \in InReplay, NEW draft \in CaseDraft,
         stage \in InCase => command[c].groups > 0
  PROVE  RunIsSound([command[c] EXCEPT !.pc = stage, !.draft = draft], kind, filed)
<1> DEFINE run == command[c]
           q == [run EXCEPT !.pc = stage, !.draft = draft]
<1>1. run \in ReplayRun /\ RunIsSound(run, kind, filed)
  BY RunOfCommand
<1>2. /\ q \in ReplayRun /\ q.pc = stage /\ q.groups = run.groups
      /\ q.source = run.source /\ q.series = run.series /\ q.date = run.date
      /\ q.evidence = run.evidence /\ q.result = run.result /\ q.filing = run.filing
  BY <1>1 DEF ReplayRun
<1> HIDE DEF q
<1>3. RunIsSound(q, kind, filed)
  BY <1>1, <1>2, SameCase
<1> QED BY <1>3 DEF q

LEMMA StagesInv ==
  ASSUME ReplayInv, NEW c \in Command,
         \/ Claims(c) \/ Pattern(c) \/ ValueStage(c) \/ AdversarialStage(c) \/ DeliverableStage(c)
         \/ \E edges \in {"none", "hypothesis", "supported"} : CausalStage(c, edges)
  PROVE  ReplayInv'
<1> DEFINE run == command[c]
<1>1. run \in ReplayRun /\ RunIsSound(run, kind, filed)
  BY RunOfCommand
<1>2. run.draft \in CaseDraft /\ (run.pc \in InCase => run.groups > 0)
  BY <1>1 DEF RunIsSound, ReplayRun
<1>3. ASSUME NEW stage \in InReplay, stage \in InCase => run.groups > 0
      PROVE  RunIsSound([run EXCEPT !.pc = stage], kind, filed)
  <2>1. [run EXCEPT !.pc = stage] = [run EXCEPT !.pc = stage, !.draft = run.draft]
    BY <1>1 DEF ReplayRun
  <2> QED BY <1>2, <1>3, <2>1, OtherStage
<1>4. CASE Claims(c)
  BY <1>3, <1>4, StageInv DEF Claims, InReplay, InCase
<1>5. CASE Pattern(c)
  <2>1. run.groups > 0 /\ RunIsSound(NextGroupOf(run), kind, filed)
    BY <1>1, <1>5, NextGroupOfIsSound DEF Pattern
  <2>2. RunIsSound([run EXCEPT !.pc = "causal"], kind, filed)
    BY <1>3, <2>1 DEF InReplay
  <2> QED BY <1>5, <2>1, <2>2, StageInv DEF Pattern
<1>6. CASE \E edges \in {"none", "hypothesis", "supported"} : CausalStage(c, edges)
  <2>1. PICK edges \in {"none", "hypothesis", "supported"} : CausalStage(c, edges)
    BY <1>6
  <2> DEFINE stage == IF edges = "none" THEN "adversarial" ELSE "value"
             draft == [run.draft EXCEPT !.edges = edges]
  <2>2. run.groups > 0
    BY <1>2, <2>1 DEF CausalStage, InCase
  <2>3. draft \in CaseDraft /\ stage \in InReplay
    BY <1>2 DEF CaseDraft, InReplay
  <2>4. RunIsSound([run EXCEPT !.pc = stage, !.draft = draft], kind, filed)
    BY <2>2, <2>3, OtherStage
  <2>5. [run EXCEPT !.pc = stage, !.draft.edges = edges] = [run EXCEPT !.pc = stage, !.draft = draft]
    BY <1>1 DEF ReplayRun
  <2>6. RunIsSound([run EXCEPT !.pc = "adversarial"], kind, filed)
    BY <1>3, <2>2 DEF InReplay
  <2> QED BY <2>1, <2>4, <2>5, <2>6, StageInv DEF CausalStage
<1>7. ASSUME NEW stage \in InReplay, run.groups > 0, NEW passing \in CaseDraft,
             Stage(c, [run EXCEPT !.pc = stage, !.draft = passing], [run EXCEPT !.pc = stage]),
             UNCHANGED <<clock, kind, rows, filed>>
      PROVE  ReplayInv'
  <2>1. RunIsSound([run EXCEPT !.pc = stage, !.draft = passing], kind, filed)
    BY <1>7, OtherStage
  <2>2. RunIsSound([run EXCEPT !.pc = stage], kind, filed)
    BY <1>3, <1>7
  <2> QED BY <1>7, <2>1, <2>2, StageInv
<1>8. CASE ValueStage(c)
  <2>1. run.groups > 0 /\ [run.draft EXCEPT !.valued = TRUE] \in CaseDraft
    BY <1>2, <1>8 DEF ValueStage, InCase, CaseDraft
  <2>2. [[run EXCEPT !.pc = "adversarial"] EXCEPT !.draft.valued = TRUE]
        = [run EXCEPT !.pc = "adversarial", !.draft = [run.draft EXCEPT !.valued = TRUE]]
    BY <1>1 DEF ReplayRun
  <2> QED BY <1>7, <1>8, <2>1, <2>2 DEF ValueStage, InReplay
<1>9. CASE AdversarialStage(c)
  <2>1. run.groups > 0 /\ [run.draft EXCEPT !.reviewed = TRUE] \in CaseDraft
    BY <1>2, <1>9 DEF AdversarialStage, InCase, CaseDraft
  <2>2. [[run EXCEPT !.pc = "deliverable"] EXCEPT !.draft.reviewed = TRUE]
        = [run EXCEPT !.pc = "deliverable", !.draft = [run.draft EXCEPT !.reviewed = TRUE]]
    BY <1>1 DEF ReplayRun
  <2> QED BY <1>7, <1>9, <2>1, <2>2 DEF AdversarialStage, InReplay
<1>10. CASE DeliverableStage(c)
  <2>1. run.groups > 0 /\ [run.draft EXCEPT !.written = TRUE] \in CaseDraft
    BY <1>2, <1>10 DEF DeliverableStage, InCase, CaseDraft
  <2>2. [[run EXCEPT !.pc = "conclude"] EXCEPT !.draft.written = TRUE]
        = [run EXCEPT !.pc = "conclude", !.draft = [run.draft EXCEPT !.written = TRUE]]
    BY <1>1 DEF ReplayRun
  <2> QED BY <1>7, <1>10, <2>1, <2>2 DEF DeliverableStage, InReplay
<1> QED BY <1>4, <1>5, <1>6, <1>8, <1>9, <1>10

\* The earlier runs a case is built on are of dates its series has seen, one of
\* each, and were credited with earlier dates of the same series.
LEMMA EarlierRuns ==
  ASSUME ReplayInv, NEW c \in Command, NEW before \in PerDate(Earlier(c))
  PROVE  LET S == filed \cup command[c].filing
             run == command[c]
         IN  /\ before \subseteq FiledRun /\ IsFiniteSet(S)
             /\ Cardinality(before) \in Nat
             /\ Cardinality(before) <= Cardinality(SeenDates(run, S))
             /\ \A r \in before : /\ r.date \in SeenDates(run, S)
                                  /\ r.result.detected \in SeenDates(run, S)
<1> DEFINE run == command[c]
           S == filed \cup run.filing
           dates == {r.date : r \in Earlier(c)}
<1>1. RunIsSound(run, kind, filed) /\ run \in ReplayRun /\ FiledInv
  BY RunOfCommand DEF ReplayInv
<1>2. IsFiniteSet(S) /\ S \subseteq FiledRun
  BY <1>1, FS_Union DEF RunIsSound, FiledInv, ReplayRun
<1>3. Earlier(c) \in SUBSET S
  BY DEF Earlier
<1>4. /\ before \in SUBSET Earlier(c) /\ Cardinality(before) = Cardinality(dates)
      /\ {r.date : r \in before} = dates
  BY DEF PerDate
<1>5. dates \in SUBSET SeenDates(run, S)
  BY DEF Earlier, SeenDates
<1>6. IsFiniteSet(SeenDates(run, S))
  BY <1>2, MoreRunsMoreDates
<1>7. Cardinality(dates) \in Nat /\ Cardinality(dates) <= Cardinality(SeenDates(run, S))
  BY <1>5, <1>6, FS_Subset, FS_CardinalityType
<1>8. ASSUME NEW r \in before
      PROVE  r.date \in SeenDates(run, S) /\ r.result.detected \in SeenDates(run, S)
  <2>1. /\ r \in S /\ r.source = run.source /\ r.series = run.series /\ r.date < run.date
        /\ r.status \in Done /\ r.result # NoResult
    BY <1>3, <1>4 DEF Earlier
  <2>2. r \in FiledRun /\ r.date \in Nat /\ run.date \in Nat /\ r.result.snapshots \in Nat
    BY <1>1, <1>2, <2>1 DEF FiledRun, ReplayRun, CaseState
  <2>3. Credited(r, S)
    <3>1. CASE r \in filed
      BY <1>1, <1>2, <2>2, <3>1, CreditStays DEF FiledInv
    <3>2. CASE r \in run.filing
      BY <1>1, <3>2 DEF RunIsSound
    <3> QED BY <2>1, <3>1, <3>2
  <2>4. r.result.detected \in SeenDates(r, S) \cup {r.date}
    BY <2>1, <2>3 DEF Credited
  <2>5. r.date \in SeenDates(run, S)
    BY <2>1 DEF SeenDates
  <2>6. SeenDates(r, S) \subseteq SeenDates(run, S)
    <3>1. \A t \in S : t.date \in Nat
      BY <1>2 DEF FiledRun
    <3>2. \A t \in S : t.date < r.date => t.date < run.date
      BY <2>1, <2>2, <3>1
    <3> HIDE DEF S, run
    <3> QED BY <2>1, <3>2 DEF SeenDates
  <2> QED BY <2>4, <2>5, <2>6
<1>9. before \subseteq FiledRun
  BY <1>2, <1>3, <1>4
<1> QED BY <1>2, <1>4, <1>7, <1>8, <1>9

LEMMA ConcludedState ==
  ASSUME NEW run, NEW was, NEW began, NEW n
  PROVE  ReplayedState(run, was, began, n) \in States
<1>1. \A m, days, complete : ActiveState(m, days, n, complete) \in States
  BY DEF ActiveState, States, Ready
<1> HIDE DEF ActiveState
<1> QED BY <1>1 DEF ReplayedState, States

LEMMA ConcludeInv ==
  ASSUME ReplayInv, NEW c \in Command, Conclude(c)
  PROVE  ReplayInv'
<1> DEFINE run == command[c]
           S == filed \cup run.filing
<1>1. run \in ReplayRun /\ RunIsSound(run, kind, filed) /\ run.pc = "conclude"
  BY RunOfCommand DEF Conclude
<1>2. run.groups > 0 /\ run.evidence # {} /\ run.evidence \subseteq EvidenceItem /\ run.date \in Nat
  BY <1>1 DEF RunIsSound, InCase, ReplayRun
<1>3. PICK before \in PerDate(Earlier(c)) :
        LET past == {r.result : r \in before}
            latest == {r \in before : \A s \in before : s.date <= r.date}
            was == IF before = {} THEN "candidate" ELSE (CHOOSE r \in latest : TRUE).result.state
            began == Earliest({i.from : i \in run.evidence} \cup {p.began : p \in past})
            snapshots == Cardinality(before) + 1
        IN  command' = [command EXCEPT ![c] =
              [NextGroupOf(run) EXCEPT
                 !.result = [state |-> ReplayedState(run, was, began, snapshots),
                             snapshots |-> snapshots, began |-> began,
                             detected |-> Earliest({p.detected : p \in past} \cup {run.date})]]]
  BY DEF Conclude
<1> DEFINE past == {r.result : r \in before}
           began == Earliest({i.from : i \in run.evidence} \cup {p.began : p \in past})
           detected == Earliest({p.detected : p \in past} \cup {run.date})
           snapshots == Cardinality(before) + 1
<1>4. /\ before \subseteq FiledRun /\ IsFiniteSet(S) /\ Cardinality(before) \in Nat
      /\ Cardinality(before) <= Cardinality(SeenDates(run, S))
      /\ \A r \in before : r.result.detected \in SeenDates(run, S)
  BY EarlierRuns
<1>5. past \subseteq CaseState
  BY <1>4 DEF FiledRun
<1>6. began \in Nat
  <2>1. /\ {i.from : i \in run.evidence} \subseteq Nat /\ {i.from : i \in run.evidence} # {}
    BY <1>2 DEF EvidenceItem
  <2>2. {p.began : p \in past} \subseteq Nat
    BY <1>5 DEF CaseState
  <2> HIDE DEF past, run
  <2> QED BY <2>1, <2>2, LeastNumber
<1>7. detected \in Nat /\ detected \in SeenDates(run, S) \cup {run.date}
  <2>1. {p.detected : p \in past} \subseteq Nat
    BY <1>5 DEF CaseState
  <2>2. {p.detected : p \in past} \subseteq SeenDates(run, S)
    BY <1>4
  <2> HIDE DEF past, run, S
  <2>3. detected \in {p.detected : p \in past} \cup {run.date}
    BY <1>2, <2>1, LeastNumber
  <2> QED BY <1>2, <2>1, <2>2, <2>3
<1>8. snapshots \in Nat /\ snapshots <= Cardinality(SeenDates(run, S)) + 1
  <2>1. Cardinality(SeenDates(run, S)) \in Nat
    BY <1>4, MoreRunsMoreDates, FS_CardinalityType
  <2> HIDE DEF run, S
  <2> QED BY <1>4, <2>1
<1>9. PICK state \in States : command' = [command EXCEPT ![c] =
              [NextGroupOf(run) EXCEPT
                 !.result = [state |-> state, snapshots |-> snapshots, began |-> began,
                             detected |-> detected]]]
  BY <1>3, ConcludedState
<1> DEFINE result == [state |-> state, snapshots |-> snapshots, began |-> began,
                      detected |-> detected]
           x == NextGroupOf(run)
           q == [x EXCEPT !.result = result]
<1>10. result \in CaseState /\ result.snapshots = snapshots /\ result.detected = detected
  <2> HIDE DEF snapshots, began, detected
  <2> QED BY <1>6, <1>7, <1>8 DEF CaseState
<1>11. RunIsSound(x, kind, filed) /\ x.groups = run.groups - 1
  BY <1>1, <1>2, NextGroupOfIsSound
<1>12. /\ x \in ReplayRun /\ x.filing = run.filing /\ x.source = run.source
       /\ x.series = run.series /\ x.date = run.date
  BY <1>1, <1>11 DEF RunIsSound, NextGroupOf, ReplayRun
<1> HIDE DEF result, x, run
<1>13. /\ q \in ReplayRun /\ q.result = result /\ q.pc = x.pc /\ q.groups = x.groups
       /\ q.source = x.source /\ q.series = x.series /\ q.date = x.date
       /\ q.evidence = x.evidence /\ q.filing = x.filing
  BY <1>10, <1>12 DEF ReplayRun
<1> HIDE DEF q, snapshots, detected
<1>14. Credited(q, filed \cup q.filing)
  <2>1. SeenDates(q, S) = SeenDates(run, S) /\ q.date = run.date
    BY <1>12, <1>13 DEF SeenDates
  <2>2. filed \cup q.filing = S
    BY <1>12, <1>13
  <2> HIDE DEF S
  <2> QED BY <1>7, <1>8, <1>10, <1>13, <2>1, <2>2 DEF Credited
<1>15. RunIsSound(q, kind, filed)
  BY <1>11, <1>13, <1>14 DEF RunIsSound
<1>16. command' = [command EXCEPT ![c] = q] /\ UNCHANGED <<clock, kind, rows, filed>>
  BY <1>9 DEF Conclude, q, x, result, snapshots, detected, run
<1> QED BY <1>15, <1>16, CommandMoves

\* A run is filed with what it is credited with, and as completed only if clean.
LEMMA FileInv ==
  ASSUME ReplayInv, NEW c \in Command, NEW status \in Done \cup {"leakage_failed", "failed"},
         status \in Done => Clean(c), File(c, status)
  PROVE  ReplayInv'
<1> DEFINE run == command[c]
           new == Filed(c, status)
           S == filed \cup run.filing
           T == filed \cup (run.filing \cup {new})
           q == [run EXCEPT !.pc = "next", !.filing = @ \cup {new}, !.evidence = {},
                            !.groups = 0, !.cost = 0, !.draft = NoEdges, !.result = NoResult,
                            !.errors = FALSE, !.leaked = FALSE, !.date = 0]
<1>1. run \in ReplayRun /\ RunIsSound(run, kind, filed) /\ FiledInv
  BY RunOfCommand DEF ReplayInv
<1>2. NoResult \in CaseState /\ NoEdges \in CaseDraft
  BY DEF NoResult, CaseState, NoEdges, CaseDraft
<1>3. IsFiniteSet(run.filing) /\ IsFiniteSet(filed)
  BY <1>1 DEF RunIsSound, FiledInv
<1>4. /\ new.status = status /\ new.leaked = run.leaked
      /\ new.source = run.source /\ new.series = run.series /\ new.date = run.date
      /\ new.result \in {run.result, NoResult}
  BY DEF Filed
<1>5. new \in FiledRun
  <2>1. Cardinality(run.filing) \in Nat
    BY <1>3, FS_CardinalityType
  <2>2. {i.content : i \in run.evidence} \subseteq Nat
    BY <1>1 DEF ReplayRun, EvidenceItem
  <2>3. new = [by |-> c, number |-> Cardinality(run.filing), source |-> run.source,
               series |-> run.series, date |-> run.date, status |-> status,
               leaked |-> run.leaked, evidence |-> {i.content : i \in run.evidence},
               cost |-> run.cost, result |-> new.result]
    BY DEF Filed
  <2> HIDE DEF new
  <2> QED BY <1>1, <1>2, <1>4, <2>1, <2>2, <2>3 DEF ReplayRun, FiledRun
<1>6. status \in Done => ~new.leaked
  BY <1>4 DEF Clean
<1>7. IsFiniteSet(run.filing \cup {new}) /\ IsFiniteSet(S) /\ IsFiniteSet(T) /\ S \subseteq T
  <2> HIDE DEF new, run
  <2> QED BY <1>3, FS_AddElement, FS_Union
<1>8. Credited(new, T)
  <2>1. CASE new.result = NoResult
    BY <2>1 DEF Credited
  <2>2. CASE new.result = run.result
    <3>1. Credited(run, S)
      BY <1>1 DEF RunIsSound
    <3>2. Credited(new, S)
      <4> HIDE DEF new, run, S
      <4> QED BY <1>4, <2>2, <3>1, SameCredit
    <3>3. new.result.snapshots \in Nat
      BY <1>5 DEF FiledRun, CaseState
    <3> HIDE DEF new, run, S, T
    <3> QED BY <1>7, <3>2, <3>3, CreditStays
  <2> QED BY <1>4, <2>1, <2>2
<1>9. \A r \in run.filing : Credited(r, T)
  <2> SUFFICES ASSUME NEW r \in run.filing PROVE Credited(r, T)
    OBVIOUS
  <2>1. Credited(r, S) /\ r.result.snapshots \in Nat
    BY <1>1 DEF RunIsSound, ReplayRun, FiledRun, CaseState
  <2> HIDE DEF S, T, run, new
  <2> QED BY <1>7, <2>1, CreditStays
<1>10. command' = [command EXCEPT ![c] = q] /\ UNCHANGED <<clock, kind, rows, filed>>
  <2>1. command' = [command EXCEPT ![c] = q]
    BY DEF File
  <2> QED BY <2>1 DEF File
<1>11. \A r \in run.filing : r.status \in Done => ~r.leaked
  BY <1>1 DEF RunIsSound
<1> HIDE DEF new, run
<1>12. /\ q \in ReplayRun /\ q.pc = "next" /\ q.evidence = {} /\ q.groups = 0
       /\ q.result = NoResult /\ q.filing = run.filing \cup {new}
  BY <1>1, <1>2, <1>5 DEF ReplayRun
<1> HIDE DEF q
<1>13. Credited(q, filed \cup q.filing)
  BY <1>12 DEF Credited
<1>14. RunIsSound(q, kind, filed)
  <2>1. filed \cup q.filing = T
    BY <1>12
  <2>2. \A r \in q.filing : Credited(r, filed \cup q.filing)
    <3> HIDE DEF T
    <3> QED BY <1>8, <1>9, <1>12, <2>1
  <2>3. \A r \in q.filing : r.status \in Done => ~r.leaked
    BY <1>4, <1>6, <1>11, <1>12
  <2>4. IsFiniteSet(q.filing) /\ q.pc \notin InCase /\ ~(q.groups > 0)
    BY <1>7, <1>12 DEF InCase
  <2>5. \A i \in q.evidence : i.content <= q.date
    BY <1>12
  <2> QED BY <1>12, <1>13, <2>2, <2>3, <2>4, <2>5 DEF RunIsSound
<1> QED BY <1>10, <1>14, CommandMoves

LEMMA EndCommandInv ==
  ASSUME ReplayInv, NEW c \in Command, EndCommand(c)
  PROVE  ReplayInv'
<1> DEFINE run == command[c]
           over == [Idle EXCEPT !.pc = "over"]
<1>1. run \in ReplayRun /\ RunIsSound(run, kind, filed) /\ FiledInv /\ TableInv
  BY RunOfCommand DEF ReplayInv
<1>2. /\ filed' \in {filed, filed \cup run.filing}
      /\ command' = [command EXCEPT ![c] = over] /\ UNCHANGED <<clock, kind, rows>>
  BY DEF EndCommand
<1>3. filed \subseteq filed' /\ IsFiniteSet(filed') /\ filed' \subseteq FiledRun
  <2>1. /\ IsFiniteSet(run.filing) /\ IsFiniteSet(filed) /\ filed \subseteq FiledRun
        /\ run.filing \subseteq FiledRun
    BY <1>1 DEF RunIsSound, FiledInv, ReplayRun
  <2>2. IsFiniteSet(filed \cup run.filing)
    BY <2>1, FS_Union
  <2> HIDE DEF run
  <2> QED BY <1>2, <2>1, <2>2
<1>4. FiledInv'
  <2>1. ASSUME NEW r \in filed' PROVE (r.status \in Done => ~r.leaked) /\ Credited(r, filed')
    <3>1. r.result.snapshots \in Nat
      BY <1>3 DEF FiledRun, CaseState
    <3>2. CASE r \in filed
      <4>1. Credited(r, filed) /\ (r.status \in Done => ~r.leaked)
        BY <1>1, <3>2 DEF FiledInv
      <4> QED BY <1>3, <3>1, <4>1, CreditStays
    <3>3. CASE r \notin filed
      <4>1. r \in run.filing /\ filed' = filed \cup run.filing
        BY <1>2, <3>3
      <4> QED BY <1>1, <4>1 DEF RunIsSound
    <3> QED BY <3>2, <3>3
  <2> QED BY <1>3, <2>1 DEF FiledInv
<1>5. ASSUME NEW d \in Command PROVE RunIsSound(command'[d], kind', filed')
  <2>1. CASE d = c
    <3>1. command'[d] = over
      BY <1>2, <2>1 DEF ReplayInv
    <3>2. RunIsSound(over, kind', filed')
      BY IdleIsSound
    <3> HIDE DEF over
    <3> QED BY <3>1, <3>2
  <2>2. CASE d # c
    <3> DEFINE other == command[d]
    <3>1. command'[d] = other /\ RunIsSound(other, kind, filed) /\ other \in ReplayRun
      BY <1>2, <2>2, RunOfCommand DEF ReplayInv
    <3>2. IsFiniteSet(filed' \cup other.filing) /\ filed \cup other.filing \subseteq filed' \cup other.filing
      BY <1>3, <3>1, FS_Union DEF RunIsSound
    <3>3. \A r \in other.filing : Credited(r, filed' \cup other.filing)
      <4> SUFFICES ASSUME NEW r \in other.filing PROVE Credited(r, filed' \cup other.filing)
        OBVIOUS
      <4>1. Credited(r, filed \cup other.filing) /\ r.result.snapshots \in Nat
        BY <3>1 DEF RunIsSound, ReplayRun, FiledRun, CaseState
      <4> HIDE DEF other
      <4> QED BY <3>2, <4>1, CreditStays
    <3>4. Credited(other, filed' \cup other.filing)
      <4>1. Credited(other, filed \cup other.filing) /\ other.result.snapshots \in Nat
        BY <3>1 DEF RunIsSound, ReplayRun, CaseState
      <4> HIDE DEF other
      <4> QED BY <3>2, <4>1, CreditStays
    <3> HIDE DEF other
    <3>5. RunIsSound(other, kind, filed')
      BY <3>1, <3>3, <3>4 DEF RunIsSound
    <3> QED BY <1>2, <3>1, <3>5
  <2> QED BY <2>1, <2>2
<1>6. TableInv' /\ command' \in [Command -> ReplayRun]
  <2>1. over \in ReplayRun
    BY IdleIsSound DEF RunIsSound
  <2> QED BY <1>1, <1>2, <2>1 DEF TableInv, ReplayInv
<1> QED BY <1>4, <1>5, <1>6 DEF ReplayInv

LEMMA ReplayNextInv == ReplayInv /\ [ReplayNext]_replayVars => ReplayInv'
<1> SUFFICES ASSUME ReplayInv, [ReplayNext]_replayVars PROVE ReplayInv'
  OBVIOUS
<1>1. CASE UNCHANGED replayVars
  BY <1>1 DEF replayVars, ReplayInv, TableInv, FiledInv
<1>2. CASE TimePasses \/ Write
  BY <1>2, TablesInv
<1>3. ASSUME NEW c \in Command, StartSome(c) PROVE ReplayInv'
  BY <1>3, StartSomeInv
<1>4. ASSUME NEW c \in Command, ReplayStep(c) PROVE ReplayInv'
  <2>1. CASE RefuseReplay(c) \/ Persist(c) \/ ScoreFails(c)
    BY <2>1, FileInv DEF RefuseReplay, Persist, ScoreFails, Done
  <2>2. CASE StatementFails(c)
    BY <2>2, IdleIsSound, CommandMoves DEF StatementFails
  <2> QED BY <1>4, <2>1, <2>2, BeginDateInv, StagesInv, ConcludeInv, EndCommandInv DEF ReplayStep
<1> QED BY <1>1, <1>2, <1>3, <1>4 DEF ReplayNext
-----------------------------------------------------------------------------
\* The rows of the tables are dated, what a replay has read is dated before its
\* cutoff, no run under way or filed counts as completed with a leak, and each
\* is credited with what its series has filed or is about to file.
THEOREM ReplayInvariant == ReplaySpec => []ReplayInv
BY ReplayInitInv, ReplayNextInv, PTL DEF ReplaySpec

\* A replay of a date never shows what a table was overwritten with later, nor
\* does a lookup by that date (the cutoffs of the source adapters), for any
\* number of dates, rows and replays, as long as overwriting moves a stamp.
THEOREM ReplaysSeeThePast == ReplaySpec => []NothingFromTheFuture
<1>1. ReplayInv => NothingFromTheFuture
  <2> SUFFICES ASSUME ReplayInv, kind \notin Silent PROVE NothingFromTheFuture
    BY DEF NothingFromTheFuture
  <2>1. ASSUME NEW c \in Command, command[c].source = "database", NEW i \in command[c].evidence
        PROVE  i.content <= command[c].date
    BY <2>1, RunOfCommand DEF RunIsSound
  <2>2. ASSUME NEW by \in 1..clock, NEW i \in Found(by)
        PROVE  i.content <= by
    <3>1. i \in EvidenceItem /\ i.content <= i.from /\ i.from <= by
      BY QueriesRead, ItemsAreDated DEF ReplayInv
    <3>2. by \in Nat
      BY DEF ReplayInv, TableInv
    <3> QED BY <3>1, <3>2 DEF EvidenceItem
  <2> QED BY <2>1, <2>2 DEF NothingFromTheFuture
<1> QED BY <1>1, ReplayInvariant, PTL

\* A replay that counts as completed let nothing of later dates pass in any
\* stage, whatever the models answer and wherever the command fails.
THEOREM CompletedReplaysAreClean == ReplaySpec => []CompletedIsClean
<1>1. ReplayInv => CompletedIsClean
  BY DEF ReplayInv, FiledInv, RunIsSound, CompletedIsClean, ReplayRuns
<1> QED BY <1>1, ReplayInvariant, PTL

\* The maturity and the lead time of a replayed case come from the earlier dates
\* of its series, each once, however often the dates are replayed and in which
\* order their transactions commit.
THEOREM RepetitionEarnsNothing == ReplaySpec => []HistoryIsTheSeries
<1>1. ReplayInv => HistoryIsTheSeries
  BY DEF ReplayInv, FiledInv, Credited, SeenDates, HistoryIsTheSeries
<1> QED BY <1>1, ReplayInvariant, PTL
-----------------------------------------------------------------------------
\* Who is at work is at work on a document.
ActorsHaveDocuments == \A x \in Actor : actor[x].step # "rest" => actor[x].doc \in Doc

\* The claims by actor: nobody shares one, and who analyses holds one.
ClaimsAreHeld ==
  /\ \A x, y \in Actor : /\ actor[x].step \in Analysing /\ actor[y].step \in Analysing
                         /\ actor[x].doc = actor[y].doc
                         => x = y
  /\ \A x \in Actor : actor[x].step \in Analysing
                      => document[actor[x].doc].status = "analyzing"
  /\ \A d \in Doc : document[d].status = "analyzing"
                    => \/ \E x \in Actor : actor[x].step \in Analysing /\ actor[x].doc = d
                       \/ docMishaps > 0

\* Whether a document is a financial report never changes once it is stored, and
\* so what an actor has read of it is true, and only reports are observed.
ActorKnowsKind(x) ==
  /\ actor[x].step \notin {"rest", "store"} => document[actor[x].doc].status # "absent"
  /\ actor[x].step \in Analysing \cup {"claim"}
     => (actor[x].type \in Reported <=> document[actor[x].doc].type \in Reported)
KindsAreKnown ==
  /\ \A x \in Actor : ActorKnowsKind(x)
  /\ \A d \in Doc : docJob[d].state # "none" => document[d].status # "absent"
  /\ \A d \in Doc : observed[d] # {}
                    => document[d].status # "absent" /\ document[d].type \in Reported

\* What one actor's step needs of the documents, and what the kinds add to it.
RowsInv == DocumentTypeOK /\ ActorsHaveDocuments /\ ClaimsAreHeld /\ AnalysedIsObserved
DocumentInv == RowsInv /\ KindsAreKnown
-----------------------------------------------------------------------------
USE DEF DocumentType

LEMMA RowsInitInv == DocumentInit => RowsInv
BY DocumentAssumption
DEF DocumentInit, RowsInv, DocumentTypeOK, ActorsHaveDocuments, ClaimsAreHeld,
    AnalysedIsObserved, NoRow, Resting, NoJobYet, DocumentRow, ActorState, Steps, Analysing

\* A step by which one actor moves on without reading or leaving an analysis,
\* and that leaves the rows and what is derived from them alone.
LEMMA QuietStep ==
  ASSUME RowsInv, NEW x \in Actor, NEW a \in ActorState,
         actor[x].step \notin Analysing, a.step \notin Analysing,
         a.step # "rest" => a.doc \in Doc,
         actor' = [actor EXCEPT ![x] = a],
         docMishaps' \in 0..MaxDocMishaps, docMishaps' >= docMishaps,
         UNCHANGED <<document, analysis, observed>>
  PROVE  /\ actor' \in [Actor -> ActorState]
         /\ ActorsHaveDocuments' /\ ClaimsAreHeld' /\ AnalysedIsObserved'
BY DocumentAssumption DEF RowsInv, DocumentTypeOK, ActorsHaveDocuments, ClaimsAreHeld,
   AnalysedIsObserved

\* The actions by which actors move on quietly.
QuietActions(x) ==
  \/ EnqueueAnalysis(x) \/ FailFiling(x) \/ ComputeDelta(x) \/ SkipDelta(x) \/ ReportJob(x)
  \/ LoadDocument(x) \/ RefuseAnalysis(x)
  \/ \E d \in Doc : CheckFiling(x, d) \/ ClaimAnalysis(x, d) \/ AnalyseNow(x, d)

LEMMA QuietActionsInv ==
  ASSUME RowsInv, NEW x \in Actor, QuietActions(x)
  PROVE  RowsInv'
<1> USE DocumentAssumption
<1> USE DEF RowsInv, Resting, Analysing
<1>1. \A d \in Doc : [Resting EXCEPT !.doc = d] \in ActorState /\ Resting \in ActorState
  BY DEF ActorState, Steps
<1>2. /\ \E a \in ActorState : /\ a.step \notin Analysing /\ (a.step # "rest" => a.doc \in Doc)
                              /\ actor' = [actor EXCEPT ![x] = a]
      /\ actor[x].step \notin Analysing /\ docMishaps' = docMishaps
      /\ UNCHANGED <<document, analysis, observed>>
  <2>1. CASE EnqueueAnalysis(x) \/ FailFiling(x) \/ ReportJob(x)
    BY <1>1, <2>1 DEF EnqueueAnalysis, FailFiling, ReportJob, Rests, Steps, ActorState
  <2>. /\ actor \in [Actor -> ActorState] /\ document \in [Doc -> DocumentRow]
       /\ actor[x].step # "rest" => actor[x].doc \in Doc
    BY DEF ActorsHaveDocuments, DocumentTypeOK
  <2>2. CASE ComputeDelta(x) \/ SkipDelta(x)
    <3>1. [actor[x] EXCEPT !.step = "load"] \in ActorState BY DEF ActorState, Steps
    <3> QED BY <2>2, <3>1 DEF ComputeDelta, SkipDelta, Moves, ActorState
  <2>4. CASE RefuseAnalysis(x)
    <3>1. [actor[x] EXCEPT !.step = "failed"] \in ActorState BY DEF ActorState, Steps
    <3> QED BY <1>1, <2>4, <3>1 DEF RefuseAnalysis, Returns, Moves, Rests, ActorState
  <2>5. CASE LoadDocument(x)
    <3> DEFINE d == actor[x].doc
               a == [step |-> "claim", doc |-> d, text |-> document[d].text,
                     type |-> document[d].type, filing |-> document[d].filing, prior |-> NoDoc]
    <3>1. d \in Doc /\ document[d] \in DocumentRow BY <2>5 DEF LoadDocument
    <3>2. a \in ActorState /\ a.step = "claim" /\ a.doc = d
      BY <3>1 DEF ActorState, Steps, DocumentRow
    <3>3. /\ actor' = [actor EXCEPT ![x] = a]
          /\ actor[x].step = "load" /\ docMishaps' = docMishaps
          /\ UNCHANGED <<document, analysis, observed>>
      BY <2>5 DEF LoadDocument
    <3> HIDE DEF a
    <3> QED BY <3>1, <3>2, <3>3
  <2>3. CASE \E d \in Doc : CheckFiling(x, d) \/ ClaimAnalysis(x, d) \/ AnalyseNow(x, d)
    BY <2>3 DEF CheckFiling, ClaimAnalysis, AnalyseNow, ActorState, Steps, DocumentTypeOK
  <2> QED BY <2>1, <2>2, <2>3, <2>4, <2>5 DEF QuietActions
<1>3. /\ delta' \in [Doc -> Doc \cup {NoDoc}]
      /\ docJob' \in [Doc -> [state: {"none", "queued", "running", "done", "failed"},
                             attempts: Nat, owner: Replica \cup {NoReplica}]]
  <2>1. CASE EnqueueAnalysis(x)
    <3>1. [NoJobYet EXCEPT !.state = "queued"]
            \in [state: {"none", "queued", "running", "done", "failed"},
                attempts: Nat, owner: Replica \cup {NoReplica}]
      BY DEF NoJobYet
    <3> QED BY <2>1, <3>1 DEF EnqueueAnalysis, DocumentTypeOK
  <2>5. CASE ReportJob(x)
    <3>1. \A d \in Doc : Requeued(docJob[d]) \in {"queued", "failed"} BY DEF Requeued
    <3> QED BY <2>5, <3>1 DEF ReportJob, DocumentTypeOK
  <2>2. CASE ComputeDelta(x)
    BY <2>2 DEF ComputeDelta, DocumentTypeOK
  <2>3. CASE FailFiling(x) \/ SkipDelta(x) \/ LoadDocument(x) \/ RefuseAnalysis(x)
    BY <2>3 DEF FailFiling, SkipDelta, LoadDocument, RefuseAnalysis, DocumentTypeOK
  <2>4. CASE \E d \in Doc : CheckFiling(x, d) \/ ClaimAnalysis(x, d) \/ AnalyseNow(x, d)
    BY <2>4 DEF CheckFiling, ClaimAnalysis, AnalyseNow, DocumentTypeOK
  <2> QED BY <2>1, <2>2, <2>3, <2>4, <2>5 DEF QuietActions
<1>4. docMishaps' \in 0..MaxDocMishaps /\ docMishaps' >= docMishaps
  BY <1>2 DEF DocumentTypeOK
<1> QED BY <1>2, <1>3, <1>4, QuietStep DEF DocumentTypeOK

\* A step that leaves the status, the industry and the derived rows of every
\* document alone and analyses nothing new.
LEMMA RowStep ==
  ASSUME RowsInv, NEW x \in Actor, NEW a \in ActorState, NEW d \in Doc, NEW row \in DocumentRow,
         actor[x].step \notin Analysing, a.step \notin Analysing,
         a.step # "rest" => a.doc \in Doc,
         actor' = [actor EXCEPT ![x] = a],
         document' = [document EXCEPT ![d] = row],
         \/ /\ row.status = document[d].status /\ row.industry = document[d].industry
            /\ row.type = document[d].type
         \/ document[d].status = "absent" /\ row.status = "ingested",
         UNCHANGED <<analysis, observed, delta, docJob, docMishaps>>
  PROVE  RowsInv'
<1> USE DocumentAssumption
<1>1. DocumentTypeOK' BY DEF RowsInv, DocumentTypeOK
<1>2. ActorsHaveDocuments' BY DEF RowsInv, DocumentTypeOK, ActorsHaveDocuments
<1>3. ClaimsAreHeld'
  BY DEF RowsInv, DocumentTypeOK, ClaimsAreHeld, ActorsHaveDocuments, DocumentRow, Analysing
<1>4. AnalysedIsObserved' BY DEF RowsInv, DocumentTypeOK, AnalysedIsObserved
<1> QED BY <1>1, <1>2, <1>3, <1>4 DEF RowsInv

LEMMA StoredType ==
  ASSUME DocumentTypeOK, NEW d \in Doc, NEW t \in BOOLEAN, NEW f \in BOOLEAN,
         NEW type \in DocumentType
  PROVE  /\ Stored(d, t, f, type) \in DocumentRow
         /\ \/ /\ Stored(d, t, f, type).status = document[d].status
               /\ Stored(d, t, f, type).industry = document[d].industry
               /\ Stored(d, t, f, type).type = document[d].type
            \/ document[d].status = "absent" /\ Stored(d, t, f, type).status = "ingested"
<1>1. CASE document[d].status = "absent"
  BY <1>1 DEF Stored, NoRow, DocumentRow
<1>2. CASE document[d].status # "absent"
  <2>1. document[d] \in DocumentRow BY DEF DocumentTypeOK
  <2> QED BY <1>2, <2>1 DEF Stored, DocumentRow
<1> QED BY <1>1, <1>2

LEMMA UploadInv ==
  ASSUME RowsInv, NEW x \in Actor, NEW d \in Doc, NEW type \in DocumentType, Upload(x, d, type)
  PROVE  RowsInv'
<1> DEFINE a == [Resting EXCEPT !.step = "enqueue", !.doc = d]
<1>1. a \in ActorState /\ a.step = "enqueue" /\ a.doc = d
  BY DEF Resting, ActorState, Steps
<1>2. Stored(d, FALSE, FALSE, type) \in DocumentRow
  BY StoredType DEF RowsInv
<1>3. /\ actor[x].step = "rest" /\ actor' = [actor EXCEPT ![x] = a]
      /\ document' = [document EXCEPT ![d] = Stored(d, FALSE, FALSE, type)]
      /\ UNCHANGED <<analysis, observed, delta, docJob, docMishaps>>
  BY DEF Upload
<1> HIDE DEF a
<1> QED BY <1>1, <1>2, <1>3, StoredType, RowStep DEF RowsInv, Analysing

LEMMA StoreFilingInv ==
  ASSUME RowsInv, NEW x \in Actor, NEW readable \in BOOLEAN,
         NEW type \in DocumentType, StoreFiling(x, readable, type)
  PROVE  RowsInv'
<1> DEFINE d == actor[x].doc
           a == [actor[x] EXCEPT !.step = "delta"]
<1>1. actor[x].step = "store" /\ d \in Doc /\ actor[x] \in ActorState
  BY DEF StoreFiling, RowsInv, ActorsHaveDocuments, DocumentTypeOK
<1>2. a \in ActorState /\ a.step = "delta" /\ a.doc = d
  BY <1>1 DEF ActorState, Steps
<1>3. /\ actor' = [actor EXCEPT ![x] = a]
      /\ document' = [document EXCEPT ![d] = Stored(d, readable, TRUE, type)]
      /\ UNCHANGED <<analysis, observed, delta, docJob, docMishaps>>
  BY DEF StoreFiling, Moves, RowsInv, DocumentTypeOK
<1> PICK filing \in BOOLEAN : filing = TRUE
  OBVIOUS
<1> DEFINE row == Stored(d, readable, filing, type)
<1>4. /\ row \in DocumentRow
      /\ \/ /\ row.status = document[d].status /\ row.industry = document[d].industry
            /\ row.type = document[d].type
         \/ document[d].status = "absent" /\ row.status = "ingested"
  <2>1. DocumentTypeOK /\ d \in Doc
    BY <1>1 DEF RowsInv
  <2> HIDE DEF d
  <2> QED BY <2>1, StoredType
<1>5. actor[x].step \notin Analysing /\ a.step \notin Analysing
  BY <1>1, <1>2 DEF Analysing
<1> HIDE DEF a, d, row
<1>6. a \in ActorState /\ (a.step # "rest" => a.doc \in Doc)
  BY <1>1, <1>2
<1>7. document' = [document EXCEPT ![d] = row]
  BY <1>3 DEF row
<1> QED BY <1>1, <1>3, <1>4, <1>5, <1>6, <1>7, RowStep

LEMMA LapseLeaseInv ==
  ASSUME RowsInv, NEW d \in Doc, LapseLease(d)
  PROVE  RowsInv'
<1>1. docMishaps' \in 0..MaxDocMishaps /\ docMishaps' >= docMishaps
  BY DocumentAssumption DEF LapseLease, RowsInv, DocumentTypeOK
<1>2. docJob' \in [Doc -> [state: {"none", "queued", "running", "done", "failed"},
                          attempts: Nat, owner: Replica \cup {NoReplica}]]
  BY DEF LapseLease, Requeued, RowsInv, DocumentTypeOK
<1> QED BY <1>1, <1>2, DocumentAssumption
        DEF LapseLease, RowsInv, DocumentTypeOK, ActorsHaveDocuments, ClaimsAreHeld,
            AnalysedIsObserved
-----------------------------------------------------------------------------
(* The analysis *)

LEMMA ClaimDocumentInv ==
  ASSUME RowsInv, NEW x \in Actor, ClaimDocument(x)
  PROVE  RowsInv'
<1> DEFINE d == actor[x].doc
<1>1. /\ actor[x].step = "claim" /\ d \in Doc /\ document[d].status # "analyzing"
      /\ actor' = [actor EXCEPT ![x].step = "prepare"]
      /\ document' = [document EXCEPT ![d].status = "analyzing"]
      /\ UNCHANGED <<analysis, observed, delta, docJob, docMishaps>>
  BY DEF ClaimDocument, Moves, RowsInv, ActorsHaveDocuments
<1>2. DocumentTypeOK'
  <2>0. document[d] \in DocumentRow /\ actor[x] \in ActorState
    BY <1>1 DEF RowsInv, DocumentTypeOK
  <2>1. /\ [document[d] EXCEPT !.status = "analyzing"] \in DocumentRow
        /\ [actor[x] EXCEPT !.step = "prepare"] \in ActorState
    BY <2>0 DEF DocumentRow, ActorState, Steps, Analysing
  <2>2. /\ document' \in [Doc -> DocumentRow] /\ actor' \in [Actor -> ActorState]
    BY <1>1, <2>1 DEF RowsInv, DocumentTypeOK
  <2> QED BY <1>1, <2>2 DEF RowsInv, DocumentTypeOK
<1>3. ActorsHaveDocuments'
  BY <1>1 DEF RowsInv, DocumentTypeOK, ActorState, ActorsHaveDocuments
<1>4. ClaimsAreHeld'
  BY <1>1 DEF RowsInv, DocumentTypeOK, DocumentRow, ActorState, ClaimsAreHeld,
     ActorsHaveDocuments, Analysing
<1>5. AnalysedIsObserved'
  BY <1>1 DEF RowsInv, DocumentTypeOK, DocumentRow, AnalysedIsObserved
<1> QED BY <1>2, <1>3, <1>4, <1>5 DEF RowsInv

\* A step inside an analysis: the row stays claimed.
LEMMA AnalysingStep ==
  ASSUME RowsInv, NEW x \in Actor, actor[x].step \in Analysing,
         NEW a \in ActorState, a.step \in Analysing, a.doc = actor[x].doc,
         actor' = [actor EXCEPT ![x] = a],
         NEW row \in DocumentRow, row.status = "analyzing",
         document' = [document EXCEPT ![actor[x].doc] = row],
         observed' = observed \/ observed' = [observed EXCEPT ![actor[x].doc] = {}],
         UNCHANGED <<analysis, delta, docJob, docMishaps>>
  PROVE  RowsInv'
<1> DEFINE d == actor[x].doc
<1>1. d \in Doc /\ document[d].status = "analyzing"
  BY DEF RowsInv, ActorsHaveDocuments, ClaimsAreHeld, Analysing
<1>2. DocumentTypeOK'
  <2>1. observed' \in [Doc -> SUBSET [industry: Industry, number: Nat]]
    BY <1>1 DEF RowsInv, DocumentTypeOK
  <2>2. document' \in [Doc -> DocumentRow] /\ actor' \in [Actor -> ActorState]
    BY <1>1 DEF RowsInv, DocumentTypeOK
  <2> QED BY <2>1, <2>2 DEF RowsInv, DocumentTypeOK
<1>3. ActorsHaveDocuments'
  BY <1>1 DEF RowsInv, DocumentTypeOK, ActorsHaveDocuments
<1>4. ClaimsAreHeld'
  BY <1>1 DEF RowsInv, DocumentTypeOK, ClaimsAreHeld, ActorsHaveDocuments, Analysing
<1>5. AnalysedIsObserved'
  BY <1>1 DEF RowsInv, DocumentTypeOK, AnalysedIsObserved
<1> QED BY <1>2, <1>3, <1>4, <1>5 DEF RowsInv

LEMMA AnalysingActionsInv ==
  ASSUME RowsInv, NEW x \in Actor,
         \/ StoreText(x) \/ ReadPrevious(x)
         \/ \E readable \in BOOLEAN : PrepareText(x, readable)
  PROVE  RowsInv'
<1> DEFINE d == actor[x].doc
<1>1. /\ actor[x].step \in Analysing /\ actor[x].step # "rest" /\ actor[x] \in ActorState
      /\ d \in Doc /\ document[d] \in DocumentRow /\ document[d].status = "analyzing"
  BY DEF StoreText, ReadPrevious, PrepareText, RowsInv, DocumentTypeOK, ActorsHaveDocuments,
     ClaimsAreHeld, Analysing
<1>2. /\ actor \in [Actor -> ActorState] /\ document \in [Doc -> DocumentRow]
  BY DEF RowsInv, DocumentTypeOK
<1>3. CASE StoreText(x)
  <2> DEFINE a == [actor[x] EXCEPT !.step = "model"]
             row == [document[d] EXCEPT !.text = TRUE]
  <2>1. a \in ActorState /\ a.step \in Analysing /\ a.doc = d
    BY <1>1 DEF ActorState, Steps, Analysing
  <2>2. row \in DocumentRow /\ row.status = "analyzing"
    BY <1>1 DEF DocumentRow
  <2>3. /\ actor' = [actor EXCEPT ![x] = a] /\ document' = [document EXCEPT ![d] = row]
        /\ UNCHANGED <<analysis, observed, delta, docJob, docMishaps>>
    BY <1>2, <1>3 DEF StoreText, Moves
  <2> HIDE DEF a, row
  <2> QED BY <1>1, <2>1, <2>2, <2>3, AnalysingStep
<1>4. CASE ReadPrevious(x)
  <2> PICK p \in Doc \cup {NoDoc} : actor' = [actor EXCEPT ![x].step = "save", ![x].prior = p]
    BY <1>4 DEF ReadPrevious
  <2> DEFINE a == [actor[x] EXCEPT !.step = "save", !.prior = p]
  <2>1. a \in ActorState /\ a.step \in Analysing /\ a.doc = d
    BY <1>1 DEF ActorState, Steps, Analysing
  <2>2. document' = [document EXCEPT ![d] = document[d]]
    BY <1>2, <1>4 DEF ReadPrevious
  <2>3. /\ actor' = [actor EXCEPT ![x] = a]
        /\ UNCHANGED <<analysis, observed, delta, docJob, docMishaps>>
    BY <1>2, <1>4 DEF ReadPrevious
  <2> HIDE DEF a
  <2> QED BY <1>1, <2>1, <2>2, <2>3, AnalysingStep
<1>5. CASE \E readable \in BOOLEAN : PrepareText(x, readable)
  <2> PICK readable \in BOOLEAN : PrepareText(x, readable) BY <1>5
  <2> PICK step \in {"text", "model"} : actor' = [actor EXCEPT ![x].step = step]
    BY DEF PrepareText, Moves
  <2> DEFINE a == [actor[x] EXCEPT !.step = step]
  <2>1. a \in ActorState /\ a.step \in Analysing /\ a.doc = d
    BY <1>1 DEF ActorState, Steps, Analysing
  <2>2. actor' = [actor EXCEPT ![x] = a] BY <1>2
  <2>3. /\ \/ document' = [document EXCEPT ![d].type = "quarterly"] /\ observed' = [observed EXCEPT ![d] = {}]
           \/ document' = document /\ observed' = observed
        /\ UNCHANGED <<analysis, delta, docJob, docMishaps>>
    BY DEF PrepareText
  <2>4. \E row \in DocumentRow : row.status = "analyzing" /\ document' = [document EXCEPT ![d] = row]
    <3>1. /\ [document[d] EXCEPT !.type = "quarterly"] \in DocumentRow
          /\ [document[d] EXCEPT !.type = "quarterly"].status = "analyzing"
      BY <1>1 DEF DocumentRow
    <3> QED BY <1>1, <1>2, <2>3, <3>1
  <2> HIDE DEF a
  <2> QED BY <1>1, <2>1, <2>2, <2>3, <2>4, AnalysingStep
<1> QED BY <1>3, <1>4, <1>5

\* The end of an analysis: its row is claimed no more.
LEMMA ReleaseStep ==
  ASSUME RowsInv, NEW x \in Actor, actor[x].step \in Analysing,
         NEW a \in ActorState, a.step \notin Analysing, a.step # "rest" => a.doc \in Doc,
         actor' = [actor EXCEPT ![x] = a],
         NEW row \in DocumentRow, row.status # "analyzing",
         document' = [document EXCEPT ![actor[x].doc] = row],
         docMishaps' = docMishaps
  PROVE  ActorsHaveDocuments' /\ ClaimsAreHeld'
<1> DEFINE d == actor[x].doc
<1>1. d \in Doc
  BY DEF RowsInv, ActorsHaveDocuments, Analysing
<1>2. ActorsHaveDocuments'
  BY DEF RowsInv, DocumentTypeOK, ActorsHaveDocuments
<1>3. \A y \in Actor : y # x /\ actor[y].step \in Analysing => actor[y].doc # d
  BY DEF RowsInv, ClaimsAreHeld
<1>4. ClaimsAreHeld'
  BY <1>1, <1>3 DEF RowsInv, DocumentTypeOK, ClaimsAreHeld, ActorsHaveDocuments, Analysing
<1> QED BY <1>2, <1>4

\* What an actor becomes when its analysis is over.
LEMMA ReturnsState ==
  ASSUME RowsInv, NEW x \in Actor, actor[x].step # "rest",
         NEW verdict \in {"succeeded", "failed"}, Returns(x, verdict)
  PROVE  \E a \in ActorState : /\ a.step \notin Analysing /\ (a.step # "rest" => a.doc \in Doc)
                              /\ actor' = [actor EXCEPT ![x] = a]
<1>1. Resting \in ActorState /\ Resting.step = "rest"
  BY DEF Resting, ActorState, Steps
<1>2. CASE x \in Replica
  <2> DEFINE a == [actor[x] EXCEPT !.step = verdict]
  <2>1. actor \in [Actor -> ActorState] /\ actor[x].doc \in Doc
    BY DEF RowsInv, DocumentTypeOK, ActorsHaveDocuments
  <2>2. a \in ActorState /\ a.step \notin Analysing /\ a.doc \in Doc
    BY <2>1 DEF ActorState, Steps, Analysing
  <2>3. actor' = [actor EXCEPT ![x] = a]
    BY <1>2, <2>1 DEF Returns, Moves
  <2> HIDE DEF a
  <2> QED BY <2>2, <2>3
<1>3. CASE x \notin Replica
  BY <1>1, <1>3 DEF Returns, Rests, Analysing
<1> QED BY <1>2, <1>3

LEMMA SaveAnalysisInv ==
  ASSUME RowsInv, KindsAreKnown, NEW x \in Actor, NEW industry \in Industry,
         SaveAnalysis(x, industry)
  PROVE  RowsInv'
<1> DEFINE d == actor[x].doc
           number == analysis[d].number + 1
           row == [document[d] EXCEPT !.status = "analyzed", !.industry = industry]
           seen == Observe(observed[d], actor[x].type, industry, number)
           saved == [number |-> number, prior |-> actor[x].prior]
<1>1. /\ actor[x].step = "save" /\ d \in Doc /\ document[d] \in DocumentRow
      /\ actor[x] \in ActorState /\ number \in Nat
  BY DEF SaveAnalysis, RowsInv, ActorsHaveDocuments, DocumentTypeOK
<1>2. /\ row \in DocumentRow /\ row.status = "analyzed" /\ row.industry = industry
  BY <1>1 DEF DocumentRow
<1>3. /\ analysis' = [analysis EXCEPT ![d] = saved]
      /\ document' = [document EXCEPT ![d] = row]
      /\ observed' = [observed EXCEPT ![d] = seen]
      /\ Returns(x, "succeeded") /\ UNCHANGED <<delta, docJob, docMishaps>>
  BY DEF SaveAnalysis, RowsInv, DocumentTypeOK
<1>9. /\ seen = IF document[d].type \in Reported
                THEN {[industry |-> industry, number |-> number]} ELSE {}
      /\ row.type = document[d].type
  <2>1. actor[x].type \in Reported <=> document[d].type \in Reported
    BY <1>1 DEF KindsAreKnown, ActorKnowsKind, Analysing
  <2>2. document[d].type \notin Reported => observed[d] = {}
    BY <1>1 DEF KindsAreKnown
  <2>3. row.type = document[d].type
    BY <1>1 DEF DocumentRow
  <2> QED BY <2>1, <2>2, <2>3 DEF Observe
<1>4. PICK a \in ActorState : /\ a.step \notin Analysing /\ (a.step # "rest" => a.doc \in Doc)
                            /\ actor' = [actor EXCEPT ![x] = a]
  BY <1>1, <1>3, ReturnsState
<1>5. saved \in [number: Nat, prior: Doc \cup {NoDoc}] /\ saved.number = number
  BY <1>1 DEF ActorState
<1> HIDE DEF row, saved, seen
<1>6. ActorsHaveDocuments' /\ ClaimsAreHeld'
  BY <1>1, <1>2, <1>3, <1>4, ReleaseStep DEF Analysing
<1>7. DocumentTypeOK'
  <2>0. seen \in SUBSET [industry: Industry, number: Nat]
    BY <1>1, <1>9
  <2>1. observed' \in [Doc -> SUBSET [industry: Industry, number: Nat]]
    BY <1>1, <1>3, <2>0 DEF RowsInv, DocumentTypeOK
  <2>2. analysis' \in [Doc -> [number: Nat, prior: Doc \cup {NoDoc}]]
    BY <1>3, <1>5 DEF RowsInv, DocumentTypeOK
  <2>3. document' \in [Doc -> DocumentRow] /\ actor' \in [Actor -> ActorState]
    BY <1>2, <1>3, <1>4 DEF RowsInv, DocumentTypeOK
  <2> QED BY <1>3, <2>1, <2>2, <2>3 DEF RowsInv, DocumentTypeOK
<1>8. AnalysedIsObserved'
  <2> SUFFICES ASSUME NEW e \in Doc, document'[e].status = "analyzed"
               PROVE  /\ analysis'[e].number > 0
                      /\ observed'[e] =
                           IF document'[e].type \in Reported
                           THEN {[industry |-> document'[e].industry,
                                  number |-> analysis'[e].number]} ELSE {}
    BY DEF AnalysedIsObserved
  <2>1. CASE e = d
    <3>1. document'[e] = row /\ analysis'[e] = saved
      BY <1>3, <2>1 DEF RowsInv, DocumentTypeOK
    <3>2. observed'[e] = seen
      BY <1>3, <2>1 DEF RowsInv, DocumentTypeOK
    <3>3. number > 0
      BY <1>1 DEF RowsInv, DocumentTypeOK
    <3> HIDE DEF number
    <3> QED BY <1>2, <1>5, <1>9, <3>1, <3>2, <3>3
  <2>2. CASE e # d
    BY <1>3, <2>2 DEF RowsInv, DocumentTypeOK, AnalysedIsObserved
  <2> QED BY <2>1, <2>2
<1> QED BY <1>6, <1>7, <1>8 DEF RowsInv

LEMMA FailAnalysisInv ==
  ASSUME RowsInv, NEW x \in Actor, FailAnalysis(x)
  PROVE  RowsInv'
<1> DEFINE d == actor[x].doc
           row == [document[d] EXCEPT !.status = "failed"]
<1>1. /\ actor[x].step \in Analysing /\ actor[x].step # "rest" /\ d \in Doc
      /\ document[d] \in DocumentRow
  BY DEF FailAnalysis, RowsInv, ActorsHaveDocuments, DocumentTypeOK, Analysing
<1>2. row \in DocumentRow /\ row.status = "failed"
  BY <1>1 DEF DocumentRow
<1>3. /\ document' = [document EXCEPT ![d] = row]
      /\ Returns(x, "failed") /\ UNCHANGED <<analysis, observed, delta, docJob, docMishaps>>
  BY DEF FailAnalysis, RowsInv, DocumentTypeOK
<1>4. PICK a \in ActorState : /\ a.step \notin Analysing /\ (a.step # "rest" => a.doc \in Doc)
                            /\ actor' = [actor EXCEPT ![x] = a]
  BY <1>1, <1>3, ReturnsState
<1> HIDE DEF row
<1>5. ActorsHaveDocuments' /\ ClaimsAreHeld'
  BY <1>1, <1>2, <1>3, <1>4, ReleaseStep
<1>6. DocumentTypeOK'
  BY <1>2, <1>3, <1>4 DEF RowsInv, DocumentTypeOK
<1>7. AnalysedIsObserved'
  BY <1>2, <1>3 DEF RowsInv, DocumentTypeOK, AnalysedIsObserved
<1> QED BY <1>5, <1>6, <1>7 DEF RowsInv

\* An actor that is gone leaves its claim and is counted.
LEMMA MishapsInv ==
  ASSUME RowsInv, NEW x \in Actor, LoseRecord(x) \/ LoseActor(x)
  PROVE  RowsInv'
<1>1. /\ actor[x].step # "rest" /\ docMishaps' \in 0..MaxDocMishaps /\ docMishaps' > 0
      /\ UNCHANGED <<document, analysis, observed, delta, docJob>>
  BY DocumentAssumption DEF LoseRecord, LoseActor, RowsInv, DocumentTypeOK, Analysing
<1>2. PICK a \in ActorState : /\ a.step \notin Analysing /\ (a.step # "rest" => a.doc \in Doc)
                            /\ actor' = [actor EXCEPT ![x] = a]
  <2>1. CASE LoseRecord(x) BY <1>1, <2>1, ReturnsState DEF LoseRecord
  <2>2. CASE LoseActor(x)
    <3>1. Resting \in ActorState /\ Resting.step = "rest" BY DEF Resting, ActorState, Steps
    <3> QED BY <2>2, <3>1 DEF LoseActor, Rests, Analysing
  <2> QED BY <2>1, <2>2
<1>3. DocumentTypeOK' BY <1>1, <1>2 DEF RowsInv, DocumentTypeOK
<1>4. ActorsHaveDocuments' BY <1>1, <1>2 DEF RowsInv, DocumentTypeOK, ActorsHaveDocuments
<1>5. ClaimsAreHeld' BY <1>1, <1>2 DEF RowsInv, DocumentTypeOK, ClaimsAreHeld
<1>6. AnalysedIsObserved' BY <1>1 DEF RowsInv, AnalysedIsObserved
<1> QED BY <1>3, <1>4, <1>5, <1>6 DEF RowsInv
-----------------------------------------------------------------------------
LEMMA RowsNextInv == RowsInv /\ KindsAreKnown /\ [DocumentNext]_documentVars => RowsInv'
<1> SUFFICES ASSUME RowsInv, KindsAreKnown, [DocumentNext]_documentVars PROVE RowsInv'
  OBVIOUS
<1>1. CASE UNCHANGED documentVars
  BY <1>1 DEF documentVars, RowsInv, DocumentTypeOK, ActorsHaveDocuments, ClaimsAreHeld,
     AnalysedIsObserved
<1>2. CASE \E d \in Doc : LapseLease(d)
  BY <1>2, LapseLeaseInv
<1>3. CASE \E x \in Actor : GoOn(x)
  <2> PICK x \in Actor : GoOn(x) BY <1>3
  <2>1. CASE QuietActions(x) BY <2>1, QuietActionsInv
  <2>2. CASE ClaimDocument(x) BY <2>2, ClaimDocumentInv
  <2>3. CASE \/ StoreText(x) \/ ReadPrevious(x)
             \/ \E readable \in BOOLEAN : PrepareText(x, readable)
    BY <2>3, AnalysingActionsInv
  <2>4. CASE \E readable \in BOOLEAN, type \in DocumentType : StoreFiling(x, readable, type)
    BY <2>4, StoreFilingInv
  <2>5. CASE \E industry \in Industry : SaveAnalysis(x, industry) BY <2>5, SaveAnalysisInv
  <2>6. CASE FailAnalysis(x) BY <2>6, FailAnalysisInv
  <2> QED BY <2>1, <2>2, <2>3, <2>4, <2>5, <2>6 DEF GoOn, QuietActions
<1>4. CASE \E x \in Actor : LoseRecord(x) \/ LoseActor(x)
  BY <1>4, MishapsInv
<1>5. CASE \E x \in Actor, d \in Doc, type \in DocumentType : Upload(x, d, type)
  BY <1>5, UploadInv
<1>6. CASE \E x \in Actor, d \in Doc : CheckFiling(x, d) \/ ClaimAnalysis(x, d) \/ AnalyseNow(x, d)
  BY <1>6, QuietActionsInv DEF QuietActions
<1> QED BY <1>1, <1>2, <1>3, <1>4, <1>5, <1>6 DEF DocumentNext
-----------------------------------------------------------------------------
(* The kinds of the documents *)

\* A document that is stored stays, and stays what it is.
RowsStay ==
  \A d \in Doc : document[d].status # "absent"
    => document'[d].status # "absent" /\ (document'[d].type \in Reported <=> document[d].type \in Reported)
JobsHaveRows == \A d \in Doc : docJob[d].state # "none" => document[d].status # "absent"
ReportsAreSeen ==
  \A d \in Doc : observed[d] # {} => document[d].status # "absent" /\ document[d].type \in Reported

LEMMA KindStep ==
  ASSUME RowsInv, KindsAreKnown, NEW x \in Actor, \A y \in Actor \ {x} : actor'[y] = actor[y],
         RowsStay, ActorKnowsKind(x)', JobsHaveRows', ReportsAreSeen'
  PROVE  KindsAreKnown'
<1>1. ASSUME NEW y \in Actor \ {x} PROVE ActorKnowsKind(y)'
  <2>1. actor'[y] = actor[y] /\ ActorKnowsKind(y) /\ (actor[y].step # "rest" => actor[y].doc \in Doc)
    BY DEF KindsAreKnown, RowsInv, ActorsHaveDocuments
  <2> QED BY <2>1 DEF ActorKnowsKind, RowsStay, Analysing
<1> QED BY <1>1 DEF KindsAreKnown, JobsHaveRows, ReportsAreSeen

\* The rows are left alone, or one of them without a change of its kind.
LEMMA SameRows ==
  ASSUME RowsInv, KindsAreKnown, UNCHANGED document
  PROVE  RowsStay /\ (UNCHANGED docJob => JobsHaveRows') /\ (UNCHANGED observed => ReportsAreSeen')
BY DEF RowsStay, JobsHaveRows, ReportsAreSeen, KindsAreKnown

LEMMA RowChanges ==
  ASSUME RowsInv, KindsAreKnown, NEW d \in Doc, NEW row, document' = [document EXCEPT ![d] = row],
         row.status # "absent",
         document[d].status # "absent" => (row.type \in Reported <=> document[d].type \in Reported)
  PROVE  /\ RowsStay
         /\ UNCHANGED docJob => JobsHaveRows'
         /\ UNCHANGED observed => ReportsAreSeen'
         /\ observed' = [observed EXCEPT ![d] = {}] => ReportsAreSeen'
<1>1. \A e \in Doc : document'[e] = IF e = d THEN row ELSE document[e]
  BY DEF RowsInv, DocumentTypeOK
<1>2. RowsStay
  BY <1>1 DEF RowsStay
<1>3. UNCHANGED docJob => JobsHaveRows'
  BY <1>1 DEF JobsHaveRows, KindsAreKnown
<1>4. UNCHANGED observed => ReportsAreSeen'
  BY <1>1 DEF ReportsAreSeen, KindsAreKnown
<1>5. observed' = [observed EXCEPT ![d] = {}] => ReportsAreSeen'
  <2> SUFFICES ASSUME observed' = [observed EXCEPT ![d] = {}], NEW e \in Doc, observed'[e] # {}
               PROVE  document'[e].status # "absent" /\ document'[e].type \in Reported
    BY DEF ReportsAreSeen
  <2>1. e # d /\ observed'[e] = observed[e]
    BY DEF RowsInv, DocumentTypeOK
  <2> QED BY <1>1, <2>1 DEF KindsAreKnown
<1> QED BY <1>2, <1>3, <1>4, <1>5

\* A step of an actor leaves the others alone.
LEMMA OthersAlone ==
  ASSUME RowsInv, NEW x \in Actor, NEW a, actor' = [actor EXCEPT ![x] = a]
  PROVE  actor'[x] = a /\ \A y \in Actor \ {x} : actor'[y] = actor[y]
BY DEF RowsInv, DocumentTypeOK

LEMMA QuietKinds ==
  ASSUME RowsInv, KindsAreKnown, NEW x \in Actor, QuietActions(x)
  PROVE  KindsAreKnown'
<1>0. actor \in [Actor -> ActorState] /\ ActorKnowsKind(x)
  BY DEF RowsInv, DocumentTypeOK, KindsAreKnown
<1>1. UNCHANGED <<document, observed>>
  BY DEF QuietActions, EnqueueAnalysis, FailFiling, ComputeDelta, SkipDelta, ReportJob, LoadDocument,
     RefuseAnalysis, CheckFiling, ClaimAnalysis, AnalyseNow
<1>2. JobsHaveRows'
  <2>1. CASE EnqueueAnalysis(x)
    <3>1. actor[x].doc \in Doc /\ document[actor[x].doc].status # "absent"
      BY <2>1, <1>0 DEF EnqueueAnalysis, ActorKnowsKind, RowsInv, ActorsHaveDocuments
    <3>2. \A d \in Doc : docJob'[d] = docJob[d] \/ d = actor[x].doc
      BY <2>1 DEF EnqueueAnalysis, RowsInv, DocumentTypeOK
    <3> QED BY <1>1, <3>1, <3>2 DEF JobsHaveRows, KindsAreKnown
  <2>2. CASE ReportJob(x)
    <3>1. actor[x].doc \in Doc /\ document[actor[x].doc].status # "absent"
      BY <2>2, <1>0 DEF ReportJob, ActorKnowsKind, RowsInv, ActorsHaveDocuments
    <3>2. \A d \in Doc : docJob'[d] = docJob[d] \/ d = actor[x].doc
      BY <2>2 DEF ReportJob, RowsInv, DocumentTypeOK
    <3> QED BY <1>1, <3>1, <3>2 DEF JobsHaveRows, KindsAreKnown
  <2>3. CASE \E d \in Doc : ClaimAnalysis(x, d)
    <3> PICK d \in Doc : ClaimAnalysis(x, d) BY <2>3
    <3>1. docJob[d].state = "queued" /\ \A e \in Doc : docJob'[e] = docJob[e] \/ e = d
      BY DEF ClaimAnalysis, RowsInv, DocumentTypeOK
    <3> QED BY <1>1, <3>1 DEF JobsHaveRows, KindsAreKnown
  <2>4. CASE UNCHANGED docJob
    BY <1>1, <2>4 DEF JobsHaveRows, KindsAreKnown
  <2> QED BY <2>1, <2>2, <2>3, <2>4 DEF QuietActions, FailFiling, ComputeDelta, SkipDelta, LoadDocument,
         RefuseAnalysis, CheckFiling, AnalyseNow
<1>3. PICK a : /\ actor' = [actor EXCEPT ![x] = a]
               /\ a.step \notin {"rest", "store"} => document[a.doc].status # "absent"
               /\ a.step \in Analysing \cup {"claim"}
                    => (a.type \in Reported <=> document[a.doc].type \in Reported)
  <2> DEFINE Known(a) ==
               /\ a.step \notin {"rest", "store"} => document[a.doc].status # "absent"
               /\ a.step \in Analysing \cup {"claim"}
                    => (a.type \in Reported <=> document[a.doc].type \in Reported)
  <2>1. Resting.step = "rest" /\ Known(Resting)
    BY DEF Resting, Analysing
  <2>2. CASE EnqueueAnalysis(x) \/ FailFiling(x) \/ ReportJob(x)
    BY <2>1, <2>2 DEF EnqueueAnalysis, FailFiling, ReportJob, Rests
  <2>3. CASE ComputeDelta(x) \/ SkipDelta(x)
    <3> DEFINE a == [actor[x] EXCEPT !.step = "load"]
    <3>1. actor[x].step = "delta" /\ actor' = [actor EXCEPT ![x] = a]
      BY <2>3, <1>0 DEF ComputeDelta, SkipDelta, Moves
    <3>2. a.step = "load" /\ a.doc = actor[x].doc
      BY <1>0 DEF ActorState
    <3> HIDE DEF a
    <3>3. Known(a)
      BY <1>0, <3>1, <3>2 DEF ActorKnowsKind, Analysing
    <3> QED BY <3>1, <3>3
  <2>4. CASE RefuseAnalysis(x)
    <3> DEFINE a == [actor[x] EXCEPT !.step = "failed"]
    <3>1. actor[x].step = "claim" /\ (actor' = [actor EXCEPT ![x] = a] \/ Rests(x))
      BY <2>4, <1>0 DEF RefuseAnalysis, Returns, Moves
    <3>2. a.step = "failed" /\ a.doc = actor[x].doc
      BY <1>0 DEF ActorState
    <3> HIDE DEF a
    <3>3. Known(a)
      BY <1>0, <3>1, <3>2 DEF ActorKnowsKind, Analysing
    <3> QED BY <2>1, <3>1, <3>3 DEF Rests
  <2>5. CASE LoadDocument(x)
    <3> DEFINE a == [step |-> "claim", doc |-> actor[x].doc, text |-> document[actor[x].doc].text,
                     type |-> document[actor[x].doc].type,
                     filing |-> document[actor[x].doc].filing, prior |-> NoDoc]
    <3>1. actor[x].step = "load" /\ actor' = [actor EXCEPT ![x] = a]
      BY <2>5 DEF LoadDocument
    <3>2. a.doc = actor[x].doc /\ a.type = document[actor[x].doc].type
      OBVIOUS
    <3> HIDE DEF a
    <3>3. Known(a)
      BY <1>0, <3>1, <3>2 DEF ActorKnowsKind
    <3> QED BY <3>1, <3>3
  <2>6. CASE \E d \in Doc : CheckFiling(x, d)
    <3> PICK d \in Doc : CheckFiling(x, d) BY <2>6
    <3>1. Known([Resting EXCEPT !.step = "store", !.doc = d])
      BY DEF Resting, Analysing
    <3> QED BY <3>1 DEF CheckFiling
  <2>7. CASE \E d \in Doc : ClaimAnalysis(x, d) \/ AnalyseNow(x, d)
    <3> PICK d \in Doc : ClaimAnalysis(x, d) \/ AnalyseNow(x, d) BY <2>7
    <3> DEFINE a == [Resting EXCEPT !.step = "load", !.doc = d]
    <3>1. document[d].status # "absent" /\ actor' = [actor EXCEPT ![x] = a]
      BY DEF ClaimAnalysis, AnalyseNow, KindsAreKnown
    <3>2. a.step = "load" /\ a.doc = d
      BY DEF Resting
    <3> HIDE DEF a
    <3>3. Known(a)
      BY <3>1, <3>2 DEF Analysing
    <3> WITNESS a
    <3> QED BY <3>1, <3>3
  <2> QED BY <2>2, <2>3, <2>4, <2>5, <2>6, <2>7 DEF QuietActions
<1>4. actor'[x] = a /\ \A y \in Actor \ {x} : actor'[y] = actor[y]
  BY <1>3, OthersAlone
<1>5. ActorKnowsKind(x)'
  BY <1>1, <1>3, <1>4 DEF ActorKnowsKind
<1> QED BY <1>1, <1>2, <1>4, <1>5, SameRows, KindStep

LEMMA StoredKind ==
  ASSUME RowsInv, NEW d \in Doc, NEW t, NEW f, NEW type
  PROVE  /\ Stored(d, t, f, type).status # "absent"
         /\ document[d].status # "absent" => Stored(d, t, f, type).type = document[d].type
<1>1. CASE document[d].status = "absent"
  BY <1>1 DEF Stored, NoRow
<1>2. CASE document[d].status # "absent"
  <2>1. document[d] \in DocumentRow
    BY DEF RowsInv, DocumentTypeOK
  <2>2. Stored(d, t, f, type) = [document[d] EXCEPT !.filing = @ \/ f]
    BY <1>2 DEF Stored
  <2>3. /\ [document[d] EXCEPT !.filing = @ \/ f].status = document[d].status
        /\ [document[d] EXCEPT !.filing = @ \/ f].type = document[d].type
    BY <2>1 DEF DocumentRow
  <2> QED BY <1>2, <2>2, <2>3
<1> QED BY <1>1, <1>2

LEMMA StoringKinds ==
  ASSUME RowsInv, KindsAreKnown, NEW x \in Actor, NEW d \in Doc, NEW row, NEW a,
         row.status # "absent", document[d].status # "absent" => row.type = document[d].type,
         a.step \in {"enqueue", "delta"}, a.doc = d,
         actor' = [actor EXCEPT ![x] = a], document' = [document EXCEPT ![d] = row],
         UNCHANGED <<observed, docJob>>
  PROVE  KindsAreKnown'
<1>1. document[d].status # "absent" => (row.type \in Reported <=> document[d].type \in Reported)
  OBVIOUS
<1>2. RowsStay /\ JobsHaveRows' /\ ReportsAreSeen'
  BY <1>1, RowChanges
<1>3. document'[d] = row
  BY DEF RowsInv, DocumentTypeOK
<1>4. actor'[x] = a /\ \A y \in Actor \ {x} : actor'[y] = actor[y]
  BY OthersAlone
<1>5. a.step \notin Analysing
  BY DEF Analysing
<1>6. ActorKnowsKind(x)'
  BY <1>3, <1>4, <1>5 DEF ActorKnowsKind
<1> QED BY <1>2, <1>4, <1>6, KindStep

\* A step of an analysis, from its claim to its end.
LEMMA AnalysisKinds ==
  ASSUME RowsInv, KindsAreKnown, NEW x \in Actor, NEW a, NEW row,
         actor[x].step \in Analysing \cup {"claim"},
         actor' = [actor EXCEPT ![x] = a], a.step = "rest" \/ a.doc = actor[x].doc,
         a.step \in Analysing => a.type = actor[x].type,
         a.step \notin {"store", "claim"},
         document' = [document EXCEPT ![actor[x].doc] = row],
         row.status # "absent",
         row.type \in Reported <=> document[actor[x].doc].type \in Reported,
         ReportsAreSeen', UNCHANGED docJob
  PROVE  KindsAreKnown'
<1> DEFINE d == actor[x].doc
<1>1. d \in Doc /\ ActorKnowsKind(x)
  BY DEF RowsInv, ActorsHaveDocuments, KindsAreKnown, Analysing
<1>2. RowsStay /\ JobsHaveRows'
  BY <1>1, RowChanges
<1>3. document'[d] = row
  BY <1>1 DEF RowsInv, DocumentTypeOK
<1>4. actor'[x] = a /\ \A y \in Actor \ {x} : actor'[y] = actor[y]
  BY OthersAlone
<1>5. ActorKnowsKind(x)'
  BY <1>1, <1>3, <1>4 DEF ActorKnowsKind, Analysing
<1> QED BY <1>2, <1>4, <1>5, KindStep

LEMMA AnalysingKinds ==
  ASSUME RowsInv, KindsAreKnown, NEW x \in Actor,
         \/ ClaimDocument(x) \/ StoreText(x) \/ ReadPrevious(x) \/ FailAnalysis(x)
         \/ \E readable \in BOOLEAN : PrepareText(x, readable)
         \/ \E industry \in Industry : SaveAnalysis(x, industry)
  PROVE  KindsAreKnown'
<1> DEFINE d == actor[x].doc
<1>1. actor[x].step \in Analysing \cup {"claim"}
  BY DEF ClaimDocument, StoreText, ReadPrevious, FailAnalysis, PrepareText, SaveAnalysis, Analysing
<1>2. /\ d \in Doc /\ document \in [Doc -> DocumentRow] /\ document[d] \in DocumentRow
      /\ actor \in [Actor -> ActorState] /\ actor[x] \in ActorState
      /\ observed \in [Doc -> SUBSET [industry: Industry, number: Nat]]
  BY <1>1 DEF RowsInv, DocumentTypeOK, ActorsHaveDocuments, Analysing
<1>3. document[d].status # "absent"
  BY <1>1 DEF KindsAreKnown, ActorKnowsKind, Analysing
<1>4. PICK a : /\ actor' = [actor EXCEPT ![x] = a] /\ (a.step = "rest" \/ a.doc = actor[x].doc)
               /\ (a.step \in Analysing => a.type = actor[x].type)
               /\ a.step \notin {"store", "claim"}
  <2>1. \A step \in Analysing \cup {"succeeded", "failed"} :
          /\ [actor[x] EXCEPT !.step = step].step = step
          /\ [actor[x] EXCEPT !.step = step].doc = d
          /\ [actor[x] EXCEPT !.step = step].type = actor[x].type
    BY <1>2 DEF ActorState
  <2>2. (\E step \in Analysing \cup {"succeeded", "failed"} : Moves(x, step))
        \/ Rests(x) \/ ReadPrevious(x)
    BY DEF ClaimDocument, StoreText, FailAnalysis, PrepareText, SaveAnalysis, Returns, Analysing
  <2>3. CASE \E step \in Analysing \cup {"succeeded", "failed"} : Moves(x, step)
    <3> PICK step \in Analysing \cup {"succeeded", "failed"} : Moves(x, step) BY <2>3
    <3> DEFINE a == [actor[x] EXCEPT !.step = step]
    <3>1. actor' = [actor EXCEPT ![x] = a] /\ a.step = step /\ a.doc = d /\ a.type = actor[x].type
      BY <1>2, <2>1 DEF Moves
    <3> HIDE DEF a
    <3> QED BY <3>1 DEF Analysing
  <2>4. CASE Rests(x)
    <3>1. /\ actor' = [actor EXCEPT ![x] = Resting] /\ Resting.step = "rest"
          /\ Resting.step \notin Analysing
      BY <2>4 DEF Rests, Resting, Analysing
    <3> QED BY <3>1
  <2>5. CASE ReadPrevious(x)
    <3> PICK p : actor' = [actor EXCEPT ![x].step = "save", ![x].prior = p]
      BY <2>5 DEF ReadPrevious
    <3> DEFINE a == [actor[x] EXCEPT !.step = "save", !.prior = p]
    <3>1. actor' = [actor EXCEPT ![x] = a] /\ a.step = "save" /\ a.doc = d /\ a.type = actor[x].type
      BY <1>2 DEF ActorState
    <3> HIDE DEF a
    <3> QED BY <3>1 DEF Analysing
  <2> QED BY <2>2, <2>3, <2>4, <2>5
<1>5. PICK row : /\ document' = [document EXCEPT ![d] = row] /\ row.status # "absent"
                 /\ row.type \in Reported <=> document[d].type \in Reported
  <2>1. CASE ReadPrevious(x)
    BY <1>2, <1>3, <2>1 DEF ReadPrevious
  <2>2. CASE ClaimDocument(x) \/ FailAnalysis(x) \/ StoreText(x)
    BY <1>2, <1>3, <2>2 DEF ClaimDocument, FailAnalysis, StoreText, DocumentRow
  <2>3. CASE \E industry \in Industry : SaveAnalysis(x, industry)
    <3> PICK industry \in Industry : SaveAnalysis(x, industry) BY <2>3
    <3> DEFINE row == [document[d] EXCEPT !.status = "analyzed", !.industry = industry]
    <3>1. document' = [document EXCEPT ![d] = row]
      BY <1>2 DEF SaveAnalysis
    <3>2. row.status = "analyzed" /\ row.type = document[d].type
      BY <1>2 DEF DocumentRow
    <3> HIDE DEF row
    <3> QED BY <3>1, <3>2
  <2>4. CASE \E readable \in BOOLEAN : PrepareText(x, readable)
    <3> PICK readable \in BOOLEAN : PrepareText(x, readable) BY <2>4
    <3>1. CASE document' = document
      BY <1>2, <1>3, <3>1
    <3>2. CASE document' # document
      <4>1. document' = [document EXCEPT ![d].type = "quarterly"] /\ actor[x].type = "annual"
            /\ actor[x].step = "prepare"
        BY <3>2 DEF PrepareText
      <4>2. document[d].type \in Reported
        BY <4>1 DEF KindsAreKnown, ActorKnowsKind, Analysing, Reported
      <4> DEFINE row == [document[d] EXCEPT !.type = "quarterly"]
      <4>3. document' = [document EXCEPT ![d] = row]
        BY <1>2, <4>1
      <4>4. row.status = document[d].status /\ row.type \in Reported
        BY <1>2 DEF DocumentRow, Reported
      <4> HIDE DEF row
      <4> QED BY <1>3, <4>2, <4>3, <4>4
    <3> QED BY <3>1, <3>2
  <2> QED BY <2>1, <2>2, <2>3, <2>4
<1>6. ReportsAreSeen'
  <2>1. CASE UNCHANGED observed \/ observed' = [observed EXCEPT ![d] = {}]
    BY <1>2, <1>5, <2>1, RowChanges
  <2>2. CASE \E industry \in Industry : SaveAnalysis(x, industry)
    <3> PICK industry \in Industry : SaveAnalysis(x, industry) BY <2>2
    <3>1. PICK seen : /\ observed' = [observed EXCEPT ![d] = seen]
                      /\ seen = observed[d] \/ actor[x].type \in Reported
      BY DEF SaveAnalysis, Observe
    <3>2. actor[x].type \in Reported <=> document[d].type \in Reported
      BY <1>1 DEF KindsAreKnown, ActorKnowsKind
    <3>3. \A e \in Doc : document'[e] = IF e = d THEN row ELSE document[e]
      BY <1>2, <1>5
    <3>4. \A e \in Doc : observed'[e] = IF e = d THEN seen ELSE observed[e]
      BY <1>2, <3>1
    <3>5. \A e \in Doc : observed[e] # {}
                        => document[e].status # "absent" /\ document[e].type \in Reported
      BY DEF KindsAreKnown
    <3> QED BY <1>2, <1>5, <3>1, <3>2, <3>3, <3>4, <3>5 DEF ReportsAreSeen
  <2> QED BY <2>1, <2>2 DEF ClaimDocument, StoreText, ReadPrevious, FailAnalysis, PrepareText
<1>7. UNCHANGED docJob
  BY DEF ClaimDocument, StoreText, ReadPrevious, FailAnalysis, PrepareText, SaveAnalysis
<1> QED BY <1>1, <1>4, <1>5, <1>6, <1>7, AnalysisKinds

LEMMA MishapKinds ==
  ASSUME RowsInv, KindsAreKnown, NEW x \in Actor, LoseRecord(x) \/ LoseActor(x)
  PROVE  KindsAreKnown'
<1>1. UNCHANGED <<document, observed, docJob>>
  BY DEF LoseRecord, LoseActor
<1>2. CASE Rests(x)
  <2>1. actor'[x] = Resting /\ \A y \in Actor \ {x} : actor'[y] = actor[y]
    BY <1>2, OthersAlone DEF Rests
  <2>2. ActorKnowsKind(x)'
    BY <2>1 DEF ActorKnowsKind, Resting, Analysing
  <2> QED BY <1>1, <2>1, <2>2, SameRows, KindStep
<1>3. CASE LoseRecord(x) /\ Moves(x, "failed")
  <2> DEFINE a == [actor[x] EXCEPT !.step = "failed"]
  <2>1. a.step = "failed" /\ a.doc = actor[x].doc /\ actor' = [actor EXCEPT ![x] = a]
    BY <1>3 DEF Moves, RowsInv, DocumentTypeOK, ActorState
  <2> HIDE DEF a
  <2>2. actor'[x] = a /\ \A y \in Actor \ {x} : actor'[y] = actor[y]
    BY <2>1, OthersAlone
  <2>3. document[actor[x].doc].status # "absent"
    BY <1>3 DEF LoseRecord, KindsAreKnown, ActorKnowsKind, Analysing
  <2>4. ActorKnowsKind(x)'
    BY <1>1, <2>1, <2>2, <2>3 DEF ActorKnowsKind, Analysing
  <2> QED BY <1>1, <2>2, <2>4, SameRows, KindStep
<1> QED BY <1>2, <1>3 DEF LoseRecord, LoseActor, Returns

LEMMA KindsNextInv == RowsInv /\ KindsAreKnown /\ [DocumentNext]_documentVars => KindsAreKnown'
<1> SUFFICES ASSUME RowsInv, KindsAreKnown, [DocumentNext]_documentVars PROVE KindsAreKnown'
  OBVIOUS
<1>1. CASE UNCHANGED documentVars
  BY <1>1 DEF documentVars, KindsAreKnown, ActorKnowsKind
<1>2. CASE \E d \in Doc : LapseLease(d)
  <2> PICK d \in Doc : LapseLease(d) BY <1>2
  <2>1. docJob[d].state = "running" /\ \A e \in Doc : docJob'[e] = docJob[e] \/ e = d
    BY DEF LapseLease, RowsInv, DocumentTypeOK
  <2>2. UNCHANGED <<document, observed, actor>>
    BY DEF LapseLease
  <2> QED BY <2>1, <2>2 DEF KindsAreKnown, ActorKnowsKind
<1>3. CASE \E x \in Actor : GoOn(x)
  <2> PICK x \in Actor : GoOn(x) BY <1>3
  <2>1. CASE QuietActions(x) BY <2>1, QuietKinds
  <2>2. CASE \E readable \in BOOLEAN, type \in DocumentType : StoreFiling(x, readable, type)
    <3> PICK readable \in BOOLEAN, type \in DocumentType : StoreFiling(x, readable, type) BY <2>2
    <3> DEFINE a == [actor[x] EXCEPT !.step = "delta"]
    <3>1. /\ a.step = "delta" /\ a.doc = actor[x].doc /\ actor[x].doc \in Doc
          /\ actor' = [actor EXCEPT ![x] = a]
      BY DEF StoreFiling, Moves, RowsInv, DocumentTypeOK, ActorState, ActorsHaveDocuments
    <3>2. /\ document' = [document EXCEPT ![actor[x].doc] = Stored(actor[x].doc, readable, TRUE, type)]
          /\ UNCHANGED <<observed, docJob>>
      BY DEF StoreFiling
    <3> HIDE DEF a
    <3>3. a.step \in {"enqueue", "delta"} /\ a.doc = actor[x].doc
      BY <3>1
    <3> DEFINE row == Stored(actor[x].doc, readable, TRUE, type)
    <3>4. row.status # "absent"
          /\ (document[actor[x].doc].status # "absent" => row.type = document[actor[x].doc].type)
      <4>1. \A e \in Doc : /\ Stored(e, readable, TRUE, type).status # "absent"
                           /\ document[e].status # "absent"
                                => Stored(e, readable, TRUE, type).type = document[e].type
        BY StoredKind
      <4> QED BY <3>1, <4>1
    <3>5. document' = [document EXCEPT ![actor[x].doc] = row]
      BY <3>2
    <3> HIDE DEF row
    <3> QED BY <3>1, <3>2, <3>3, <3>4, <3>5, StoringKinds
  <2>3. CASE \/ ClaimDocument(x) \/ StoreText(x) \/ ReadPrevious(x) \/ FailAnalysis(x)
             \/ \E readable \in BOOLEAN : PrepareText(x, readable)
             \/ \E industry \in Industry : SaveAnalysis(x, industry)
    BY <2>3, AnalysingKinds
  <2> QED BY <2>1, <2>2, <2>3 DEF GoOn, QuietActions
<1>4. CASE \E x \in Actor : LoseRecord(x) \/ LoseActor(x)
  BY <1>4, MishapKinds
<1>5. CASE \E x \in Actor, d \in Doc, type \in DocumentType : Upload(x, d, type)
  <2> PICK x \in Actor, d \in Doc, type \in DocumentType : Upload(x, d, type) BY <1>5
  <2> DEFINE a == [Resting EXCEPT !.step = "enqueue", !.doc = d]
  <2>1. a.step = "enqueue" /\ a.doc = d /\ actor' = [actor EXCEPT ![x] = a]
    BY DEF Upload, Resting
  <2>2. /\ document' = [document EXCEPT ![d] = Stored(d, FALSE, FALSE, type)]
        /\ UNCHANGED <<observed, docJob>>
    BY DEF Upload
  <2> HIDE DEF a
  <2>3. a.step \in {"enqueue", "delta"}
    BY <2>1
  <2> DEFINE row == Stored(d, FALSE, FALSE, type)
  <2>4. row.status # "absent" /\ (document[d].status # "absent" => row.type = document[d].type)
    BY StoredKind
  <2>5. document' = [document EXCEPT ![d] = row] /\ UNCHANGED <<observed, docJob>>
    BY <2>2
  <2> HIDE DEF row
  <2> QED BY <2>1, <2>3, <2>4, <2>5, StoringKinds
<1>6. CASE \E x \in Actor, d \in Doc : CheckFiling(x, d) \/ ClaimAnalysis(x, d) \/ AnalyseNow(x, d)
  BY <1>6, QuietKinds DEF QuietActions
<1> QED BY <1>1, <1>2, <1>3, <1>4, <1>5, <1>6 DEF DocumentNext

LEMMA KindsInitInv == DocumentInit => KindsAreKnown
BY DEF DocumentInit, KindsAreKnown, ActorKnowsKind, Resting, NoJobYet, Analysing
-----------------------------------------------------------------------------
\* The invariant that ties every caller, collection and worker of the filings to
\* the row it has claimed, and what it has read of the row to its kind.
THEOREM DocumentInvariant == DocumentSpec => []DocumentInv
<1>1. DocumentInit => DocumentInv
  BY RowsInitInv, KindsInitInv DEF DocumentInv
<1>2. DocumentInv /\ [DocumentNext]_documentVars => DocumentInv'
  BY RowsNextInv, KindsNextInv DEF DocumentInv
<1> QED BY <1>1, <1>2, PTL DEF DocumentSpec

\* Of whatever many callers, collections and workers, one analyses a document
\* while it is claimed, and nothing but a mishap leaves a claim behind.
THEOREM DocumentClaims == DocumentSpec => []ClaimHasItsAnalysis
<1>1. DocumentInv => ClaimHasItsAnalysis
  BY DEF DocumentInv, RowsInv, ClaimsAreHeld, ClaimHasItsAnalysis
<1> QED BY <1>1, DocumentInvariant, PTL

\* A document that says analyzed has its analysis and, if it is a financial
\* report, the one observation of it; other documents have none.
THEOREM AnalysedObserved == DocumentSpec => []AnalysedIsObserved
<1>1. DocumentInv => AnalysedIsObserved BY DEF DocumentInv, RowsInv
<1> QED BY <1>1, DocumentInvariant, PTL

\* The variables keep their types.
THEOREM DocumentTypes == DocumentSpec => []DocumentTypeOK
<1>1. DocumentInv => DocumentTypeOK BY DEF DocumentInv, RowsInv
<1> QED BY <1>1, DocumentInvariant, PTL
=============================================================================
