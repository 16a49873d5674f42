---------------------------- MODULE ResearchCases ----------------------------
(* Research cases and the jobs that develop them                            *)
(* (src/orchestrator/research_intelligence).  A job is one READ COMMITTED   *)
(* transaction that lasts as long as its model calls: work is what the job  *)
(* that holds the row of a case has made of it, stored what is committed.   *)
(* A discovery refreshes the lifecycles and then works through its          *)
(* candidate groups, one savepoint per persisted stage; an update works on  *)
(* one case.  The fingerprint of an input is the number of the case's       *)
(* evidence items the group was built from; the answers of the models are   *)
(* free.  The causal graph of a case is one edge.                           *)
EXTENDS Integers, Sequences, FiniteSets, SequencesExt

CONSTANTS
  MaxCase,      \* cases are 1..MaxCase, ordered by their ids
  Discovery,    \* discovery jobs, enqueued again and again
  Update,       \* jobs that update case UpdateOf[j]
  UpdateOf,
  Forced,       \* the jobs whose payload says force
  NoJob,        \* nobody holds the row of a case
  Threshold,    \* lifecycle_thresholds
  MaxDay,       \* bound on the days that pass
  MaxEvidence,  \* bound on the evidence of a case
  MaxRuns       \* bound on the attempts at a job, repeated jobs included

Case == 1..MaxCase
Job  == Discovery \cup Update
ASSUME ResearchAssumption ==
  /\ MaxCase \in Nat /\ MaxDay \in Nat /\ MaxEvidence \in Nat /\ MaxRuns \in Nat
  /\ NoJob \notin Job /\ Discovery \cap Update = {} /\ Forced \subseteq Job
  /\ UpdateOf \in [Update -> Case]
  /\ Threshold \in [forming: Nat, corroborated: Nat, corroboratedDays: Nat, ready: Nat,
                    mature: Nat, matureSnapshots: Nat, weakening: Nat, archive: Nat]

VARIABLES
  day,      \* today
  sources,  \* what the evidence tables hold of a case: [count, first, last day]
  stored,   \* the committed research_cases, snapshots, edges and requests
  work,     \* the same as the holder of the case's row sees it
  lock,     \* who holds the row
  pc, runs, \* the jobs: what they are at, and their attempts
  plan,     \* transitions the lifecycle refresh has yet to publish
  groups,   \* candidate groups the job has yet to process
  answer    \* what the models have said of the current group: [edge, valued, reviewed]

researchVars == <<day, sources, stored, work, lock, pc, runs, plan, groups, answer>>
-----------------------------------------------------------------------------
Ready  == {"research_ready", "mature"}
States == {"candidate", "forming", "corroborated", "weakening", "archived"} \cup Ready
Answer == {"absent", "hypothesis", "supported"}
Snapshot == [version: Nat, state: States, input: Nat, edge: Answer, open: BOOLEAN,
             valued: BOOLEAN, reviewed: BOOLEAN, done: Nat, by: {"pipeline", "refresh"}]
CaseRow == [exists: BOOLEAN, state: States, version: Nat, count: Nat, first: Nat,
            last: Nat, snapshots: SUBSET Snapshot, edge: Answer, edgeInput: Nat,
            usedInputs: SUBSET Nat, valued: BOOLEAN,
            request: {"none", "unresolved", "satisfied"}, asked: Nat]

NoCase == [exists |-> FALSE, state |-> "candidate", version |-> 0, count |-> 0, first |-> 0,
           last |-> 0, snapshots |-> {}, edge |-> "absent", edgeInput |-> 0,
           usedInputs |-> {}, valued |-> FALSE, request |-> "none", asked |-> 0]

\* A transaction reads its own changes, and what is committed of the rest.
Sees(j, c) == IF lock[c] = j THEN work[c] ELSE stored[c]
MayLock(j, c) == lock[c] \in {NoJob, j}

\* next_lifecycle_state over load_case_stats; complete: causal chain, value
\* capture, adversarial review and deliverable are all there.
ActiveState(count, days, snapshots, complete) ==
  CASE count >= Threshold.mature /\ snapshots >= Threshold.matureSnapshots /\ complete -> "mature"
    [] OTHER ->
  CASE count >= Threshold.ready /\ complete -> "research_ready"
    [] OTHER ->
  CASE count >= Threshold.corroborated /\ days >= Threshold.corroboratedDays -> "corroborated"
    [] OTHER -> IF count >= Threshold.forming THEN "forming" ELSE "candidate"

NextState(r, snapshots, complete) ==
  CASE r.state = "archived" \/ day - r.last >= Threshold.archive -> "archived"
    [] r.state # "archived" /\ day - r.last \in Threshold.weakening..(Threshold.archive - 1)
         -> "weakening"
    [] OTHER -> ActiveState(r.count, r.last - r.first, snapshots, complete)

\* unresolved_material_hypotheses
Open(r) == r.edge = "hypothesis"

\* A case with an unresolved hypothesis stops short of readiness.
Gated(state, r) ==
  IF state \in Ready /\ Open(r) THEN "corroborated" ELSE state

\* The row after publish_case_snapshot has inserted a snapshot.
Published(r, s) ==
  [r EXCEPT !.version = s.version, !.state = s.state, !.snapshots = @ \cup {s}]
NextVersion(r) == r.version + 1

CurrentSnapshots(r) == {s \in r.snapshots : s.version = r.version}
Empty == [version |-> 0, state |-> "candidate", input |-> 0, edge |-> "absent", open |-> FALSE,
          valued |-> FALSE, reviewed |-> FALSE, done |-> 0, by |-> "refresh"]
Payload(r) == IF CurrentSnapshots(r) = {} THEN Empty ELSE CHOOSE s \in CurrentSnapshots(r) : TRUE
NoAnswer == [edge |-> "absent", valued |-> FALSE, reviewed |-> FALSE]
InGroup  == {"groups", "upsert", "causal", "requests", "value", "review", "publish"}
-----------------------------------------------------------------------------
(* The transaction of a job *)

Undo(j) ==
  /\ work' = [c \in Case |-> IF lock[c] = j THEN stored[c] ELSE work[c]]
  /\ lock' = [c \in Case |-> IF lock[c] = j THEN NoJob ELSE lock[c]]

\* The attempt ends without a trace.
RollBack(j) ==
  /\ Undo(j)
  /\ pc' = [pc EXCEPT ![j] = "idle"]
  /\ plan' = [plan EXCEPT ![j] = << >>]
  /\ groups' = [groups EXCEPT ![j] = << >>]
  /\ answer' = [answer EXCEPT ![j] = NoAnswer]
  /\ UNCHANGED <<day, sources, stored, runs>>

\* The worker dies or has lost its lease when it reports success.
LoseLease(j) == pc[j] # "idle" /\ RollBack(j)

\* succeed_job commits with everything the handler wrote.
Commit(j) ==
  /\ pc[j] = "groups" /\ groups[j] = << >>
  /\ stored' = [c \in Case |-> IF lock[c] = j THEN work[c] ELSE stored[c]]
  /\ lock' = [c \in Case |-> IF lock[c] = j THEN NoJob ELSE lock[c]]
  /\ pc' = [pc EXCEPT ![j] = "idle"]
  /\ UNCHANGED <<day, sources, work, runs, plan, groups, answer>>
-----------------------------------------------------------------------------
(* refresh_case_lifecycles *)

Transition(r) ==
  LET complete == /\ r.edge # "absent" /\ r.valued
                  /\ \E s \in r.snapshots : s.reviewed
  IN  Gated(NextState(r, Cardinality(r.snapshots), complete), r)

\* The rows are read without a lock, in the order of their last evidence.
StartDiscovery(j) ==
  /\ pc[j] = "idle" /\ runs[j] < MaxRuns
  /\ LET moving == {c \in Case : /\ stored[c].exists /\ stored[c].state # "archived"
                                 /\ Transition(stored[c]) # stored[c].state}
         Before(c, d) == \/ stored[c].last < stored[d].last
                         \/ stored[c].last = stored[d].last /\ c < d
         Planned(c) == [case |-> c, to |-> Transition(stored[c]),
                        payload |-> Payload(stored[c])]
     IN  \E order \in SetToSeqs(moving) :
           /\ \A m, n \in DOMAIN order : m < n => Before(order[m], order[n])
           /\ plan' = [plan EXCEPT ![j] = [n \in DOMAIN order |-> Planned(order[n])]]
  /\ pc' = [pc EXCEPT ![j] = "refresh"]
  /\ runs' = [runs EXCEPT ![j] = @ + 1]
  /\ UNCHANGED <<day, sources, stored, work, lock, groups, answer>>

\* Fault: the version is taken from the row as it was read, before the lock.
RefreshUnlocked(j) ==
  /\ pc[j] = "refresh" /\ plan[j] # << >>
  /\ LET p == Head(plan[j])
         s == [p.payload EXCEPT !.version = @ + 1, !.state = p.to, !.by = "refresh"]
     IN  /\ MayLock(j, p.case)
         /\ work' = [work EXCEPT ![p.case] = Published(Sees(j, p.case), s)]
         /\ lock' = [lock EXCEPT ![p.case] = j]
  /\ plan' = [plan EXCEPT ![j] = Tail(@)]
  /\ UNCHANGED <<day, sources, stored, pc, runs, groups, answer>>

\* The row is locked only now; the payload and the target are those read before.
Refresh(j) ==
  /\ pc[j] = "refresh" /\ plan[j] # << >>
  /\ LET p == Head(plan[j])
         r == Sees(j, p.case)
         s == [p.payload EXCEPT !.version = NextVersion(r), !.state = p.to, !.by = "refresh"]
     IN  /\ MayLock(j, p.case)
         /\ work' = [work EXCEPT ![p.case] = Published(r, s)]
         /\ lock' = [lock EXCEPT ![p.case] = j]
  /\ plan' = [plan EXCEPT ![j] = Tail(@)]
  /\ UNCHANGED <<day, sources, stored, pc, runs, groups, answer>>
-----------------------------------------------------------------------------
(* The candidate groups *)

\* find_case_match_rows shows a case that is not archived and whose current
\* snapshot a discovery has completed with the same input.
Completed(j, c) ==
  /\ j \in Discovery \ Forced
  /\ Sees(j, c).exists /\ Sees(j, c).state # "archived"
  /\ Payload(Sees(j, c)).done = sources[c].count

\* EvidenceRegistry.collect, of what belongs to one case.
Group(j, c) ==
  [case |-> c, input |-> sources[c].count, first |-> sources[c].first,
   last |-> sources[c].last, done |-> Completed(j, c)]

\* build_candidate_groups
CollectGroups(j) ==
  /\ pc[j] = "refresh" /\ plan[j] = << >>
  /\ \E order \in SetToSeqs({c \in Case : sources[c].count > 0}) :
       groups' = [groups EXCEPT ![j] = [i \in DOMAIN order |-> Group(j, order[i])]]
  /\ pc' = [pc EXCEPT ![j] = "groups"]
  /\ UNCHANGED <<day, sources, stored, work, lock, runs, plan, answer>>

\* run_case_update: one group, which is never taken for completed.
StartUpdate(j) ==
  /\ pc[j] = "idle" /\ runs[j] < MaxRuns /\ stored[UpdateOf[j]].exists
  /\ groups' = [groups EXCEPT ![j] = <<Group(j, UpdateOf[j])>>]
  /\ pc' = [pc EXCEPT ![j] = "groups"]
  /\ runs' = [runs EXCEPT ![j] = @ + 1]
  /\ UNCHANGED <<day, sources, stored, work, lock, plan, answer>>

NextGroup(j) ==
  /\ groups' = [groups EXCEPT ![j] = Tail(@)]
  /\ pc' = [pc EXCEPT ![j] = "groups"]
  /\ answer' = [answer EXCEPT ![j] = NoAnswer]

\* The group was completed before, or the pattern stage abstains.
SkipGroup(j) ==
  /\ pc[j] = "groups" /\ groups[j] # << >>
  /\ NextGroup(j)
  /\ UNCHANGED <<day, sources, stored, work, lock, runs, plan>>

\* The pattern stage makes a case of the group.
ProposeCase(j) ==
  /\ pc[j] = "groups" /\ groups[j] # << >> /\ ~Head(groups[j]).done
  /\ pc' = [pc EXCEPT ![j] = "upsert"]
  /\ UNCHANGED <<day, sources, stored, work, lock, runs, plan, groups, answer>>

\* upsert_case writes the row, which stays locked until the job ends.
Upsert(j) ==
  /\ pc[j] = "upsert"
  /\ LET g == Head(groups[j])
         r == Sees(j, g.case)
     IN  /\ MayLock(j, g.case)
         /\ work' = [work EXCEPT ![g.case] =
              [r EXCEPT !.exists = TRUE,
                        !.count = IF g.input > @ THEN g.input ELSE @,
                        !.first = IF r.exists /\ @ < g.first THEN @ ELSE g.first,
                        !.last = IF g.last > @ THEN g.last ELSE @]]
         /\ lock' = [lock EXCEPT ![g.case] = j]
  /\ pc' = [pc EXCEPT ![j] = "causal"]
  /\ UNCHANGED <<day, sources, stored, runs, plan, groups, answer>>

\* persist_causal_edges: an edge that differs by its input is superseded, an
\* edge the answer lacks too; UNIQUE(case, edge, input) counts superseded rows.
InsertRefused(r, g, edge) ==
  /\ edge # "absent" /\ g.input \in r.usedInputs
  /\ r.edge = "absent" \/ r.edgeInput # g.input
WithEdge(r, g, edge) ==
  CASE edge = "absent" -> [r EXCEPT !.edge = "absent", !.edgeInput = 0]
    [] edge # "absent" /\ r.edge # "absent" /\ r.edgeInput = g.input -> r
    [] OTHER -> [r EXCEPT !.edge = edge, !.edgeInput = g.input,
                          !.usedInputs = @ \cup {g.input}]

\* ensure_hypothesis_data_requests: evidence that came after the request may
\* satisfy it; a request that is there is not asked again, and an edge that
\* is not among the current ones is not asked about.
WithRequest(r, g, edge, matched) ==
  CASE edge = "hypothesis" /\ r.edge # "absent" /\ r.request = "none" ->
         [r EXCEPT !.request = "unresolved", !.asked = g.input]
    [] r.request = "unresolved" /\ (edge = "supported" \/ (matched /\ g.input > r.asked)) ->
         [r EXCEPT !.request = "satisfied"]
    [] OTHER -> r

\* The savepoint of the edges.
Causal(j, edge) ==
  /\ pc[j] = "causal"
  /\ LET g == Head(groups[j])
         r == work[g.case]
     IN  /\ ~InsertRefused(r, g, edge)
         /\ work' = [work EXCEPT ![g.case] = WithEdge(r, g, edge)]
  /\ answer' = [answer EXCEPT ![j].edge = edge]
  /\ pc' = [pc EXCEPT ![j] = "requests"]
  /\ UNCHANGED <<day, sources, stored, lock, runs, plan, groups>>

\* Fault: requests that cannot be written do not keep the group from going on.
RequestSwallowed(j, matched) ==
  /\ pc[j] = "requests"
  /\ LET g == Head(groups[j])
         r == work[g.case]
     IN  \/ work' = [work EXCEPT ![g.case] = WithRequest(r, g, answer[j].edge, matched)]
         \/ work' = work
  /\ pc' = [pc EXCEPT ![j] = "value"]
  /\ UNCHANGED <<day, sources, stored, lock, runs, plan, groups, answer>>

\* The savepoint of the requests these edges call for: a job that fails here
\* leaves the edges of the one before.
Request(j, matched) ==
  /\ pc[j] = "requests"
  /\ LET g == Head(groups[j])
         r == work[g.case]
     IN  work' = [work EXCEPT ![g.case] = WithRequest(r, g, answer[j].edge, matched)]
  /\ pc' = [pc EXCEPT ![j] = "value"]
  /\ UNCHANGED <<day, sources, stored, lock, runs, plan, groups, answer>>

\* persist_value_capture: assessments the answer lacks are superseded.
Assess(j, valued) ==
  /\ pc[j] = "value"
  /\ work' = [work EXCEPT ![Head(groups[j]).case].valued = valued]
  /\ answer' = [answer EXCEPT ![j].valued = valued]
  /\ pc' = [pc EXCEPT ![j] = "review"]
  /\ UNCHANGED <<day, sources, stored, lock, runs, plan, groups>>

\* persist_adversarial and the deliverable; the objections are left out.
Review(j, reviewed) ==
  /\ pc[j] = "review"
  /\ answer' = [answer EXCEPT ![j].reviewed = reviewed]
  /\ pc' = [pc EXCEPT ![j] = "publish"]
  /\ UNCHANGED <<day, sources, stored, work, lock, runs, plan, groups>>

\* publish_case_snapshot: a content that was published before changes nothing.
Publish(j) ==
  /\ pc[j] = "publish"
  /\ LET g == Head(groups[j])
         r == work[g.case]
         a == answer[j]
         state == Gated(NextState(r, Cardinality(r.snapshots) + 1,
                                  a.edge # "absent" /\ a.valued /\ a.reviewed), r)
         s == [version |-> NextVersion(r), state |-> state, input |-> g.input, edge |-> a.edge,
               open |-> Open(r), valued |-> a.valued, reviewed |-> a.reviewed,
               done |-> IF j \in Discovery THEN g.input ELSE 0, by |-> "pipeline"]
         existing == \E t \in r.snapshots : [t EXCEPT !.version = s.version, !.done = s.done] = s
     IN  work' = [work EXCEPT ![g.case] = IF existing THEN r ELSE Published(r, s)]
  /\ NextGroup(j)
  /\ UNCHANGED <<day, sources, stored, lock, runs, plan>>
-----------------------------------------------------------------------------
(* What goes wrong *)

\* Fault: what upsert_case raises is not taken for a failure of the group.
FailStage(j) ==
  /\ j \in Discovery
  /\ pc[j] \in InGroup \ {"groups", "upsert"} /\ groups[j] # << >>
  /\ NextGroup(j)
  /\ UNCHANGED <<day, sources, stored, work, lock, runs, plan>>

\* A stage fails, or the edge comes back with an input it had before: a
\* discovery keeps what the group's savepoints released and goes on.
FailGroup(j) ==
  /\ j \in Discovery
  /\ pc[j] \in InGroup /\ groups[j] # << >>
  /\ NextGroup(j)
  /\ UNCHANGED <<day, sources, stored, work, lock, runs, plan>>

\* The run's model budget is spent: the groups left are not processed.
BudgetSpent(j) ==
  /\ j \in Discovery
  /\ pc[j] \in InGroup /\ Len(groups[j]) > 1
  /\ groups' = [groups EXCEPT ![j] = << >>]
  /\ pc' = [pc EXCEPT ![j] = "groups"]
  /\ answer' = [answer EXCEPT ![j] = NoAnswer]
  /\ UNCHANGED <<day, sources, stored, work, lock, runs, plan>>

\* The refresh has a savepoint of its own and fails as a whole.
FailRefresh(j) ==
  /\ pc[j] = "refresh" /\ plan[j] # << >>
  /\ Undo(j)
  /\ plan' = [plan EXCEPT ![j] = << >>]
  /\ UNCHANGED <<day, sources, stored, pc, runs, groups, answer>>

\* An exception of an update is the job's.
FailUpdate(j) == j \in Update /\ pc[j] \in InGroup /\ groups[j] # << >> /\ RollBack(j)

\* Whom a job waits for, and whether it waits for itself in the end.
Holder(j) ==
  CASE pc[j] = "refresh" /\ plan[j] # << >> -> lock[Head(plan[j]).case]
    [] pc[j] = "upsert" -> lock[Head(groups[j]).case]
    [] OTHER -> NoJob
Deadlocked(j) ==
  LET chain[n \in 0..Cardinality(Job)] ==
        IF n = 0 THEN j ELSE IF chain[n - 1] = NoJob THEN NoJob ELSE Holder(chain[n - 1])
  IN  Holder(j) # j /\ \E n \in 1..Cardinality(Job) : chain[n] = j
Victim(j) == Deadlocked(j) /\ (FailRefresh(j) \/ FailGroup(j))
-----------------------------------------------------------------------------
NewEvidence(c) ==
  /\ sources[c].count < MaxEvidence
  /\ sources' = [sources EXCEPT ![c] =
       [count |-> @.count + 1, first |-> IF @.count = 0 THEN day ELSE @.first, last |-> day]]
  /\ UNCHANGED <<day, stored, work, lock, pc, runs, plan, groups, answer>>

DayPasses ==
  /\ day < MaxDay
  /\ day' = day + 1
  /\ UNCHANGED <<sources, stored, work, lock, pc, runs, plan, groups, answer>>

ResearchInit ==
  /\ day = 0
  /\ sources = [c \in Case |-> [count |-> 0, first |-> 0, last |-> 0]]
  /\ stored = [c \in Case |-> NoCase]
  /\ work = stored
  /\ lock = [c \in Case |-> NoJob]
  /\ pc = [j \in Job |-> "idle"]
  /\ runs = [j \in Job |-> 0]
  /\ plan = [j \in Job |-> << >>]
  /\ groups = [j \in Job |-> << >>]
  /\ answer = [j \in Job |-> NoAnswer]

Start(j) ==
  \/ j \in Discovery /\ StartDiscovery(j)
  \/ j \in Update /\ StartUpdate(j)
Step(j) ==
  \/ Refresh(j) \/ CollectGroups(j)
  \/ SkipGroup(j) \/ ProposeCase(j) \/ Upsert(j) \/ Publish(j) \/ Commit(j)
  \/ \E edge \in Answer : Causal(j, edge)
  \/ \E matched \in BOOLEAN : Request(j, matched)
  \/ \E valued \in BOOLEAN : Assess(j, valued)
  \/ \E reviewed \in BOOLEAN : Review(j, reviewed)

ResearchNext ==
  \/ DayPasses \/ \E c \in Case : NewEvidence(c)
  \/ \E j \in Job : \/ Start(j) \/ Step(j) \/ FailGroup(j) \/ BudgetSpent(j) \/ FailRefresh(j)
                     \/ FailUpdate(j) \/ LoseLease(j)

\* Workers go on with the job they hold; PostgreSQL breaks a deadlock.
ResearchFairness == \A j \in Job : WF_researchVars(Step(j)) /\ WF_researchVars(Victim(j))

ResearchSpec == ResearchInit /\ [][ResearchNext]_researchVars /\ ResearchFairness
-----------------------------------------------------------------------------
(* Properties *)

ResearchTypeOK ==
  /\ day \in 0..MaxDay
  /\ sources \in [Case -> [count: 0..MaxEvidence, first: 0..MaxDay, last: 0..MaxDay]]
  /\ stored \in [Case -> CaseRow] /\ work \in [Case -> CaseRow]
  /\ lock \in [Case -> Job \cup {NoJob}]
  /\ pc \in [Job -> {"idle", "refresh"} \cup InGroup]
  /\ runs \in [Job -> 0..MaxRuns]

\* The snapshots of a case are numbered without a gap and without a double,
\* and the row shows the number and the lifecycle of the last, although jobs
\* that wait for each other's transactions number them.
CaseShowsItsLastSnapshot ==
  \A c \in Case :
    LET r == stored[c]
    IN  /\ {s.version : s \in r.snapshots} = 1..r.version
        /\ Cardinality(r.snapshots) = r.version
        /\ \A s \in CurrentSnapshots(r) : s.state = r.state

\* A group that fails between its edges and their requests commits a hypothesis
\* nobody has asked data for, but no case ever shows one in a snapshot, a copy by
\* the lifecycle refresh included: the request is there, open or satisfied.
ShownHypothesesAreAsked ==
  \A c \in Case : \A s \in stored[c].snapshots :
    s.edge = "hypothesis" => stored[c].request # "none"

\* Every attempt at a research job ends, whatever rows jobs keep from each other.
ResearchAttemptsEnd ==
  \A j \in Job : pc[j] # "idle" ~> pc[j] = "idle"
=============================================================================
