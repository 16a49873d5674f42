----------------------------- MODULE MCResearch -----------------------------
(* How discoveries, an update and the calendar move one case; how two       *)
(* discoveries that work on two cases in any order keep rows from each      *)
(* other; how the reports cases draw on are stored and analysed; and three  *)
(* looks at replays: what they see of a table, what the stages of one come  *)
(* to, and what two commands make of the history of a series.  One part is  *)
(* explored after the other.                                                *)
EXTENDS ResearchReplay, InvestmentDocuments
CONSTANTS d1, d2, u1, f1, f2, i1, i2, t1, c1, w1, p1, p2, s1, s2
VARIABLE part

Thresholds == [forming |-> 1, corroborated |-> 2, corroboratedDays |-> 1, ready |-> 2,
               mature |-> 2, matureSnapshots |-> 3, weakening |-> 1, archive |-> 2]
FirstCase == [j \in Update |-> 1]

\* The answers of the one case are complete or lack both assessments and review.
OneCase ==
  \/ DayPasses \/ NewEvidence(1)
  \/ \E j \in {d1, u1} :
       /\ j = u1 => runs[u1] = 0 \/ pc[u1] # "idle"
       /\ Start(j) \/ Step(j) \/ FailGroup(j) \/ FailRefresh(j) \/ FailUpdate(j) \/ LoseLease(j)
       /\ pc'[j] = "publish" => answer'[j].reviewed = answer'[j].valued
TwoCases ==
  \/ \E c \in Case : sources[c].count = 0 /\ NewEvidence(c)
  \/ \E j \in Discovery :
       \/ runs[j] = 0 /\ StartDiscovery(j)
       \/ CollectGroups(j) \/ SkipGroup(j) \/ ProposeCase(j) \/ Upsert(j)
       \/ Causal(j, "hypothesis") \/ Request(j, FALSE)
       \/ Assess(j, TRUE) \/ Review(j, TRUE) \/ Publish(j) \/ Commit(j) \/ BudgetSpent(j) \/ FailGroup(j)
       \/ LoseLease(j)

\* The report f2 follows f1; f2 is told to be interim by its text.
LaterReport(d, e) == d = f2 /\ e = f1

\* The first report is only collected, before the second one is there, and its
\* analysis succeeds; the second may be an upload of another type.
Reports ==
  /\ DocumentNext
  /\ \A x \in Actor : actor'[x].doc = f1 => x = c1
  /\ \A d \in Doc : document'[d].industry = i1 <=> analysis'[d].number = 1
  /\ document'[f1].status # "failed" /\ document'[f1].type = "annual"
  /\ document[f2].status = "absent" =>
       document'[f2].type \in IF document'[f2].filing THEN {"annual"} ELSE {"annual", "other"}
  /\ document'[f1].status # "absent" => document'[f1].text
  /\ document[f2].status # "absent" => actor'[c1].doc # f1
  /\ actor[c1].doc = f1 => /\ actor'[c1] # actor[c1] /\ docMishaps' = docMishaps
                            /\ actor'[t1] = actor[t1] /\ actor'[w1] = actor[w1]

DateLists == {<<1>>, <<2>>, <<3>>, <<1, 2>>, <<2, 1>>, <<1, 1>>}
OneDate == {<<1>>, <<2>>, <<3>>}

\* The stages find nothing and cost nothing.
Tables ==
  \/ TimePasses \/ Write
  \/ \E dates \in OneDate : StartReplay(p1, "database", s1, dates)
  \/ BeginDate(p1) \/ Persist(p1) \/ EndCommand(p1)
  \/ /\ Claims(p1) \/ Pattern(p1)
     /\ command'[p1].pc = "groups" /\ command'[p1].cost = 0
     /\ ~command'[p1].errors /\ ~command'[p1].leaked
Stages ==
  \/ \E dates \in OneDate : StartReplay(p1, "benchmark", s1, dates)
  \/ ReplayStep(p1)
\* No stage goes wrong or costs anything, and a group makes a case of its own.
SeriesOfReplays ==
  \/ \E dates \in DateLists, s \in Series : StartReplay(p1, "benchmark", s, dates)
  \/ \E dates \in DateLists : StartReplay(p2, "benchmark", s1, dates)
  \/ \E c \in Command :
       \/ BeginDate(c) \/ Conclude(c) \/ Persist(c) \/ ScoreFails(c) \/ StatementFails(c)
       \/ EndCommand(c)
       \/ /\ \/ Claims(c) \/ Pattern(c) \/ ValueStage(c) \/ AdversarialStage(c)
             \/ DeliverableStage(c)
             \/ \E edges \in {"hypothesis", "supported"} : CausalStage(c, edges)
          /\ command'[c].cost = 0 /\ ~command'[c].errors /\ ~command'[c].leaked

MCResearchInit ==
  /\ ResearchInit /\ DocumentInit /\ ReplayInit
  /\ part \in {"one", "two", "documents", "tables", "stages", "series"}
  /\ part # "tables" => kind = "source_claims"
MCResearchNext ==
  /\ part' = part
  /\ \/ part = "one" /\ OneCase /\ UNCHANGED <<documentVars, replayVars>>
     \/ part = "two" /\ TwoCases /\ UNCHANGED <<documentVars, replayVars>>
     \/ part = "documents" /\ Reports /\ UNCHANGED <<researchVars, replayVars>>
     \/ part = "tables" /\ Tables /\ UNCHANGED <<researchVars, documentVars>>
     \/ part = "stages" /\ Stages /\ UNCHANGED <<researchVars, documentVars>>
     \/ part = "series" /\ SeriesOfReplays /\ UNCHANGED <<researchVars, documentVars>>
mcResearchVars == <<researchVars, documentVars, replayVars, part>>
\* ResearchFairness where jobs keep rows from each other.
MCResearchFairness ==
  \A j \in Discovery : /\ WF_researchVars(part = "two" /\ Step(j))
                       /\ WF_researchVars(part = "two" /\ Victim(j))
MCResearchSpec ==
  MCResearchInit /\ [][MCResearchNext]_mcResearchVars /\ MCResearchFairness

\* ResearchAttemptsEnd of the behaviours in which discoveries keep rows from each other.
PairedAttemptsEnd == part = "two" => ResearchAttemptsEnd
=============================================================================
