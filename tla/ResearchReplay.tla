---------------------------- MODULE ResearchReplay ----------------------------
(* Replays of research at an earlier date                                   *)
(* (src/orchestrator/research_intelligence/replay.py, context.py and the    *)
(* adapters of evidence.py; the commands of cli.py).  A replay reads one    *)
(* evidence table as it is now and keeps what it takes to have been there   *)
(* at its date, then runs the model stages of a discovery and files what    *)
(* came of them.  A command replays its dates one after the other in one    *)
(* transaction.                                                             *)
(*                                                                          *)
(* A content is the time of the transaction that wrote it; what the models  *)
(* answer is free.  The groups of a replay are about one proposition.       *)
EXTENDS ResearchCases

CONSTANTS
  Kind,         \* the adapters looked at
  Command,      \* the replay commands somebody runs
  Series,       \* model variants and comparison groups of benchmark runs
  Authored,     \* the evidence of the benchmark episode: when each item is available
  ReplayDates,  \* the dates of a command: sequences of times
  RunBudget,    \* model_budget_usd_per_run
  Price,        \* what a model call may cost
  MaxGroups,    \* maximum_cases_per_run
  MaxClock      \* bound on the time that passes

\* The adapters of the evidence registry.
Adapter == {"macro_observations", "official_documents", "macro_releases", "market_state",
            "story_clusters", "market_confirmations", "investment_observations",
            "filing_deltas", "investment_analyses", "source_claims", "public_equities",
            "public_equity_trends", "corporate_actions", "positioning_reports",
            "option_chain_snapshots", "expectations_sentiment"}

ASSUME ReplayAssumption ==
  /\ Kind \subseteq Adapter /\ ReplayDates \subseteq Seq(Nat)
  /\ Authored \subseteq Nat /\ Price \subseteq Nat \ {0} /\ Price # {}
  /\ RunBudget \in Nat /\ MaxGroups \in Nat /\ MaxClock \in Nat

VARIABLES
  clock,    \* now
  kind,     \* the evidence table looked at
  rows,     \* the rows of one identity: the current one, or every version
  command,  \* what each command is at
  filed     \* the replay runs that are committed

replayVars == <<clock, kind, rows, command, filed>>
-----------------------------------------------------------------------------
(* How a table is written.  begun is the start of the writing transaction,  *)
(* which is what NOW() yields until it commits.                             *)

NewRow(source, begun) ==
  [source |-> source, acquired |-> begun, created |-> begun, updated |-> begun,
   content |-> begun]

\* Fault: the series' table has no trigger.
StampWithoutTrigger ==
  [macro_observations |-> "acquired", market_confirmations |-> "updated",
   investment_observations |-> "updated", investment_analyses |-> "updated",
   public_equities |-> "updated", public_equity_trends |-> "updated",
   positioning_reports |-> "acquired",
          expectations_sentiment |-> "source"]
\* The stamp that moves when a row of the table is overwritten: a trigger's or
\* the statement's updated_at, when it was acquired, when it was published.
StampOf == [macro_observations |-> "updated", market_confirmations |-> "updated",
          investment_observations |-> "updated", investment_analyses |-> "updated",
          public_equities |-> "updated", public_equity_trends |-> "updated",
          positioning_reports |-> "acquired",
          expectations_sentiment |-> "source"]
Stamped == DOMAIN StampOf
\* Overwritten too, by statements that leave alone what the adapter reads.
Silent == {"official_documents", "market_state", "filing_deltas"}
\* Never overwritten: a change is a row of its own.
Versioned == {"story_clusters", "macro_releases"}

Insert(begun, source) ==
  /\ rows = {}
  /\ rows' = {NewRow(source, begun)}
  /\ UNCHANGED <<clock, kind, command, filed>>

Overwrite(begun) ==
  /\ kind \in Stamped
  /\ \E r \in rows : rows' = {[r EXCEPT ![StampOf[kind]] = begun, !.content = begun]}
  /\ UNCHANGED <<clock, kind, command, filed>>

OverwriteSilently(begun) ==
  /\ kind \in Silent
  /\ \E r \in rows : rows' = {[r EXCEPT !.content = begun]}
  /\ UNCHANGED <<clock, kind, command, filed>>

AddVersion(begun) ==
  /\ kind \in Versioned /\ rows # {}
  /\ \A r \in rows : r.created < begun
  /\ \E r \in rows : rows' = rows \cup {NewRow(r.source, begun)}
  /\ UNCHANGED <<clock, kind, command, filed>>
-----------------------------------------------------------------------------
(* How an adapter reads it at a cutoff: the conditions of its query, and    *)
(* when the item it makes of a row says it became available.                *)

Latest(times) == CHOOSE t \in times : \A u \in times : u <= t
Earliest(times) == CHOOSE t \in times : \A u \in times : t <= u
By(cutoff, columns) == {r \in rows : \A c \in columns : r[c] <= cutoff}
Newest(found) == {r \in found : \A s \in found : s.created <= r.created}

\* The filter of each adapter's query.
Query(cutoff) ==
  CASE kind \in {"macro_observations", "public_equities", "public_equity_trends"} ->
         By(cutoff, {"source", "created", "updated"})
    [] kind \in {"official_documents", "expectations_sentiment", "positioning_reports"} ->
         By(cutoff, {"source", "acquired", "updated"})
    [] kind \in {"market_confirmations", "investment_observations"} ->
         By(cutoff, {"source", "updated"})
    [] kind = "investment_analyses" -> By(cutoff, {"updated"})
    [] kind \in {"market_state", "corporate_actions"} -> By(cutoff, {"source", "created"})
    [] kind \in {"filing_deltas", "source_claims"} -> By(cutoff, {"created"})
    [] kind = "macro_releases" -> Newest(By(cutoff, {"source", "created"}))
    [] OTHER -> rows

\* _collect_story_clusters, of which the version's changed_at is the created.
StoryQuery(cutoff) == Newest(By(cutoff, {"created"}))
\* _collect_option_chain_snapshots: no join to a feature row that is later.
OptionQuery(cutoff) == By(cutoff, {"source", "acquired", "created"})

MacroObservationFrom(r)  == Latest({r.source, r.created, r.updated})
OfficialDocumentFrom(r)  == Latest({r.source, r.acquired, r.created, r.updated})
MacroReleaseFrom(r)      == Latest({r.source, r.created})
MarketStateFrom(r)       == Latest({r.source, r.created})
StoryFrom(r)             == Latest({r.source, r.created})
ConfirmationFrom(r)      == Latest({r.source, r.updated})
ObservationFrom(r)       == Latest({r.source, r.updated})
FilingDeltaFrom(r)       == r.created
AnalysisFrom(r)          == r.updated
SourceClaimFrom(r)       == r.created
BarFrom(r)               == Latest({r.acquired, r.created, r.updated})
TrendFrom(r)             == Latest({r.acquired, r.created, r.updated})
CorporateActionFrom(r)   == r.acquired
PositioningFrom(r)       == Latest({r.source, r.acquired, r.created, r.updated})
OptionsFrom(r)           == Latest({r.acquired, r.created})
ExpectationsFrom(r)      == Latest({r.source, r.acquired, r.created, r.updated})

AvailableFrom(r) ==
  CASE kind = "macro_observations"      -> MacroObservationFrom(r)
    [] kind = "official_documents"      -> OfficialDocumentFrom(r)
    [] kind = "macro_releases"          -> MacroReleaseFrom(r)
    [] kind = "market_state"            -> MarketStateFrom(r)
    [] kind = "story_clusters"          -> StoryFrom(r)
    [] kind = "market_confirmations"    -> ConfirmationFrom(r)
    [] kind = "investment_observations" -> ObservationFrom(r)
    [] kind = "filing_deltas"           -> FilingDeltaFrom(r)
    [] kind = "investment_analyses"     -> AnalysisFrom(r)
    [] kind = "source_claims"           -> SourceClaimFrom(r)
    [] kind = "public_equities"         -> BarFrom(r)
    [] kind = "public_equity_trends"    -> TrendFrom(r)
    [] kind = "corporate_actions"       -> CorporateActionFrom(r)
    [] kind = "positioning_reports"     -> PositioningFrom(r)
    [] kind = "option_chain_snapshots"  -> OptionsFrom(r)
    [] kind = "expectations_sentiment"  -> ExpectationsFrom(r)

Item(r) == [content |-> r.content, source |-> r.source, from |-> AvailableFrom(r),
            validFrom |-> IF kind = "story_clusters" THEN r.created ELSE 0]

\* EvidenceRegistry.collect up to the context's own filter.
Collected(cutoff) ==
  {Item(r) : r \in CASE kind = "story_clusters" -> StoryQuery(cutoff)
                     [] kind = "option_chain_snapshots" -> OptionQuery(cutoff)
                     [] OTHER -> Query(cutoff)}

\* _exclude_reason
Excluded(item, cutoff) ==
  item.source > cutoff \/ item.from > cutoff \/ item.validFrom > cutoff

\* filter_evidence
Visible(items, cutoff) == {i \in items : ~Excluded(i, cutoff)}

\* exact_evidence_lookup: what the reference of an evidence item leads to, by a
\* time.  The types without a builder lead nowhere.
DocumentLookup(by)    == By(by, {"source", "acquired", "updated"})
ClaimLookup(by)       == By(by, {"created"})
DeltaLookup(by)       == By(by, {"created"})
ObservationLookup(by) == By(by, {"source", "updated"})
AnalysisLookup(by)    == By(by, {"updated"})
StoryLookup(by)       == Newest(By(by, {"created"}))
MarketLookup(by) ==
  CASE kind = "public_equities"        -> By(by, {"created", "updated"})
    [] kind = "option_chain_snapshots" -> By(by, {"source", "acquired", "created"})
    [] kind = "positioning_reports"    -> By(by, {"source", "acquired", "updated"})
    [] kind = "corporate_actions"      -> By(by, {"source", "acquired", "created"})
    [] OTHER                           -> {}
Found(by) ==
  LET found == CASE kind = "official_documents"      -> DocumentLookup(by)
                 [] kind = "source_claims"           -> ClaimLookup(by)
                 [] kind = "filing_deltas"           -> DeltaLookup(by)
                 [] kind = "investment_observations" -> ObservationLookup(by)
                 [] kind = "investment_analyses"     -> AnalysisLookup(by)
                 [] kind = "story_clusters"          -> StoryLookup(by)
                 [] OTHER                            -> MarketLookup(by)
  IN  {i \in {Item(r) : r \in found} : i.source <= by /\ i.from <= by}

\* The evidence of a benchmark episode (BenchmarkEpisode.evidence_as_of).
EpisodeEvidence ==
  {[content |-> t, source |-> t, from |-> t, validFrom |-> 0] : t \in Authored}
-----------------------------------------------------------------------------
(* What a run is made of *)

NoResult == [state |-> "none", snapshots |-> 0, began |-> 0, detected |-> 0]
NoEdges  == [edges |-> "none", valued |-> FALSE, reviewed |-> FALSE, written |-> FALSE]
Idle == [pc |-> "idle", source |-> "database", series |-> 0, dates |-> << >>, date |-> 0,
         evidence |-> {}, groups |-> 0, cost |-> 0, draft |-> NoEdges, result |-> NoResult,
         errors |-> FALSE, leaked |-> FALSE, filing |-> {}, aborted |-> FALSE]

Done == {"completed", "completed_with_errors"}
InReplay == {"claims", "groups", "causal", "value", "adversarial", "deliverable", "conclude"}

\* What is left of the budget is looked at before a call, not what the call costs.
Affordable(cost) == cost < RunBudget

\* What ResearchModelRunner.run and run_model_stage make of a stage, by what
\* the run has spent: a reused answer, a call, a repaired answer, or an error.
StageEnds(cost) ==
  LET Call(c) == IF Affordable(c) THEN {c + p : p \in Price} ELSE {}
      Answered(c) == IF c <= RunBudget THEN {[ok |-> TRUE, cost |-> c], [ok |-> FALSE, cost |-> c]}
                                       ELSE {[ok |-> FALSE, cost |-> c]}
      Repaired(c) == IF c <= RunBudget THEN UNION {Answered(d) : d \in Call(c)} ELSE {}
  IN  {[ok |-> TRUE, cost |-> cost], [ok |-> FALSE, cost |-> cost]}
      \cup UNION {Answered(c) \cup Repaired(c) : c \in Call(cost)}

\* run_stage with its guards and the except around it.  What the context does
\* not allow, in the input or in the answer, is noted before it becomes an
\* error of the stage like any other.
Stage(c, passed, failed) ==
  \E end \in StageEnds(command[c].cost), leaks \in BOOLEAN :
    command' = [command EXCEPT ![c] =
      [(IF end.ok /\ ~leaks THEN passed ELSE failed) EXCEPT
         !.cost = end.cost, !.leaked = @ \/ (end.ok /\ leaks), !.errors = @ \/ ~end.ok \/ leaks]]
-----------------------------------------------------------------------------
(* A command *)

\* research replay, research benchmark run.
StartReplay(c, source, series, dates) ==
  /\ command[c] = Idle
  /\ source = "database" => Len(dates) = 1
  /\ command' = [command EXCEPT ![c] = [Idle EXCEPT !.pc = "next", !.source = source,
                                                    !.series = series, !.dates = dates]]
  /\ UNCHANGED <<clock, kind, rows, filed>>

\* run_database_replay, run_benchmark_replay_date up to the stages.
BeginDate(c) ==
  /\ command[c].pc = "next" /\ command[c].dates # << >> /\ ~command[c].aborted
  /\ LET run == command[c]
         date == Head(run.dates)
         seen == Visible(IF run.source = "database" THEN Collected(date) ELSE EpisodeEvidence,
                         date)
     IN  command' = [command EXCEPT ![c] =
           [run EXCEPT !.pc = "claims", !.dates = Tail(@), !.date = date, !.evidence = seen,
                       !.groups = IF seen = {} THEN 0 ELSE MaxGroups, !.cost = 0,
                       !.result = NoResult, !.errors = FALSE, !.leaked = FALSE]]
  /\ UNCHANGED <<clock, kind, rows, filed>>

\* Claims are as old as what they were found in.
Claims(c) ==
  /\ command[c].pc = "claims"
  /\ LET then == [command[c] EXCEPT !.pc = "groups"] IN Stage(c, then, then)
  /\ UNCHANGED <<clock, kind, rows, filed>>

NextGroupOf(run) == [run EXCEPT !.pc = "groups", !.groups = @ - 1, !.draft = NoEdges]

\* The pattern stage makes a case of a group, or abstains or fails; a case
\* there is already is not made again.
Pattern(c) ==
  /\ command[c].pc = "groups" /\ command[c].groups > 0
  /\ LET run == command[c]
         passed == NextGroupOf(run)
     IN  \/ Stage(c, passed, passed)
         \/ run.result = NoResult /\ Stage(c, [run EXCEPT !.pc = "causal"], passed)
  /\ UNCHANGED <<clock, kind, rows, filed>>

CausalStage(c, edges) ==
  /\ command[c].pc = "causal"
  /\ LET run == command[c]
     IN  Stage(c, [run EXCEPT !.pc = IF edges = "none" THEN "adversarial" ELSE "value",
                              !.draft.edges = edges],
                  [run EXCEPT !.pc = "adversarial"])
  /\ UNCHANGED <<clock, kind, rows, filed>>

ValueStage(c) ==
  /\ command[c].pc = "value"
  /\ LET then == [command[c] EXCEPT !.pc = "adversarial"]
     IN  Stage(c, [then EXCEPT !.draft.valued = TRUE], then)
  /\ UNCHANGED <<clock, kind, rows, filed>>

AdversarialStage(c) ==
  /\ command[c].pc = "adversarial"
  /\ LET then == [command[c] EXCEPT !.pc = "deliverable"]
     IN  Stage(c, [then EXCEPT !.draft.reviewed = TRUE], then)
  /\ UNCHANGED <<clock, kind, rows, filed>>

DeliverableStage(c) ==
  /\ command[c].pc = "deliverable"
  /\ LET then == [command[c] EXCEPT !.pc = "conclude"]
     IN  Stage(c, [then EXCEPT !.draft.written = TRUE], then)
  /\ UNCHANGED <<clock, kind, rows, filed>>

\* _load_prior_benchmark_cases: of each earlier date of the series one run that
\* completed with the case, this transaction's own among them.
Earlier(c) ==
  {r \in filed \cup command[c].filing :
     /\ command[c].source = "benchmark" /\ r.source = "benchmark"
     /\ r.series = command[c].series /\ r.date < command[c].date
     /\ r.status \in Done /\ r.result # NoResult}
\* Fault: a date that was replayed twice counts twice.
PerRun(found) == {found}
PerDate(found) ==
  LET dates == {r.date : r \in found}
  IN  {pick \in SUBSET found : Cardinality(pick) = Cardinality(dates)
                               /\ {r.date : r \in pick} = dates}

\* next_lifecycle_state at the date, over the replay's own statistics.
ReplayedState(run, was, began, snapshots) ==
  LET age == run.date - Latest({i.from : i \in run.evidence})
      complete == run.draft.edges # "none" /\ run.draft.valued /\ run.draft.reviewed
                  /\ run.draft.written
      state == ActiveState(Cardinality(run.evidence), run.date - began, snapshots, complete)
  IN  CASE was = "archived" \/ age >= Threshold.archive -> "archived"
        [] was # "archived" /\ age \in Threshold.weakening..(Threshold.archive - 1) -> "weakening"
        [] OTHER -> IF run.draft.edges = "hypothesis" /\ state \in Ready THEN "corroborated"
                                                                          ELSE state

\* The case is made of what the stages left and of the earlier replays.
Conclude(c) ==
  /\ command[c].pc = "conclude"
  /\ \E before \in PerDate(Earlier(c)) :
       LET run == command[c]
           past == {r.result : r \in before}
           latest == {r \in before : \A s \in before : s.date <= r.date}
           was == IF before = {} THEN "candidate" ELSE (CHOOSE r \in latest : TRUE).result.state
           began == Earliest({i.from : i \in run.evidence} \cup {p.began : p \in past})
           snapshots == Cardinality(before) + 1
       IN  command' = [command EXCEPT ![c] =
             [NextGroupOf(run) EXCEPT
                !.result = [state |-> ReplayedState(run, was, began, snapshots),
                            snapshots |-> snapshots, began |-> began,
                            detected |-> Earliest({p.detected : p \in past} \cup {run.date})]]]
  /\ UNCHANGED <<clock, kind, rows, filed>>

\* A run as it is filed: numbered within its command.
Filed(c, status) ==
  LET run == command[c]
  IN  [by |-> c, number |-> Cardinality(run.filing), source |-> run.source,
       series |-> run.series, date |-> run.date, status |-> status, leaked |-> run.leaked,
       evidence |-> {i.content : i \in run.evidence}, cost |-> run.cost,
       result |-> IF status = "leakage_failed" THEN NoResult ELSE run.result]
File(c, status) ==
  /\ LET run == command[c]
     IN  command' = [command EXCEPT ![c] =
           [run EXCEPT !.pc = "next", !.filing = @ \cup {Filed(c, status)}, !.evidence = {},
                       !.groups = 0, !.cost = 0, !.draft = NoEdges, !.result = NoResult,
                       !.errors = FALSE, !.leaked = FALSE, !.date = 0]]
  /\ UNCHANGED <<clock, kind, rows, filed>>

Finished(c) == command[c].pc = "groups" /\ command[c].groups = 0
\* Fault: what a stage let pass and swallowed is not looked at again.
CleanEnough(c) == ~command[c].leaked \/ command[c].errors
Clean(c) == ~command[c].leaked

\* assert_no_leakage after the stages; the command catches what it raises.
RefuseReplay(c) == Finished(c) /\ ~Clean(c) /\ File(c, "leakage_failed")

\* persist_replay_execution
Persist(c) ==
  /\ Finished(c) /\ Clean(c)
  /\ File(c, IF command[c].errors THEN "completed_with_errors" ELSE "completed")

\* What follows the filing of the cases raises: they stay with a run that failed.
ScoreFails(c) == Finished(c) /\ Clean(c) /\ File(c, "failed")

\* A statement fails: an adapter's, which is taken for the adapter's failure, or
\* any other.  None that follows in the transaction succeeds, which the command
\* reports of every date left; what it reported before is lost with them.
StatementFails(c) ==
  /\ \/ command[c].pc = "next" /\ command[c].dates # << >> /\ ~command[c].aborted
     \/ command[c].pc \in InReplay
  /\ command' = [command EXCEPT ![c] = [Idle EXCEPT !.pc = "next", !.aborted = TRUE]]
  /\ UNCHANGED <<clock, kind, rows, filed>>

\* get_session commits, whatever the dates came to.
EndCommand(c) ==
  /\ command[c].pc = "next" /\ command[c].dates = << >>
  /\ filed' = IF command[c].aborted THEN filed ELSE filed \cup command[c].filing
  /\ command' = [command EXCEPT ![c] = [Idle EXCEPT !.pc = "over"]]
  /\ UNCHANGED <<clock, kind, rows>>
-----------------------------------------------------------------------------
TimePasses ==
  /\ clock < MaxClock
  /\ clock' = clock + 1
  /\ UNCHANGED <<kind, rows, command, filed>>

ReplayInit ==
  /\ clock = 1
  /\ kind \in Kind
  /\ rows = {}
  /\ command = [c \in Command |-> Idle]
  /\ filed = {}

\* A transaction that writes began now or one unit of time ago.
Write ==
  \E begun \in (clock - 1)..clock :
    \/ \E source \in 0..begun : Insert(begun, source)
    \/ Overwrite(begun) \/ OverwriteSilently(begun) \/ AddVersion(begun)

ReplayStep(c) ==
  \/ BeginDate(c) \/ Claims(c) \/ Pattern(c) \/ Conclude(c)
  \/ \E edges \in {"none", "hypothesis", "supported"} : CausalStage(c, edges)
  \/ ValueStage(c) \/ AdversarialStage(c) \/ DeliverableStage(c)
  \/ RefuseReplay(c) \/ Persist(c) \/ ScoreFails(c) \/ StatementFails(c) \/ EndCommand(c)

StartSome(c) ==
  \E source \in {"database", "benchmark"}, series \in Series, dates \in ReplayDates :
    StartReplay(c, source, series, dates)

ReplayNext ==
  \/ TimePasses \/ Write
  \/ \E c \in Command : StartSome(c) \/ ReplayStep(c)

ReplaySpec == ReplayInit /\ [][ReplayNext]_replayVars
-----------------------------------------------------------------------------
(* Properties *)

ReplayRuns == filed \cup UNION {command[c].filing : c \in Command}

\* What a table overwrites never shows in a replay of a date before the
\* transaction that wrote it, nor in a lookup by such a date, as long as
\* overwriting moves a stamp.
NothingFromTheFuture ==
  kind \notin Silent =>
    /\ \A c \in Command :
         command[c].source = "database"
         => \A i \in command[c].evidence : i.content <= command[c].date
    /\ \A by \in 1..clock : \A i \in Found(by) : i.content <= by

\* The same of every table: "A strict replay context excludes post-cutoff
\* publications, revisions, reaction windows, and model outputs before any model
\* call" (docs/research-intelligence.md:243).
ReplaySeesThePast ==
  \A c \in Command :
    command[c].source = "database"
    => \A i \in command[c].evidence : i.content <= command[c].date

\* A run that counts as completed let nothing pass in any of its stages,
\* although a stage that does is treated as one that failed.
CompletedIsClean == \A r \in ReplayRuns : r.status \in Done => ~r.leaked

\* A case is credited only with what its series saw at earlier dates, once a
\* date, however often, in which order and in which transactions the dates
\* were replayed: its maturity and its lead time are not made by repetition.
HistoryIsTheSeries ==
  \A r \in filed :
    r.result # NoResult =>
      LET before == {s \in filed : /\ s.source = r.source /\ s.series = r.series
                                   /\ s.date < r.date /\ s.status \in Done
                                   /\ s.result # NoResult}
      IN  /\ r.result.snapshots <= Cardinality({s.date : s \in before}) + 1
          /\ r.result.detected \in {s.date : s \in before} \cup {r.date}
=============================================================================
