# Verification of the trading data platform

The platform collects market data, news and filings, derives regime, macro and
briefing sections from them with paid language models, develops research cases
and company analyses, and serves the result. It runs as three services that
share nothing but a PostgreSQL database and a data directory: `postgres`, `web`
(`src/api`) and `worker` (`src/orchestrator`), of which there may be several
replicas. Everything that is hard about it happens in the rows and files those
processes compete for. This directory holds TLA+ modules of that behaviour, the
TLC runs that check them on small instances, and TLAPS proofs for every size of
instance.

## 1. Inventory

### The parts, their state and how they interact

| part | state | operations | talks to |
| --- | --- | --- | --- |
| operation lane: `jobs.py`, `operation_worker.py`, `run_lifecycle.py`, `recovery.py` | `cycle_runs`, `jobs` with a run kind; the claim a worker has in memory | accept, claim, start, heartbeat, dispatch, finish, retry, poison, recover, reconcile | HTTP triggers and the scheduler enqueue; handlers run cycles, collectors, processors, news |
| event ledger and outbox: `events/*` | raw tables, `market_events`, `event_outbox` | publish a batch, claim, route, complete, retry, fail | collectors write; routing files headlines, creates windows and cards, enqueues analysis jobs |
| analysis lane: `jobs.py`, `job_worker.py`, `analysis_job_handlers.py`, `section_snapshots.py`, `reconciliation.py` | `jobs` without a run kind, `section_snapshots` | enqueue per ingestion minute, claim, rebuild a section, publish a version, retry, reconcile | routed events in; the web service reads snapshots |
| LLM budget: `budgets.py`, `llm_client.py` | `budget_reservations`, `processing_log` | admit, settle, retain, release, expire, log | every processor that calls a model |
| news: `sources/*`, `publication.py` | `state.json`, snapshots, `feed.json`, observations, events | collect, merge, build, publish, commit the cursor | operation lane in, event ledger out |
| stories: `stories.py`, `story_confirmation.py` | `story_clusters`, their members and versions, confirmations | file a headline, count sources, contradict, confirm by prices | routing in, analysis jobs and reconciliation fill confirmations |
| macro releases and reactions: `macro_releases.py`, `reaction_windows.py` | cards and their pointer, `event_reaction_windows` | insert a card, advance its stage, fill a window | routing in, analysis jobs and reconciliation |
| synchronous runs: `orchestrator.py`, `cycle_planning.py`, `*_execution.py`, `locks.py` | `cycle_runs`, session advisory locks, collection and processing logs | accept, plan, collect, process or reuse, publish, finalize, abandon | the same rows as the operation lane |
| scheduler and roles: `scheduler.py`, `roles.py`, `role_heartbeat.py`, `worker_health.py` | leader lock, `role_heartbeats`, health file | lead, fire a window, beat, detect drift, stop | enqueues into the operation lane |
| runtime configuration: `contracts/runtime_config.py`, `api/setup_state.py` | version directories, the `current` link, a startup snapshot in each process | stage, sync, commit, prune, load, validate, detect drift | every process |
| research intelligence: `research_intelligence/*` | cases, edges, value assessments, requests, snapshots, artifacts | discover, update, refresh lifecycles, publish a snapshot, replay | jobs of the analysis lane, evidence from every store |
| company filings and analyses: `investment_*`, `filing_deltas.py` | documents with a status, analyses, deltas, observations | upload, collect, claim, extract, analyse, save, fail | API threads, collections and queue replicas compete for a document |
| budget overrides: `api/api_budgets.py` | the `summary` of a run row | register, adopt, consume, expire | triggers, operation lane, admission |
| thesis desk: `thesis_*` | what one cycle holds in memory, two model ledgers, proposals | collect, ask roles, audit, challenge, promote; review of proposals | a job of the analysis lane, models, API |
| HTTP client, price stream | connection and quote state | request with deadline and retries, reconnect | collectors, `llm_client` |

`PROJECT.json` lists each part with its status; the hazards of each, at the line
where they bite, are under `hazards` there.

### What makes each part correct

* **Operation lane.** A run is closed once, by the worker of its latest claim; a
  run and its job never disagree; one active job per logical identity; a fresh
  owner is never disturbed; every accepted run ends. Hard because four
  independent transactions act on a run (start job, start run, finish, retry),
  any of them may be lost, leases lapse under live workers, and maintenance of
  any replica repairs what it believes abandoned.
* **Events.** An event exists only with its row; a revision chain has no gap; an
  event is routed exactly once; every event is settled. Hard because the latest
  event is read before the lock is taken and because the outbox lease has no
  heartbeat.
* **Analysis lane.** A version is published only by the holder of its job, covers
  the event it cites, and is no older than what was there when its rows were
  read; every job ends.
* **Budget.** Money is counted once, on the day of admission, although two tables
  record it; concurrent admissions leave room for the estimates of each other, so
  that only charges above their estimates can exceed the cap.
* **News.** No cursor passes an item that a store lacks, unless its source no longer
  showed it when it was first fetched.
* **Stories, cards, windows.** A story is corroborated by items it really has,
  every change of it has its version, a stage is earned by its event or one before
  it, a price that is
  stored is observed. Hard because routing transactions interleave statement by
  statement at READ COMMITTED, and because rows are filled by whoever comes by.
* **Synchronous runs.** One cycle at a time; a reuse leaves no fingerprinted input
  unread; every row is closed. Hard because the
  locks belong to a session that may be lost while the work goes on.
* **Configuration and roles.** A committed version is complete and survives a
  power loss; an answer to the operator stays true; a process never runs on a
  mixture; a window of the schedule gets a second job only for a cause; the service
  comes back after any mishap.
* **Research.** What a case shows is its latest snapshot; every hypothesis it shows
  has a request, open or satisfied, for the data that would test it; attempts end
  although jobs keep rows from each other. Hard because a transaction lasts as long as its
  model calls.
* **Replays.** A replay of an earlier date sees nothing that was written later,
  counts as completed only if no stage let anything of the future pass, and takes
  the history of a case from its own series. Hard because it reads today's tables
  and trusts their stamps.
* **Thesis desk.** A candidate is accepted only if it was audited, survived its
  challenge and has an opponent that did; a job's spending is bounded. Hard because
  every model answer may fail on its own while the desk goes on, because all of an
  attempt is one transaction, and because what was paid is not undone with it.
* **Filings.** A claimed document has an analysis under way or lost a worker; an
  analysed financial report has the observation of its latest analysis, and a
  document of another type none.

## 2. Plan

| | modules | status |
| --- | --- | --- |
| 1 | `OperationQueue`, abstract `RunPromise`, `OperationQueueProofs` | done |
| 2 | `EventOutbox`, `EventOutboxProofs` | done |
| 3 | `AnalysisQueue`, `NewsPublication`, `PublicationProofs` | done |
| 4 | `BudgetLedger`, `ThesisCycle` (one job of the thesis desk), `SpendingProofs` | done |
| 5 | `SetupState` (commits of the configuration), abstract `SetupPromise`, `WorkerRole` (leadership, schedule, heartbeats, drift), `ServiceProofs` | done |
| 6 | `CycleRun` (runs executed by their caller, the cycle lock, plans, reuse), `CycleRunProofs` | done |
| 7 | `StoryClusters`, `PriceReactions`, `MacroReleases` (the fast path of an event), `FastPathProofs` | done |
| 8 | `ResearchCases` (discoveries, updates, lifecycles, snapshots), `ResearchReplay` (what replays of an earlier date see and keep), `InvestmentDocuments`, `ResearchProofs` | done |
| 9 | the freshness record of a source, outbound calls with their deadlines, the price stream's quotes | open |

Composition. `AnalysisQueue` takes from `EventOutbox` that each event is routed
once (`RoutingIsExactlyOnce`) and models routing as one action; `OperationQueue`
sees of the analysis lane only whether a run has live follow-up work.
`MacroReleases` extends `PriceReactions`: the transaction that routes an event
inserts the card and the windows, and the job that advances the card fills the
windows first. `WorkerRole` takes a commit of the configuration as one step,
which `SetupState` implementing `SetupPromise` shows it is; `CycleRun` takes of the
budget and the news only that a stage ends well or badly. The abstract
specifications are what a caller relies on: `RunPromise`, which both the
operation lane and the runs executed by their caller implement, and
`SetupPromise`.

## 3. The modules

Common abstractions. A database transaction is one action where nothing of it can
be seen or overtaken; where the order of its statements matters (filing a
headline, a card, a research job) each statement is an action and the locks it
waits for are guards. What a function does in two transactions is two actions,
and between them any other process may act. A statement that fails, a rollback,
and a lost reply are disjuncts of the action. Time is not a number: a lease, TTL
or timeout is *fresh* or has *lapsed*, and may lapse at any moment. Heartbeats
that only keep a lease fresh need no action. A process that dies loses what it
had in memory; its successor has a new worker id, so no row names the old one.
Each module names the bounds that keep it finite.
Some definitions are introduced by "Fault:". No specification uses them; they
are plausible bugs of the code beside them, and every property is shown to fail
when the corresponding definition is replaced by one of them.

### OperationQueue, RunPromise

A run is named by its correlation id, and as `idx_jobs_operation_correlation`
allows one operation job per correlation the job is indexed by the run.

| definition | code |
| --- | --- |
| `AcceptNew/Duplicate/Replay/Conflict` | `accept_and_enqueue_operation`, `_replay_acceptance`, `enqueue_operation` |
| `Claim`, `StartJob` | `claim_jobs` (with the takeover of a stale run), `start_job` |
| `StartRun`, `ReadRunStatus`, `CloseFinished` | `start_run` and `_handle` when the run cannot be claimed |
| `Dispatch`, `Finish`, `Retry`, `Poison` | `_handle`, `finish_run_in_session` + `succeed_job`, `retry_job`, `_terminal_fail` |
| `Maintain` | `_run_maintenance`: `recover_operation_runs` then `reconcile_jobs` |
| `LeaseLapses`, `Crash`, `Restart` | a renewal that did not come in time, the death of a process |
| `FollowUp` | the analysis jobs of the run's events, as far as recovery looks at them |

`RunPromise` is the requester's view: a run is absent, pending, or closed, and
closed for good. `OperationQueue` implements it with the status of the run row
alone (`RunStatus`), so leases, attempts, lost races and repairs are stutters.

### EventOutbox

An identity has one event per content (`market_events_identity_unique`), so an
event is the pair. `ReadLatest` is the read of the latest event, before the raw
row is written; `Write` is everything from that row's lock to the commit. The
identities in `Frozen` belong to insert-only collectors. `Claim`, `Route`,
`GiveBack`, `GiveUp` are `lease_outbox`, `_process` with its single transaction,
and the second transaction after a failure, which may fail too.

### AnalysisQueue

One section. The stored data is the number of its changes; a handler's result is
the number it read (`ReadRows`), before it takes the section's lock in `Publish`.
A job is named by the ingestion minute, which is its input fingerprint. `base` is
history: how many versions there were when a handler read its rows.

### BudgetLedger

A pair is a processor of a correlation, the key of reconciliation. `Reserve` is
the admission under the day's advisory lock, with its sweep; `Answer` is what the
provider did, as `call_llm` classifies it; `Settle`, `Retain`, `Release` close
the reservation; `End` writes the processing log on the day the processor began.
`bill` is what the provider charged; no guard reads it. `lost` remembers which
kinds of ledger write were lost, so that a property can say what it assumes. What
a call costs is any of `Cost`, below or above the `Estimate` it was admitted at.

### NewsPublication

A run holds the file lock from `Collect` to `Finish` and goes through `Merge`,
`BuildFeed`, `PersistObservations`, `PublishEvents`, `CommitCursor`, one store
each. `Abort` is a failed write or the death of the process at any of them. Its
definitions begin with `News` where another module uses the plain name. Items are
numbered by their publication upstream. A fetch shows the newest `FetchLimit` items
of its source (`Offered`), and `Collect` takes those its cursor has not seen. What
newer items have pushed out of the fetch before a collection stored it is
`Overtaken`, which the properties name instead of assuming it away.

### SetupState, SetupPromise

The contents of a version are the set of edits merged into it. A writer takes the
file lock in `Open`, merges the live contents and writes them (`Stage`,
`FinishStage`), makes them durable (`Sync`), replaces the link (`Flip`), makes
that durable too (`Confirm`), removes older versions (`Prune`) and answers
(`Reply`). `ConfirmFails` and `FailBeforeFlip` are the error paths, which answer
differently. `PowerLoss` undoes whatever no fsync has confirmed. A loader prints
and parses both files; with an unlockable mount it does so without the lock and
compares afterwards. A reader resolves the link once and validates what it found
(`Resolve`, `Validate`, `Forget`).

`SetupPromise` is the operator's view: what is live, what no power loss undoes,
what was answered. `Live`, `Content(durable)` and `outcome` implement it.

### WorkerRole

A replica that runs has the configuration of its start, at most one of them holds
the leader's session lock and fires the schedule. `LoseSession` is a dropped
connection of a live leader: the server gives the lock to the next
`AcquireLeader` while the first still fires. `StartsScheduler` is the start of the
schedule: a new scheduler is not due in the current minute, but versions in
`OnStartup` have a schedule with `run_on_startup`, whose job it enqueues at once
(`FireOnStartup`), if need be after the minute has turned; `Fire` is the regular
fire, coalesced with a startup run that is still due. `starts` is history: how many
such schedulers started in a minute. `SchedulerThreadDies` may leave the lock with
a connection the pool of the living process keeps. `Beat` compares the snapshot
with the committed version and exits on drift. The `Ghost` is the session of a
killed process until the server reaps it.

### CycleRun

`version` is what a component has published. A processor reads the versions of
what it consumes (`Consumed`, its own last output perhaps), and its fingerprint is
the versions of `Fingerprinted`, a part of them: `briefing.process` reads more than
`get_fingerprint_inputs` names, and a reuse tells nothing about the rest. A cycle
takes its lock and makes its plan (`MayBeDue`, `Plan`), collects (`BeginCollect`),
processes (`BeginProcess` under the component's lock, `SkipRest`); a processor reads its
inputs after the fingerprint (`ReadInputs`), publishes (`PublishOutput`) and logs
(`LogOutput`), and a stage that met a lock conflict aborts the run. `Aggregate`
gives the row its final status. `ReclaimSync` and `AbandonSync` are recovery: a
stale row whose correlation has active jobs is put back to accepted, one without
them is abandoned. Such jobs come from routing the events of what the run
collected (`RouteEvents`, `JobsEnd`; recovery asks for stale rows only, so they
are left out for others, and a job's lease, which delays the reclaim, is no state
here). `Lapse` is a heartbeat
thread that stopped, `CutSession` a lost session with its locks. The row itself
is `syncRow`.

### StoryClusters, PriceReactions, MacroReleases

One transaction per routed headline, statement by statement: the candidate is
read without a lock, membership and story rows wait for their unique keys,
PostgreSQL ends deadlocks, and what is not committed stays in `tx`. A row of
`PriceReactions` holds the horizons whose price it has seen; jobs, routing and
reconciliation are the `Filler`s, each of which takes a batch in the code's order
(`Rank`), looks at prices and writes. A card's number and pointer in
`MacroReleases` come from a read before the insert, so two routings may race
(`RefuseCard`, `CommitCard`), and stage jobs write what they have read
(`ReadStage`, `WriteStage`). Each event has the stage times of its own clock
(`StageTime`, `StageDue`) and the stages its payload may name (`OwnStages`), and the
card of a revision takes over a stage of the pointer that is ahead (`InsertCard`).

### ResearchCases

A job is one transaction that lasts as long as its model calls: `work` is what
the job that holds a case's row has made of it, `stored` what is committed, and
each persisted stage is a savepoint (`Undo`, `RollBack`). Discovery refreshes the
lifecycles from an unlocked read, then works through its groups; an update works
on one case. `Causal` and `Request` are the savepoint of the edges and that of the
data requests: a group may fail between them and still commit. Answers of the models
are free; the causal graph is one edge.

### ResearchReplay

`rows` is one identity of the table `kind`, with the stamps its writers leave
(`Insert`, `Overwrite`, `OverwriteSilently`, `AddVersion`; `StampOf` says which
stamp an overwriting moves). `Query` and the `...From` operators are the sixteen
adapters: which rows a cutoff admits, and when the item made of a row became
available; `Excluded` is the context's own filter; `Found` is the lookup of a
single reference. A command opens one transaction and replays its dates
(`BeginDate`, the five stages, `Conclude`, `Persist`); `Stage` is any stage with
its guards and the `except` around it, `StageEnds` what a call, its repair and
the run's budget make of it. `Earlier` and `PerDate` are the earlier replays of
the series. A run is stored under the number it has in its command. The groups
of a replay are about one proposition and all of its evidence.

### InvestmentDocuments

The row of a document is claimed by its status, which has no lease, while the
queue's job for it has one. `ClaimDocument`, `PrepareText`, `StoreText`,
`ReadPrevious`, `SaveAnalysis` and `FailAnalysis` are the transactions of
`analyze_document`; `Upload`, `CheckFiling`, `StoreFiling`, `ComputeDelta` those
of the ways a document arrives. Documents have a type: only those in `Reported` are
observed (`Observe`), by the type the analysis read before its claim. `LoseActor` is
a death anywhere, `LoseRecord` a failure whose own record is lost.

### ThesisCycle

One job of type `thesis_autonomy_run`. `ClaimDesk` begins an attempt, which is one
transaction of the worker and goes through stages: `Collect`; one call per role
(`RoleAnswers`, `RoleFails`), from whose lists `Grounded` keeps what cites supplied
evidence; `Compact`; one call per batch of the auditor (`AuditAnswers`,
`AuditFails`); `Rank`; one challenge per candidate that is worth one; `Promote`
for each; `FinishDesk`. What a cycle holds in memory are the variables `Blank`
resets. A call is `_call_stage_once`: `MayCall` and `Pay` are the ledger it is
charged to, looked at before and after; `Heard` is a call whose answer is looked
at, `Raises` all the ways it ends in an exception, `AskAgain` the one repair. A
draft is a key and the evidence it cites; the model's answers come from the
constant `Answers` and from `Verdict`. `aborted` is a transaction a statement
failed in while the code swallowed the exception: the cycle goes on, and
`FinishDesk` rolls back. `paid` is the sum of all charges of the job, which the
code does not keep, `uncharged` the number of calls the provider billed and no
ledger was charged for (`BilledOnly`: a call that times out, whose body is unusable
or whose usage is missing raises before the charge). `MatchColumns` and `ThesisColumns` are the two sides of the
statement section 5 reports: `staged` never grows.

### The MC modules

`MCBudgetLedger`, `MCOperationQueue`, `MCService`,
`MCPublication`, `MCEventOutbox`, `MCFastPath` and `MCResearch` explore several
independent questions one after the other: a variable `part`, fixed in the
initial state, says which component moves while the others keep their initial
values. Each behaviour is a behaviour of one component, so the state spaces add
and do not multiply, and no property can hold or fail because of the other part.

## 4. The runs

Deadlock checking is off where the system really stops: the bounded environment
has nothing left to send and every process is idle. It is on in the two runs of
the operation lane.

| run | instance | question |
| --- | --- | --- |
| `queue_lane` | 1 run, 2 workers, 3 attempts, 2 crashes; 2 runs, keyed and scheduled requests, 1 worker, 3 attempts | do a lost lease, a takeover and a crash at any step leave run and job agreed, with the outcome of the latest claim; does every accepted run end; one active job per identity; does the lane implement `RunPromise`? |
| `queue_replay` | 2 runs, one key | *violation*: is a keyed retry always answered with its acceptance? |
| `outbox` | 2 identities (one frozen), 3 contents, 2 publishers; 2 workers, 2 attempts, 2 crashes, 2 lapses | are revision chains and frozen rows right; is an event routed exactly once; does every event settle? |
| `publication` | 2 replicas, 2 minutes, 2 changes, 2 attempts, 1 crash; 2 sources, 5 items, fetches of 2, the last title blank, 2 failures | does only the holder publish a section, is a version current enough, does every job end; can a cursor pass an unpublished item it was shown, does every item that is not overtaken become an event? |
| `budget_ledger` | 2 pairs, 2 calls each, 2 days, cap of 2 estimates, charges of twice the estimate, 1 lost write, 1 crash, 1 lapse; 3 candidates of one exposure, 4 pieces of evidence, 2 roles, batches of 2, shares of 2 and 1, charges to 2, 2 attempts, 1 crash, 1 billed and uncharged call | is the cap passed only by charges above their estimates, each dollar counted once on its day; is every accepted thesis audited, challenged and opposed, and a job's spending bounded? |
| `budget_lost` | 1 pair | *violation*: does the log stand in for a lost settlement? |
| `service` | 2 writers, 1 unlockable loader, 1 reader, 3 edits, 4 versions, 1 fault; 2 replicas, 2 minutes, 1 commit (of a version with a startup run), 2 mishaps, 1 thread death | do commits implement `SetupPromise` (atomic, one at a time, truly answered), is what is committed complete, can a reader lose the version it reads; has every second job of a window its cause, does the service recover? |
| `sync` | 2 of 2 cycles and 2 runs of one component, 1 source, 1 processor, 1 fault | do cycles exclude each other, is a reuse current in what its fingerprint names, does every row close? |
| `fast_path` | 4 headlines of 3 items, 2 routers, 1 crash; 2 events of a release, each with its own stage times and payload stages, 2 publishers; 3 windows and 1 confirmation, 1 reconciler, 2 observers | are stories, cards and windows true to what happened, is every stored price observed? |
| `reaction_backlog` | the same with batches of one row | *violation*: does the backfill reach every row? |
| `research` | 1 case: 2 discoveries, 1 update, 2 days, 2 evidence items; 2 cases: 2 discoveries; 2 documents, one of which may be no financial report, 1 caller, 1 collection, 1 replica, 1 mishap; 16 tables, 3 dates; 2 groups; 2 commands, 2 series | is what a case shows its latest snapshot, is every hypothesis it shows asked about, do attempts end; has a claimed document its analysis and an analysed report its observation; is a replay free of the future, a completed one clean, its history its own? |
| `replay_past` | the same | *violation*: does a replay see no content that was written after its date? |

**Why the bounds are enough to be interesting.** Two workers are the least that
can disagree over a claim; three attempts let a worker lose its job twice before
the last attempt; two crashes let the process that took over die as well. Two
collectors and three contents give every race of the revision chain; the routing
of one event does not depend on others. Two minutes and two changes are the least
for a job that cites an old event to run after one that cites a new event. Two
pairs with two calls let a call be admitted beside another one, after midnight,
and after a call of its own pair was settled, retained or lost. Three items of one
source and fetches of two let one be overtaken before a collection, between two of
them, and after a failed one. Four versions let
the one before the live one be pruned while a reader still looks at it. Four
headlines of three items from two outlets are the least that confirm a story,
contradict it and revise one of its items at the same time. A run of the
processor and one of its source beside a cycle give the stale fingerprint. Two
days pass the thresholds chosen for weakening and archiving in either order. Two
bulls and a bear of one exposure are the least that compete and oppose; batches
of two leave the third to a batch of its own, which may fail alone; a share of two
lets a call leave something, use up, or overshoot its ledger. The
proofs below lift the safety properties they cover from these instances to all.

**Fairness.** Each run with a liveness property states its own. Operation lane: a
live worker takes its next step, a dead process is restarted by the container
runtime, idle workers poll every second and do maintenance every 30 s, and a
lease nobody renews expires. Maintenance needs an idle worker, which comes and
goes: strong fairness. The outbox adds that the transaction that gives a failed
claim back does not fail forever (a router that dies in every attempt, with crashes
without bound, is so excluded); without a bound on lapses of live leases a slow
router could lose every race (`MaxLapses`). The analysis lane assumes no success
of a handler, only that it ends. News: the scheduler (or an operator, for
Kobeissi) collects each source again and again, and the lock is free in between:
strong fairness of `Collect`; failures are bounded by `MaxAborts`, for if every
write fails nothing can become an event. Roles (`RoleFairness`): replicas beat,
exit and are restarted, the server reaps dead sessions. Cycles
(`CycleFairness`): a live caller goes on, recovery, which every starting worker
runs, comes again, and the analysis jobs of a run's events end, as their lane sees
to. Reactions (`ReactionFairness`): reconciliation runs
again and again and a filler goes on; prices need not arrive. Research
(`MCResearchFairness`): workers go on with a job they hold and PostgreSQL breaks
deadlocks; nobody has to start anything. The part with two cases leaves out the
lifecycle refresh, so `PairedAttemptsEnd` is about deadlocks between the groups of
discoveries, not between a group and a refresh.

**Timing assumptions.** A reservation's TTL (600 s by default) is validated to
exceed the request deadline (stage timeout + 30 s), so `Lapse` never hits a call
that has no answer; `Stalls` drops the assumption that it also covers the
settlement. `HardCap` speaks of the calls whose permit did not run out.
`ReadersSurviveOneCommit` allows one commit between the resolution of a link and
its use.

## 5. Where code and documentation disagree

The first four are violation runs; `findings` in `PROJECT.json` quotes the lines.

* `queue_replay` — the lookup behind a keyed retry does not name the lane and may
  find an analysis job of the same correlation: the caller gets a 409 although
  the contract promises the original acceptance.
* `budget_lost` — logged cost is reconciled per pair, so a call settled at its
  estimate cancels the logged cost of another call whose settlement was lost.
* `reaction_backlog` — the backfill takes the oldest incomplete rows, and rows
  that can never be completed fill its batch: others with stored prices wait for
  ever.

* `replay_past` — market features, filing deltas and official documents are
  overwritten without moving a stamp their adapter filters on, so a replay of an
  earlier date is given the later content.

The others were met while modelling; a property says what holds instead.

*Events, news, budget, operations.* A value that returns to an earlier one has no
event of its own, so the newest event no longer describes the stored row
(`events/repository.py:158`). An item that is pushed out of the fetch before a
collection finds it, while the worker is down or behind, never becomes an event:
Kobeissi shows the newest 20 and its cursor is the newest id seen
(`sources/kobeissi.py:97`, `:199-227`), Reuters three sitemap pages
(`sources/reuters.py:250`, `:290`). The feed file is replaced before the stores that
may fail, although `docs/operations.md` says that failure leaves the prior feed
intact. One item with a blank title keeps all others of its source out of the
ledger for as long as it is in the feed. `docs/operations.md:265` calls
`budgets.daily_llm_usd` a hard daily cap, but a worker that dies after it sent a
paid call leaves a reservation that admission forgets when its TTL ends, and
later calls are admitted in its place (`HardCap` excludes lapsed ones). A call
that is known to be free passes when the day is over its cap, and a settled
amount may exceed its estimate (`budgets.py:225`, `:491`): the cap is passed by
the difference, which is what `HardCap` grants.
`docs/current-architecture-and-operations.md:334-336` says that the full cycle
"republishes missing snapshots"; `reconcile_event_pipeline` repairs the metadata
of existing ones and publishes none. `register_manual_override`
(`api/api_budgets.py:190-206`) inserts a run without `accepted_at`, which the
schema declares NOT NULL: an override can never be registered. The answer to an
idempotent replay of an investment job carries a fresh correlation id
(`api/routes/json/investment.py:297-313`).

*Roles, configuration, cycles.* `scheduler.py:4-8` promises one job for a window
that two schedulers fire. The identity is only unique among active jobs: a window
gets a second one when the leader's session was lost and two schedulers fire, and
whenever a scheduler with a startup run starts in a window whose job is over
(`scheduler.py:294-305`). `RepeatsHaveACause` says that there is no other way.
"Closing it releases the lock so a standby can take over" (`scheduler.py:179-181`),
but `close` returns the connection to the pool (`db.py:68-74`), whose rollback keeps
a session lock: after `start_scheduler` raised, the worker beats on without a
scheduler and may keep every standby out until it exits (`ServiceRecovers` exempts
it). A lock-free
reader finds setup incomplete if two versions are committed while it looks
(`setup_state.py:35`). `processors/base.py:96-97` asks for the "inputs actually
consumed", but the briefing also reads the classified news, the previous briefing
and `asset_context` (`processors/briefing.py:113-134`), which
`get_fingerprint_inputs` (313-376) does not name: a reused briefing may have missed
them. A stale run without an operation job is put back to accepted while jobs from
its own events are active (`recovery.py:54-68`): no worker claims it, its caller's
result is lost, and it ends abandoned. A lock conflict in one processor aborts the whole cycle
(`processor_execution.py:92`).

*Stories, cards.* A macro release event routed after its revision violates the
CHECK of `schema.sql:1417` and is dead-lettered together with its windows and
jobs (`macro_releases.py:455`). The stage of a card can go back when two stage
jobs race (`macro_releases.py:557`; the docstring at 245 says forward only). Two
concurrent first cards both get number 0, and a late revision starts at the old
card's stage (`macro_releases.py:459-462`), which its own clock may not have
reached; a payload may also name the stage, or final, itself (318-325). The source count and state of a story come from a reading that may
be stale: the count may understate, a contradicted story may be confirmed
later, `prior_state` of a version may be wrong, and a story without members is
possible. A confirmation can be overwritten by a slower, older reading until
the next backfill.

*Research.* A causal edge, value row or driver that returns with an earlier input
fingerprint violates a UNIQUE constraint the schema dropped only for economic
factors (`schema.sql:2736-2738`) and fails its group with the earlier savepoints
committed. `publish_case_snapshot` may find an older snapshot of the same content
and leave `current_version` at a newer, different one
(`docs/research-intelligence.md:128`). `refresh_case_lifecycles` reads unlocked,
and archives a case before it links the new evidence of the same run, although
archived is terminal. The edges of a group and their data requests are two
savepoints (`service.py:304-311`): if the second fails, the discovery catches the
error (`:560`) and commits a hypothesis nobody has asked data for, until a later run
of the case asks (`ShownHypothesesAreAsked`: no snapshot shows it before); listings
of unresolved hypotheses may contain it, and the case may keep the state it had.
Requests of satisfied or dropped hypotheses are never
reopened or closed: asked means open or satisfied. An update publishes under `case:<id>`, so the next discovery
never finds its group completed; rolled-back jobs lose their
`generation_attempts`, and the answers are paid again. Two cases may share a
theme. The dates of one `research benchmark run` share a transaction
(`cli.py:894-917`): after a statement of a later date has failed, the commit rolls
back silently, and runs the command reports are not stored. An adapter that fails
does so without a savepoint (`evidence.py:2552-2559`) and takes the replay with
it. A scorecard that fails leaves the cases of the replay under a run that is
`failed`. A stage beyond the run's budget is an error of the stage like any other.

*Companies.* A caller or worker that dies in `analyze_document`, or whose failure
record is lost, leaves the document `analyzing` for ever: nothing resets it and
every retry raises `AnalysisInProgress`, so "the durable queue supplies
retry/lease semantics" (`analysis_job_handlers.py:593`) cannot hold. A filing
whose content is already stored under another id is fetched and analysed again on
every collection. A collection that dies between storing a filing and analysing it
never analyses it. A failed re-analysis drops the observation while the older
analysis remains. Investor reports, presentations, other regulatory filings and the
rest are admitted and analysed (`investment_ingest.py:163-173`) but never observed
(`investment_observations.py:147-148`). A failure of the read after the save
(`investment_service.py:1476-1478`) reports a saved analysis as failed.

*Theses.* `run_autonomous_thesis_cycle` selects columns of `investment_theses`
that the schema does not have (`thesis_autonomy.py:2025`, `schema.sql:1739`). The
first candidate that reaches the statement aborts the transaction; the cycle
swallows the error, ends, and is rolled back and tried again: no proposal is ever
stored, and every attempt pays for its calls. `_ModelBudget` calls the ceiling of a
run a hard cap (`thesis_autonomy.py:287`), but the last call of a ledger may exceed
its share, and the ledgers of a job start again with each attempt
(`JobSpendingIsBounded` states what holds). The call that uses the ledger up is not
recorded, although "each attempt is recorded" (`thesis_autonomy.py:614`).
`maximum_evidence` may be up to 2000 and a tournament raises above 512
(`thesis_tournament.py:1876`): the job then fails in every attempt. One origin with
two contents anywhere in the collected evidence fails every challenge, whatever a
candidate cites (`thesis_challenges.py:851`). Playbooks are matched with events
(`events/routing.py:228`) but nothing outside the tests stores one.
`approve_thesis_proposal` ignores merges that became stale and indexes a string
(`rec["id"]`).

## 6. What is proved

Every safety invariant that a run checks, both refinements, and the action
properties are theorems: they hold for every value of the constants that meets
the named assumption of the module. The proofs follow one pattern: a conjunction
that holds initially, is kept by each action (one lemma or step per action), and
implies the property. The types are part of that conjunction, and no run checks
them any more. What follows names, for each module, the invariant and why the
property alone would not be inductive.

* **OperationQueueProofs.** `IInv` is `TypeOK`, `RunJobAgreement` and
  `ReadsStillHold`: a worker that read a closed run keeps that answer in its
  program counter and closes the job by it later, so the answer must still be
  true while the worker holds the job. Theorems: types, agreement, finality of
  closed rows, the attempt a holder remembers, one active job per identity, the
  outcome belongs to the latest claim, fresh owners keep their runs (with
  `LeaseMeansClaimed`: a lease is fresh only on a claimed job, so nobody may claim
  it and recovery sees fresh work), and `LaneKeepsPromise`: the lane implements
  `RunPromise`.
* **CycleRunProofs.** `CycleInv` says that a lock is held only for the work it
  covers (`HeldForWork`); that while no session was lost such work has its lock
  (`WorkIsLocked`), which gives `OneCycleAtATime`; that what a run read earlier is
  older than what it read later (`ReadsGrow`); and that the reading of the run
  that holds the lock of a processor is the newest (`NewestIsMine`), so that the
  fingerprint it logs, taken before it read, promises no more than its output has
  seen: `ReuseIsCurrent`, for any choice of what is read and which part of it is
  fingerprinted. `LocksAreGivenBack` needs no assumption about sessions.
  `SyncRunsKeepPromise` is the second implementation of `RunPromise`: a caller
  that has not begun has no row (`NewIsRowless`), and every other step moves at
  most one row, from open to open or to an outcome (`RowMoves`).
* **EventOutboxProofs.** `LedgerInv` (what a draft has read is in the chain, the
  link of each event precedes it) gives the revision chain and the frozen rows;
  `OutboxInv` (an outbox row exists exactly for the events of the ledger, and
  `RoutedOnce`) gives exactly-once routing: a new event cannot open a row that was
  settled, and a worker settles a row only while it is open and its own. The same
  two facts give `SettledStaysSettled`; `ClaimsTyped` completes the types.
* **PublicationProofs.** `QueueInv`: a busy worker is at a job, the cause of a job
  is stored data, what a handler has read covers that cause and every version that
  was there when it read, and no version is ahead of the stored data. The last two
  make `NeverOlder` inductive, as publication only compares a version with what
  its handler could know. `CursorInv`: what the run under way found is in every
  store it has passed (`FoundIsStored`), and below the newest item a fetch found it
  leaves out only what the cursor had seen or the source no longer showed
  (`FetchIsWhole`), beside `CursorFollowsPublication`;
  `CursorFollowsLedger` needs in addition that a feed no larger than the limit is
  its own newest part, by the cardinality of a subset of an interval.
* **SpendingProofs.** The sums of the budget ledger are defined as the number of
  elements of a set of units (`Units`, `Total`), so the laws the proofs need (a
  sum splits over disjoint sets, grows with its terms, changes with one of them)
  follow from theorems about finite sets instead of an induction. `BillInv`: the
  call under way has an open reservation, and one that was closed has the amount
  its call was billed, unless that write was lost. `CountInv` adds when a call may
  be missing from the settled ones (`Excused`) and that a pair never logs more than
  its calls settled (`LoggedIsSettled`), which makes the reconciled remainder zero:
  `CountedOnce`. `CapInv` bounds what is held for a day (settled, retained and
  active reservations of unexpired permits) by the cap: admission leaves room for
  one estimate, and what a settled call was charged above its estimate (`Overrun`)
  is granted beside the cap: `CapIsHard`, for any charges. `ReservationsAreFinal` is
  the finality of closed reservations. `MoneyInv` says that a ledger of the thesis
  desk never holds more than its ceiling and that what was paid before this attempt
  is at most the attempts before it times the ceiling of one. `CallsInv` counts the
  calls an attempt can still make from where its cycle stands, so that billed calls
  no ledger was charged for stay below `AttemptCalls` for each attempt. Together:
  `SpendingIsBounded`. The instance allows one such call, so there the second bound
  is far from reached; the theorem holds for any number of them.
  `EarnedInv` carries a candidate through the stages: drafts are grounded,
  survivors are drafts a well-formed answer called entailed, what is ranked
  survived, what passed was ranked, what is accepted passed and is opposed:
  `AcceptedIsEarned`.
* **ServiceProofs.** `SetupInv`: at most one request is under way (`OneWriter`),
  either value of the link names a complete, synced version (`LinksSurvive`), what
  is staged is named by neither (`StagedApart`), its edit is in neither
  (`StillOutside`), and the answers are true of both (`Told`).
  `CommitsKeepPromise`: `SetupState` implements `SetupPromise` with what is live,
  what is durable and what was answered; the flip is `Commit`, an fsync is
  `Harden`, and staging and pruning are stutters. It needs `PendingIsOpen`, that
  whoever waits for an answer has a request under way. `PromiseIsWorthKeeping` is
  about `SetupPromise` alone: answers stay true, a saved edit is durable, and what
  a power loss can undo is one commit. `ReadersKept` (a reader that has seen one
  flip looks at the version that flip replaced, which is not pruned before the
  next) gives `ReadersSurviveOneCommit`; `LoadsGrow` (what a loader read earlier
  is contained in what it read later, as edits only add) gives
  `CheckedMeansWhole`, also for loads without a lock. `RoleInv`: there is
  at most one scheduler with the leader lock and one for each lost session
  (`LeadersAreFew`), a startup run that is due was counted when its scheduler
  started (`BootsAreStarts`), and the jobs a window has, together with the fires and
  startup runs that are still due in it, are within what the window is granted
  (`WindowsOwe`): every fire turns a due one into at most one job, and one that
  takes over is not due. This gives `RepeatsAreCaused`.
* **FastPathProofs.** `StoryInv`: rows locked by two transactions are different
  (`LocksExclude`); a transaction has counted outlets that are members
  (`TxIsSound`), because members never leave a story, so the source count it
  writes from a stale reading understates but never overstates; and an empty story
  has at most one source (`StoryIsSound`). It gives the properties of versions,
  corroboration and filed headlines. `MacroInv`: a stage that a job, a router or a
  card holds was earned by its event or by that of a card with a smaller number
  (`Earned`, `EarnedBy`); a job that is about to write the pointer holds its row, so
  that no card is committed in between (`TaskIsEarned`); no two routers bring the
  same event (`RouteIsSound`), and the pointer names an existing card
  (`CardsAreSound`). It gives `StageIsEarned` and `RefusedOnlyIfOvertaken`. `ReactionInv` adds what the
  workers carry between reading prices and writing rows: what each has found is
  stored and over (`FoundIsReal`), and stays so because clock and prices only
  grow; the row of a headline's job is in its batch, in its hands or written
  (`HasItsRow`). It gives `ReactionsAreReal` (`PricesAreReal`): however often
  rows are written back from old readings, no row shows a price before its horizon
  is over or one that was never stored, and a finished job has left its row.
* **ResearchProofs.** `ResearchInv` says of every row of a case, stored or worked
  on in a transaction, that its snapshots are numbered 1 to its version, the last
  has its state, and the hypotheses they show have a request (`RowIsSound`). What
  makes that inductive is `AskedInv`: a committed request stays in what transactions
  make of the row, a job past the savepoint of the requests has asked for the
  hypothesis of its answer, and a payload the refresh is about to copy shows none
  unasked.
  `ReplayInv`: stored rows are dated (`TableInv`), a run has read nothing dated
  after its cutoff, and its credit is exactly what earlier dates of its series
  have filed or are filing (`RunIsSound`, `FiledInv`). `NothingFromTheFuture` and
  `CompletedIsClean` are about adapters whose tables move a stamp; the run
  `replay_past` shows the others. `DocumentInv` ties every actor to the row it
  claimed: an actor between claim and save is the only one at its document, and the
  type it has read says as the row does whether it is a report (`KindsAreKnown`). It
  gives `DocumentClaims` and `AnalysedObserved`.

**Only model-checked.** The liveness properties, as fairness and ENABLED are out of
the prover's reach: `LaneRunsClose`, `SyncRunsClose`, `RoutedEventsSettle`,
`SectionJobsEnd`, `NewsBecomesEvents`, `PricesGetObserved`, `PairedAttemptsEnd` and
`WorkersRecover`. That `CycleRun` implements `RunPromise`, that a checked load is
whole (`CheckedMeansWhole`) and that reaction rows show real prices
(`PricesAreReal`) are proved and checked by no run of the list; TLC agrees with
them on the instances of `sync`, `service` and `fast_path`.

## 7. What is not modelled

Parsing of external formats, prompts, scoring and statistics are data
transformations without protocol; views are read-only. PostgreSQL's row and
advisory locks are taken for what they promise, and its deadlock detection for
one more way a transaction can fail. Disk corruption, clock skew between hosts
and replicas with separate data directories are outside. A confirmation reads the
first 5000 prices of its day, over all its symbols (`story_confirmation.py:244`): the
model takes that as enough, while on a busier tape it never sees the later horizons.
The read after the save of an analysis is taken to succeed, so that a saved analysis
reported as failed (section 5) is not among the behaviours of `InvestmentDocuments`.

Budget overrides, the review, merging and scoring of thesis proposals, and
playbooks have no reachable state behind the statement that always fails or the
missing caller (section 5): a model of them would start in states the program
cannot be in. Of the thesis desk, the enqueueing of its job with the quota of
events and the resolution of forecasts are left out. The HTTP client, the price
stream, the freshness records and the web application's sessions are within reach
and not modelled yet. `PROJECT.json` says of each component what is missing.
