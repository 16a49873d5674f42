--------------------------- MODULE PriceReactions ---------------------------
(***************************************************************************)
(* What prices did after an event.  A reaction window waits for the price  *)
(* at its horizon, a story confirmation for the prices at several of them. *)
(* Prices arrive late or never, so a row is filled again and again: by the *)
(* jobs of its event and by the reconciliation, each of which looks at a   *)
(* bounded batch of the rows that are not complete.                        *)
(*                                                                         *)
(* A row holds the horizons whose price it has seen.  Transactions run at  *)
(* READ COMMITTED; a written row is locked until its transaction ends.     *)
(***************************************************************************)
EXTENDS Naturals, FiniteSets

CONSTANTS
  Window,         \* rows of event_reaction_windows
  Confirmation,   \* rows of story_market_confirmations
  Horizons,       \* the horizons of each row, as times
  Rank,           \* the position of each row in the order of the batches
  Unpriced,       \* the rows whose instrument has no prices
  BatchLimit,     \* backfill_limit
  Reconciler, Observer,   \* the reconciliation; the workers of the jobs
  Nothing,        \* no job, no row
  LastHorizon, MaxObserverCrashes

Row == Window \cup Confirmation
Filler == Reconciler \cup Observer

ASSUME ReactionAssumption ==
  /\ Window \cap Confirmation = {} /\ IsFiniteSet(Row) /\ Unpriced \subseteq Row
  /\ Nothing \notin Row
  /\ Horizons \in [Row -> SUBSET (1..LastHorizon)]
  /\ Rank \in [Row -> Nat] /\ \A r, s \in Row : Rank[r] = Rank[s] => r = s
  /\ BatchLimit \in Nat \ {0} /\ LastHorizon \in Nat /\ MaxObserverCrashes \in Nat

VARIABLES
  now,              \* the horizons up to now are over
  exists,           \* the rows that were created
  observed,         \* the horizons whose price each row has
  priced,           \* the prices that are stored: rows and horizons
  told,             \* the jobs of headlines that ran: rows and horizons
  obs,              \* the open transaction of each filler
  observerCrashes

reactionRows == <<now, exists, observed, priced, told>>
reactionVars == <<reactionRows, obs, observerCrashes>>

Asleep == [at |-> "idle", for |-> "nothing", job |-> Nothing, todo |-> {}, row |-> Nothing,
           wrote |-> {}, found |-> [r \in Row |-> {}]]
Drafted(r) == \E o \in Filler : r \in obs[o].wrote
Missing(r) == Horizons[r] \ observed[r]

\* Fault: what is not over yet is not flagged as missing.
PendingDue(kind) ==
  {r \in kind \cap exists : \E t \in Missing(r) : t <= now /\ observed[r] = {}}

\* _pending_rows: a window is due when its horizon is over.  The confirmation
\* of a headline always is, and is flagged as long as a horizon is missing.
Pending(kind) ==
  {r \in kind \cap exists : Missing(r) # {} /\ (r \in Window => \A t \in Horizons[r] : t <= now)}

FirstOf(rows) ==
  {r \in rows : Cardinality({s \in rows : Rank[s] < Rank[r]}) < BatchLimit}

\* The price at a horizon is looked up when the horizon is over.  A confirmation
\* reads the first row_limit prices of its day: its windows are taken to hold fewer.
Visible(r) == {t \in Horizons[r] : t <= now /\ <<r, t>> \in priced}

-----------------------------------------------------------------------------
(* The clock and the market *)

HorizonEnds ==
  /\ now < LastHorizon
  /\ now' = now + 1
  /\ UNCHANGED <<exists, observed, priced, told, obs, observerCrashes>>

PriceArrives(r, t) ==
  /\ t \in Horizons[r] /\ t <= now /\ r \notin Unpriced /\ <<r, t>> \notin priced
  /\ priced' = priced \cup {<<r, t>>}
  /\ UNCHANGED <<now, exists, observed, told, obs, observerCrashes>>

-----------------------------------------------------------------------------
(* Filling rows *)

Turn(o, t) ==
  /\ obs' = [obs EXCEPT ![o] = t]
  /\ UNCHANGED <<reactionRows, observerCrashes>>

\* The batch is read first; every row of it is then worked out by itself.
Begin(o, rows, reason, job) ==
  /\ obs[o] = Asleep
  /\ Turn(o, [Asleep EXCEPT !.at = "filling", !.for = reason, !.job = job, !.todo = rows])

Reconcile(o) == o \in Reconciler /\ Begin(o, FirstOf(Pending(Window)), "windows", Nothing)

\* The job of one horizon of a headline; the first one creates the row.
ConfirmStory(o, r) ==
  /\ o \in Observer /\ r \in Confirmation
  /\ \E t \in Horizons[r] : t <= now /\ <<r, t>> \notin told /\ Begin(o, {r}, "headline", <<r, t>>)

\* The rows of a batch are taken in order.
LookAtPrices(o) ==
  /\ obs[o].at = "filling" /\ obs[o].row = Nothing
  /\ \E r \in obs[o].todo :
       /\ \A s \in obs[o].todo : Rank[r] <= Rank[s]
       /\ Turn(o, [obs[o] EXCEPT !.row = r, !.todo = @ \ {r}, !.found[r] = Visible(r)])

\* What was read replaces what the row has, whoever wrote that meanwhile.
WriteRow(o) ==
  /\ obs[o].row # Nothing /\ ~Drafted(obs[o].row)
  /\ Turn(o, [obs[o] EXCEPT !.row = Nothing, !.wrote = @ \cup {obs[o].row}])

Filled(o) == obs[o].at = "filling" /\ obs[o].todo = {} /\ obs[o].row = Nothing
KeepRows(o) ==
  /\ observed' = [r \in Row |-> IF r \in obs[o].wrote THEN obs[o].found[r] ELSE observed[r]]
  /\ exists' = exists \cup obs[o].wrote

\* The reconciliation goes on with the confirmations, in a second transaction.
CommitWindows(o) ==
  /\ Filled(o) /\ obs[o].for = "windows"
  /\ KeepRows(o)
  /\ obs' = [obs EXCEPT ![o] = [Asleep EXCEPT !.at = "filling", !.for = "confirmations",
                                             !.todo = FirstOf(Pending(Confirmation))]]
  /\ UNCHANGED <<now, priced, told, observerCrashes>>

CommitConfirmations(o) ==
  /\ Filled(o) /\ obs[o].for \in {"confirmations", "headline"}
  /\ KeepRows(o)
  /\ told' = IF obs[o].for = "confirmations" THEN told ELSE told \cup {obs[o].job}
  /\ obs' = [obs EXCEPT ![o] = Asleep]
  /\ UNCHANGED <<now, priced, observerCrashes>>

\* A crash or an error of the database; the next round tries again.
CrashFiller(o) ==
  /\ obs[o] # Asleep /\ observerCrashes < MaxObserverCrashes
  /\ obs' = [obs EXCEPT ![o] = Asleep]
  /\ observerCrashes' = observerCrashes + 1
  /\ UNCHANGED reactionRows

FillRows(o) == LookAtPrices(o) \/ WriteRow(o) \/ CommitWindows(o) \/ CommitConfirmations(o)

ReactionInit ==
  /\ now = 0 /\ exists = {} /\ priced = {} /\ told = {}
  /\ observed = [r \in Row |-> {}]
  /\ obs = [o \in Filler |-> Asleep] /\ observerCrashes = 0

ReactionNext ==
  \/ HorizonEnds
  \/ \E r \in Row, t \in 1..LastHorizon : PriceArrives(r, t)
  \/ \E o \in Filler : Reconcile(o) \/ FillRows(o) \/ CrashFiller(o)
  \/ \E o \in Observer, r \in Confirmation : ConfirmStory(o, r)

\* The reconciliation runs again and again, and transactions come to an end.
ReactionFairness ==
  /\ \A o \in Reconciler : WF_reactionVars(Reconcile(o))
  /\ \A o \in Filler : WF_reactionVars(FillRows(o))

-----------------------------------------------------------------------------
(* Properties *)

ReactionTypeOK ==
  /\ now \in 0..LastHorizon /\ exists \subseteq Row
  /\ observed \in [Row -> SUBSET (1..LastHorizon)]
  /\ priced \subseteq Row \X (1..LastHorizon) /\ told \subseteq Confirmation \X (1..LastHorizon)
  /\ \A o \in Filler : obs[o].todo \cup obs[o].wrote \subseteq Row

\* A row that exists gets the price of each of its horizons that is stored,
\* and keeps it: a slower transaction that has not seen the price may write
\* the row back, but not for good.
PricesGetObserved ==
  \A r \in Row : \A t \in Horizons[r] :
    <>[](r \in exists /\ <<r, t>> \in priced => t \in observed[r])

\* What the documentation says of the full cycle: it "backfills reaction
\* windows and market confirmations", so a stored price is found sooner or later
\* whatever other rows are waiting.  Rows that can never be completed stay in
\* the batch for ever, so with more of them than the batch has room it fails.
BackfillReachesEveryRow ==
  \A r \in Row : \A t \in Horizons[r] :
    (r \in exists /\ <<r, t>> \in priced) ~> t \in observed[r]
=============================================================================
