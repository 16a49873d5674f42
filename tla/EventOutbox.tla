----------------------------- MODULE EventOutbox -----------------------------
(***************************************************************************)
(* The market-event ledger and its transactional outbox: collectors that   *)
(* publish observations from several processes, and the outbox workers     *)
(* that route each event once.                                             *)
(*                                                                         *)
(* An observation has an identity (source and dedupe_key) and a content    *)
(* (its payload, or the content_hash of it).  The unique constraint        *)
(* market_events_identity_unique lets an identity have one event per       *)
(* content, so an event is named by the pair, and so is its outbox row.    *)
(*                                                                         *)
(* A publication is one transaction, but the latest event is read before   *)
(* the raw row is written; the write waits for whoever holds that row, so  *)
(* everything after it is atomic.  Backoff (available_at) is abstracted: a *)
(* released row may be claimed at any later moment.                        *)
(***************************************************************************)
EXTENDS Naturals, Sequences, FiniteSets

CONSTANTS
  Identity,     \* observations of one thing: a series value, a bar, a document
  Frozen,       \* the identities of insert-only collectors
  Content,      \* what an observation may say
  Publisher,    \* collector executions
  Worker,       \* replicas of the outbox worker
  Absent,       \* no row, no event, no draft
  Nobody,       \* no worker
  MaxAttempts,  \* max_attempts of the pipeline
  MaxCrashes,   \* bound on worker crashes
  MaxLapses     \* bound on the leases that lapse under a live worker

ASSUME EventAssumption ==
  /\ Frozen \subseteq Identity
  /\ Absent \notin Content \cup (Identity \X Content)
  /\ Absent \notin [id: Identity, content: Content, previous: Content \cup {Absent}]
  /\ Nobody \notin Worker
ASSUME LimitAssumption ==
  MaxAttempts \in Nat \ {0} /\ MaxCrashes \in Nat /\ MaxLapses \in Nat

VARIABLES
  row,        \* the raw table: what is stored under each identity
  ledger,     \* market_events, per identity, oldest first
  link,       \* revision_of_event_id, as the content it revises
  draft,      \* the publication each collector execution is in the middle of
  outbox, claimedBy, lease, attempts,     \* event_outbox
  routed,     \* how often the routing of each event was committed
  pc, at, try, crashes, lapses            \* the outbox workers

Event      == Identity \X Content
ledgerVars == <<row, ledger, link>>
outboxVars == <<outbox, claimedBy, lease, attempts>>
workerVars == <<pc, at, try, crashes, lapses>>
vars       == <<ledgerVars, draft, outboxVars, routed, workerVars>>

Settled == {"completed", "failed"}

-----------------------------------------------------------------------------
(* Publication *)

Recorded(k) == {ledger[k][i] : i \in DOMAIN ledger[k]}
Latest(k)   == IF ledger[k] = <<>> THEN Absent ELSE ledger[k][Len(ledger[k])]

\* find_latest_event, before anything is written.
ReadLatest(p, k, c) ==
  /\ draft[p] = Absent
  /\ draft' = [draft EXCEPT ![p] = [id |-> k, content |-> c, previous |-> Latest(k)]]
  /\ UNCHANGED <<ledgerVars, outboxVars, routed, workerVars>>

\* Fault: the revision is linked to what was read before the row was locked.
LinkedAsRead(d) == d.previous

\* insert_event looks again when the caller had found no event to revise.
Revises(d) == IF d.previous = Absent THEN Latest(d.id) ELSE d.previous

\* insert_event: one immutable event and its outbox row, or a conflict.
Insert(d) ==
  IF d.content \in Recorded(d.id)
  THEN UNCHANGED <<ledger, link, outbox>>
  ELSE /\ ledger' = [ledger EXCEPT ![d.id] = Append(@, d.content)]
       /\ link' = [link EXCEPT ![<<d.id, d.content>>] = Revises(d)]
       /\ outbox' = [outbox EXCEPT ![<<d.id, d.content>>] = "open"]

\* Fault: the event goes out whether or not the immutable row was stored.
PublishRegardless(d) ==
  /\ row' = [row EXCEPT ![d.id] = IF d.id \in Frozen /\ @ # Absent THEN @ ELSE d.content]
  /\ IF d.previous = d.content THEN UNCHANGED <<ledger, link, outbox>> ELSE Insert(d)

Publish(d) ==
  IF d.id \in Frozen /\ row[d.id] # Absent
  THEN UNCHANGED <<row, ledger, link, outbox>>         \* _insert_raw_do_nothing
  ELSE /\ row' = [row EXCEPT ![d.id] = d.content]
       /\ IF d.previous = d.content THEN UNCHANGED <<ledger, link, outbox>> ELSE Insert(d)

Write(p) ==
  /\ draft[p] # Absent
  /\ Publish(draft[p])
  /\ draft' = [draft EXCEPT ![p] = Absent]
  /\ UNCHANGED <<claimedBy, lease, attempts, routed, workerVars>>

\* The batch fails, or its process dies: the transaction rolls back.
Abandon(p) ==
  /\ draft[p] # Absent
  /\ draft' = [draft EXCEPT ![p] = Absent]
  /\ UNCHANGED <<ledgerVars, outboxVars, routed, workerVars>>

-----------------------------------------------------------------------------
(* OutboxWorker *)

Unattended(e) == ~\E w \in Worker : at[w] = e /\ claimedBy[e] = w

LeaseLapses(e) ==
  /\ lease[e]
  /\ lease' = [lease EXCEPT ![e] = FALSE]
  /\ lapses' = IF Unattended(e) THEN lapses ELSE lapses + 1
  /\ lapses' <= MaxLapses
  /\ UNCHANGED <<ledgerVars, draft, outbox, claimedBy, attempts, routed, pc, at, try, crashes>>

Claimable(e) == outbox[e] = "open" /\ (claimedBy[e] = Nobody \/ ~lease[e])

\* Only "attempt_count >= max_attempts" is ever asked of the counter.
Counted(n) == IF n < MaxAttempts THEN n + 1 ELSE n

Claim(w, e) ==
  /\ pc[w] = "idle"
  /\ Claimable(e)
  /\ claimedBy' = [claimedBy EXCEPT ![e] = w]
  /\ lease' = [lease EXCEPT ![e] = TRUE]
  /\ attempts' = [attempts EXCEPT ![e] = Counted(@)]
  /\ pc' = [pc EXCEPT ![w] = "routing"]
  /\ at' = [at EXCEPT ![w] = e]
  /\ try' = [try EXCEPT ![w] = Counted(attempts[e])]
  /\ UNCHANGED <<ledgerVars, draft, outbox, routed, crashes, lapses>>

Return(w) ==
  /\ pc' = [pc EXCEPT ![w] = "idle"]
  /\ at' = [at EXCEPT ![w] = Absent]
  /\ try' = [try EXCEPT ![w] = 0]
  /\ UNCHANGED <<crashes, lapses>>

\* The row still names the claim this worker is processing.
Holds(w) == outbox[at[w]] = "open" /\ claimedBy[at[w]] = w

Release(e, state) ==
  /\ outbox' = [outbox EXCEPT ![e] = state]
  /\ claimedBy' = [claimedBy EXCEPT ![e] = Nobody]
  /\ lease' = [lease EXCEPT ![e] = FALSE]
  /\ UNCHANGED attempts

\* Fault: the handler's writes are committed although the lease was lost.
RouteUnfenced(w) ==
  /\ pc[w] = "routing"
  /\ routed' = [routed EXCEPT ![at[w]] = @ + 1]
  /\ IF Holds(w) THEN Release(at[w], "completed") ELSE UNCHANGED outboxVars
  /\ Return(w)
  /\ UNCHANGED <<ledgerVars, draft>>

\* route_event and complete_outbox in one transaction; LeaseLostError undoes both.
Route(w) ==
  /\ pc[w] = "routing"
  /\ Holds(w)
  /\ routed' = [routed EXCEPT ![at[w]] = @ + 1]
  /\ Release(at[w], "completed")
  /\ Return(w)
  /\ UNCHANGED <<ledgerVars, draft>>

RouteFails(w) ==
  /\ pc[w] = "routing"
  /\ pc' = [pc EXCEPT ![w] = "failing"]
  /\ UNCHANGED <<ledgerVars, draft, outboxVars, routed, at, try, crashes, lapses>>

\* Fault: the last attempt is put back like the others.
GiveBackForever(w) ==
  /\ pc[w] = "failing"
  /\ IF Holds(w) THEN Release(at[w], "open") ELSE UNCHANGED outboxVars
  /\ Return(w)
  /\ UNCHANGED <<ledgerVars, draft, routed>>

\* retry_outbox, or terminal_fail_outbox after the last attempt.
GiveBack(w) ==
  /\ pc[w] = "failing"
  /\ IF Holds(w)
     THEN Release(at[w], IF try[w] >= MaxAttempts THEN "failed" ELSE "open")
     ELSE UNCHANGED outboxVars
  /\ Return(w)
  /\ UNCHANGED <<ledgerVars, draft, routed>>

\* The second transaction fails too: the claim is left to its lease.
GiveUp(w) ==
  /\ pc[w] = "failing"
  /\ Return(w)
  /\ UNCHANGED <<ledgerVars, draft, outboxVars, routed>>

Crash(w) ==
  /\ pc[w] # "dead"
  /\ crashes < MaxCrashes
  /\ crashes' = crashes + 1
  /\ pc' = [pc EXCEPT ![w] = "dead"]
  /\ at' = [at EXCEPT ![w] = Absent]
  /\ try' = [try EXCEPT ![w] = 0]
  /\ UNCHANGED <<ledgerVars, draft, outboxVars, routed, lapses>>

\* A restarted worker has a new id; nothing it does names an old claim.
Restart(w) ==
  /\ pc[w] = "dead"
  /\ pc' = [pc EXCEPT ![w] = "idle"]
  /\ UNCHANGED <<ledgerVars, draft, outboxVars, routed, at, try, crashes, lapses>>

-----------------------------------------------------------------------------
Init ==
  /\ row = [k \in Identity |-> Absent]
  /\ ledger = [k \in Identity |-> <<>>]
  /\ link = [e \in Event |-> Absent]
  /\ draft = [p \in Publisher |-> Absent]
  /\ outbox = [e \in Event |-> "none"]
  /\ claimedBy = [e \in Event |-> Nobody]
  /\ lease = [e \in Event |-> FALSE]
  /\ attempts = [e \in Event |-> 0]
  /\ routed = [e \in Event |-> 0]
  /\ pc = [w \in Worker |-> "idle"]
  /\ at = [w \in Worker |-> Absent]
  /\ try = [w \in Worker |-> 0]
  /\ crashes = 0
  /\ lapses = 0

Process(w) == Route(w) \/ RouteFails(w) \/ GiveBack(w) \/ GiveUp(w)

Next ==
  \/ \E p \in Publisher :
       Write(p) \/ Abandon(p) \/ \E k \in Identity, c \in Content : ReadLatest(p, k, c)
  \/ \E w \in Worker :
       Process(w) \/ Crash(w) \/ Restart(w) \/ \E e \in Event : Claim(w, e)
  \/ \E e \in Event : LeaseLapses(e)

\* Workers poll, restarted processes come back, an unattended lease runs out,
\* and the transaction that settles a failed attempt does not fail forever.
Fairness ==
  /\ \A w \in Worker : WF_vars(Process(w)) /\ WF_vars(Restart(w)) /\ SF_vars(GiveBack(w))
  /\ \A e \in Event :
       /\ SF_vars(\E w \in Worker : Claim(w, e))
       /\ WF_vars(Unattended(e) /\ LeaseLapses(e))

Spec     == Init /\ [][Next]_vars
FairSpec == Spec /\ Fairness
-----------------------------------------------------------------------------
(* Properties *)

TypeOK ==
  /\ row \in [Identity -> Content \cup {Absent}]
  /\ ledger \in [Identity -> Seq(Content)]
  /\ link \in [Event -> Content \cup {Absent}]
  /\ draft \in [Publisher -> {Absent} \cup
                  [id: Identity, content: Content, previous: Content \cup {Absent}]]
  /\ outbox \in [Event -> {"none", "open"} \cup Settled]
  /\ claimedBy \in [Event -> Worker \cup {Nobody}]
  /\ lease \in [Event -> BOOLEAN]
  /\ attempts \in [Event -> 0..MaxAttempts]
  /\ routed \in [Event -> Nat]
  /\ pc \in [Worker -> {"idle", "routing", "failing", "dead"}]
  /\ at \in [Worker -> Event \cup {Absent}]
  /\ try \in [Worker -> 0..MaxAttempts]
  /\ crashes \in 0..MaxCrashes
  /\ lapses \in 0..MaxLapses

\* The routing of an event (jobs, freshness, reaction windows) is committed
\* once exactly when its outbox row is completed: a worker whose claim expired
\* under it leaves nothing behind, whoever finishes the event.
RoutedOnce ==
  \A e \in Event : routed[e] = IF outbox[e] = "completed" THEN 1 ELSE 0

\* Every event but the first of its identity revises an earlier event of that
\* identity, even when the collectors that wrote them both saw an empty ledger.
RevisionsLinked ==
  \A k \in Identity : \A i \in DOMAIN ledger[k] :
    /\ i = 1 => link[<<k, ledger[k][i]>>] = Absent
    /\ i > 1 => \E j \in 1..(i - 1) : link[<<k, ledger[k][i]>>] = ledger[k][j]

\* publisher.py: for an insert-only source "a changed incoming payload must never
\* emit a revision event that disagrees with the first-frozen raw row".
FrozenRowsAgree ==
  \A k \in Frozen : ledger[k] = IF row[k] = Absent THEN <<>> ELSE <<row[k]>>

\* A completed or terminally failed row is never claimed or settled again.
SettledIsFinal ==
  [][\A e \in Event : outbox[e] \in Settled =>
       /\ outbox'[e] = outbox[e] /\ routed'[e] = routed[e]
       /\ attempts'[e] = attempts[e] /\ claimedBy'[e] = claimedBy[e]]_vars

\* Every published event is routed or terminally failed, across crashes, lost
\* leases and failing transactions.
EventsSettle == \A e \in Event : outbox[e] = "open" ~> outbox[e] \in Settled
=============================================================================
