---------------------------- MODULE BudgetLedger ----------------------------
(***************************************************************************)
(* The daily LLM budget: each paid call reserves an estimate in one        *)
(* transaction before it is sent, and settles, retains or releases the     *)
(* reservation when the provider has answered.  What a processor's calls   *)
(* reported is logged once, when the processor ends.                       *)
(*                                                                         *)
(* A pair is one processor of one correlation, the key under which logged  *)
(* and settled costs are reconciled; a retried job begins its pair again.  *)
(* Money is counted in whole units.  `bill` is what the provider charged   *)
(* for a call, which the code does not see: when the provider did not say, *)
(* it is taken to be the estimate, as the code has to.  Time is the budget *)
(* day and the set of reservations whose TTL has run out.                  *)
(***************************************************************************)
EXTENDS Integers, FiniteSets

CONSTANTS
  Pair,        \* processors of correlations
  MaxCalls,    \* bound on the calls of a pair
  MaxDay,      \* bound on the budget days
  Cap,         \* budgets.daily_llm_usd
  Estimate,    \* the estimate of one call
  Cost,        \* what a call may be charged: less than the estimate, or more
  MaxLosses,   \* bound on the kinds of ledger write that are lost
  MaxCrashes,  \* bound on process crashes
  MaxLapses,   \* bound on the reservations whose TTL runs out
  Fallible,    \* the ledger writes that database trouble may lose
  Stalls       \* whether a TTL may run out between the answer and its settlement

Day  == 1..MaxDay
Call == Pair \X (1..MaxCalls)
Write == {"settle", "retain", "release", "log"}

ASSUME BudgetAssumption ==
  /\ IsFiniteSet(Pair) /\ MaxCalls \in Nat /\ MaxDay \in Nat \ {0}
  /\ Cap \in Nat /\ Estimate \in Nat \ {0} /\ Cost \subseteq Nat
  /\ MaxLosses \in Nat /\ MaxCrashes \in Nat /\ MaxLapses \in Nat
  /\ Fallible \subseteq Write /\ Stalls \in BOOLEAN

VARIABLES
  day,
  status, rday, settled, lapsed,  \* budget_reservations, by call
  logged,                         \* processing_log costs, by pair and day
  pc, made, begun, telemetry,     \* the processes that run the pairs
  bill,                           \* the provider's view
  lost, crashes                   \* the faults so far

ledgerVars  == <<status, rday, settled, lapsed>>
processVars == <<pc, made, begun, telemetry>>
faultVars   == <<lost, crashes>>
vars        == <<day, ledgerVars, logged, processVars, bill, faultVars>>

Latest(p)   == <<p, made[p]>>
InFlight(p) == pc[p] \in {"sent", "metered", "unmetered", "refused"}

\* The sum of the amounts f of the members of S: the number of their units.
Units(S, f)  == UNION {{x} \X (1..f[x]) : x \in S}
Total(S, f)  == Cardinality(Units(S, f))

-----------------------------------------------------------------------------
(* Admission *)

SettledOf(p) == Total({c \in Call : c[1] = p /\ status[c] = "settled"}, settled)

\* Fault: only the settlements of the logged day are subtracted.
UnreservedByDay(p, d) ==
  LET same == {c \in Call : c[1] = p /\ status[c] = "settled" /\ rday[c] = d}
      rest == logged[p][d] - Total(same, settled)
  IN  IF rest > 0 THEN rest ELSE 0

\* Logged cost that no settled reservation of the pair, of any day, accounts for.
Unreserved(p, d) ==
  LET rest == logged[p][d] - SettledOf(p) IN IF rest > 0 THEN rest ELSE 0

Committed(d) ==
  Total({c \in Call : status[c] = "settled" /\ rday[c] = d}, settled)
    + Total(Pair, [p \in Pair |-> Unreserved(p, d)])

\* Fault: calls that are under way are not counted.
ReservedNothing(d) == 0

Reserved(d) ==
  Estimate * Cardinality({c \in Call \ lapsed : status[c] = "active" /\ rday[c] = d})

Admits(d) == Committed(d) + Reserved(d) + Estimate <= Cap

Swept ==
  [c \in Call |-> IF c \in lapsed /\ status[c] = "active" THEN "expired" ELSE status[c]]

Reserve(p) ==
  /\ pc[p] = "begun" /\ made[p] < MaxCalls
  /\ Admits(day)
  /\ LET c == <<p, made[p] + 1>>
     IN  /\ status' = [Swept EXCEPT ![c] = "active"]
         /\ rday' = [rday EXCEPT ![c] = day]
  /\ made' = [made EXCEPT ![p] = @ + 1]
  /\ pc' = [pc EXCEPT ![p] = "sent"]
  /\ UNCHANGED <<day, settled, lapsed, logged, begun, telemetry, bill, faultVars>>

\* BudgetExceeded, or BudgetUnavailable when the ledger cannot be read: the
\* transaction, its sweep included, is rolled back and the processor ends.
Deny(p) ==
  /\ pc[p] = "begun" /\ made[p] < MaxCalls
  /\ pc' = [pc EXCEPT ![p] = "ending"]
  /\ UNCHANGED <<day, ledgerVars, logged, made, begun, telemetry, bill, faultVars>>

-----------------------------------------------------------------------------
(* One call: the provider answers, then the reservation is closed *)

Charge(p, cost) == bill' = [bill EXCEPT ![Latest(p)] = cost]

\* A reported cost; an unusable, unmetered or ambiguous answer, which may have
\* been charged and is counted at its estimate; or a failure that was provably
\* not billed (or a permit given back because the configuration moved on).
Answer(p) ==
  /\ pc[p] = "sent"
  /\ \/ (\E cost \in Cost : Charge(p, cost)) /\ pc' = [pc EXCEPT ![p] = "metered"]
     \/ Charge(p, Estimate) /\ pc' = [pc EXCEPT ![p] = "unmetered"]
     \/ Charge(p, 0) /\ pc' = [pc EXCEPT ![p] = "refused"]
  /\ UNCHANGED <<day, ledgerVars, logged, made, begun, telemetry, faultVars>>

Settles(c) == status[c] \in {"active", "expired"}

Releases(c) == status[c] = "active"

Close(c, state, amount) ==
  /\ status' = [status EXCEPT ![c] = state]
  /\ settled' = [settled EXCEPT ![c] = amount]
  /\ UNCHANGED <<rday, lapsed>>

\* Database trouble: the write is lost and the caller goes on.
Lost(write) ==
  /\ write \in Fallible \ lost /\ Cardinality(lost) < MaxLosses
  /\ lost' = lost \cup {write}
  /\ UNCHANGED <<ledgerVars, crashes>>

SettleAt(p, amount, write) ==
  \/ /\ IF Settles(Latest(p)) THEN Close(Latest(p), "settled", amount) ELSE UNCHANGED ledgerVars
     /\ UNCHANGED faultVars
  \/ Lost(write)

Returned(p) ==
  /\ pc' = [pc EXCEPT ![p] = "begun"]
  /\ UNCHANGED <<day, logged, made, begun, bill>>

Settle(p) ==
  /\ pc[p] = "metered"
  /\ SettleAt(p, bill[Latest(p)], "settle")
  /\ telemetry' = [telemetry EXCEPT ![p] = @ + bill[Latest(p)]]
  /\ Returned(p)

Retain(p) ==
  /\ pc[p] = "unmetered"
  /\ SettleAt(p, Estimate, "retain")
  /\ Returned(p)
  /\ UNCHANGED telemetry

Release(p) ==
  /\ pc[p] = "refused"
  /\ \/ /\ IF Releases(Latest(p)) THEN Close(Latest(p), "released", 0) ELSE UNCHANGED ledgerVars
        /\ UNCHANGED faultVars
     \/ Lost("release")
  /\ Returned(p)
  /\ UNCHANGED telemetry

-----------------------------------------------------------------------------
(* The processor around the calls *)

Begin(p) ==
  /\ pc[p] = "idle" /\ made[p] < MaxCalls
  /\ pc' = [pc EXCEPT ![p] = "begun"]
  /\ begun' = [begun EXCEPT ![p] = day]
  /\ telemetry' = [telemetry EXCEPT ![p] = 0]
  /\ UNCHANGED <<day, ledgerVars, logged, made, bill, faultVars>>

Leave(p) ==
  /\ pc' = [pc EXCEPT ![p] = "idle"]
  /\ begun' = [begun EXCEPT ![p] = 1]
  /\ telemetry' = [telemetry EXCEPT ![p] = 0]

\* _write_processing_log: the reported costs, on the day the processor began.
End(p) ==
  /\ pc[p] \in {"begun", "ending"}
  /\ Leave(p)
  /\ \/ /\ logged' = [logged EXCEPT ![p][begun[p]] = @ + telemetry[p]]
        /\ UNCHANGED <<ledgerVars, faultVars>>
     \/ Lost("log") /\ UNCHANGED logged
  /\ UNCHANGED <<day, made, bill>>

\* A call that was sent may be charged after its process died.
Crash(p) ==
  /\ pc[p] # "idle" /\ crashes < MaxCrashes
  /\ crashes' = crashes + 1
  /\ Leave(p)
  /\ IF pc[p] = "sent" THEN \E cost \in Cost : Charge(p, cost) ELSE UNCHANGED bill
  /\ UNCHANGED <<day, ledgerVars, logged, made, lost>>

\* The TTL covers the request deadline, so it never runs out on a call that has
\* no answer yet; whether it covers the settlement is for Stalls to say.
Lapse(c) ==
  /\ status[c] = "active" /\ c \notin lapsed /\ Cardinality(lapsed) < MaxLapses
  /\ \/ ~(InFlight(c[1]) /\ c = Latest(c[1]))
     \/ Stalls /\ pc[c[1]] # "sent"
  /\ lapsed' = lapsed \cup {c}
  /\ UNCHANGED <<day, status, rday, settled, logged, processVars, bill, faultVars>>

Midnight ==
  /\ day < MaxDay
  /\ day' = day + 1
  /\ UNCHANGED <<ledgerVars, logged, processVars, bill, faultVars>>

-----------------------------------------------------------------------------
Init ==
  /\ day = 1
  /\ status = [c \in Call |-> "none"]
  /\ rday = [c \in Call |-> 1]
  /\ settled = [c \in Call |-> 0]
  /\ lapsed = {}
  /\ logged = [p \in Pair |-> [d \in Day |-> 0]]
  /\ pc = [p \in Pair |-> "idle"]
  /\ made = [p \in Pair |-> 0]
  /\ begun = [p \in Pair |-> 1]
  /\ telemetry = [p \in Pair |-> 0]
  /\ bill = [c \in Call |-> 0]
  /\ lost = {} /\ crashes = 0

Next ==
  \/ \E p \in Pair :
       \/ Begin(p) \/ Reserve(p) \/ Deny(p) \/ Answer(p)
       \/ Settle(p) \/ Retain(p) \/ Release(p) \/ End(p) \/ Crash(p)
  \/ \E c \in Call : Lapse(c)
  \/ Midnight

Spec == Init /\ [][Next]_vars
-----------------------------------------------------------------------------
(* Properties *)

\* The types, and the CHECK constraints of budget_reservations that tie a
\* reservation's status to what was settled.
TypeOK ==
  /\ day \in Day
  /\ status \in [Call -> {"none", "active", "settled", "expired", "released"}]
  /\ rday \in [Call -> Day]
  /\ settled \in [Call -> Nat]
  /\ \A c \in Call : status[c] # "settled" => settled[c] = 0
  /\ lapsed \subseteq Call
  /\ logged \in [Pair -> [Day -> Nat]]
  /\ pc \in [Pair -> {"idle", "begun", "sent", "metered", "unmetered", "refused", "ending"}]
  /\ made \in [Pair -> 0..MaxCalls]
  /\ \A p \in Pair : InFlight(p) => made[p] > 0
  /\ begun \in [Pair -> Day] /\ telemetry \in [Pair -> Nat]
  /\ bill \in [Call -> Nat]
  /\ lost \subseteq Fallible /\ crashes \in 0..MaxCrashes

\* What a call was charged above the estimate it was admitted at.
Overrun == [c \in Call |-> IF bill[c] > Estimate THEN bill[c] - Estimate ELSE 0]

\* operations.md calls budgets.daily_llm_usd a hard daily cap.  It is as hard as
\* the estimates: what the provider charges for the calls of a day whose permits
\* did not run out exceeds the cap by no more than those charges exceed their
\* estimates, however the calls of different processes overlap, whatever order
\* they settle in and whatever crashes or is lost.  (A charge is settled as it
\* is, above its estimate too; and a permit that runs out before its call is
\* settled lets another call take its place.)
HardCap ==
  \A d \in Day :
    LET charged == {c \in Call \ lapsed : status[c] # "none" /\ rday[c] = d}
    IN  Total(charged, bill) <= Cap + Total(charged, Overrun)

\* A reservation keeps its day; a settled or released one keeps its amount for
\* good, and only a settlement follows an expiry.
ReservationFinal ==
  [][\A c \in Call :
       /\ status[c] # "none" => rday'[c] = rday[c]
       /\ status[c] \in {"settled", "released"} => status'[c] = status[c] /\ settled'[c] = settled[c]
       /\ status[c] = "expired" => status'[c] \in {"expired", "settled"}]_vars

\* budgets.py: every dollar is counted exactly once on the day its call was
\* admitted: whenever no call is under way, the committed spend of a day is
\* what its calls cost, although logs and settlements record it separately, a
\* processor may begin before midnight and call after it, a settlement may come
\* after the expiry, and a release or a log may be lost.
CountedOnce ==
  (\A p \in Pair : ~InFlight(p)) /\ crashes = 0 /\ lost \subseteq {"release", "log"} =>
    \A d \in Day :
      Committed(d) = Total({c \in Call : status[c] # "none" /\ rday[c] = d}, bill)

\* budgets.py: settling may fail, because "processing_log remains authoritative":
\* once every processor has ended and is logged, no dollar is missing from what
\* admission counts.
LogIsAuthoritative ==
  (\A p \in Pair : pc[p] = "idle") =>
    \A d \in Day :
      Committed(d) + Reserved(d)
        >= Total({c \in Call : status[c] # "none" /\ rday[c] = d}, bill)
=============================================================================
