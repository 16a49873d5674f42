--------------------------- MODULE SpendingProofs ---------------------------
(***************************************************************************)
(* The money spent on models.  For any number of processors, calls, days,  *)
(* losses and crashes: the reservation ledger keeps its types and          *)
(* constraints, a reservation that was closed is final, every dollar is    *)
(* counted once and the cap of a day is kept.  The sums of the ledger are  *)
(* cardinalities of sets of units, so that their laws follow from those of *)
(* finite sets.  For every number of attempts, roles and candidates,       *)
(* whatever the models answer and all shares and prices: what ThesisCycle  *)
(* promises of the money of a job and of the candidates it accepts.        *)
(***************************************************************************)
EXTENDS BudgetLedger, ThesisCycle, FiniteSetTheorems, SequenceTheorems, TLAPS

\* The calls a processor has not made yet are not reserved.
FreshCalls == \A p \in Pair, n \in 1..MaxCalls : n > made[p] => status[<<p, n>>] = "none"

IInv == TypeOK /\ FreshCalls

LEMMA Initially == Init => IInv
BY BudgetAssumption DEF Init, IInv, TypeOK, FreshCalls, Call, Day, InFlight

\* A call under way has a reservation of its own.
LEMMA LatestIsACall ==
  ASSUME TypeOK, NEW p \in Pair, made[p] > 0 PROVE Latest(p) \in Call
BY BudgetAssumption DEF TypeOK, Latest, Call

\* The sweep of an admission only expires active reservations.
LEMMA SweepExpires ==
  ASSUME TypeOK
  PROVE  /\ Swept \in [Call -> {"none", "active", "settled", "expired", "released"}]
         /\ \A c \in Call : Swept[c] # status[c] => status[c] = "active" /\ Swept[c] = "expired"
BY DEF TypeOK, Swept

\* Closing a reservation changes that reservation only.
LEMMA SettleKeepsTypes ==
  ASSUME IInv, NEW p \in Pair, made[p] > 0, NEW amount \in Nat, NEW write \in Write,
         SettleAt(p, amount, write)
  PROVE  /\ status' \in [Call -> {"none", "active", "settled", "expired", "released"}]
         /\ rday' = rday /\ lapsed' = lapsed /\ settled' \in [Call -> Nat]
         /\ \A c \in Call : status'[c] # "settled" => settled'[c] = 0
         /\ \A c \in Call : status[c] = "none" => status'[c] = "none"
         /\ \A c \in Call : status'[c] # status[c] =>
                              status[c] \in {"active", "expired"} /\ status'[c] = "settled"
         /\ \A c \in Call : status[c] \in {"settled", "released"} => settled'[c] = settled[c]
         /\ lost' \subseteq Fallible /\ crashes' = crashes
<1>1. Latest(p) \in Call
  BY LatestIsACall DEF IInv
<1>2. CASE UNCHANGED ledgerVars /\ UNCHANGED faultVars
  BY <1>2 DEF IInv, TypeOK, ledgerVars, faultVars
<1>3. CASE Lost(write)
  BY <1>3, BudgetAssumption DEF IInv, TypeOK, ledgerVars, Lost
<1>4. CASE Settles(Latest(p)) /\ Close(Latest(p), "settled", amount) /\ UNCHANGED faultVars
  BY <1>1, <1>4 DEF IInv, TypeOK, Settles, Close, faultVars
<1> QED
  BY <1>2, <1>3, <1>4 DEF SettleAt

LEMMA ReserveKeeps ==
  ASSUME IInv, NEW p \in Pair, Reserve(p)
  PROVE  IInv' /\ \A c \in Call :
           /\ status[c] # "none" => rday'[c] = rday[c]
           /\ status[c] \in {"settled", "released", "expired"} => status'[c] = status[c]
<1> DEFINE call == <<p, made[p] + 1>>
<1>1. made[p] \in 0..MaxCalls /\ made[p] < MaxCalls
  BY DEF IInv, TypeOK, Reserve
<1>2. call \in Call /\ made[p] + 1 \in 1..MaxCalls
  BY <1>1, BudgetAssumption DEF Call
<1>3. status[call] = "none"
  BY <1>1, <1>2 DEF IInv, FreshCalls
<1>4. /\ status' = [Swept EXCEPT ![call] = "active"]
      /\ rday' = [rday EXCEPT ![call] = day]
      /\ made' = [made EXCEPT ![p] = made[p] + 1]
      /\ pc' = [pc EXCEPT ![p] = "sent"]
      /\ UNCHANGED <<day, settled, lapsed, logged, begun, telemetry, bill, lost, crashes>>
  BY DEF Reserve, faultVars
<1> HIDE DEF call
<1>5. /\ status' \in [Call -> {"none", "active", "settled", "expired", "released"}]
      /\ \A c \in Call : c # call => status'[c] = Swept[c]
      /\ \A c \in Call : c # call => rday'[c] = rday[c]
      /\ rday' \in [Call -> Day]
  BY <1>2, <1>4, SweepExpires DEF IInv, TypeOK
<1>6. \A c \in Call : status'[c] # "settled" => settled'[c] = 0
  BY <1>2, <1>3, <1>4, <1>5, SweepExpires DEF IInv, TypeOK
<1>7. /\ made' \in [Pair -> 0..MaxCalls] /\ made'[p] > 0
      /\ \A q \in Pair : q # p => made'[q] = made[q] /\ pc'[q] = pc[q]
      /\ pc' \in [Pair -> {"idle", "begun", "sent", "metered", "unmetered", "refused", "ending"}]
  BY <1>1, <1>4, BudgetAssumption DEF IInv, TypeOK
<1>8. TypeOK'
  BY <1>4, <1>5, <1>6, <1>7 DEF IInv, TypeOK, InFlight
<1>9. FreshCalls'
  <2> SUFFICES ASSUME NEW q \in Pair, NEW n \in 1..MaxCalls, n > made'[q]
               PROVE  status'[<<q, n>>] = "none"
    BY DEF FreshCalls
  <2>1. <<q, n>> \in Call /\ <<q, n>> # call /\ n > made[q]
    BY <1>1, <1>4 DEF call, Call, IInv, TypeOK
  <2>2. status[<<q, n>>] = "none"
    BY <2>1 DEF IInv, FreshCalls
  <2> QED
    BY <1>5, <2>1, <2>2, SweepExpires DEF IInv
<1> QED
  BY <1>3, <1>5, <1>8, <1>9, SweepExpires DEF IInv

\* The provider's view stays a view of amounts.
LEMMA ChargeTypes ==
  ASSUME TypeOK, NEW p \in Pair, NEW cost \in Nat, Charge(p, cost)
  PROVE  bill' \in [Call -> Nat]
BY DEF Charge, TypeOK

\* A process that leaves is idle, and its scratch is cleared.
LEMMA LeaveKeeps ==
  ASSUME TypeOK, NEW p \in Pair, Leave(p)
  PROVE  /\ pc' \in [Pair -> {"idle", "begun", "sent", "metered", "unmetered", "refused", "ending"}]
         /\ begun' \in [Pair -> Day] /\ telemetry' \in [Pair -> Nat]
         /\ \A q \in Pair : InFlight(q)' => InFlight(q)
BY BudgetAssumption DEF TypeOK, Leave, Day, InFlight

\* What the caller does around a call changes no reservation.
LEMMA CallerKeeps ==
  ASSUME IInv, NEW p \in Pair,
         Deny(p) \/ Begin(p) \/ End(p) \/ Crash(p) \/ Answer(p)
  PROVE  IInv' /\ UNCHANGED ledgerVars
<1> USE BudgetAssumption
<1>1. CASE Deny(p)
  BY <1>1 DEF Deny, IInv, TypeOK, FreshCalls, ledgerVars, faultVars, InFlight
<1>2. CASE Begin(p)
  BY <1>2 DEF Begin, IInv, TypeOK, FreshCalls, ledgerVars, faultVars, InFlight
<1>3. CASE End(p)
  <2>1. /\ pc' \in [Pair -> {"idle", "begun", "sent", "metered", "unmetered", "refused", "ending"}]
        /\ begun' \in [Pair -> Day] /\ telemetry' \in [Pair -> Nat]
        /\ \A q \in Pair : InFlight(q)' => InFlight(q)
    BY <1>3, LeaveKeeps DEF End, IInv
  <2>2. logged' \in [Pair -> [Day -> Nat]]
    <3>1. CASE UNCHANGED logged
      BY <3>1 DEF IInv, TypeOK
    <3>2. CASE logged' = [logged EXCEPT ![p][begun[p]] = @ + telemetry[p]]
      <4>1. begun[p] \in Day /\ telemetry[p] \in Nat /\ logged[p] \in [Day -> Nat]
        BY DEF IInv, TypeOK
      <4>2. [logged[p] EXCEPT ![begun[p]] = @ + telemetry[p]] \in [Day -> Nat]
        BY <4>1
      <4>3. logged' = [logged EXCEPT ![p] = [logged[p] EXCEPT ![begun[p]] = @ + telemetry[p]]]
        BY <3>2
      <4> QED
        BY <4>2, <4>3 DEF IInv, TypeOK
    <3> QED
      BY <1>3, <3>1, <3>2 DEF End
  <2>3. UNCHANGED <<ledgerVars, day, made, bill>>
    BY <1>3 DEF End, Lost
  <2>4. lost' \subseteq Fallible /\ crashes' = crashes
    BY <1>3 DEF End, Lost, faultVars, IInv, TypeOK
  <2> QED
    BY <2>1, <2>2, <2>3, <2>4 DEF IInv, TypeOK, FreshCalls, ledgerVars
<1>4. CASE Crash(p)
  <2>1. /\ pc' \in [Pair -> {"idle", "begun", "sent", "metered", "unmetered", "refused", "ending"}]
        /\ begun' \in [Pair -> Day] /\ telemetry' \in [Pair -> Nat]
        /\ \A q \in Pair : InFlight(q)' => InFlight(q)
    BY <1>4, LeaveKeeps DEF Crash, IInv
  <2>2. bill' \in [Call -> Nat]
    <3>1. CASE UNCHANGED bill
      BY <3>1 DEF IInv, TypeOK
    <3>2. CASE \E cost \in Cost : Charge(p, cost)
      BY <3>2, ChargeTypes, BudgetAssumption DEF IInv
    <3> QED
      BY <1>4, <3>1, <3>2 DEF Crash
  <2>3. UNCHANGED <<day, ledgerVars, logged, made, lost>>
    BY <1>4 DEF Crash
  <2>4. crashes' \in 0..MaxCrashes
    BY <1>4 DEF Crash, IInv, TypeOK
  <2> QED
    BY <2>1, <2>2, <2>3, <2>4 DEF IInv, TypeOK, FreshCalls, ledgerVars
<1>5. CASE Answer(p)
  <2>1. pc' \in [Pair -> {"idle", "begun", "sent", "metered", "unmetered", "refused", "ending"}]
    BY <1>5 DEF Answer, IInv, TypeOK
  <2>2. bill' \in [Call -> Nat]
    <3>1. PICK cost \in Nat : Charge(p, cost)
      BY <1>5, BudgetAssumption DEF Answer
    <3> QED
      BY <3>1, ChargeTypes DEF IInv
  <2>3. UNCHANGED <<day, ledgerVars, logged, made, begun, telemetry, faultVars>>
    BY <1>5 DEF Answer
  <2>4. \A q \in Pair : InFlight(q)' => InFlight(q)
    BY <1>5 DEF Answer, InFlight, IInv, TypeOK
  <2> QED
    BY <2>1, <2>2, <2>3, <2>4 DEF IInv, TypeOK, FreshCalls, ledgerVars, faultVars
<1> QED
  BY <1>1, <1>2, <1>3, <1>4, <1>5

\* Closing the reservation of an answered call keeps the invariant.
LEMMA ReturnKeeps ==
  ASSUME IInv, NEW p \in Pair, Settle(p) \/ Retain(p) \/ Release(p)
  PROVE  IInv' /\ \A c \in Call :
           /\ rday'[c] = rday[c]
           /\ status[c] \in {"settled", "released"} => status'[c] = status[c] /\ settled'[c] = settled[c]
           /\ status[c] = "expired" => status'[c] \in {"expired", "settled"}
<1> USE BudgetAssumption
<1>1. made[p] > 0 /\ Latest(p) \in Call
  BY LatestIsACall DEF Settle, Retain, Release, InFlight, IInv, TypeOK
<1>2. bill[Latest(p)] \in Nat
  BY <1>1 DEF IInv, TypeOK
<1>3. Returned(p)
  BY DEF Settle, Retain, Release
<1>4. telemetry' \in [Pair -> Nat]
  BY <1>2 DEF Settle, Retain, Release, IInv, TypeOK
<1>5. pc' \in [Pair -> {"idle", "begun", "sent", "metered", "unmetered", "refused", "ending"}]
      /\ \A q \in Pair : InFlight(q)' => InFlight(q)
  BY <1>3 DEF Returned, InFlight, IInv, TypeOK
<1>6. /\ status' \in [Call -> {"none", "active", "settled", "expired", "released"}]
      /\ rday' = rday /\ lapsed' = lapsed /\ settled' \in [Call -> Nat]
      /\ \A c \in Call : status'[c] # "settled" => settled'[c] = 0
      /\ \A c \in Call : status[c] = "none" => status'[c] = "none"
      /\ \A c \in Call : status[c] \in {"settled", "released"} => status'[c] = status[c] /\ settled'[c] = settled[c]
      /\ \A c \in Call : status[c] = "expired" => status'[c] \in {"expired", "settled"}
      /\ lost' \subseteq Fallible /\ crashes' = crashes
  <2>1. CASE Settle(p)
    <3>1. SettleAt(p, bill[Latest(p)], "settle") /\ "settle" \in Write
      BY <2>1 DEF Settle, Write
    <3> QED
      BY <1>1, <1>2, <3>1, SettleKeepsTypes DEF IInv, TypeOK
  <2>2. CASE Retain(p)
    <3>1. SettleAt(p, Estimate, "retain") /\ "retain" \in Write /\ Estimate \in Nat
      BY <2>2 DEF Retain, Write
    <3> QED
      BY <1>1, <3>1, SettleKeepsTypes DEF IInv, TypeOK
  <2>3. CASE Release(p) /\ Releases(Latest(p)) /\ Close(Latest(p), "released", 0) /\ UNCHANGED faultVars
    BY <1>1, <2>3 DEF Releases, Close, faultVars, IInv, TypeOK
  <2>4. CASE Release(p) /\ UNCHANGED ledgerVars /\ lost' \subseteq Fallible /\ crashes' = crashes
    BY <2>4 DEF ledgerVars, IInv, TypeOK
  <2>5. ASSUME Release(p)
        PROVE  \/ Releases(Latest(p)) /\ Close(Latest(p), "released", 0) /\ UNCHANGED faultVars
               \/ UNCHANGED ledgerVars /\ lost' \subseteq Fallible /\ crashes' = crashes
    BY <2>5 DEF Release, Lost, faultVars, IInv, TypeOK
  <2> QED
    BY <2>1, <2>2, <2>3, <2>4, <2>5
<1>7. TypeOK'
  BY <1>3, <1>4, <1>5, <1>6 DEF Returned, IInv, TypeOK
<1>8. FreshCalls'
  BY <1>3, <1>6 DEF Returned, IInv, FreshCalls, Call
<1> QED
  BY <1>6, <1>7, <1>8 DEF IInv

LEMMA ClockKeeps ==
  ASSUME IInv, Midnight \/ \E c \in Call : Lapse(c)
  PROVE  IInv' /\ status' = status /\ rday' = rday /\ settled' = settled
<1>1. CASE Midnight
  <2>1. day' \in Day
    BY <1>1, BudgetAssumption DEF Midnight, Day, IInv, TypeOK
  <2> QED
    BY <1>1, <2>1 DEF Midnight, IInv, TypeOK, FreshCalls, ledgerVars, processVars, faultVars, InFlight
<1>2. ASSUME NEW c \in Call, Lapse(c)
      PROVE  IInv' /\ status' = status /\ rday' = rday /\ settled' = settled
  BY <1>2 DEF Lapse, IInv, TypeOK, FreshCalls, processVars, faultVars, InFlight
<1> QED
  BY <1>1, <1>2

\* One step of the ledger: the invariant, and what it may do to a reservation.
Final(c) ==
  /\ status[c] # "none" => rday'[c] = rday[c]
  /\ status[c] \in {"settled", "released"} => status'[c] = status[c] /\ settled'[c] = settled[c]
  /\ status[c] = "expired" => status'[c] \in {"expired", "settled"}

LEMMA Step == IInv /\ [Next]_vars => IInv' /\ \A c \in Call : Final(c)
<1> SUFFICES ASSUME IInv, [Next]_vars PROVE IInv' /\ \A c \in Call : Final(c)
  OBVIOUS
<1>1. ASSUME NEW p \in Pair, Reserve(p) PROVE IInv' /\ \A c \in Call : Final(c)
  BY <1>1, ReserveKeeps DEF Final, Reserve
<1>2. ASSUME NEW p \in Pair, Settle(p) \/ Retain(p) \/ Release(p)
      PROVE  IInv' /\ \A c \in Call : Final(c)
  BY <1>2, ReturnKeeps DEF Final
<1>3. ASSUME NEW p \in Pair,
             Deny(p) \/ Begin(p) \/ End(p) \/ Crash(p) \/ Answer(p)
      PROVE  IInv' /\ \A c \in Call : Final(c)
  BY <1>3, CallerKeeps DEF Final, ledgerVars
<1>4. CASE Midnight \/ \E c \in Call : Lapse(c)
  BY <1>4, ClockKeeps DEF Final
<1>5. CASE UNCHANGED vars
  BY <1>5 DEF vars, ledgerVars, processVars, faultVars, IInv, TypeOK, FreshCalls, InFlight, Final
<1> QED
  BY <1>1, <1>2, <1>3, <1>4, <1>5 DEF Next

\* The invariant of the reservation ledger: types, the constraints of the table,
\* and no reservation for a call that was not made.
THEOREM Invariant == Spec => []IInv
<1>1. IInv /\ [Next]_vars => IInv'
  BY Step
<1> QED
  BY Initially, <1>1, PTL DEF Spec

\* The CHECK constraints of budget_reservations hold for any number of calls.
THEOREM LedgerTypes == Spec => []TypeOK
<1>1. IInv => TypeOK
  BY DEF IInv
<1> QED
  BY <1>1, Invariant, PTL

\* A closed reservation keeps its day, its state and its amount, whatever late
\* answers, sweeps, losses and crashes do; only a settlement follows an expiry.
THEOREM ReservationsAreFinal == Spec => ReservationFinal
<1>1. IInv /\ [Next]_vars => [\A c \in Call : Final(c)]_vars
  BY Step
<1> QED
  BY <1>1, Invariant, PTL DEF Spec, ReservationFinal, Final
-----------------------------------------------------------------------------
(* Sums of whole units *)

LEMMA InUnits ==
  ASSUME NEW S, NEW f, NEW u
  PROVE  u \in Units(S, f) <=> \E x \in S : u \in {x} \X (1..f[x])
BY DEF Units

LEMMA UnitsAreFinite ==
  ASSUME NEW S, IsFiniteSet(S), NEW f, \A x \in S : f[x] \in Nat
  PROVE  IsFiniteSet(Units(S, f)) /\ Total(S, f) \in Nat
<1> DEFINE parts == {{x} \X (1..f[x]) : x \in S}
           part == [x \in S |-> {x} \X (1..f[x])]
<1>1. part \in Surjection(S, parts)
  BY DEF Surjection
<1>2. IsFiniteSet(parts)
  BY <1>1, FS_Surjection
<1>3. ASSUME NEW x \in S PROVE IsFiniteSet({x} \X (1..f[x]))
  <2>0. f[x] \in Nat /\ f[x] \in Int /\ 1 \in Int
    OBVIOUS
  <2>1. IsFiniteSet({x})
    BY FS_Singleton
  <2>2. IsFiniteSet(1..f[x])
    BY <2>0, FS_Interval
  <2> QED
    BY <2>1, <2>2, FS_Product
<1>4. \A T \in parts : IsFiniteSet(T)
  BY <1>3
<1>5. IsFiniteSet(UNION parts)
  <2> HIDE DEF parts
  <2> QED
    BY <1>2, <1>4, FS_UNION
<1> QED
  BY <1>5, FS_CardinalityType DEF Units, Total

\* A sum does not shrink when amounts grow or more is added.
LEMMA TotalGrows ==
  ASSUME NEW S, NEW T, IsFiniteSet(S), IsFiniteSet(T), NEW f, NEW g,
         \A x \in S : f[x] \in Nat, \A x \in T : g[x] \in Nat,
         \A x \in S : f[x] = 0 \/ (x \in T /\ f[x] <= g[x])
  PROVE  Total(S, f) <= Total(T, g)
<1>1. Units(S, f) \subseteq Units(T, g)
  <2> SUFFICES ASSUME NEW u \in Units(S, f) PROVE u \in Units(T, g)
    OBVIOUS
  <2>1. PICK x \in S : u \in {x} \X (1..f[x])
    BY InUnits
  <2>2. x \in T /\ f[x] <= g[x]
    BY <2>1
  <2>3. u \in {x} \X (1..g[x])
    BY <2>1, <2>2
  <2> QED
    BY <2>2, <2>3, InUnits
<1> QED
  BY <1>1, UnitsAreFinite, FS_Subset DEF Total

\* Equal amounts, but for members without any, have equal sums.
LEMMA TotalSame ==
  ASSUME NEW S, NEW T, IsFiniteSet(S), IsFiniteSet(T), NEW f, NEW g,
         \A x \in S : f[x] \in Nat, \A x \in T : g[x] \in Nat,
         \A x \in S : f[x] = 0 \/ (x \in T /\ f[x] = g[x]),
         \A x \in T : g[x] = 0 \/ (x \in S /\ f[x] = g[x])
  PROVE  Total(S, f) = Total(T, g)
<1>1. Total(S, f) <= Total(T, g)
  BY TotalGrows
<1>2. Total(T, g) <= Total(S, f)
  BY TotalGrows
<1> QED
  BY <1>1, <1>2, UnitsAreFinite

LEMMA TotalOfUnion ==
  ASSUME NEW S, NEW T, IsFiniteSet(S), IsFiniteSet(T), S \cap T = {}, NEW f,
         \A x \in S \cup T : f[x] \in Nat
  PROVE  Total(S \cup T, f) = Total(S, f) + Total(T, f)
<1>1. Units(S \cup T, f) = Units(S, f) \cup Units(T, f)
  BY DEF Units
<1>2. Units(S, f) \cap Units(T, f) = {}
  <2> SUFFICES ASSUME NEW u \in Units(S, f) \cap Units(T, f) PROVE FALSE
    OBVIOUS
  <2>1. PICK x \in S : u \in {x} \X (1..f[x])
    BY InUnits
  <2>2. PICK y \in T : u \in {y} \X (1..f[y])
    BY InUnits
  <2>3. x = y
    BY <2>1, <2>2
  <2> QED
    BY <2>3
<1>3. IsFiniteSet(Units(S, f)) /\ IsFiniteSet(Units(T, f))
  BY UnitsAreFinite
<1>4. /\ Cardinality(Units(S, f)) \in Nat /\ Cardinality(Units(T, f)) \in Nat
      /\ Cardinality({}) = 0
  BY <1>3, FS_CardinalityType, FS_EmptySet
<1>5. Cardinality(Units(S, f) \cup Units(T, f))
        = Cardinality(Units(S, f)) + Cardinality(Units(T, f)) - Cardinality(Units(S, f) \cap Units(T, f))
  BY <1>3, FS_Union
<1>6. Cardinality(Units(S, f) \cap Units(T, f)) = 0
  BY <1>2, <1>4
<1>7. Cardinality(Units(S \cup T, f)) = Cardinality(Units(S, f) \cup Units(T, f))
  BY <1>1
<1> QED
  BY <1>4, <1>5, <1>6, <1>7 DEF Total

\* As many times the amount as there are members.
LEMMA TotalOfEqual ==
  ASSUME NEW S, IsFiniteSet(S), NEW k \in Nat, NEW f, \A x \in S : f[x] = k
  PROVE  Total(S, f) = k * Cardinality(S)
<1>1. Units(S, f) = S \X (1..k)
  <2>1. ASSUME NEW u \in Units(S, f) PROVE u \in S \X (1..k)
    <3>1. PICK x \in S : u \in {x} \X (1..f[x])
      BY InUnits
    <3> QED
      BY <3>1
  <2>2. ASSUME NEW u \in S \X (1..k) PROVE u \in Units(S, f)
    <3>1. u \in {u[1]} \X (1..f[u[1]]) /\ u[1] \in S
      OBVIOUS
    <3> QED
      BY <3>1, InUnits
  <2> QED
    BY <2>1, <2>2
<1>2. IsFiniteSet(1..k) /\ Cardinality(1..k) = k
  BY FS_Interval
<1>3. Cardinality(S) \in Nat
  BY FS_CardinalityType
<1>4. Cardinality(S \X (1..k)) = Cardinality(S) * Cardinality(1..k)
  BY <1>2, FS_Product
<1> QED
  BY <1>1, <1>2, <1>3, <1>4 DEF Total

\* One more member adds its amount.
LEMMA TotalOfOneMore ==
  ASSUME NEW S, IsFiniteSet(S), NEW x, x \notin S, NEW f, \A y \in S \cup {x} : f[y] \in Nat
  PROVE  Total(S \cup {x}, f) = Total(S, f) + f[x]
<1>1. IsFiniteSet({x}) /\ Cardinality({x}) = 1
  BY FS_Singleton
<1>2. Total({x}, f) = f[x] * 1
  BY <1>1, TotalOfEqual
<1>3. Total(S \cup {x}, f) = Total(S, f) + Total({x}, f)
  BY <1>1, TotalOfUnion
<1> QED
  BY <1>2, <1>3

\* Amounts of two parts sum up to no more than their parts do.
LEMMA TotalOfParts ==
  ASSUME NEW S, IsFiniteSet(S), NEW f, NEW g, NEW h,
         \A x \in S : f[x] \in Nat /\ g[x] \in Nat /\ h[x] \in Nat,
         \A x \in S : f[x] = g[x] + h[x]
  PROVE  Total(S, f) <= Total(S, g) + Total(S, h)
<1> DEFINE shift == [u \in Units(S, h) |-> <<u[1], g[u[1]] + u[2]>>]
           rest == {shift[u] : u \in Units(S, h)}
<1>1. IsFiniteSet(Units(S, g)) /\ IsFiniteSet(Units(S, h))
  BY UnitsAreFinite
<1>2. shift \in Surjection(Units(S, h), rest)
  BY DEF Surjection
<1>3. IsFiniteSet(rest) /\ Cardinality(rest) <= Cardinality(Units(S, h))
  <2> HIDE DEF shift, rest
  <2> QED
    BY <1>1, <1>2, FS_Surjection
<1>4. Units(S, f) \subseteq Units(S, g) \cup rest
  <2> SUFFICES ASSUME NEW u \in Units(S, f), u \notin Units(S, g) PROVE u \in rest
    OBVIOUS
  <2>1. PICK x \in S : u \in {x} \X (1..f[x])
    BY InUnits
  <2>2. u \notin {x} \X (1..g[x])
    BY InUnits
  <2>3. PICK n \in 1..f[x] : u = <<x, n>>
    BY <2>1
  <2>4. n > g[x] /\ n - g[x] \in 1..h[x] /\ g[x] + (n - g[x]) = n
    BY <2>2, <2>3
  <2>5. <<x, n - g[x]>> \in Units(S, h)
    <3>1. <<x, n - g[x]>> \in {x} \X (1..h[x])
      BY <2>4
    <3> QED
      BY <3>1, InUnits
  <2>6. shift[<<x, n - g[x]>>] = u
    BY <2>3, <2>4, <2>5
  <2> QED
    BY <2>5, <2>6
<1> HIDE DEF rest
<1>5. /\ IsFiniteSet(Units(S, g) \cup rest)
      /\ Cardinality(Units(S, g) \cup rest)
           = Cardinality(Units(S, g)) + Cardinality(rest) - Cardinality(Units(S, g) \cap rest)
  BY <1>1, <1>3, FS_Union
<1>6. /\ Cardinality(Units(S, g)) \in Nat /\ Cardinality(rest) \in Nat
      /\ Cardinality(Units(S, h)) \in Nat /\ Cardinality(Units(S, f)) \in Nat
  BY <1>1, <1>3, UnitsAreFinite, FS_CardinalityType
<1>7. Cardinality(Units(S, g) \cap rest) \in Nat
  <2>1. IsFiniteSet(Units(S, g) \cap rest)
    BY <1>1, FS_Intersection
  <2> QED
    BY <2>1, FS_CardinalityType
<1>8. Cardinality(Units(S, f)) <= Cardinality(Units(S, g) \cup rest)
  BY <1>4, <1>5, FS_Subset
<1> QED
  BY <1>3, <1>5, <1>6, <1>7, <1>8 DEF Total

LEMMA CallsAreFinite == IsFiniteSet(Call) /\ \A S \in SUBSET Call : IsFiniteSet(S)
<1>1. IsFiniteSet(1..MaxCalls)
  BY BudgetAssumption, FS_Interval
<1>2. IsFiniteSet(Call)
  BY <1>1, BudgetAssumption, FS_Product DEF Call
<1> QED
  BY <1>2, FS_Subset

-----------------------------------------------------------------------------
(* What the rows of the ledger say of the bill *)

\* A call under way has not been closed; how it ended is what was charged.
FlightIsOpen(p) ==
  /\ InFlight(p) => status[Latest(p)] \in {"active", "expired"}
  /\ pc[p] = "refused" => bill[Latest(p)] = 0
  /\ pc[p] = "unmetered" => bill[Latest(p)] = Estimate

ClosedAtItsBill(c) ==
  /\ status[c] = "settled" => settled[c] = bill[c]
  /\ status[c] = "released" => bill[c] = 0

BillInv == IInv /\ (\A p \in Pair : FlightIsOpen(p)) /\ (\A c \in Call : ClosedAtItsBill(c))

\* A charge up to the estimate.
Within(amount) == IF amount > Estimate THEN Estimate ELSE amount

\* What admission holds a call for at least, and the calls it holds on a day.
Weight == [c \in Call |-> IF status[c] = "settled" THEN Within(settled[c])
                          ELSE IF status[c] = "active" THEN Estimate ELSE 0]
Held(d) == {c \in Call \ lapsed : status[c] \in {"active", "settled"} /\ rday[c] = d}

CapInv ==
  /\ \A c \in Call : status[c] = "expired" => c \in lapsed
  /\ \A d \in Day : Total(Held(d), Weight) <= Cap

\* Why a call that is over may have no settlement of what was charged.
Excused(c) ==
  \/ status[c] = "none" \/ bill[c] = 0 \/ status[c] = "settled"
  \/ crashes > 0 \/ lost \cap {"settle", "retain"} # {}
  \/ \E p \in Pair : InFlight(p) /\ c = Latest(p)

\* What a processor has logged and is about to log is settled.
LoggedIsSettled(p) ==
  "settle" \notin lost => \A d \in Day : logged[p][d] + telemetry[p] <= SettledOf(p)

CountInv == (\A c \in Call : Excused(c)) /\ (\A p \in Pair : LoggedIsSettled(p))

LEMMA BillInitially == Init => BillInv
<1> SUFFICES ASSUME Init PROVE BillInv
  OBVIOUS
<1>1. IInv
  BY Initially
<1>2. \A p \in Pair : FlightIsOpen(p)
  BY DEF Init, FlightIsOpen, InFlight
<1>3. \A c \in Call : ClosedAtItsBill(c)
  BY DEF Init, ClosedAtItsBill
<1> QED
  BY <1>1, <1>2, <1>3 DEF BillInv

\* Calls of different processors are different, and only those under way have
\* to be calls.
LEMMA LatestDiffer ==
  ASSUME TypeOK, NEW p \in Pair, NEW q \in Pair
  PROVE  /\ p # q => Latest(p) # Latest(q)
         /\ InFlight(p) => Latest(p) \in Call
BY LatestIsACall DEF Latest, TypeOK

LEMMA ReserveKeepsBills ==
  ASSUME BillInv, NEW p \in Pair, Reserve(p)
  PROVE  (\A q \in Pair : FlightIsOpen(q)') /\ (\A c \in Call : ClosedAtItsBill(c)')
<1> DEFINE call == <<p, made[p] + 1>>
<1>1. /\ made[p] \in 0..MaxCalls /\ made[p] < MaxCalls /\ made \in [Pair -> 0..MaxCalls]
      /\ pc \in [Pair -> {"idle", "begun", "sent", "metered", "unmetered", "refused", "ending"}]
      /\ TypeOK
  BY DEF BillInv, IInv, TypeOK, Reserve
<1>2. call \in Call /\ made[p] + 1 \in 1..MaxCalls
  BY <1>1, BudgetAssumption DEF Call
<1>3. status[call] = "none"
  BY <1>1, <1>2 DEF BillInv, IInv, FreshCalls
<1>4. /\ status' = [Swept EXCEPT ![call] = "active"] /\ made' = [made EXCEPT ![p] = made[p] + 1]
      /\ pc' = [pc EXCEPT ![p] = "sent"] /\ UNCHANGED <<settled, bill>>
  BY DEF Reserve
<1> HIDE DEF call
<1>5. /\ status'[call] = "active" /\ \A c \in Call \ {call} : status'[c] = Swept[c]
      /\ pc'[p] = "sent" /\ \A q \in Pair \ {p} : pc'[q] = pc[q] /\ made'[q] = made[q]
      /\ Latest(p)' = call /\ \A q \in Pair \ {p} : Latest(q)' = Latest(q)
  BY <1>1, <1>2, <1>4, SweepExpires DEF call, Latest
<1>6. FlightIsOpen(p)'
  BY <1>4, <1>5 DEF FlightIsOpen
<1>7. ASSUME NEW q \in Pair \ {p} PROVE FlightIsOpen(q)'
  <2>1. FlightIsOpen(q) /\ (InFlight(q)' <=> InFlight(q))
    BY <1>5 DEF BillInv, InFlight
  <2>2. InFlight(q) => Latest(q) \in Call \ {call}
    BY <1>1, LatestIsACall DEF TypeOK, Latest, call
  <2>3. InFlight(q) => status'[Latest(q)] \in {"active", "expired"}
    BY <1>1, <1>5, <2>1, <2>2, SweepExpires DEF FlightIsOpen
  <2> QED
    BY <1>4, <1>5, <2>1, <2>3 DEF FlightIsOpen
<1>8. ASSUME NEW c \in Call PROVE ClosedAtItsBill(c)'
  BY <1>1, <1>4, <1>5, SweepExpires DEF BillInv, ClosedAtItsBill
<1> QED
  BY <1>6, <1>7, <1>8

\* A processor that is not in a call any more.
LEMMA LeavingKeepsBills ==
  ASSUME BillInv, NEW p \in Pair, UNCHANGED <<status, settled, bill, made>>,
         \A q \in Pair : q # p => pc'[q] = pc[q],
         pc'[p] \notin {"sent", "metered", "unmetered", "refused"}
  PROVE  (\A q \in Pair : FlightIsOpen(q)') /\ (\A c \in Call : ClosedAtItsBill(c)')
<1>1. \A q \in Pair : FlightIsOpen(q)'
  BY DEF BillInv, FlightIsOpen, InFlight, Latest
<1>2. \A c \in Call : ClosedAtItsBill(c)'
  BY DEF BillInv, ClosedAtItsBill
<1> QED
  BY <1>1, <1>2

\* The provider charges for the call that is under way; nothing is closed yet.
LEMMA ChargeKeepsBills ==
  ASSUME BillInv, NEW p \in Pair, InFlight(p), NEW cost \in Nat, Charge(p, cost),
         UNCHANGED <<status, settled, made>>, \A q \in Pair : q # p => pc'[q] = pc[q],
         pc'[p] = "refused" => cost = 0, pc'[p] = "unmetered" => cost = Estimate
  PROVE  (\A q \in Pair : FlightIsOpen(q)') /\ (\A c \in Call : ClosedAtItsBill(c)')
<1>1. TypeOK /\ FlightIsOpen(p) /\ Latest(p) \in Call
  BY LatestDiffer DEF BillInv, IInv
<1>2. /\ bill'[Latest(p)] = cost
      /\ \A c \in Call \ {Latest(p)} : bill'[c] = bill[c]
      /\ \A q \in Pair : Latest(q)' = Latest(q)
  BY <1>1 DEF Charge, TypeOK, Latest
<1>3. ASSUME NEW q \in Pair PROVE FlightIsOpen(q)'
  <2>1. CASE q = p
    BY <1>1, <1>2, <2>1 DEF FlightIsOpen, InFlight
  <2>2. CASE q # p
    <3>1. InFlight(q) => Latest(q) \in Call \ {Latest(p)}
      BY <1>1, <2>2, LatestDiffer
    <3> QED
      BY <1>2, <2>2, <3>1 DEF BillInv, FlightIsOpen, InFlight
  <2> QED
    BY <2>1, <2>2
<1>4. ASSUME NEW c \in Call PROVE ClosedAtItsBill(c)'
  BY <1>1, <1>2 DEF BillInv, ClosedAtItsBill, FlightIsOpen
<1> QED
  BY <1>3, <1>4

\* An answered call is closed at what was charged, unless the write is lost.
LEMMA ReturnEffect ==
  ASSUME BillInv, NEW p \in Pair, Settle(p) \/ Retain(p) \/ Release(p)
  PROVE  /\ InFlight(p) /\ FlightIsOpen(p) /\ Latest(p) \in Call /\ bill' = bill
         /\ pc'[p] = "begun" /\ (\A q \in Pair \ {p} : pc'[q] = pc[q])
         /\ \A q \in Pair : Latest(q)' = Latest(q)
         /\ \/ /\ UNCHANGED <<status, rday, settled, lapsed>>
               /\ bill[Latest(p)] = 0 \/ lost' \cap {"settle", "retain"} # {}
            \/ Close(Latest(p), "settled", bill[Latest(p)])
            \/ Close(Latest(p), "released", 0) /\ bill[Latest(p)] = 0
<1>1. InFlight(p) /\ Returned(p)
  BY DEF Settle, Retain, Release, InFlight
<1>2. TypeOK /\ FlightIsOpen(p) /\ Latest(p) \in Call
  BY <1>1, LatestDiffer DEF BillInv, IInv
<1>3. /\ pc'[p] = "begun" /\ (\A q \in Pair \ {p} : pc'[q] = pc[q])
      /\ \A q \in Pair : Latest(q)' = Latest(q)
      /\ bill' = bill
  BY <1>1, <1>2 DEF Returned, TypeOK, Latest
<1>4. CASE Settle(p)
  BY <1>1, <1>2, <1>3, <1>4 DEF Settle, SettleAt, Settles, FlightIsOpen, Lost, ledgerVars
<1>5. CASE Retain(p)
  <2>1. bill[Latest(p)] = Estimate
    BY <1>2, <1>5 DEF Retain, FlightIsOpen
  <2> QED
    BY <1>1, <1>2, <1>3, <1>5, <2>1 DEF Retain, SettleAt, Settles, FlightIsOpen, Lost, ledgerVars
<1>6. CASE Release(p)
  <2>1. bill[Latest(p)] = 0
    BY <1>2, <1>6 DEF Release, FlightIsOpen
  <2> QED
    BY <1>1, <1>2, <1>3, <1>6, <2>1 DEF Release, Lost, ledgerVars
<1> QED
  BY <1>4, <1>5, <1>6

LEMMA ReturnKeepsBills ==
  ASSUME BillInv, NEW p \in Pair, Settle(p) \/ Retain(p) \/ Release(p)
  PROVE  (\A q \in Pair : FlightIsOpen(q)') /\ (\A c \in Call : ClosedAtItsBill(c)')
<1>1. /\ InFlight(p) /\ Latest(p) \in Call /\ bill' = bill
      /\ pc'[p] = "begun" /\ (\A q \in Pair \ {p} : pc'[q] = pc[q])
      /\ \A q \in Pair : Latest(q)' = Latest(q)
  BY ReturnEffect
<1>2. TypeOK
  BY DEF BillInv, IInv
<1>3. \A c \in Call \ {Latest(p)} : status'[c] = status[c] /\ settled'[c] = settled[c]
  BY <1>1, <1>2, ReturnEffect DEF Close, TypeOK
<1>4. ASSUME NEW q \in Pair PROVE FlightIsOpen(q)'
  <2>1. CASE q = p
    BY <1>1, <2>1 DEF FlightIsOpen, InFlight
  <2>2. CASE q # p
    <3>1. InFlight(q) => Latest(q) \in Call \ {Latest(p)}
      BY <1>2, <2>2, LatestDiffer
    <3> QED
      BY <1>1, <1>3, <2>2, <3>1 DEF BillInv, FlightIsOpen, InFlight
  <2> QED
    BY <2>1, <2>2
<1>5. ASSUME NEW c \in Call PROVE ClosedAtItsBill(c)'
  <2>1. CASE c = Latest(p)
    BY <1>1, <1>2, <2>1, ReturnEffect DEF BillInv, ClosedAtItsBill, Close, TypeOK
  <2>2. CASE c # Latest(p)
    BY <1>1, <1>3, <2>2 DEF BillInv, ClosedAtItsBill
  <2> QED
    BY <2>1, <2>2
<1> QED
  BY <1>4, <1>5

\* A crash is the end of a processor, whose last call may still be charged.
LEMMA CrashEffect ==
  ASSUME BillInv, NEW p \in Pair, Crash(p)
  PROVE  /\ (UNCHANGED bill \/ (InFlight(p) /\ \E cost \in Cost : Charge(p, cost)))
         /\ UNCHANGED <<day, status, rday, settled, lapsed, logged, made, lost>>
         /\ crashes' = crashes + 1
         /\ pc'[p] = "idle" /\ telemetry'[p] = 0
         /\ \A q \in Pair \ {p} : pc'[q] = pc[q] /\ telemetry'[q] = telemetry[q]
BY DEF Crash, Leave, BillInv, IInv, TypeOK, ledgerVars, InFlight

LEMMA BillStep == BillInv /\ [Next]_vars => BillInv'
<1> SUFFICES ASSUME BillInv, [Next]_vars PROVE BillInv'
  OBVIOUS
<1>0. IInv' /\ TypeOK
  BY Step DEF BillInv, IInv
<1> SUFFICES (\A q \in Pair : FlightIsOpen(q)') /\ (\A c \in Call : ClosedAtItsBill(c)')
  BY <1>0 DEF BillInv
<1>1. ASSUME NEW p \in Pair, Begin(p) \/ Deny(p) \/ End(p)
      PROVE  (\A q \in Pair : FlightIsOpen(q)') /\ (\A c \in Call : ClosedAtItsBill(c)')
  <2>1. /\ UNCHANGED <<status, settled, bill, made>>
        /\ pc'[p] \in {"begun", "ending", "idle"} /\ \A q \in Pair : q # p => pc'[q] = pc[q]
    BY <1>0, <1>1 DEF Begin, Deny, End, Leave, Lost, ledgerVars, TypeOK
  <2> QED
    BY <2>1, LeavingKeepsBills
<1>2. ASSUME NEW p \in Pair, Answer(p)
      PROVE  (\A q \in Pair : FlightIsOpen(q)') /\ (\A c \in Call : ClosedAtItsBill(c)')
  <2>1. /\ InFlight(p) /\ UNCHANGED <<status, settled, made>>
        /\ \A q \in Pair : q # p => pc'[q] = pc[q]
    BY <1>0, <1>2 DEF Answer, ledgerVars, InFlight, TypeOK
  <2>2. \E cost \in Nat : /\ Charge(p, cost)
                          /\ pc'[p] = "refused" => cost = 0
                          /\ pc'[p] = "unmetered" => cost = Estimate
    BY <1>0, <1>2, BudgetAssumption DEF Answer, TypeOK
  <2> QED
    BY <2>1, <2>2, ChargeKeepsBills
<1>3. ASSUME NEW p \in Pair, Crash(p)
      PROVE  (\A q \in Pair : FlightIsOpen(q)') /\ (\A c \in Call : ClosedAtItsBill(c)')
  <2>1. Cost \subseteq Nat
    BY BudgetAssumption
  <2> QED
    BY <1>3, <2>1, CrashEffect, ChargeKeepsBills, LeavingKeepsBills
<1>4. CASE Midnight \/ (\E c \in Call : Lapse(c)) \/ UNCHANGED vars
  <2>1. UNCHANGED <<status, settled, bill, made, pc>>
    BY <1>4 DEF Midnight, Lapse, vars, ledgerVars, processVars
  <2> QED
    BY <2>1 DEF BillInv, FlightIsOpen, InFlight, Latest, ClosedAtItsBill
<1> QED
  BY <1>1, <1>2, <1>3, <1>4, ReserveKeepsBills, ReturnKeepsBills DEF Next

-----------------------------------------------------------------------------
(* Every dollar once *)

LEMMA CountInitially == Init => CountInv
<1> SUFFICES ASSUME Init PROVE CountInv
  OBVIOUS
<1>1. \A c \in Call : Excused(c)
  BY DEF Init, Excused
<1>2. ASSUME NEW p \in Pair PROVE LoggedIsSettled(p)
  <2>1. SettledOf(p) \in Nat
    BY CallsAreFinite, UnitsAreFinite DEF Init, SettledOf
  <2> QED
    BY <2>1 DEF Init, LoggedIsSettled
<1> QED
  BY <1>1, <1>2 DEF CountInv

LEMMA SettledOfIsNat ==
  ASSUME TypeOK, NEW p \in Pair
  PROVE  SettledOf(p) \in Nat
BY CallsAreFinite, UnitsAreFinite DEF TypeOK, SettledOf

\* What a processor has settled stays settled.
LEMMA SettledOfGrows ==
  ASSUME IInv, [Next]_vars, NEW p \in Pair
  PROVE  SettledOf(p) <= SettledOf(p)' /\ SettledOf(p) \in Nat /\ SettledOf(p)' \in Nat
<1>1. IInv' /\ TypeOK /\ TypeOK' /\ \A c \in Call : Final(c)
  BY Step DEF IInv
<1> DEFINE S == {c \in Call : c[1] = p /\ status[c] = "settled"}
           T == {c \in Call : c[1] = p /\ status'[c] = "settled"}
<1>2. IsFiniteSet(S) /\ IsFiniteSet(T)
  BY CallsAreFinite
<1>3. \A c \in S : c \in T /\ settled'[c] = settled[c]
  BY <1>1 DEF Final
<1>4. (\A c \in S : settled[c] \in Nat) /\ (\A c \in T : settled'[c] \in Nat)
  BY <1>1 DEF TypeOK
<1>5. SettledOf(p) = Total(S, settled) /\ SettledOf(p)' = Total(T, settled')
  BY DEF SettledOf
<1> HIDE DEF S, T
<1>6. \A c \in S : c \in T /\ settled[c] <= settled'[c]
  BY <1>3, <1>4
<1> QED
  BY <1>2, <1>4, <1>5, <1>6, TotalGrows, UnitsAreFinite

\* A processor whose log and telemetry together do not grow.
LEMMA NothingMoreToLog ==
  ASSUME IInv, [Next]_vars, NEW p \in Pair, LoggedIsSettled(p), lost \subseteq lost',
         \A d \in Day : logged'[p][d] + telemetry'[p] <= logged[p][d] + telemetry[p]
  PROVE  LoggedIsSettled(p)'
<1>1. TypeOK /\ TypeOK'
  BY Step DEF IInv
<1> SUFFICES ASSUME "settle" \notin lost', NEW d \in Day
             PROVE  logged'[p][d] + telemetry'[p] <= SettledOf(p)'
  BY DEF LoggedIsSettled
<1>2. logged[p][d] + telemetry[p] <= SettledOf(p)
  BY DEF LoggedIsSettled
<1>3. /\ logged[p][d] \in Nat /\ telemetry[p] \in Nat
      /\ logged'[p][d] \in Nat /\ telemetry'[p] \in Nat
  BY <1>1 DEF TypeOK
<1> QED
  BY <1>2, <1>3, SettledOfGrows

\* A settlement that is not lost adds to the settled what it adds to the log.
LEMMA SettlementIsLogged ==
  ASSUME BillInv, [Next]_vars, NEW p \in Pair, Settle(p), LoggedIsSettled(p)
  PROVE  LoggedIsSettled(p)'
<1>1. IInv /\ TypeOK /\ TypeOK' /\ (\A c \in Call : Final(c)) /\ FlightIsOpen(p)
  BY Step DEF IInv, BillInv
<1> DEFINE last == Latest(p)
           S == {c \in Call : c[1] = p /\ status[c] = "settled"}
           T == {c \in Call : c[1] = p /\ status'[c] = "settled"}
<1> SUFFICES ASSUME "settle" \notin lost', NEW d \in Day
             PROVE  logged'[p][d] + telemetry'[p] <= SettledOf(p)'
  BY DEF LoggedIsSettled
<1>2. InFlight(p) /\ last \in Call /\ last[1] = p
  BY <1>1, LatestDiffer DEF Settle, InFlight, Latest
<1>3. Close(last, "settled", bill[last]) /\ lost' = lost
  BY <1>1, <1>2 DEF Settle, SettleAt, Lost, FlightIsOpen, Settles, faultVars
<1>4. /\ telemetry'[p] = telemetry[p] + bill[last] /\ logged' = logged
  BY <1>1 DEF Settle, Returned, TypeOK
<1>5. last \notin S /\ last \in T /\ settled'[last] = bill[last]
  BY <1>1, <1>2, <1>3 DEF FlightIsOpen, Close, TypeOK
<1>6. \A c \in S : c \in T /\ settled'[c] = settled[c]
  BY <1>1 DEF Final
<1>7. IsFiniteSet(S) /\ IsFiniteSet(T)
  BY CallsAreFinite
<1>8. (\A c \in S : settled[c] \in Nat) /\ (\A c \in T : settled'[c] \in Nat) /\ bill[last] \in Nat
  BY <1>1, <1>2 DEF TypeOK
<1>9. SettledOf(p) = Total(S, settled) /\ SettledOf(p)' = Total(T, settled')
  BY DEF SettledOf
<1> HIDE DEF S, T, last
<1>10. Total(S, settled') = Total(S, settled)
  BY <1>6, <1>7, <1>8, TotalSame
<1>11. Total(S \cup {last}, settled') = Total(S, settled') + settled'[last]
  BY <1>5, <1>6, <1>7, <1>8, TotalOfOneMore
<1>12. Total(S \cup {last}, settled') <= Total(T, settled')
  <2>1. IsFiniteSet(S \cup {last})
    BY <1>7, FS_AddElement
  <2>2. \A c \in S \cup {last} : c \in T /\ settled'[c] \in Nat /\ settled'[c] <= settled'[c]
    BY <1>5, <1>6, <1>8
  <2> QED
    BY <1>7, <1>8, <2>1, <2>2, TotalGrows
<1>13. logged[p][d] + telemetry[p] <= SettledOf(p)
  BY <1>3 DEF LoggedIsSettled
<1>14. logged[p][d] \in Nat /\ telemetry[p] \in Nat /\ SettledOf(p) \in Nat /\ SettledOf(p)' \in Nat
  BY <1>1, SettledOfGrows DEF TypeOK
<1> QED
  BY <1>4, <1>5, <1>8, <1>9, <1>10, <1>11, <1>12, <1>13, <1>14

\* Faults are counted, not forgotten.
LEMMA FaultsGrow ==
  ASSUME TypeOK, [Next]_vars
  PROVE  lost \subseteq lost' /\ crashes' >= crashes /\ crashes \in Nat
<1>1. crashes \in Nat
  BY BudgetAssumption DEF TypeOK
<1>2. ASSUME NEW p \in Pair, Begin(p) \/ Reserve(p) \/ Deny(p) \/ Answer(p)
      PROVE  UNCHANGED faultVars
  BY <1>2 DEF Begin, Reserve, Deny, Answer
<1>3. ASSUME NEW p \in Pair, Settle(p) \/ Retain(p) \/ Release(p)
      PROVE  lost \subseteq lost' /\ crashes' = crashes
  BY <1>3 DEF Settle, Retain, Release, SettleAt, Lost, faultVars
<1>4. ASSUME NEW p \in Pair, End(p)
      PROVE  lost \subseteq lost' /\ crashes' = crashes
  BY <1>4 DEF End, Lost, faultVars
<1>5. ASSUME NEW p \in Pair, Crash(p)
      PROVE  lost' = lost /\ crashes' = crashes + 1
  BY <1>5 DEF Crash
<1>6. ASSUME NEW c \in Call, Lapse(c)
      PROVE  UNCHANGED faultVars
  BY <1>6 DEF Lapse
<1>7. CASE Midnight \/ UNCHANGED vars
  BY <1>1, <1>7 DEF Midnight, vars, faultVars
<1>8. CASE \E c \in Call : Lapse(c)
  BY <1>1, <1>6, <1>8 DEF faultVars
<1>9. CASE \E p \in Pair : \/ Begin(p) \/ Reserve(p) \/ Deny(p) \/ Answer(p) \/ Settle(p)
                           \/ Retain(p) \/ Release(p) \/ End(p) \/ Crash(p)
  BY <1>1, <1>2, <1>3, <1>4, <1>5, <1>9 DEF faultVars
<1> QED
  BY <1>1, <1>7, <1>8, <1>9 DEF Next

LEMMA LoggingStep ==
  ASSUME BillInv, CountInv, [Next]_vars, NEW q \in Pair
  PROVE  LoggedIsSettled(q)'
<1>1. IInv /\ TypeOK /\ TypeOK' /\ LoggedIsSettled(q) /\ lost \subseteq lost'
  BY Step, FaultsGrow DEF BillInv, IInv, CountInv
<1>2. \A d \in Day : logged[q][d] \in Nat /\ telemetry[q] \in Nat
  BY <1>1 DEF TypeOK
<1>3. CASE \E p \in Pair : Settle(p) /\ p = q
  BY <1>1, <1>3, SettlementIsLogged
<1>4. CASE ~\E p \in Pair : Settle(p) /\ p = q
  <2> SUFFICES ASSUME NEW d \in Day
               PROVE  logged'[q][d] + telemetry'[q] <= logged[q][d] + telemetry[q]
    BY <1>1, NothingMoreToLog
  <2>1. ASSUME NEW p \in Pair, Reserve(p) \/ Deny(p) \/ Answer(p) \/ Retain(p) \/ Release(p)
        PROVE  logged' = logged /\ telemetry' = telemetry
    BY <2>1 DEF Reserve, Deny, Answer, Retain, Release, Returned
  <2>2. ASSUME NEW p \in Pair, Settle(p)
        PROVE  logged'[q][d] + telemetry'[q] <= logged[q][d] + telemetry[q]
    <3>1. p # q
      BY <1>4, <2>2
    <3>2. logged' = logged /\ telemetry'[q] = telemetry[q]
      BY <1>1, <2>2, <3>1 DEF Settle, Returned, TypeOK
    <3> QED
      BY <1>2, <3>2
  <2>3. ASSUME NEW p \in Pair, Begin(p) \/ Crash(p)
        PROVE  logged'[q][d] + telemetry'[q] <= logged[q][d] + telemetry[q]
    <3>1. logged' = logged /\ telemetry' = [telemetry EXCEPT ![p] = 0]
      BY <2>3 DEF Begin, Crash, Leave
    <3>2. telemetry'[q] = telemetry[q] \/ telemetry'[q] = 0
      BY <1>1, <3>1 DEF TypeOK
    <3> QED
      BY <1>2, <3>1, <3>2
  <2>4. ASSUME NEW p \in Pair, End(p)
        PROVE  logged'[q][d] + telemetry'[q] <= logged[q][d] + telemetry[q]
    <3>1. telemetry' = [telemetry EXCEPT ![p] = 0]
      BY <2>4 DEF End, Leave
    <3>2. CASE UNCHANGED logged
      BY <1>1, <1>2, <3>1, <3>2 DEF TypeOK
    <3>3. CASE logged' = [logged EXCEPT ![p][begun[p]] = @ + telemetry[p]]
      <4>1. logged[p] \in [Day -> Nat] /\ begun[p] \in Day /\ telemetry[p] \in Nat
        BY <1>1 DEF TypeOK
      <4>2. logged' = [logged EXCEPT ![p] = [logged[p] EXCEPT ![begun[p]] = @ + telemetry[p]]]
        BY <3>3
      <4>3. CASE q = p
        <5>1. logged'[q] = [logged[q] EXCEPT ![begun[q]] = logged[q][begun[q]] + telemetry[q]]
          BY <1>1, <4>2, <4>3 DEF TypeOK
        <5>2. telemetry'[q] = 0
          BY <1>1, <3>1, <4>3 DEF TypeOK
        <5> QED
          BY <1>2, <4>1, <4>3, <5>1, <5>2
      <4>4. CASE q # p
        BY <1>1, <1>2, <3>1, <4>2, <4>4 DEF TypeOK
      <4> QED
        BY <4>3, <4>4
    <3> QED
      BY <2>4, <3>2, <3>3 DEF End
  <2>5. CASE Midnight \/ (\E c \in Call : Lapse(c)) \/ UNCHANGED vars
    BY <1>2, <2>5 DEF Midnight, Lapse, vars, processVars
  <2> QED
    BY <1>2, <2>1, <2>2, <2>3, <2>4, <2>5 DEF Next
<1> QED
  BY <1>3, <1>4
\* A call that is over keeps its excuse.
LEMMA ExcuseKept ==
  ASSUME TypeOK, NEW c \in Call, Excused(c), lost \subseteq lost', crashes' \in Nat, crashes' >= crashes,
         status[c] \in {"none", "settled"} => status'[c] = status[c],
         bill'[c] = bill[c],
         \A p \in Pair : InFlight(p) /\ c = Latest(p) => InFlight(p)' /\ c = Latest(p)'
  PROVE  Excused(c)'
<1>1. crashes \in Nat
  BY BudgetAssumption DEF TypeOK
<1>2. CASE crashes > 0
  <2>1. crashes' > 0
    BY <1>1, <1>2
  <2> QED
    BY <2>1 DEF Excused
<1>3. CASE \E p \in Pair : InFlight(p) /\ c = Latest(p)
  <2>1. (\E p \in Pair : InFlight(p) /\ c = Latest(p))'
    BY <1>3
  <2> QED
    BY <2>1 DEF Excused
<1>4. CASE lost \cap {"settle", "retain"} # {}
  BY <1>4 DEF Excused
<1>5. CASE status[c] \in {"none", "settled"} \/ bill[c] = 0
  BY <1>5 DEF Excused
<1> QED
  BY <1>2, <1>3, <1>4, <1>5 DEF Excused

LEMMA ExcuseStep ==
  ASSUME BillInv, CountInv, [Next]_vars, NEW c \in Call
  PROVE  Excused(c)'
<1>1. /\ IInv /\ TypeOK /\ TypeOK' /\ Excused(c) /\ Final(c)
      /\ lost \subseteq lost' /\ crashes' >= crashes /\ crashes \in Nat /\ crashes' \in Nat
  BY Step, FaultsGrow, BudgetAssumption DEF BillInv, IInv, CountInv, TypeOK
<1>2. ASSUME NEW p \in Pair, Reserve(p) PROVE Excused(c)'
  <2> DEFINE call == <<p, made[p] + 1>>
  <2>1. /\ pc'[p] = "sent" /\ Latest(p)' = call /\ bill' = bill
        /\ \A q \in Pair \ {p} : pc'[q] = pc[q] /\ Latest(q)' = Latest(q)
    BY <1>1, <1>2 DEF Reserve, TypeOK, Latest
  <2>2. CASE c = call
    BY <2>1, <2>2 DEF Excused, InFlight
  <2>3. CASE c # call
    <3>1. status'[c] = Swept[c]
      BY <1>1, <1>2, <2>3, SweepExpires DEF Reserve
    <3>2. status[c] \in {"none", "settled"} => status'[c] = status[c]
      BY <1>1, <3>1, SweepExpires
    <3>3. ASSUME NEW q \in Pair, InFlight(q) PROVE InFlight(q)' /\ Latest(q)' = Latest(q)
      <4>1. q # p
        BY <1>2, <3>3 DEF Reserve, InFlight
      <4> QED
        BY <2>1, <3>3, <4>1 DEF InFlight
    <3> QED
      BY <1>1, <2>1, <3>2, <3>3, ExcuseKept
  <2> QED
    BY <2>2, <2>3
<1>3. ASSUME NEW p \in Pair, Answer(p) PROVE Excused(c)'
  <2>1. /\ InFlight(p) /\ InFlight(p)' /\ status' = status /\ made' = made
        /\ \A q \in Pair \ {p} : pc'[q] = pc[q]
    BY <1>1, <1>3 DEF Answer, InFlight, ledgerVars, TypeOK
  <2>2. \A q \in Pair : Latest(q)' = Latest(q)
    BY <2>1 DEF Latest
  <2>3. CASE c = Latest(p)
    BY <2>1, <2>2, <2>3 DEF Excused
  <2>4. CASE c # Latest(p)
    <3>1. bill'[c] = bill[c]
      BY <1>1, <1>3, <2>4 DEF Answer, Charge, TypeOK
    <3>2. \A q \in Pair : InFlight(q) => InFlight(q)'
      BY <2>1 DEF InFlight
    <3> QED
      BY <1>1, <2>1, <2>2, <3>1, <3>2, ExcuseKept
  <2> QED
    BY <2>3, <2>4
<1>4. ASSUME NEW p \in Pair, Settle(p) \/ Retain(p) \/ Release(p) PROVE Excused(c)'
  <2>1. /\ Latest(p) \in Call /\ bill' = bill /\ \A q \in Pair \ {p} : pc'[q] = pc[q]
        /\ \A q \in Pair : Latest(q)' = Latest(q)
    BY <1>4, ReturnEffect
  <2>2. CASE c = Latest(p)
    <3>1. \/ bill[c] = 0 \/ lost' \cap {"settle", "retain"} # {}
          \/ Close(c, "settled", bill[c])
      BY <1>4, <2>2, ReturnEffect
    <3>2. Close(c, "settled", bill[c]) => status'[c] = "settled"
      BY <1>1 DEF Close, TypeOK
    <3>3. \/ bill'[c] = 0 \/ lost' \cap {"settle", "retain"} # {} \/ status'[c] = "settled"
      BY <2>1, <3>1, <3>2
    <3> QED
      BY <3>3 DEF Excused
  <2>3. CASE c # Latest(p)
    <3>1. status'[c] = status[c]
      <4>1. \A x \in Call \ {Latest(p)} : status'[x] = status[x]
        <5>1. \/ status' = status
              \/ \E state \in {"settled", "released"} :
                   status' = [status EXCEPT ![Latest(p)] = state]
          BY <1>4, ReturnEffect DEF Close
        <5>2. status \in [Call -> {"none", "active", "settled", "expired", "released"}]
          BY <1>1 DEF TypeOK
        <5> QED
          BY <5>1, <5>2
      <4> QED
        BY <2>3, <4>1
    <3>2. ASSUME NEW q \in Pair, InFlight(q), c = Latest(q) PROVE InFlight(q)' /\ c = Latest(q)'
      <4>1. q # p
        BY <2>3, <3>2
      <4> QED
        BY <2>1, <3>2, <4>1 DEF InFlight
    <3> QED
      BY <1>1, <2>1, <3>1, <3>2, ExcuseKept
  <2> QED
    BY <2>2, <2>3
<1>5. ASSUME NEW p \in Pair, Begin(p) \/ Deny(p) \/ End(p) PROVE Excused(c)'
  <2>1. /\ ~InFlight(p) /\ UNCHANGED <<status, bill, made>>
        /\ \A q \in Pair \ {p} : pc'[q] = pc[q]
    BY <1>1, <1>5 DEF Begin, Deny, End, Leave, Lost, ledgerVars, InFlight, TypeOK
  <2>2. \A q \in Pair : InFlight(q) => InFlight(q)' /\ Latest(q)' = Latest(q)
    BY <2>1 DEF InFlight, Latest
  <2> QED
    BY <1>1, <2>1, <2>2, ExcuseKept
<1>6. ASSUME NEW p \in Pair, Crash(p) PROVE Excused(c)'
  <2>1. crashes' > 0
    BY <1>1, <1>6 DEF Crash
  <2> QED
    BY <2>1 DEF Excused
<1>7. CASE Midnight \/ (\E x \in Call : Lapse(x)) \/ UNCHANGED vars
  <2>1. UNCHANGED <<status, bill, made, pc>>
    BY <1>7 DEF Midnight, Lapse, vars, ledgerVars, processVars
  <2>2. \A q \in Pair : InFlight(q) => InFlight(q)' /\ Latest(q)' = Latest(q)
    BY <2>1 DEF InFlight, Latest
  <2> QED
    BY <1>1, <2>1, <2>2, ExcuseKept
<1> QED
  BY <1>2, <1>3, <1>4, <1>5, <1>6, <1>7 DEF Next

LEMMA CountStep == BillInv /\ CountInv /\ [Next]_vars => CountInv'
BY LoggingStep, ExcuseStep DEF CountInv

LEMMA CountingHolds == BillInv /\ CountInv => CountedOnce
<1> SUFFICES ASSUME BillInv, CountInv, \A p \in Pair : ~InFlight(p), crashes = 0,
                    lost \subseteq {"release", "log"}, NEW d \in Day
             PROVE  Committed(d) = Total({c \in Call : status[c] # "none" /\ rday[c] = d}, bill)
  BY DEF CountedOnce
<1> DEFINE S == {c \in Call : status[c] = "settled" /\ rday[c] = d}
           T == {c \in Call : status[c] # "none" /\ rday[c] = d}
           over == [p \in Pair |-> Unreserved(p, d)]
<1>1. TypeOK
  BY DEF BillInv, IInv
<1>2. ASSUME NEW p \in Pair PROVE over[p] = 0
  <2>1. logged[p][d] + telemetry[p] <= SettledOf(p)
    BY DEF CountInv, LoggedIsSettled
  <2>2. logged[p][d] \in Nat /\ telemetry[p] \in Nat /\ SettledOf(p) \in Nat
    BY <1>1, SettledOfIsNat DEF TypeOK
  <2> QED
    BY <2>1, <2>2 DEF Unreserved
<1>3. Total(Pair, over) = 0
  <2>1. IsFiniteSet(Pair) /\ Cardinality(Pair) \in Nat
    BY BudgetAssumption, FS_CardinalityType
  <2> HIDE DEF over
  <2>2. Total(Pair, over) = 0 * Cardinality(Pair)
    BY <1>2, <2>1, TotalOfEqual
  <2> QED
    BY <2>1, <2>2
<1>4. /\ IsFiniteSet(S) /\ IsFiniteSet(T)
      /\ \A c \in S : settled[c] \in Nat
      /\ \A c \in T : bill[c] \in Nat
  BY <1>1, CallsAreFinite DEF TypeOK
<1>5. \A c \in S : c \in T /\ settled[c] = bill[c]
  BY DEF BillInv, ClosedAtItsBill
<1>6. \A c \in T : bill[c] = 0 \/ (c \in S /\ settled[c] = bill[c])
  BY DEF BillInv, ClosedAtItsBill, CountInv, Excused
<1>7. Committed(d) = Total(S, settled) + Total(Pair, over)
  BY DEF Committed
<1> HIDE DEF S, T, over
<1>8. Total(S, settled) = Total(T, bill)
  BY <1>4, <1>5, <1>6, TotalSame
<1>9. Total(T, bill) \in Nat
  BY <1>4, UnitsAreFinite
<1> QED
  BY <1>3, <1>7, <1>8, <1>9 DEF T

\* budgets.py: every dollar is counted once, on the day its call was admitted:
\* for any number of processors, calls and days, whenever no call is under way
\* and no settlement was lost, the committed spend of a day is what its calls
\* cost.
THEOREM DollarsCountOnce == Spec => []CountedOnce
<1>1. Init => BillInv /\ CountInv
  BY BillInitially, CountInitially
<1>2. BillInv /\ CountInv /\ [Next]_vars => (BillInv /\ CountInv)'
  BY BillStep, CountStep
<1> QED
  BY <1>1, <1>2, CountingHolds, PTL DEF Spec

-----------------------------------------------------------------------------
(* The cap *)

LEMMA HeldTypes ==
  ASSUME TypeOK, NEW d
  PROVE  IsFiniteSet(Held(d)) /\ (\A c \in Call : Weight[c] \in Nat) /\ Total(Held(d), Weight) \in Nat
<1>1. IsFiniteSet(Held(d)) /\ Held(d) \subseteq Call
  BY CallsAreFinite DEF Held
<1>2. \A c \in Call : Weight[c] \in Nat
  BY BudgetAssumption DEF TypeOK, Weight, Within
<1> QED
  BY <1>1, <1>2, UnitsAreFinite

LEMMA CapInitially == Init => CapInv
<1> SUFFICES ASSUME Init PROVE CapInv
  OBVIOUS
<1>1. \A c \in Call : status[c] = "expired" => c \in lapsed
  BY DEF Init
<1>2. ASSUME NEW d \in Day PROVE Total(Held(d), Weight) <= Cap
  <2>1. Held(d) = {}
    BY DEF Init, Held
  <2>2. Total({}, Weight) = 0 * Cardinality({}) /\ Cardinality({}) = 0
    BY FS_EmptySet, TotalOfEqual
  <2> QED
    BY <2>1, <2>2, BudgetAssumption
<1> QED
  BY <1>1, <1>2 DEF CapInv

\* What is held for a day is at most what admission counts for it.
LEMMA HeldIsCounted ==
  ASSUME TypeOK, NEW d \in Day
  PROVE  Total(Held(d), Weight) <= Committed(d) + Reserved(d) /\ Committed(d) \in Nat /\ Reserved(d) \in Nat
<1> DEFINE A == {c \in Call \ lapsed : status[c] = "active" /\ rday[c] = d}
           S == {c \in Call \ lapsed : status[c] = "settled" /\ rday[c] = d}
           T == {c \in Call : status[c] = "settled" /\ rday[c] = d}
           over == [p \in Pair |-> Unreserved(p, d)]
<1>1. Held(d) = A \cup S /\ A \cap S = {} /\ S \subseteq T
  BY DEF Held
<1>2. /\ IsFiniteSet(A) /\ IsFiniteSet(S) /\ IsFiniteSet(T)
      /\ A \subseteq Call /\ S \subseteq Call /\ T \subseteq Call
  BY CallsAreFinite
<1>3. (\A c \in A : Weight[c] = Estimate) /\ (\A c \in S : Weight[c] <= settled[c])
  BY BudgetAssumption DEF Weight, Within, TypeOK
<1>4. (\A c \in Call : Weight[c] \in Nat) /\ (\A c \in T : settled[c] \in Nat)
  BY HeldTypes DEF TypeOK
<1>5. Committed(d) = Total(T, settled) + Total(Pair, over) /\ Reserved(d) = Estimate * Cardinality(A)
  BY DEF Committed, Reserved
<1>6. \A p \in Pair : over[p] \in Nat
  <2> SUFFICES ASSUME NEW p \in Pair PROVE Unreserved(p, d) \in Nat
    OBVIOUS
  <2>1. logged[p][d] \in Nat /\ SettledOf(p) \in Nat
    BY SettledOfIsNat DEF TypeOK
  <2> QED
    BY <2>1 DEF Unreserved
<1> HIDE DEF A, S, T, over
<1>7. Total(Pair, over) \in Nat /\ Total(T, settled) \in Nat /\ Total(S, Weight) \in Nat /\ Total(A, Weight) \in Nat
  BY <1>2, <1>4, <1>6, UnitsAreFinite, BudgetAssumption
<1>8. Total(A, Weight) = Estimate * Cardinality(A)
  BY <1>2, <1>3, TotalOfEqual, BudgetAssumption
<1>9. Total(S, Weight) <= Total(T, settled)
  <2>1. \A c \in S : c \in T /\ Weight[c] <= settled[c] /\ Weight[c] \in Nat
    BY <1>1, <1>2, <1>3, <1>4
  <2> QED
    BY <1>2, <1>4, <2>1, TotalGrows
<1>10. Total(A \cup S, Weight) = Total(A, Weight) + Total(S, Weight)
  BY <1>1, <1>2, <1>4, TotalOfUnion
<1> QED
  BY <1>1, <1>5, <1>7, <1>8, <1>9, <1>10

\* A step that admits nothing holds no more than before.
LEMMA NothingAdmitted ==
  ASSUME TypeOK, TypeOK', CapInv, NEW d \in Day,
         \A c \in Held(d)' : c \in Held(d) /\ Weight'[c] <= Weight[c]
  PROVE  Total(Held(d), Weight)' <= Cap
<1>1. IsFiniteSet(Held(d)) /\ (\A c \in Held(d) : Weight[c] \in Nat) /\ Total(Held(d), Weight) \in Nat
  BY HeldTypes DEF Held
<1>2. IsFiniteSet(Held(d)') /\ (\A c \in Held(d)' : Weight'[c] \in Nat) /\ Total(Held(d)', Weight') \in Nat
  BY CallsAreFinite, UnitsAreFinite, BudgetAssumption DEF Held, Weight, Within, TypeOK
<1>3. Total(Held(d)', Weight') <= Total(Held(d), Weight)
  BY <1>1, <1>2, TotalGrows
<1> QED
  BY <1>1, <1>2, <1>3, BudgetAssumption DEF CapInv

\* An admitted call adds its estimate to what is held for the day.
LEMMA ReserveKeepsCap ==
  ASSUME BillInv, CapInv, TypeOK', NEW p \in Pair, Reserve(p)
  PROVE  CapInv'
<1> DEFINE call == <<p, made[p] + 1>>
<1>1. TypeOK /\ made[p] \in 0..MaxCalls /\ made[p] < MaxCalls /\ day \in Day
  BY DEF BillInv, IInv, TypeOK, Reserve
<1>2. call \in Call /\ made[p] + 1 \in 1..MaxCalls
  BY <1>1, BudgetAssumption DEF Call
<1>3. status[call] = "none"
  BY <1>1, <1>2 DEF BillInv, IInv, FreshCalls
<1>4. /\ status' = [Swept EXCEPT ![call] = "active"] /\ rday' = [rday EXCEPT ![call] = day]
      /\ UNCHANGED <<settled, lapsed, bill>> /\ Admits(day)
  BY DEF Reserve
<1> HIDE DEF call
<1>5. /\ status'[call] = "active" /\ rday'[call] = day
      /\ \A c \in Call \ {call} : status'[c] = Swept[c] /\ rday'[c] = rday[c]
  BY <1>1, <1>2, <1>4, SweepExpires DEF TypeOK
<1>6. \A c \in Call : status'[c] = "expired" => c \in lapsed'
  BY <1>1, <1>4, <1>5 DEF CapInv, Swept
<1>7. \A c \in Call \ {call} : status'[c] \in {"active", "settled"} => status'[c] = status[c]
  BY <1>1, <1>5, SweepExpires
<1>8. ASSUME NEW d \in Day, NEW c \in Held(d)', c # call
      PROVE  c \in Held(d) /\ Weight'[c] = Weight[c] /\ Weight[c] \in Nat
  <2>1. c \in Call /\ c \notin lapsed /\ status'[c] \in {"active", "settled"} /\ rday'[c] = d
    BY <1>4, <1>8 DEF Held
  <2>2. status'[c] = status[c] /\ rday[c] = d
    BY <1>5, <1>7, <1>8, <2>1
  <2>3. Weight'[c] = Weight[c]
    BY <1>4, <2>1, <2>2 DEF Weight
  <2> QED
    BY <1>1, <2>1, <2>2, <2>3, HeldTypes DEF Held
<1>9. ASSUME NEW d \in Day, d # day PROVE Total(Held(d), Weight)' <= Cap
  <2>1. call \notin Held(d)'
    BY <1>5, <1>9 DEF Held
  <2>2. \A c \in Held(d)' : c \in Held(d) /\ Weight'[c] <= Weight[c]
    BY <1>8, <2>1
  <2> QED
    BY <1>1, <2>2, NothingAdmitted
<1>10. ASSUME NEW d \in Day, d = day PROVE Total(Held(d), Weight)' <= Cap
  <2> DEFINE more == [Weight EXCEPT ![call] = Estimate]
  <2>1. call \notin Held(d) /\ Estimate \in Nat
    BY <1>3, BudgetAssumption DEF Held
  <2>2. IsFiniteSet(Held(d)) /\ (\A c \in Held(d) : Weight[c] \in Nat) /\ Total(Held(d), Weight) \in Nat
    BY <1>1, HeldTypes DEF Held
  <2>3. more[call] = Estimate /\ \A c \in Call \ {call} : more[c] = Weight[c]
    BY <1>2 DEF Weight
  <2>4. Held(d) \subseteq Call \ {call}
    BY <2>1 DEF Held
  <2> HIDE DEF more
  <2>5. \A c \in Held(d) \cup {call} : more[c] \in Nat
    BY <2>1, <2>2, <2>3, <2>4
  <2>6. Total(Held(d) \cup {call}, more) = Total(Held(d), more) + more[call]
    BY <2>1, <2>2, <2>5, TotalOfOneMore
  <2>7. Total(Held(d), more) = Total(Held(d), Weight)
    BY <2>2, <2>3, <2>4, TotalSame
  <2>8. IsFiniteSet(Held(d) \cup {call}) /\ IsFiniteSet(Held(d)')
    <3>1. IsFiniteSet(Held(d) \cup {call})
      BY <2>2, FS_AddElement
    <3>2. Held(d)' \in SUBSET Call
      BY DEF Held
    <3> QED
      BY <3>1, <3>2, CallsAreFinite
  <2>9. Weight'[call] = Estimate
    BY <1>2, <1>5 DEF Weight
  <2>10. \A c \in Held(d)' : c \in Held(d) \cup {call} /\ Weight'[c] \in Nat /\ Weight'[c] <= more[c]
    <3> SUFFICES ASSUME NEW c \in Held(d)'
                 PROVE  c \in Held(d) \cup {call} /\ Weight'[c] \in Nat /\ Weight'[c] <= more[c]
      OBVIOUS
    <3>1. CASE c = call
      BY <2>1, <2>3, <2>9, <3>1
    <3>2. CASE c # call
      BY <1>8, <2>3, <2>4, <3>2
    <3> QED
      BY <3>1, <3>2
  <2>11. Total(Held(d)', Weight') <= Total(Held(d) \cup {call}, more)
    BY <2>5, <2>8, <2>10, TotalGrows
  <2>12. Total(Held(d)', Weight') \in Nat
    BY <2>8, <2>10, UnitsAreFinite
  <2>13. /\ Committed(d) \in Nat /\ Reserved(d) \in Nat
         /\ Total(Held(d), Weight) <= Committed(d) + Reserved(d)
         /\ Committed(d) + Reserved(d) + Estimate <= Cap
    BY <1>1, <1>4, <1>10, HeldIsCounted DEF Admits
  <2> QED
    BY <2>1, <2>2, <2>3, <2>6, <2>7, <2>11, <2>12, <2>13, BudgetAssumption
<1> QED
  BY <1>6, <1>9, <1>10 DEF CapInv

\* Settling below the estimate frees what was held above the charge.
LEMMA ReturnKeepsCap ==
  ASSUME BillInv, CapInv, TypeOK', NEW p \in Pair, Settle(p) \/ Retain(p) \/ Release(p)
  PROVE  CapInv'
<1> DEFINE call == Latest(p)
<1>1. TypeOK /\ call \in Call /\ bill' = bill /\ status[call] \in {"active", "expired"}
  BY ReturnEffect DEF BillInv, IInv, FlightIsOpen
<1>2. \/ UNCHANGED <<status, rday, settled, lapsed>>
      \/ Close(call, "settled", bill[call])
      \/ Close(call, "released", 0)
  BY ReturnEffect
<1> HIDE DEF call
<1>3. /\ \A c \in Call \ {call} : status'[c] = status[c] /\ settled'[c] = settled[c]
      /\ UNCHANGED <<rday, lapsed>>
      /\ \/ status'[call] = status[call]
         \/ status'[call] = "settled" /\ settled'[call] = bill[call]
         \/ status'[call] = "released"
  BY <1>1, <1>2 DEF Close, TypeOK
<1>4. \A c \in Call : status'[c] = "expired" => c \in lapsed'
  BY <1>1, <1>3 DEF CapInv
<1>5. ASSUME NEW d \in Day, NEW c \in Held(d)' PROVE c \in Held(d) /\ Weight'[c] <= Weight[c]
  <2>1. /\ c \in Call /\ c \notin lapsed /\ status'[c] \in {"active", "settled"} /\ rday[c] = d
        /\ Weight[c] \in Nat
    BY <1>1, <1>3, HeldTypes DEF Held
  <2>2. CASE c # call
    <3>1. status'[c] = status[c] /\ settled'[c] = settled[c] /\ lapsed' = lapsed
      BY <1>3, <2>1, <2>2
    <3>2. c \in Held(d) /\ Weight'[c] = Weight[c]
      BY <2>1, <3>1 DEF Held, Weight
    <3> QED
      BY <2>1, <3>2
  <2>3. CASE c = call
    <3>1. status[c] = "active"
      BY <1>1, <2>1, <2>3 DEF CapInv
    <3>2. Weight[c] = Estimate
      BY <2>1, <3>1 DEF Weight
    <3>3. status'[c] = "active" \/ (status'[c] = "settled" /\ settled'[c] = bill[c])
      BY <1>3, <2>1, <2>3, <3>1
    <3>4. Weight'[c] = Estimate \/ Weight'[c] = Within(bill[c])
      BY <2>1, <3>3 DEF Weight
    <3>5. Within(bill[c]) <= Estimate /\ Estimate \in Nat /\ Within(bill[c]) \in Nat
      BY <1>1, <2>1, BudgetAssumption DEF TypeOK, Within
    <3> QED
      BY <2>1, <3>1, <3>2, <3>4, <3>5 DEF Held
  <2> QED
    BY <2>2, <2>3
<1> QED
  BY <1>1, <1>4, <1>5, NothingAdmitted DEF CapInv

\* Every other step leaves the reservations alone, but for their TTL.
LEMMA OthersKeepCap ==
  ASSUME BillInv, CapInv, TypeOK', UNCHANGED <<status, rday, settled>>, lapsed \subseteq lapsed'
  PROVE  CapInv'
<1>1. TypeOK
  BY DEF BillInv, IInv
<1>2. ASSUME NEW d \in Day, NEW c \in Held(d)' PROVE c \in Held(d) /\ Weight'[c] <= Weight[c]
  <2>1. Weight[c] \in Nat /\ c \in Held(d) /\ Weight'[c] = Weight[c]
    BY <1>1, <1>2, HeldTypes DEF Held, Weight
  <2> QED
    BY <2>1
<1>3. \A c \in Call : status'[c] = "expired" => c \in lapsed'
  BY DEF CapInv
<1> QED
  BY <1>1, <1>2, <1>3, NothingAdmitted DEF CapInv

LEMMA CapStep ==
  ASSUME BillInv, CapInv, [Next]_vars
  PROVE  CapInv'
<1>1. TypeOK /\ TypeOK'
  BY Step DEF BillInv, IInv
<1>2. ASSUME NEW p \in Pair, Begin(p) \/ Deny(p) \/ End(p) \/ Answer(p) \/ Crash(p)
      PROVE  CapInv'
  <2>1. UNCHANGED <<status, rday, settled, lapsed>>
    BY <1>2 DEF Begin, Deny, End, Answer, Crash, Lost, ledgerVars
  <2> QED
    BY <1>1, <2>1, OthersKeepCap
<1>3. CASE Midnight \/ (\E c \in Call : Lapse(c)) \/ UNCHANGED vars
  <2>1. UNCHANGED <<status, rday, settled>> /\ lapsed \subseteq lapsed'
    BY <1>3 DEF Midnight, Lapse, vars, ledgerVars
  <2> QED
    BY <1>1, <2>1, OthersKeepCap
<1> QED
  BY <1>1, <1>2, <1>3, ReserveKeepsCap, ReturnKeepsCap DEF Next

LEMMA CapHolds == BillInv /\ CapInv => HardCap
<1> DEFINE within == [c \in Call |-> Within(bill[c])]
<1> SUFFICES ASSUME BillInv, CapInv, NEW d \in Day
             PROVE  LET charged == {c \in Call \ lapsed : status[c] # "none" /\ rday[c] = d}
                    IN  Total(charged, bill) <= Cap + Total(charged, Overrun)
  BY DEF HardCap
<1> DEFINE S == {c \in Call \ lapsed : status[c] # "none" /\ rday[c] = d}
<1>1. TypeOK /\ Cap \in Nat /\ Estimate \in Nat
  BY BudgetAssumption DEF BillInv, IInv
<1>2. /\ IsFiniteSet(S) /\ \A c \in S : c \in Call
      /\ \A c \in S : bill[c] \in Nat /\ within[c] \in Nat /\ Overrun[c] \in Nat
      /\ \A c \in S : bill[c] = within[c] + Overrun[c]
  BY <1>1, CallsAreFinite DEF TypeOK, Within, Overrun
<1>3. /\ IsFiniteSet(Held(d)) /\ (\A c \in Held(d) : Weight[c] \in Nat)
      /\ Total(Held(d), Weight) \in Nat /\ Total(Held(d), Weight) <= Cap
  BY <1>1, HeldTypes DEF Held, CapInv
<1>4. ASSUME NEW c \in S PROVE within[c] = 0 \/ (c \in Held(d) /\ within[c] <= Weight[c])
  <2>1. /\ c \in Call /\ c \notin lapsed /\ rday[c] = d
        /\ status[c] \in {"active", "settled", "released"}
    BY <1>1, <1>4 DEF CapInv, TypeOK
  <2>2. ClosedAtItsBill(c) /\ bill[c] \in Nat
    BY <1>1, <2>1 DEF BillInv, TypeOK
  <2> QED
    BY <1>1, <2>1, <2>2 DEF ClosedAtItsBill, Held, Weight, Within
<1> HIDE DEF S, within
<1>5. Total(S, within) <= Total(Held(d), Weight)
  BY <1>2, <1>3, <1>4, TotalGrows
<1>6. Total(S, bill) <= Total(S, within) + Total(S, Overrun)
  BY <1>2, TotalOfParts
<1>7. /\ Total(S, bill) \in Nat /\ Total(S, within) \in Nat /\ Total(S, Overrun) \in Nat
  BY <1>2, UnitsAreFinite
<1>8. Total(S, bill) <= Cap + Total(S, Overrun)
  BY <1>1, <1>3, <1>5, <1>6, <1>7
<1> QED
  BY <1>8 DEF S

\* operations.md: the daily budget is a hard cap: for any number of processors,
\* calls and days, and whatever a call is charged, the charges for a day's calls
\* whose permits did not run out exceed it by no more than they exceed the
\* estimates the calls were admitted at.
THEOREM CapIsHard == Spec => []HardCap
<1>1. Init => BillInv /\ CapInv
  BY BillInitially, CapInitially
<1>2. BillInv /\ CapInv /\ [Next]_vars => (BillInv /\ CapInv)'
  BY BillStep, CapStep
<1> QED
  BY <1>1, <1>2, CapHolds, PTL DEF Spec

-----------------------------------------------------------------------------
Spending == spent["generation"] + spent["falsification"]

\* The charges of the attempts that ended stay below their ceilings; those of
\* the attempt that is running are in its ledgers, none above its own ceiling.
MoneyInv ==
  /\ tries \in Nat /\ spent \in [Ledger -> Nat] /\ paid \in Nat
  /\ stage # "idle" => deskJob = "running" /\ tries >= 1
  /\ \A l \in Ledger : spent[l] <= Ceiling(l)
  /\ IF stage = "idle" THEN paid <= tries * AttemptCeiling
                       ELSE paid <= (tries - 1) * AttemptCeiling + Spending

-----------------------------------------------------------------------------
LEMMA CeilingIsNat == AttemptCeiling \in Nat /\ \A l \in Ledger : Ceiling(l) \in Nat
<1>1. \A l \in Ledger : Ceiling(l) \in Nat BY DeskAssumption DEF Ceiling
<1> QED BY <1>1 DEF AttemptCeiling, Ledger

\* One attempt more may cost one ceiling more.
LEMMA OneAttemptMore ==
  ASSUME NEW n \in Nat, n >= 1, NEW c \in Nat
  PROVE  (n - 1) * c + c = n * c
<1> DEFINE m == n - 1
<1>1. m \in Nat /\ n = m + 1 OBVIOUS
<1> HIDE DEF m
<1>2. (m + 1) * c = m * c + c BY <1>1
<1> QED BY <1>1, <1>2 DEF m

LEMMA MoneyInitInv == DeskInit => MoneyInv
BY DeskAssumption, CeilingIsNat DEF DeskInit, MoneyInv

\* An answer that is charged, or a call that is refused, keeps the ledger
\* below its ceiling and the bill equal to the ledgers.
LEMMA CallKeepsMoney ==
  ASSUME MoneyInv, NEW l \in Ledger, stage # "idle",
         \/ UNCHANGED <<spent, paid>>
         \/ \E price \in Price : Pay(l, price),
         UNCHANGED <<deskJob, tries>>, stage' # "idle"
  PROVE  MoneyInv'
<1>1. CASE UNCHANGED <<spent, paid>>
  BY <1>1 DEF MoneyInv, Spending, Ceiling, AttemptCeiling
<1>2. ASSUME NEW price \in Price, Pay(l, price) PROVE MoneyInv'
  <2>1. /\ price \in Nat /\ price <= MaxPrice
        /\ spent \in [Ledger -> Nat] /\ paid \in Nat /\ tries \in Nat /\ tries >= 1
        /\ paid <= (tries - 1) * AttemptCeiling + Spending
    BY <1>2, DeskAssumption DEF MoneyInv
  <2>2. /\ spent' \in [Ledger -> Nat] /\ paid' \in Nat /\ paid' = paid + price
        /\ spent'[l] = spent[l] + price
        /\ \A m \in Ledger \ {l} : spent'[m] = spent[m]
    BY <1>2, <2>1 DEF Pay
  <2>3. Spending' = Spending + price
    BY <2>1, <2>2 DEF Spending, Ledger
  <2>4. \A m \in Ledger : spent'[m] <= Ceiling(m)
    <3>1. spent[l] < Share[l] BY <1>2 DEF Pay, MayCall
    <3>2. spent'[l] <= Ceiling(l)
      BY <2>1, <2>2, <3>1, DeskAssumption DEF Ceiling
    <3> QED BY <2>2, <3>2 DEF MoneyInv
  <2>5. (tries - 1) * AttemptCeiling \in Int
    BY <2>1, CeilingIsNat
  <2>6. Spending \in Int BY <2>1 DEF Spending, Ledger
  <2>7. paid' <= (tries - 1) * AttemptCeiling + Spending'
    BY <2>1, <2>2, <2>3, <2>5, <2>6
  <2> QED BY <2>1, <2>2, <2>4, <2>7 DEF MoneyInv, Ceiling, AttemptCeiling
<1> QED BY <1>1, <1>2

\* Whatever ends an attempt: its charges fit under one ceiling more.
LEMMA EndKeepsMoney ==
  ASSUME MoneyInv, stage # "idle", stage' = "idle", Blank, UNCHANGED <<tries, paid>>
  PROVE  MoneyInv'
<1>1. /\ tries \in Nat /\ tries >= 1 /\ paid \in Nat /\ spent \in [Ledger -> Nat]
      /\ paid <= (tries - 1) * AttemptCeiling + Spending
  BY DEF MoneyInv
<1>2. Spending <= AttemptCeiling
  BY <1>1, CeilingIsNat DEF MoneyInv, Spending, AttemptCeiling, Ledger
<1>3. paid <= tries * AttemptCeiling
  <2>1. (tries - 1) * AttemptCeiling \in Int /\ Spending \in Int
    BY <1>1, CeilingIsNat DEF Spending, Ledger
  <2>2. paid <= (tries - 1) * AttemptCeiling + AttemptCeiling
    BY <1>1, <1>2, <2>1, CeilingIsNat
  <2> QED BY <2>2, <1>1, CeilingIsNat, OneAttemptMore
<1>4. /\ spent' \in [Ledger -> Nat]
      /\ \A l \in Ledger : spent'[l] <= Ceiling(l)
  BY CeilingIsNat DEF Blank
<1> QED BY <1>1, <1>3, <1>4 DEF MoneyInv, Ceiling, AttemptCeiling

LEMMA MoneyStepInv == MoneyInv /\ [DeskNext]_deskVars => MoneyInv'
<1> SUFFICES ASSUME MoneyInv, [DeskNext]_deskVars PROVE MoneyInv'
  OBVIOUS
<1> USE DEF MoneyInv
<1>1. CASE ClaimDesk
  <2>1. stage = "idle" /\ stage' # "idle" BY <1>1 DEF ClaimDesk
  <2>2. /\ tries' = tries + 1 /\ tries' - 1 = tries /\ paid' = paid
        /\ spent' = [l \in Ledger |-> 0] /\ deskJob' = "running"
    BY <1>1 DEF ClaimDesk, Blank
  <2>3. Spending' = 0 BY <2>2 DEF Spending, Ledger
  <2>4. tries * AttemptCeiling \in Int BY CeilingIsNat
  <2>5. paid' <= (tries' - 1) * AttemptCeiling + Spending'
    BY <2>1, <2>2, <2>3, <2>4
  <2>6. tries' \in Nat /\ tries' >= 1 /\ spent' \in [Ledger -> Nat]
    BY <2>2
  <2>7. \A l \in Ledger : spent'[l] <= Ceiling(l) BY <2>2, CeilingIsNat
  <2> QED BY <2>1, <2>2, <2>5, <2>6, <2>7 DEF Ceiling, AttemptCeiling
<1>2. CASE Collect \/ Compact \/ Rank \/ Unchallenged \/ ChallengeStumbles \/ Promotion \/ Promote
  <2>1. /\ UNCHANGED <<deskJob, tries, spent, paid>>
        /\ stage # "idle" /\ stage' # "idle"
    <3>1. CASE Collect \/ Promote BY <3>1 DEF Collect, Promote, jobOfDesk, moneyVars
    <3>2. CASE Compact BY <3>2 DEF Compact, jobOfDesk, moneyVars
    <3>3. CASE Rank BY <3>3 DEF Rank, jobOfDesk, moneyVars
    <3>4. CASE Unchallenged \/ ChallengeStumbles \/ Promotion
      BY <3>4 DEF Unchallenged, ChallengeStumbles, ToChallenge, Promotion, NextOfStage, jobOfDesk,
                  moneyVars
    <3> QED BY <1>2, <3>1, <3>2, <3>3, <3>4
  <2> QED BY <2>1 DEF Spending, Ceiling, AttemptCeiling
<1>3. CASE AskAgain
  <2>1. stage \in {"roles", "audit", "challenge"}
    BY <1>3 DEF AskAgain, Asking, ToChallenge
  <2>3. LedgerOf[stage] \in Ledger /\ stage # "idle"
    BY <2>1 DEF LedgerOf, Ledger
  <2>2. /\ UNCHANGED <<deskJob, tries>> /\ stage' # "idle"
        /\ \/ UNCHANGED <<spent, paid>>
           \/ \E price \in Price : Pay(LedgerOf[stage], price)
    BY <1>3, <2>3 DEF AskAgain, Heard, BilledOnly, jobOfDesk
  <2> QED BY <2>3, <2>2, CallKeepsMoney
<1>4. CASE RoleAnswers \/ AuditAnswers \/ RoleFails \/ AuditFails
  <2>1. /\ UNCHANGED <<deskJob, tries>> /\ stage # "idle" /\ stage' # "idle"
        /\ \/ UNCHANGED <<spent, paid>>
           \/ \E price \in Price : Pay("generation", price)
    BY <1>4 DEF RoleAnswers, AuditAnswers, RoleFails, AuditFails, Answered, Refused, Heard,
                Raises, BilledOnly, NextOfStage, jobOfDesk, moneyVars
  <2> QED BY <2>1, CallKeepsMoney DEF Ledger
<1>5. CASE ChallengeAnswered \/ ChallengeFails
  <2>1. /\ UNCHANGED <<deskJob, tries>> /\ stage # "idle" /\ stage' # "idle"
        /\ \/ UNCHANGED <<spent, paid>>
           \/ \E price \in Price : Pay("falsification", price)
    BY <1>5 DEF ChallengeAnswered, ChallengeFails, ToChallenge, Answered, Refused, Heard,
                Raises, BilledOnly, NextOfStage, jobOfDesk, moneyVars
  <2> QED BY <2>1, CallKeepsMoney DEF Ledger
<1>6. CASE FinishDesk \/ DeskCrash
  <2>1. stage # "idle" /\ stage' = "idle" /\ Blank /\ UNCHANGED <<tries, paid>>
    BY <1>6 DEF FinishDesk, DeskCrash
  <2> QED BY <2>1, EndKeepsMoney
<1>7. CASE DeskReclaimed
  BY <1>7 DEF DeskReclaimed, moneyVars, Spending, Ceiling, AttemptCeiling
<1>8. CASE UNCHANGED deskVars
  BY <1>8 DEF deskVars, jobOfDesk, moneyVars, Spending, Ceiling, AttemptCeiling
<1> QED BY <1>1, <1>2, <1>3, <1>4, <1>5, <1>6, <1>7, <1>8 DEF DeskNext

-----------------------------------------------------------------------------
Audited(d) ==
  \E answer \in audits :
     ~answer.flawed /\ d \in DOMAIN answer.verdict /\ answer.verdict[d] = "entailed"

\* What is left of the candidates at each stage, and what they have passed.
EarnedInv ==
  /\ IsFiniteSet(drafts)
  /\ stage \in {"idle", "collect"} => drafts = {}
  /\ \A d \in drafts : d.refs \subseteq catalog
  /\ survivors \subseteq drafts
  /\ \A d \in survivors : Audited(d)
  /\ stage = "audit" => todo \in Seq(SUBSET drafts)
  /\ stage \in {"challenge", "promote"} => todo \in Seq(survivors) /\ ranked \in Seq(survivors)
  /\ passed \subseteq survivors
  /\ \A d \in accepted : d \in passed /\ Opposed(d)

\* A sequence of a finite set is one of its elements.
LEMMA SetToSeqsType ==
  ASSUME NEW S, IsFiniteSet(S), NEW s \in SetToSeqs(S)
  PROVE  s \in Seq(S) /\ Len(s) \in Nat /\ \A i \in 1..Len(s) : s[i] \in S
<1>1. Cardinality(S) \in Nat BY FS_CardinalityType
<1>2. s \in [1..Cardinality(S) -> S] BY DEF SetToSeqs
<1> QED BY <1>1, <1>2

LEMMA MinOfTwo ==
  ASSUME NEW a \in Nat, NEW b \in Nat
  PROVE  /\ Min({a, b}) \in Nat /\ Min({a, b}) <= a /\ Min({a, b}) <= b
BY DEF Min

LEMMA BatchesType ==
  ASSUME IsFiniteSet(drafts), NEW kept \in SUBSET drafts, NEW s \in SetToSeqs(kept)
  PROVE  Batches(s) \in Seq(SUBSET drafts)
<1>1. IsFiniteSet(kept) BY FS_Subset
<1>2. Len(s) \in Nat /\ \A i \in 1..Len(s) : s[i] \in drafts BY <1>1, SetToSeqsType
<1> DEFINE count == (Len(s) + MaxBatch - 1) \div MaxBatch
<1>3. MaxBatch \in Nat /\ MaxBatch > 0 BY DeskAssumption
<1>4. count \in Nat
  <2>1. Len(s) + MaxBatch - 1 \in Nat BY <1>2, <1>3
  <2> QED BY <2>1, <1>3
<1>5. ASSUME NEW n \in 1..count
      PROVE  ToSet(SubSeq(s, (n - 1) * MaxBatch + 1, Min({n * MaxBatch, Len(s)}))) \subseteq drafts
  <2> DEFINE first == (n - 1) * MaxBatch + 1
             last == Min({n * MaxBatch, Len(s)})
  <2>1. n \in Nat /\ n - 1 \in Nat BY <1>4
  <2>2. (n - 1) * MaxBatch \in Nat /\ n * MaxBatch \in Nat BY <2>1, <1>3
  <2>3. first \in Int /\ first >= 1 BY <2>2
  <2>4. last \in Int /\ last <= Len(s) BY <2>2, <1>2, MinOfTwo
  <2> HIDE DEF first, last
  <2>5. \A i \in first..last : s[i] \in drafts BY <2>3, <2>4, <1>2
  <2>6. SubSeq(s, first, last) \in Seq(drafts) BY <2>3, <2>4, <2>5, SubSeqProperties
  <2>7. ToSet(SubSeq(s, first, last)) \subseteq drafts BY <2>6 DEF ToSet
  <2> QED BY <2>7 DEF first, last
<1> HIDE DEF count
<1>6. Batches(s) \in [1..count -> SUBSET drafts] BY <1>5 DEF Batches, count
<1> QED BY <1>4, <1>6

LEMMA EarnedInitInv == DeskInit => EarnedInv
BY FS_EmptySet DEF DeskInit, EarnedInv

\* What is left of a stage is what it was to do.
LEMMA TailType ==
  ASSUME NEW S, todo \in Seq(S), todo # <<>>
  PROVE  Head(todo) \in S /\ Tail(todo) \in Seq(S)
BY HeadTailProperties

LEMMA EarnedStepInv == EarnedInv /\ [DeskNext]_deskVars => EarnedInv'
<1> SUFFICES ASSUME EarnedInv, [DeskNext]_deskVars PROVE EarnedInv'
  OBVIOUS
<1> USE DEF EarnedInv, Audited, Opposed
<1>1. CASE ClaimDesk \/ FinishDesk \/ DeskCrash
  BY <1>1, FS_EmptySet DEF ClaimDesk, FinishDesk, DeskCrash, Blank
<1>2. CASE Collect
  BY <1>2 DEF Collect
<1>3. CASE AskAgain
  BY <1>3 DEF AskAgain, workVars
<1>4. CASE RoleAnswers
  <2> PICK output \in Answers :
        \E taken \in kSubset(Min({Cardinality(output), MaxPerRole}), output) :
          drafts' = drafts \cup {d \in taken : Grounded(d)}
    BY <1>4 DEF RoleAnswers
  <2> PICK taken \in SUBSET output : drafts' = drafts \cup {d \in taken : Grounded(d)}
    BY DEF kSubset
  <2>1. IsFiniteSet(drafts')
    <3>1. IsFiniteSet(output) BY DeskAssumption
    <3>2. {d \in taken : Grounded(d)} \in SUBSET output OBVIOUS
    <3>3. IsFiniteSet({d \in taken : Grounded(d)}) BY <3>1, <3>2, FS_Subset
    <3> QED BY <3>3, FS_Union
  <2>2. /\ stage = "roles" /\ stage' = stage
        /\ UNCHANGED <<catalog, audits, survivors, ranked, passed, accepted>>
    BY <1>4 DEF RoleAnswers, NextOfStage
  <2>3. \A d \in drafts' : d.refs \subseteq catalog' BY <2>2 DEF Grounded
  <2> QED BY <2>1, <2>2, <2>3
<1>5. CASE RoleFails \/ DeskReclaimed
  BY <1>5 DEF RoleFails, DeskReclaimed, NextOfStage, workVars
<1>6. CASE Compact
  <2>1. todo' \in Seq(SUBSET drafts)
    <3> PICK kept \in Representatives : \E s \in SetToSeqs(kept) : todo' = Batches(s)
      BY <1>6 DEF Compact
    <3> QED BY BatchesType DEF Representatives
  <2> QED BY <1>6, <2>1 DEF Compact, workVars
<1>7. CASE AuditAnswers
  <2>1. stage = "audit" /\ todo # <<>> BY <1>7 DEF AuditAnswers
  <2>2. Head(todo) \subseteq drafts /\ Tail(todo) \in Seq(SUBSET drafts)
    BY <2>1, TailType
  <2> PICK answer \in [verdict : [Head(todo) -> Verdict], flawed : BOOLEAN] :
        audits' = audits \cup {answer} /\ survivors' = survivors \cup Entailed(answer)
    BY <1>7 DEF AuditAnswers
  <2>3. Entailed(answer) \subseteq drafts BY <2>2 DEF Entailed
  <2>4. \A d \in survivors' : Audited(d)' BY DEF Entailed
  <2>5. /\ stage' = stage /\ todo' = Tail(todo)
        /\ UNCHANGED <<catalog, drafts, ranked, passed, accepted>>
    BY <1>7 DEF AuditAnswers, NextOfStage
  <2> QED BY <2>1, <2>2, <2>3, <2>4, <2>5
<1>8. CASE AuditFails
  <2>1. stage = "audit" /\ todo # <<>> BY <1>8 DEF AuditFails
  <2>2. Tail(todo) \in Seq(SUBSET drafts) BY <2>1, TailType
  <2> QED BY <1>8, <2>1, <2>2 DEF AuditFails, NextOfStage
<1>9. CASE Rank
  <2> PICK complete \in SUBSET survivors :
        \E s \in SetToSeqs(complete) : ranked' = SubSeq(s, 1, Min({Len(s), MaxPromoted}))
    BY <1>9 DEF Rank
  <2>1. PICK s \in SetToSeqs(complete) : ranked' = SubSeq(s, 1, Min({Len(s), MaxPromoted}))
    OBVIOUS
  <2>2. IsFiniteSet(complete) BY FS_Subset
  <2>3. Len(s) \in Nat /\ \A i \in 1..Len(s) : s[i] \in survivors
    BY <2>2, SetToSeqsType
  <2>4. Min({Len(s), MaxPromoted}) \in Nat /\ Min({Len(s), MaxPromoted}) <= Len(s)
    BY <2>3, MinOfTwo, DeskAssumption
  <2>5. ranked' \in Seq(survivors)
    <3> DEFINE n == Min({Len(s), MaxPromoted})
    <3>3. n \in Nat /\ n <= Len(s) BY <2>4
    <3> HIDE DEF n
    <3>1. n \in Int /\ \A i \in 1..n : s[i] \in survivors BY <2>3, <3>3
    <3>2. SubSeq(s, 1, n) \in Seq(survivors) BY <3>1, SubSeqProperties
    <3> QED BY <2>1, <3>2 DEF n
  <2> QED BY <1>9, <2>5 DEF Rank
<1>10. CASE Unchallenged \/ ChallengeFails \/ ChallengeStumbles
  <2>1. stage = "challenge" /\ todo # <<>>
    BY <1>10 DEF Unchallenged, ChallengeFails, ChallengeStumbles, ToChallenge
  <2>2. Tail(todo) \in Seq(survivors) /\ <<>> \in Seq(survivors) BY <2>1, TailType
  <2>3. /\ stage' = stage /\ todo' \in {<<>>, Tail(todo)}
        /\ UNCHANGED <<catalog, drafts, audits, survivors, ranked, passed, accepted>>
    <3>1. CASE Unchallenged BY <3>1 DEF Unchallenged, NextOfStage, workVars
    <3>2. CASE ChallengeFails BY <3>2 DEF ChallengeFails, NextOfStage
    <3>3. CASE ChallengeStumbles BY <3>3 DEF ChallengeStumbles
    <3> QED BY <1>10, <3>1, <3>2, <3>3
  <2> QED BY <2>1, <2>2, <2>3
<1>11. CASE ChallengeAnswered
  <2>1. stage = "challenge" /\ todo # <<>> BY <1>11 DEF ChallengeAnswered, ToChallenge
  <2>2. Head(todo) \in survivors /\ Tail(todo) \in Seq(survivors) BY <2>1, TailType
  <2>3. /\ stage' = stage /\ todo' = Tail(todo)
        /\ passed' = passed \/ passed' = passed \cup {Head(todo)}
        /\ UNCHANGED <<catalog, drafts, audits, survivors, ranked, accepted>>
    BY <1>11 DEF ChallengeAnswered, NextOfStage
  <2> QED BY <2>1, <2>2, <2>3
<1>12. CASE Promotion
  BY <1>12 DEF Promotion, workVars
<1>13. CASE Promote
  <2>1. stage = "promote" /\ todo # <<>> BY <1>13 DEF Promote
  <2>2. Tail(todo) \in Seq(survivors) /\ <<>> \in Seq(survivors) BY <2>1, TailType
  <2>3. /\ stage' = stage /\ todo' \in {<<>>, Tail(todo)}
        /\ UNCHANGED <<catalog, drafts, audits, survivors, ranked, passed>>
    BY <1>13 DEF Promote
  <2>4. \A d \in accepted' : d \in passed /\ Opposed(d)
    BY <1>13 DEF Promote, Eligible
  <2> QED BY <2>1, <2>2, <2>3, <2>4
<1>14. CASE UNCHANGED deskVars
  BY <1>14 DEF deskVars, workVars
<1> QED BY <1>1, <1>2, <1>3, <1>4, <1>5, <1>6, <1>7, <1>8, <1>9, <1>10, <1>11, <1>12,
           <1>13, <1>14 DEF DeskNext

\* A candidate the desk accepts was grounded, audited, challenged and opposed,
\* whatever the roles, the auditor and the challenger answer.
THEOREM AcceptedIsEarned == DeskSpec => []PromotionIsEarned
<1>1. EarnedInv => PromotionIsEarned
  BY DEF EarnedInv, Audited, Opposed, PromotionIsEarned
<1> QED BY <1>1, EarnedInitInv, EarnedStepInv, PTL DEF DeskSpec
-----------------------------------------------------------------------------
(* The calls that are billed and not charged *)

MaxDrafts == Len(Roles) * MaxPerRole

\* The calls that the pieces of work an attempt is done with may have cost it.
DoneCalls ==
  CASE stage = "roles"     -> 2 * (Len(Roles) - Len(todo))
    [] stage = "audit"     -> 2 * (Len(Roles) + MaxDrafts - Len(todo))
    [] stage = "challenge" -> 2 * (Len(Roles) + MaxDrafts + challenged)
    [] stage = "collect"   -> 0
    [] OTHER               -> AttemptCalls

Once == IF repair THEN 1 ELSE 0

RepairTyped ==
  /\ repair \in BOOLEAN
  /\ repair => stage \in {"roles", "audit", "challenge"} /\ todo # <<>>
  /\ repair /\ stage = "challenge" => challenged < MaxChallenges

CallsTyped ==
  /\ tries \in Nat /\ uncharged \in Nat
  /\ RepairTyped
  /\ stage # "idle" => deskJob = "running" /\ tries >= 1
  /\ stage = "roles" => todo \in Seq(STRING)
  /\ challenged \in 0..MaxChallenges
  /\ stage = "roles" =>
       /\ Len(todo) <= Len(Roles)
       /\ Cardinality(drafts) <= (Len(Roles) - Len(todo)) * MaxPerRole
  /\ stage = "audit" => Len(todo) <= MaxDrafts

\* Every piece of work is asked for once, and once again when it is repaired.
CallsInv ==
  /\ CallsTyped
  /\ stage = "idle" => uncharged <= tries * AttemptCalls
  /\ stage # "idle" => uncharged <= (tries - 1) * AttemptCalls + DoneCalls + Once

LEMMA NothingToRepair ==
  ASSUME repair' = FALSE
  PROVE  RepairTyped'
<1>1. repair' \in BOOLEAN /\ ~repair'
  OBVIOUS
<1> QED
  BY <1>1 DEF RepairTyped

LEMMA CallsAreNat ==
  /\ Len(Roles) \in Nat /\ MaxDrafts \in Nat /\ MaxChallenges \in Nat /\ MaxPerRole \in Nat
  /\ AttemptCalls \in Nat /\ AttemptCalls = 2 * (Len(Roles) + MaxDrafts + MaxChallenges)
<1>1. Len(Roles) \in Nat /\ MaxPerRole \in Nat /\ MaxChallenges \in Nat
  BY DeskAssumption
<1>2. Len(Roles) * MaxPerRole \in Nat
  BY <1>1
<1> QED
  BY <1>1, <1>2 DEF MaxDrafts, AttemptCalls

\* A call is billed without a charge at most once.
LEMMA CallIsOne ==
  ASSUME NEW l \in Ledger, Heard(l) \/ Raises(l), uncharged \in Nat
  PROVE  uncharged' \in Nat /\ uncharged' <= uncharged + 1
<1>1. uncharged' = uncharged \/ uncharged' = uncharged + 1
  BY Zenon DEF Heard, Raises, BilledOnly, Pay, moneyVars
<1> QED
  BY <1>1

\* A piece of work less is left.
LEMMA OnePieceLess ==
  ASSUME NEW S, todo \in Seq(S), todo # <<>>
  PROVE  /\ Len(todo) \in Nat /\ Len(todo) >= 1 /\ Tail(todo) \in Seq(S)
         /\ Len(Tail(todo)) = Len(todo) - 1
BY HeadTailProperties, LenProperties

\* A role adds no more drafts than it may.
LEMMA RoleAddsFew ==
  ASSUME EarnedInv, RoleAnswers
  PROVE  /\ Cardinality(drafts) \in Nat /\ Cardinality(drafts') \in Nat
         /\ Cardinality(drafts') <= Cardinality(drafts) + MaxPerRole
<1> PICK output \in Answers :
      \E taken \in kSubset(Min({Cardinality(output), MaxPerRole}), output) :
        drafts' = drafts \cup {d \in taken : Grounded(d)}
  BY DEF RoleAnswers
<1> PICK taken \in kSubset(Min({Cardinality(output), MaxPerRole}), output) :
      drafts' = drafts \cup {d \in taken : Grounded(d)}
  OBVIOUS
<1> DEFINE more == {d \in taken : Grounded(d)}
<1>1. IsFiniteSet(output) /\ Cardinality(output) \in Nat /\ MaxPerRole \in Nat
  BY DeskAssumption, FS_CardinalityType
<1>2. taken \in SUBSET output /\ Cardinality(taken) = Min({Cardinality(output), MaxPerRole})
  BY DEF kSubset
<1>3. Cardinality(taken) <= MaxPerRole
  BY <1>1, <1>2, MinOfTwo
<1>4. IsFiniteSet(taken) /\ Cardinality(taken) \in Nat
  BY <1>1, <1>2, FS_Subset, FS_CardinalityType
<1>5. more \in SUBSET taken
  OBVIOUS
<1>6. IsFiniteSet(more) /\ Cardinality(more) <= Cardinality(taken)
  BY <1>4, <1>5, FS_Subset
<1>7. drafts' = drafts \cup more /\ IsFiniteSet(drafts)
  BY DEF EarnedInv
<1> HIDE DEF more
<1>8. /\ Cardinality(more) \in Nat /\ Cardinality(drafts) \in Nat
      /\ IsFiniteSet(drafts \cap more)
  BY <1>6, <1>7, FS_CardinalityType, FS_Intersection
<1>9. Cardinality(drafts \cap more) \in Nat
  BY <1>8, FS_CardinalityType
<1>10. /\ IsFiniteSet(drafts \cup more)
       /\ Cardinality(drafts \cup more)
            = Cardinality(drafts) + Cardinality(more) - Cardinality(drafts \cap more)
  BY <1>6, <1>7, FS_Union
<1>11. Cardinality(drafts \cup more) \in Nat
  BY <1>10, FS_CardinalityType
<1>12. drafts' = drafts \cup more
  BY <1>7
<1>13. /\ Cardinality(drafts \cup more) <= Cardinality(drafts) + Cardinality(more)
       /\ Cardinality(more) <= MaxPerRole
  BY <1>1, <1>3, <1>4, <1>6, <1>8, <1>9, <1>10
<1>14. Cardinality(drafts \cup more) <= Cardinality(drafts) + MaxPerRole
  BY <1>1, <1>8, <1>11, <1>13
<1> QED
  BY <1>8, <1>11, <1>12, <1>14

\* There are no more batches than drafts.
LEMMA FewBatches ==
  ASSUME NEW n \in Nat
  PROVE  (n + MaxBatch - 1) \div MaxBatch \in Nat /\ (n + MaxBatch - 1) \div MaxBatch <= n
<1> DEFINE k == MaxBatch
           a == n + k - 1
           q == a \div k
<1>1. k \in Nat /\ k >= 1
  BY DeskAssumption
<1>2. a \in Nat
  BY <1>1
<1> HIDE DEF k
<1>3. q \in Nat /\ k * q <= a
  <2> HIDE DEF a
  <2> QED
    BY <1>1, <1>2
<1> HIDE DEF q
<1>4. ASSUME q >= n + 1 PROVE FALSE
  <2>1. k * q >= k * (n + 1)
    BY <1>1, <1>3, <1>4
  <2>2. k * (n + 1) = k * n + k /\ k * n >= n
    BY <1>1
  <2> QED
    BY <1>1, <1>3, <2>1, <2>2
<1> QED
  BY <1>3, <1>4 DEF q, k

LEMMA CompactMakesFew ==
  ASSUME EarnedInv, Compact, Cardinality(drafts) <= MaxDrafts
  PROVE  Len(todo') \in Nat /\ Len(todo') <= MaxDrafts
<1> PICK kept \in Representatives : \E s \in SetToSeqs(kept) : todo' = Batches(s)
  BY DEF Compact
<1> PICK s \in SetToSeqs(kept) : todo' = Batches(s)
  OBVIOUS
<1>1. kept \in SUBSET drafts /\ IsFiniteSet(drafts)
  BY DEF Representatives, EarnedInv
<1>2. IsFiniteSet(kept) /\ Cardinality(kept) <= Cardinality(drafts)
  BY <1>1, FS_Subset
<1>3. Cardinality(kept) \in Nat /\ Cardinality(drafts) \in Nat
  BY <1>1, <1>2, FS_CardinalityType
<1>4. s \in [1..Cardinality(kept) -> kept]
  BY DEF SetToSeqs
<1>5. Len(s) = Cardinality(kept)
  BY <1>3, <1>4
<1> DEFINE count == (Len(s) + MaxBatch - 1) \div MaxBatch
<1>6. count \in Nat /\ count <= Len(s)
  BY <1>3, <1>5, FewBatches
<1> HIDE DEF count
<1>7. DOMAIN Batches(s) = 1..count
  BY DEF Batches, count
<1>8. Len(Batches(s)) = count
  <2>1. Batches(s) \in Seq(SUBSET drafts)
    BY <1>1, BatchesType
  <2>2. DOMAIN Batches(s) = 1..Len(Batches(s)) /\ Len(Batches(s)) \in Nat
    BY <2>1, LenProperties
  <2> QED
    BY <1>6, <1>7, <2>2
<1> QED
  BY <1>2, <1>3, <1>5, <1>6, <1>8, CallsAreNat

LEMMA CallsInitInv == DeskInit => CallsInv
<1> SUFFICES ASSUME DeskInit PROVE CallsInv
  OBVIOUS
<1>1. tries = 0 /\ uncharged = 0 /\ challenged = 0 /\ stage = "idle" /\ repair = FALSE
  BY DEF DeskInit
<1>4. RepairTyped
  <2>1. repair \in BOOLEAN /\ ~repair
    BY <1>1
  <2> QED
    BY <2>1 DEF RepairTyped
<1>2. CallsTyped
  BY <1>1, <1>4, CallsAreNat DEF CallsTyped
<1>3. tries * AttemptCalls = 0
  BY <1>1, CallsAreNat
<1> QED
  BY <1>1, <1>2, <1>3 DEF CallsInv

LEMMA OnceIsOne == Once \in {0, 1} /\ (~repair => Once = 0) /\ (repair => Once = 1)
BY DEF Once

\* What is done and asked fits an attempt, with one call more while one is asked.
LEMMA DoneFits ==
  ASSUME EarnedInv, CallsInv, stage # "idle"
  PROVE  /\ DoneCalls \in Nat
         /\ DoneCalls + Once <= AttemptCalls
         /\ Asking => DoneCalls + Once + 1 <= AttemptCalls
<1> USE CallsAreNat
<1>0. /\ Once \in {0, 1} /\ (~repair => Once = 0) /\ challenged \in 0..MaxChallenges
      /\ repair => stage \in {"roles", "audit", "challenge"} /\ todo # <<>>
  BY OnceIsOne DEF CallsInv, CallsTyped, RepairTyped
<1>1. CASE stage = "roles"
  <2>1. /\ Len(todo) \in Nat /\ Len(todo) <= Len(Roles)
        /\ (todo # <<>> => Len(todo) >= 1)
    BY <1>1, LenProperties, EmptySeq DEF CallsInv, CallsTyped, RepairTyped
  <2>2. DoneCalls = 2 * (Len(Roles) - Len(todo))
    BY <1>1 DEF DoneCalls
  <2>3. Asking => todo # <<>>
    BY DEF Asking, ToChallenge
  <2>4. CASE todo = <<>>
    BY <1>0, <2>1, <2>2, <2>3, <2>4
  <2>5. CASE todo # <<>>
    BY <1>0, <2>1, <2>2, <2>5
  <2> QED
    BY <2>4, <2>5
<1>2. CASE stage = "audit"
  <2>1. /\ Len(todo) \in Nat /\ Len(todo) <= MaxDrafts
        /\ (todo # <<>> => Len(todo) >= 1)
    BY <1>2, LenProperties, EmptySeq DEF CallsInv, CallsTyped, RepairTyped, EarnedInv
  <2>2. DoneCalls = 2 * (Len(Roles) + MaxDrafts - Len(todo))
    BY <1>2 DEF DoneCalls
  <2>3. Asking => todo # <<>>
    BY DEF Asking, ToChallenge
  <2>4. CASE todo = <<>>
    BY <1>0, <2>1, <2>2, <2>3, <2>4
  <2>5. CASE todo # <<>>
    BY <1>0, <2>1, <2>2, <2>5
  <2> QED
    BY <2>4, <2>5
<1>3. CASE stage = "challenge"
  <2>1. DoneCalls = 2 * (Len(Roles) + MaxDrafts + challenged)
    BY <1>3 DEF DoneCalls
  <2>2. (Asking => challenged < MaxChallenges) /\ (repair => challenged < MaxChallenges)
    BY <1>3 DEF Asking, ToChallenge, CallsInv, CallsTyped, RepairTyped
  <2>3. CASE challenged < MaxChallenges
    BY <1>0, <2>1, <2>3
  <2>4. CASE ~(challenged < MaxChallenges)
    BY <1>0, <2>1, <2>2, <2>4
  <2> QED
    BY <2>3, <2>4
<1>4. CASE stage \notin {"roles", "audit", "challenge"}
  <2>1. DoneCalls \in {0, AttemptCalls} /\ Once = 0 /\ ~Asking
    BY <1>0, <1>4 DEF DoneCalls, Asking, ToChallenge
  <2> QED
    BY <2>1
<1> QED
  BY <1>1, <1>2, <1>3, <1>4

\* An attempt that goes on, with no call to repeat.
LEMMA CallsKept ==
  ASSUME CallsTyped, stage # "idle", stage' # "idle", UNCHANGED <<deskJob, tries>>,
         RepairTyped', uncharged' \in Nat, challenged' \in 0..MaxChallenges,
         stage' = "roles" =>
           /\ todo' \in Seq(STRING) /\ Len(todo') <= Len(Roles)
           /\ Cardinality(drafts') <= (Len(Roles) - Len(todo')) * MaxPerRole,
         stage' = "audit" => Len(todo') <= MaxDrafts,
         uncharged' <= (tries - 1) * AttemptCalls + DoneCalls' + Once'
  PROVE  CallsInv'
<1>1. tries' \in Nat /\ deskJob' = "running" /\ tries' >= 1
  BY DEF CallsTyped
<1>2. CallsTyped'
  BY <1>1 DEF CallsTyped
<1> QED
  BY <1>2 DEF CallsInv

LEMMA NoLess ==
  ASSUME NEW base \in Nat, NEW done \in Nat, NEW once \in Nat, NEW calls \in Nat,
         calls <= base + done + once, NEW done2 \in Nat, NEW once2 \in Nat,
         done2 >= done, once <= once2
  PROVE  calls <= base + done2 + once2
OBVIOUS

LEMMA CallsStepInv == EarnedInv /\ CallsInv /\ [DeskNext]_deskVars => CallsInv'
<1> SUFFICES ASSUME EarnedInv, CallsInv, [DeskNext]_deskVars PROVE CallsInv'
  OBVIOUS
<1> DEFINE base == (tries - 1) * AttemptCalls
<1>a. /\ tries \in Nat /\ uncharged \in Nat /\ challenged \in 0..MaxChallenges
      /\ stage # "idle" => tries >= 1 /\ base \in Nat /\ uncharged <= base + DoneCalls + Once
  <2>1. ASSUME tries \in Nat, tries >= 1 PROVE (tries - 1) * AttemptCalls \in Nat
    <3>1. tries - 1 \in Nat
      BY <2>1
    <3> QED
      BY <3>1, CallsAreNat
  <2> QED
    BY <2>1 DEF CallsInv, CallsTyped, RepairTyped
<1>b. /\ Once \in {0, 1} /\ (repair = FALSE => Once = 0) /\ (repair = TRUE => Once = 1)
      /\ Once' \in {0, 1} /\ (repair' = FALSE => Once' = 0) /\ (repair' = TRUE => Once' = 1)
  BY DEF Once
<1>c. CallsTyped
  BY DEF CallsInv
<1> HIDE DEF base
<1> USE CallsAreNat
<1>1. CASE ClaimDesk
  <2>1. /\ stage = "idle" /\ stage' = "collect" /\ tries' = tries + 1 /\ uncharged' = uncharged
        /\ repair' = FALSE /\ challenged' = 0 /\ deskJob' = "running"
    BY <1>1 DEF ClaimDesk, Blank, CallsInv, CallsTyped, RepairTyped
  <2>2. uncharged <= tries * AttemptCalls /\ tries' - 1 = tries /\ tries * AttemptCalls \in Nat
    BY <1>a, <2>1 DEF CallsInv, CallsTyped, RepairTyped
  <2>6. RepairTyped'
    BY <2>1, NothingToRepair
  <2>7. challenged' \in 0..MaxChallenges /\ tries' \in Nat /\ tries' >= 1 /\ uncharged' \in Nat
    BY <1>a, <2>1
  <2>3. CallsTyped'
    BY <2>1, <2>6, <2>7 DEF CallsTyped
  <2>4. DoneCalls' = 0 /\ Once' \in {0, 1}
    BY <1>b, <2>1 DEF DoneCalls
  <2>5. uncharged' <= (tries' - 1) * AttemptCalls + DoneCalls' + Once'
    BY <1>a, <2>1, <2>2, <2>4
  <2> QED
    BY <2>1, <2>3, <2>5 DEF CallsInv
<1>2. CASE Collect
  <2>1. /\ stage = "collect" /\ repair' = repair /\ uncharged' = uncharged
        /\ UNCHANGED <<deskJob, tries, drafts, challenged>>
        /\ (stage' = "roles" /\ todo' = Roles) \/ stage' = "finish"
    BY <1>2 DEF Collect, CallsInv, CallsTyped, jobOfDesk, moneyVars
  <2>2. Cardinality(drafts') = 0
    <3>1. drafts' = {}
      BY <2>1 DEF EarnedInv
    <3> QED
      BY <3>1, FS_EmptySet
  <2>9. repair = FALSE
    BY <1>c, <2>1 DEF CallsTyped, RepairTyped
  <2>7. RepairTyped' /\ challenged' \in 0..MaxChallenges
    BY <1>a, <2>1, <2>9, NothingToRepair
  <2>3. Roles \in Seq(STRING) /\ Len(Roles) - Len(Roles) = 0 /\ 0 * MaxPerRole = 0
    BY DeskAssumption
  <2>4. uncharged <= base
    <3>1. DoneCalls = 0 /\ Once = 0
      BY <1>b, <2>1, <2>9 DEF DoneCalls
    <3> QED
      BY <1>a, <2>1, <3>1
  <2>5. CASE stage' = "roles" /\ todo' = Roles
    <3>1. Len(todo') = Len(Roles) /\ todo' \in Seq(STRING) /\ DoneCalls' = 0
      BY <2>3, <2>5 DEF DoneCalls
    <3>2. Cardinality(drafts') <= (Len(Roles) - Len(todo')) * MaxPerRole
      BY <2>2, <2>3, <3>1
    <3>3. uncharged' \in Nat /\ uncharged' <= base + DoneCalls' + Once'
      BY <1>a, <1>b, <2>1, <2>2, <2>4, <3>1
    <3> QED
      BY <1>c, <2>1, <2>5, <2>7, <3>1, <3>2, <3>3, CallsKept DEF base
  <2>6. CASE stage' = "finish"
    <3>1. DoneCalls' = AttemptCalls
      BY <2>6 DEF DoneCalls
    <3>2. uncharged' \in Nat /\ uncharged' <= base + DoneCalls' + Once'
      BY <1>a, <1>b, <2>1, <2>2, <2>4, <3>1
    <3> QED
      BY <1>c, <2>1, <2>6, <2>7, <3>2, CallsKept DEF base
  <2> QED
    BY <2>1, <2>5, <2>6
<1>3. CASE AskAgain
  <2>1. /\ Asking /\ repair = FALSE /\ repair' = TRUE
        /\ UNCHANGED <<deskJob, tries, stage, todo, drafts, challenged>>
        /\ stage \in {"roles", "audit", "challenge"} /\ todo # <<>>
        /\ stage = "challenge" => challenged < MaxChallenges
    BY <1>3 DEF AskAgain, Asking, ToChallenge, jobOfDesk, workVars, CallsInv, CallsTyped, RepairTyped
  <2>2. LedgerOf[stage] \in Ledger
    BY <2>1 DEF LedgerOf, Ledger
  <2>3. uncharged' \in Nat /\ uncharged' <= uncharged + 1
    BY <1>3, <1>a, <2>2, CallIsOne DEF AskAgain
  <2>4. DoneCalls' = DoneCalls /\ DoneCalls \in Nat
    BY <2>1, DoneFits DEF DoneCalls
  <2>5. uncharged' <= base + DoneCalls' + Once'
    BY <1>a, <1>b, <2>1, <2>3, <2>4
  <2>6. RepairTyped'
    <3>1. /\ repair' \in BOOLEAN
          /\ stage' \in {"roles", "audit", "challenge"} /\ todo' # <<>>
          /\ stage' = "challenge" => challenged' < MaxChallenges
      BY <2>1
    <3> QED
      BY <3>1 DEF RepairTyped
  <2>7. tries' \in Nat /\ deskJob' = "running" /\ tries' >= 1
    BY <1>c, <2>1 DEF CallsTyped
  <2>9. /\ challenged' \in 0..MaxChallenges
        /\ stage' = "roles" =>
             /\ todo' \in Seq(STRING) /\ Len(todo') <= Len(Roles)
             /\ Cardinality(drafts') <= (Len(Roles) - Len(todo')) * MaxPerRole
        /\ stage' = "audit" => Len(todo') <= MaxDrafts
    BY <1>c, <2>1 DEF CallsTyped
  <2>10. CallsTyped'
    BY <2>3, <2>6, <2>7, <2>9 DEF CallsTyped
  <2> QED
    BY <2>1, <2>5, <2>10 DEF base, CallsInv
<1>4. CASE RoleAnswers \/ RoleFails
  <2>1. /\ stage = "roles" /\ stage' = "roles" /\ todo # <<>> /\ todo' = Tail(todo)
        /\ repair' = FALSE /\ UNCHANGED <<deskJob, tries, challenged>>
        /\ Heard("generation") \/ Raises("generation")
    BY <1>4 DEF RoleAnswers, RoleFails, NextOfStage, jobOfDesk, Answered, Refused
  <2>2. uncharged' \in Nat /\ uncharged' <= uncharged + 1
    BY <1>a, <1>b, <2>1, CallIsOne DEF Ledger
  <2>3. /\ Len(todo) \in Nat /\ Len(todo) >= 1 /\ todo' \in Seq(STRING)
        /\ Len(todo') = Len(todo) - 1 /\ Len(todo) <= Len(Roles)
    <3>1. todo \in Seq(STRING) /\ Len(todo) <= Len(Roles)
      BY <2>1 DEF CallsInv, CallsTyped, RepairTyped
    <3> QED
      BY <2>1, <3>1, OnePieceLess
  <2>4. Cardinality(drafts') <= (Len(Roles) - Len(todo')) * MaxPerRole
    <3> DEFINE m == Len(Roles) - Len(todo)
    <3>1. /\ Cardinality(drafts) \in Nat /\ Cardinality(drafts') \in Nat
          /\ Cardinality(drafts') <= Cardinality(drafts) + MaxPerRole
      <4>1. CASE RoleAnswers
        BY <4>1, RoleAddsFew
      <4>2. CASE RoleFails
        <5>1. drafts' = drafts /\ IsFiniteSet(drafts)
          BY <4>2 DEF RoleFails, EarnedInv
        <5>2. Cardinality(drafts) \in Nat
          BY <5>1, FS_CardinalityType
        <5> QED
          BY <5>1, <5>2
      <4> QED
        BY <1>4, <4>1, <4>2
    <3>2. Cardinality(drafts) <= m * MaxPerRole /\ m \in Nat
      BY <2>1, <2>3 DEF CallsInv, CallsTyped, RepairTyped
    <3>3. Len(Roles) - Len(todo') = m + 1
      BY <2>3
    <3> HIDE DEF m
    <3>4. (m + 1) * MaxPerRole = m * MaxPerRole + MaxPerRole /\ m * MaxPerRole \in Nat
      BY <3>2
    <3> QED
      BY <3>1, <3>2, <3>3, <3>4
  <2>5. uncharged' <= base + DoneCalls' + Once'
    <3>1. DoneCalls' = DoneCalls + 2 /\ DoneCalls \in Nat
      BY <2>1, <2>3, DoneFits DEF DoneCalls
    <3> QED
      BY <1>a, <1>b, <2>1, <2>2, <3>1
  <2>20. RepairTyped'
    BY <2>1, NothingToRepair
  <2>21. challenged' \in 0..MaxChallenges /\ uncharged' \in Nat
    BY <1>a, <2>1, <2>2, <2>3, <2>4, <2>5
  <2> QED
    BY <2>1, <2>2, <2>3, <2>4, <2>5, <2>20, <2>21, <1>c, CallsKept DEF base
<1>5. CASE Compact
  <2>1. /\ stage = "roles" /\ stage' = "audit" /\ todo = <<>> /\ repair = FALSE /\ repair' = FALSE
        /\ UNCHANGED <<deskJob, tries, challenged, uncharged>>
    BY <1>5 DEF Compact, jobOfDesk, workVars, moneyVars, CallsInv, CallsTyped, RepairTyped
  <2>2. Len(todo) = 0 /\ Len(Roles) - 0 = Len(Roles)
    BY <2>1
  <2>3. Cardinality(drafts) <= MaxDrafts
    BY <2>1, <2>2 DEF CallsInv, CallsTyped, RepairTyped, MaxDrafts
  <2>4. Len(todo') \in Nat /\ Len(todo') <= MaxDrafts
    BY <1>5, <2>3, CompactMakesFew
  <2>5. uncharged' <= base + DoneCalls' + Once'
    <3>1. DoneCalls = 2 * Len(Roles) /\ DoneCalls' = 2 * (Len(Roles) + MaxDrafts - Len(todo'))
      BY <2>1, <2>2 DEF DoneCalls
    <3>2. Once \in Nat /\ Once' \in Nat /\ Once <= Once'
      BY <1>b, <2>1
    <3>3. base \in Nat /\ uncharged \in Nat /\ uncharged <= base + DoneCalls + Once
      BY <1>a, <2>1
    <3>4. DoneCalls' >= DoneCalls /\ DoneCalls \in Nat /\ DoneCalls' \in Nat
      BY <2>4, <3>1
    <3>5. uncharged' = uncharged
      BY <2>1
    <3> QED
      BY <3>2, <3>3, <3>4, <3>5, NoLess
  <2>20. RepairTyped'
    BY <2>1, NothingToRepair
  <2>21. challenged' \in 0..MaxChallenges /\ uncharged' \in Nat
    BY <1>a, <2>1, <2>4, <2>5
  <2> QED
    BY <2>1, <2>4, <2>5, <2>20, <2>21, <1>c, CallsKept DEF base
<1>6. CASE AuditAnswers \/ AuditFails
  <2>1. /\ stage = "audit" /\ stage' = "audit" /\ todo # <<>> /\ todo' = Tail(todo)
        /\ repair' = FALSE /\ UNCHANGED <<deskJob, tries, challenged>>
        /\ Heard("generation") \/ Raises("generation")
    BY <1>6 DEF AuditAnswers, AuditFails, NextOfStage, jobOfDesk, Answered, Refused
  <2>2. uncharged' \in Nat /\ uncharged' <= uncharged + 1
    BY <1>a, <1>b, <2>1, CallIsOne DEF Ledger
  <2>3. /\ Len(todo) \in Nat /\ Len(todo) >= 1
        /\ Len(todo') = Len(todo) - 1 /\ Len(todo) <= MaxDrafts
    <3>1. todo \in Seq(SUBSET drafts) /\ Len(todo) <= MaxDrafts
      BY <2>1 DEF CallsInv, CallsTyped, RepairTyped, EarnedInv
    <3> QED
      BY <2>1, <3>1, OnePieceLess
  <2>5. uncharged' <= base + DoneCalls' + Once'
    <3>1. DoneCalls' = DoneCalls + 2 /\ DoneCalls \in Nat
      BY <2>1, <2>3, DoneFits DEF DoneCalls
    <3> QED
      BY <1>a, <1>b, <2>1, <2>2, <3>1
  <2>20. RepairTyped'
    BY <2>1, NothingToRepair
  <2>21. challenged' \in 0..MaxChallenges /\ uncharged' \in Nat
    BY <1>a, <2>1, <2>2, <2>3, <2>5
  <2> QED
    BY <2>1, <2>2, <2>3, <2>5, <2>20, <2>21, <1>c, CallsKept DEF base
<1>7. CASE Rank
  <2>1. /\ stage = "audit" /\ stage' = "challenge" /\ todo = <<>> /\ repair = FALSE /\ repair' = FALSE
        /\ UNCHANGED <<deskJob, tries, challenged, uncharged>>
    BY <1>7 DEF Rank, jobOfDesk, moneyVars, CallsInv, CallsTyped, RepairTyped
  <2>2. uncharged' <= base + DoneCalls' + Once'
    BY <1>a, <1>b, <2>1 DEF DoneCalls
  <2>20. RepairTyped'
    BY <2>1, NothingToRepair
  <2>21. challenged' \in 0..MaxChallenges /\ uncharged' \in Nat
    BY <1>a, <2>1, <2>2
  <2> QED
    BY <2>1, <2>2, <2>20, <2>21, <1>c, CallsKept DEF base
<1>8. CASE Unchallenged \/ ChallengeStumbles
  <2>1. /\ stage = "challenge" /\ stage' = "challenge" /\ repair = FALSE /\ repair' = FALSE
        /\ UNCHANGED <<deskJob, tries, uncharged>>
        /\ challenged' \in challenged..MaxChallenges
    <3>1. CASE Unchallenged
      BY <1>a, <1>b, <3>1 DEF Unchallenged, NextOfStage, jobOfDesk, workVars, moneyVars, CallsInv, CallsTyped, RepairTyped
    <3>2. CASE ChallengeStumbles
      BY <1>a, <1>b, <3>2 DEF ChallengeStumbles, ToChallenge, jobOfDesk, moneyVars, CallsInv, CallsTyped, RepairTyped
    <3> QED
      BY <1>8, <3>1, <3>2
  <2>2. uncharged' <= base + DoneCalls' + Once'
    <3>1. /\ DoneCalls = 2 * (Len(Roles) + MaxDrafts + challenged)
          /\ DoneCalls' = 2 * (Len(Roles) + MaxDrafts + challenged')
      BY <2>1 DEF DoneCalls
    <3>2. Once \in Nat /\ Once' \in Nat /\ Once <= Once'
      BY <1>b, <2>1
    <3>3. /\ base \in Nat /\ uncharged \in Nat /\ uncharged <= base + DoneCalls + Once
          /\ challenged \in Nat
      BY <1>a, <2>1
    <3>4. DoneCalls' >= DoneCalls /\ DoneCalls \in Nat /\ DoneCalls' \in Nat
      BY <2>1, <3>1, <3>3
    <3>5. uncharged' = uncharged
      BY <2>1
    <3> QED
      BY <3>2, <3>3, <3>4, <3>5, NoLess
  <2>20. RepairTyped'
    BY <2>1, NothingToRepair
  <2>21. challenged' \in 0..MaxChallenges /\ uncharged' \in Nat
    <3>1. challenged \in Nat /\ uncharged \in Nat
      BY <1>a
    <3> QED
      BY <2>1, <3>1
  <2> QED
    BY <2>1, <2>2, <2>20, <2>21, <1>c, CallsKept DEF base
<1>9. CASE ChallengeAnswered \/ ChallengeFails
  <2>1. /\ stage = "challenge" /\ stage' = "challenge" /\ challenged < MaxChallenges
        /\ challenged' = challenged + 1
        /\ repair' = FALSE /\ UNCHANGED <<deskJob, tries>>
        /\ Heard("falsification") \/ Raises("falsification")
    BY <1>9 DEF ChallengeAnswered, ChallengeFails, ToChallenge, NextOfStage, jobOfDesk, Answered,
                Refused
  <2>2. uncharged' \in Nat /\ uncharged' <= uncharged + 1
    BY <1>a, <1>b, <2>1, CallIsOne DEF Ledger
  <2>3. uncharged' <= base + DoneCalls' + Once'
    <3>2. /\ DoneCalls = 2 * (Len(Roles) + MaxDrafts + challenged)
          /\ DoneCalls' = 2 * (Len(Roles) + MaxDrafts + challenged')
      BY <2>1 DEF DoneCalls
    <3>3. challenged \in Nat
      BY <1>a
    <3>1. DoneCalls' = DoneCalls + 2 /\ DoneCalls \in Nat
      BY <2>1, <3>2, <3>3
    <3> QED
      BY <1>a, <1>b, <2>1, <2>2, <3>1
  <2>20. RepairTyped'
    BY <2>1, NothingToRepair
  <2>21. challenged' \in 0..MaxChallenges /\ uncharged' \in Nat
    BY <1>a, <2>1, <2>2, <2>3
  <2> QED
    BY <2>1, <2>2, <2>3, <2>20, <2>21, <1>c, CallsKept DEF base
<1>10. CASE Promotion \/ Promote
  <2>1. /\ stage \in {"challenge", "promote"} /\ stage' = "promote" /\ repair = FALSE /\ repair' = FALSE
        /\ UNCHANGED <<deskJob, tries, challenged, uncharged>>
    BY <1>10 DEF Promotion, Promote, jobOfDesk, workVars, moneyVars, CallsInv, CallsTyped, RepairTyped
  <2>2. uncharged' <= base + DoneCalls' + Once'
    <3>1. DoneCalls' = AttemptCalls
      BY <2>1 DEF DoneCalls
    <3>2. DoneCalls \in Nat /\ DoneCalls + Once <= AttemptCalls
      BY <2>1, DoneFits
    <3> QED
      BY <1>a, <1>b, <2>1, <3>1, <3>2
  <2>20. RepairTyped'
    BY <2>1, NothingToRepair
  <2>21. challenged' \in 0..MaxChallenges /\ uncharged' \in Nat
    BY <1>a, <2>1, <2>2
  <2> QED
    BY <2>1, <2>2, <2>20, <2>21, <1>c, CallsKept DEF base
<1>11. CASE FinishDesk \/ DeskCrash
  <2>1. /\ stage # "idle" /\ stage' = "idle" /\ repair' = FALSE /\ challenged' = 0 /\ tries' = tries
        /\ \/ uncharged' = uncharged
           \/ Asking /\ uncharged' = uncharged + 1
    BY <1>11 DEF FinishDesk, DeskCrash, Blank
  <2>2. uncharged' \in Nat /\ uncharged' <= base + AttemptCalls
    <3>1. /\ DoneCalls \in Nat /\ DoneCalls + Once <= AttemptCalls
          /\ Asking => DoneCalls + Once + 1 <= AttemptCalls
      BY <2>1, DoneFits
    <3> QED
      BY <1>a, <1>b, <2>1, <3>1
  <2>3. base + AttemptCalls = tries * AttemptCalls
    BY <1>a, <1>b, <2>1, OneAttemptMore DEF base
  <2>5. RepairTyped'
    BY <2>1, NothingToRepair
  <2>6. challenged' \in 0..MaxChallenges /\ tries' \in Nat
    BY <1>a, <2>1
  <2>4. CallsTyped'
    BY <2>1, <2>2, <2>5, <2>6 DEF CallsTyped
  <2> QED
    BY <2>1, <2>2, <2>3, <2>4 DEF CallsInv
<1>12. CASE DeskReclaimed
  <2>1. /\ stage = "idle" /\ UNCHANGED <<tries, stage, todo, repair, drafts, challenged, uncharged>>
    BY <1>12 DEF DeskReclaimed, moneyVars, workVars
  <2>2. repair' = repair /\ (repair => stage \in {"roles", "audit", "challenge"})
    BY <1>c, <2>1 DEF CallsTyped, RepairTyped
  <2>3. repair' = FALSE
    BY <1>c, <2>1, <2>2 DEF CallsTyped, RepairTyped
  <2>4. CallsTyped'
    BY <1>a, <2>1, <2>3, NothingToRepair DEF CallsTyped
  <2> QED
    BY <2>1, <2>4 DEF CallsInv
<1>13. CASE UNCHANGED deskVars
  <2>1. UNCHANGED <<deskJob, tries, stage, todo, repair, drafts, challenged, uncharged>>
    BY <1>13 DEF deskVars, jobOfDesk, moneyVars, workVars
  <2>2. CallsTyped' = CallsTyped /\ DoneCalls' = DoneCalls /\ Once' = Once
    BY <2>1 DEF CallsTyped, RepairTyped, DoneCalls, Once
  <2> QED
    BY <2>1, <2>2 DEF CallsInv
<1> QED BY <1>1, <1>2, <1>3, <1>4, <1>5, <1>6, <1>7, <1>8, <1>9, <1>10, <1>11, <1>12,
           <1>13 DEF DeskNext

\* A job of the thesis desk is never charged more than the ceiling of an
\* attempt times the attempts begun, whichever calls fail, are repeated or lost
\* with a crash; and the calls it was billed and not charged for are no more than
\* the calls that the roles, the drafts and the challenges of its attempts take.
THEOREM SpendingIsBounded == DeskSpec => []JobSpendingIsBounded
<1>1. MoneyInv => paid <= tries * AttemptCeiling
  <2> SUFFICES ASSUME MoneyInv, stage # "idle" PROVE paid <= tries * AttemptCeiling
    BY DEF MoneyInv
  <2>1. /\ tries \in Nat /\ tries >= 1 /\ paid \in Nat /\ spent \in [Ledger -> Nat]
        /\ paid <= (tries - 1) * AttemptCeiling + Spending
    BY DEF MoneyInv
  <2>2. Spending <= AttemptCeiling
    BY <2>1, CeilingIsNat DEF MoneyInv, Spending, AttemptCeiling, Ledger
  <2>3. (tries - 1) * AttemptCeiling \in Int /\ Spending \in Int
    BY <2>1, CeilingIsNat DEF Spending, Ledger
  <2>4. paid <= (tries - 1) * AttemptCeiling + AttemptCeiling
    BY <2>1, <2>2, <2>3, CeilingIsNat
  <2> QED BY <2>1, <2>4, CeilingIsNat, OneAttemptMore
<1>2. EarnedInv /\ CallsInv => uncharged <= tries * AttemptCalls
  <2> SUFFICES ASSUME EarnedInv, CallsInv, stage # "idle" PROVE uncharged <= tries * AttemptCalls
    BY DEF CallsInv, CallsTyped, RepairTyped
  <2>1. /\ tries \in Nat /\ tries >= 1 /\ uncharged \in Nat
        /\ uncharged <= (tries - 1) * AttemptCalls + DoneCalls + Once
    BY DEF CallsInv, CallsTyped, RepairTyped
  <2>2. DoneCalls \in Nat /\ DoneCalls + Once <= AttemptCalls /\ Once \in {0, 1}
    BY DoneFits, OnceIsOne
  <2>3. (tries - 1) * AttemptCalls \in Int /\ AttemptCalls \in Nat
    BY <2>1, CallsAreNat
  <2> DEFINE base == (tries - 1) * AttemptCalls
  <2> HIDE DEF base
  <2>5. uncharged <= base + DoneCalls + Once /\ base \in Int
    BY <2>1, <2>3 DEF base
  <2>6. uncharged <= base + AttemptCalls
    BY <2>1, <2>2, <2>3, <2>5
  <2>4. uncharged <= (tries - 1) * AttemptCalls + AttemptCalls
    BY <2>6 DEF base
  <2> QED BY <2>1, <2>3, <2>4, OneAttemptMore
<1>3. MoneyInv /\ EarnedInv /\ CallsInv => JobSpendingIsBounded
  BY <1>1, <1>2 DEF JobSpendingIsBounded
<1> QED BY <1>3, MoneyInitInv, MoneyStepInv, EarnedInitInv, EarnedStepInv, CallsInitInv,
           CallsStepInv, PTL DEF DeskSpec
=============================================================================
