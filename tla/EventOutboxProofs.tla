-------------------------- MODULE EventOutboxProofs --------------------------
(***************************************************************************)
(* Safety of the event ledger and of its outbox for every number of        *)
(* identities, contents, collectors and workers.                           *)
(***************************************************************************)
EXTENDS EventOutbox, SequenceTheorems, TLAPS

\* What the proofs need of each variable's type.
LedgerTyped ==
  /\ row \in [Identity -> Content \cup {Absent}]
  /\ ledger \in [Identity -> Seq(Content)]
  /\ link \in [Event -> Content \cup {Absent}]
  /\ draft \in [Publisher -> {Absent} \cup
                  [id: Identity, content: Content, previous: Content \cup {Absent}]]
OutboxTyped ==
  /\ outbox \in [Event -> {"none", "open"} \cup Settled]
  /\ routed \in [Event -> Nat]
WorkerTyped ==
  /\ pc \in [Worker -> {"idle", "routing", "failing", "dead"}]
  /\ \A w \in Worker : pc[w] \in {"routing", "failing"} => at[w] \in Event
  /\ at \in [Worker -> Event \cup {Absent}]

\* An outbox row exists exactly for the events of the ledger.
HandedOff ==
  \A k \in Identity, c \in Content : outbox[<<k, c>>] = "none" <=> c \notin Recorded(k)

\* What a publication read is still an event of the ledger when it writes.
ReadsStand ==
  \A p \in Publisher :
    draft[p] # Absent /\ draft[p].previous # Absent
      => draft[p].previous \in Recorded(draft[p].id)

LedgerInv == LedgerTyped /\ ReadsStand /\ FrozenRowsAgree /\ RevisionsLinked
OutboxInv == OutboxTyped /\ WorkerTyped /\ HandedOff /\ RoutedOnce

-----------------------------------------------------------------------------
(* Sequences of events *)

LEMMA LatestIsRecorded ==
  ASSUME LedgerTyped, NEW k \in Identity
  PROVE  /\ ledger[k] \in Seq(Content) /\ DOMAIN ledger[k] = 1..Len(ledger[k])
         /\ Len(ledger[k]) \in Nat
         /\ Latest(k) = Absent <=> ledger[k] = <<>>
         /\ Latest(k) # Absent => Latest(k) \in Recorded(k)
         /\ Recorded(k) \subseteq Content
<1>1. ledger[k] \in Seq(Content) /\ Len(ledger[k]) \in Nat
      /\ DOMAIN ledger[k] = 1..Len(ledger[k])
  BY LenProperties DEF LedgerTyped
<1>2. \A i \in 1..Len(ledger[k]) : ledger[k][i] \in Content
  BY <1>1
<1>3. CASE ledger[k] = <<>>
  BY <1>1, <1>2, <1>3 DEF Latest, Recorded
<1>4. CASE ledger[k] # <<>>
  <2>1. Len(ledger[k]) \in 1..Len(ledger[k])
    BY <1>1, <1>4, EmptySeq
  <2> QED BY <1>1, <1>2, <1>4, <2>1, EventAssumption DEF Latest, Recorded
<1> QED BY <1>3, <1>4

LEMMA AppendToEmpty ==
  ASSUME NEW c
  PROVE  Append(<<>>, c) = <<c>>
  OBVIOUS

-----------------------------------------------------------------------------
(* The ledger *)

\* Appending an event keeps every part of the ledger's invariant.
LEMMA InsertKeepsLedger ==
  ASSUME LedgerInv, NEW p \in Publisher, draft[p] # Absent, Insert(draft[p]),
         draft[p].id \in Frozen => ledger[draft[p].id] = <<>>
  PROVE  /\ ledger' \in [Identity -> Seq(Content)]
         /\ link' \in [Event -> Content \cup {Absent}]
         /\ \A k \in Identity : Recorded(k) \subseteq Recorded(k)'
         /\ \A k \in Identity \ {draft[p].id} : ledger'[k] = ledger[k]
         /\ draft[p].id \in Frozen => ledger'[draft[p].id] = <<draft[p].content>>
         /\ RevisionsLinked'
<1> DEFINE d == draft[p]
           n == Len(ledger[d.id])
           e == <<d.id, d.content>>
<1>1. d \in [id: Identity, content: Content, previous: Content \cup {Absent}]
  BY DEF LedgerInv, LedgerTyped
<1>2. LedgerTyped /\ d.id \in Identity /\ d.content \in Content /\ e \in Event
  BY <1>1 DEF LedgerInv, Event
<1>3. ledger[d.id] \in Seq(Content) /\ DOMAIN ledger[d.id] = 1..n /\ n \in Nat
  BY <1>2, LatestIsRecorded
<1>4. CASE d.content \in Recorded(d.id)
  <2>1. ledger' = ledger /\ link' = link
    BY <1>4 DEF Insert
  <2>2. ledger[d.id] # <<>>
    BY <1>3, <1>4 DEF Recorded
  <2>3. RevisionsLinked'
    BY <2>1 DEF LedgerInv, RevisionsLinked
  <2>4. \A k \in Identity : Recorded(k)' = Recorded(k)
    BY <2>1 DEF Recorded
  <2> QED BY <1>2, <2>1, <2>2, <2>3, <2>4 DEF LedgerTyped
<1>5. CASE d.content \notin Recorded(d.id)
  <2>1. /\ ledger' = [ledger EXCEPT ![d.id] = Append(@, d.content)]
        /\ link' = [link EXCEPT ![e] = Revises(d)]
    BY <1>5 DEF Insert
  <2>2. /\ ledger'[d.id] = Append(ledger[d.id], d.content)
        /\ \A k \in Identity \ {d.id} : ledger'[k] = ledger[k]
        /\ ledger' \in [Identity -> Seq(Content)]
    BY <1>2, <1>3, <2>1 DEF LedgerTyped
  <2>3. /\ DOMAIN ledger'[d.id] = 1..(n + 1)
        /\ \A i \in 1..n : ledger'[d.id][i] = ledger[d.id][i]
        /\ ledger'[d.id][n + 1] = d.content
    BY <1>2, <1>3, <2>2, AppendProperties
  <2>4. \A k \in Identity : Recorded(k) \subseteq Recorded(k)'
    <3> SUFFICES ASSUME NEW k \in Identity, NEW c \in Recorded(k)
                 PROVE  c \in Recorded(k)'
      OBVIOUS
    <3>1. CASE k # d.id
      BY <2>2, <3>1 DEF Recorded
    <3>2. CASE k = d.id
      <4>1. PICK i \in 1..n : c = ledger[k][i]
        BY <1>3, <3>2 DEF Recorded
      <4>2. i \in DOMAIN ledger'[k] /\ ledger'[k][i] = c
        BY <1>3, <2>3, <3>2, <4>1
      <4> QED BY <4>2 DEF Recorded
    <3> QED BY <3>1, <3>2
  <2>5. Revises(d) \in Content \cup {Absent}
    BY <1>1, <1>2, LatestIsRecorded DEF Revises
  <2>6. /\ link' \in [Event -> Content \cup {Absent}]
        /\ link'[e] = Revises(d)
        /\ \A f \in Event : f # e => link'[f] = link[f]
    BY <1>2, <2>1, <2>5 DEF LedgerTyped
  <2>7. d.id \in Frozen => ledger'[d.id] = <<d.content>>
    BY <1>2, <2>2, AppendToEmpty
  <2>8. ASSUME NEW k \in Identity, NEW i \in DOMAIN ledger'[k]
        PROVE  /\ i = 1 => link'[<<k, ledger'[k][i]>>] = Absent
               /\ i > 1 => \E j \in 1..(i - 1) : link'[<<k, ledger'[k][i]>>] = ledger'[k][j]
    <3>1. CASE k # d.id
      <4>1. ledger'[k] = ledger[k] /\ \A c : <<k, c>> # e
        BY <2>2, <3>1
      <4>2. ledger[k][i] \in Content /\ i \in DOMAIN ledger[k]
        BY <1>2, <4>1, LatestIsRecorded DEF Recorded
      <4>3. link'[<<k, ledger[k][i]>>] = link[<<k, ledger[k][i]>>]
        BY <2>6, <4>1, <4>2 DEF Event
      <4>4. /\ i = 1 => link[<<k, ledger[k][i]>>] = Absent
            /\ i > 1 => \E j \in 1..(i - 1) : link[<<k, ledger[k][i]>>] = ledger[k][j]
        BY <4>2 DEF LedgerInv, RevisionsLinked
      <4> QED BY <4>1, <4>3, <4>4
    <3>2. CASE k = d.id /\ i \in 1..n
      <4>1. \A j \in 1..n : ledger'[k][j] = ledger[k][j]
        BY <2>3, <3>2
      <4>2. ledger[k][i] \in Recorded(k) /\ ledger[k][i] \in Content
        BY <1>2, <1>3, <3>2, LatestIsRecorded DEF Recorded
      <4>3. link'[<<k, ledger[k][i]>>] = link[<<k, ledger[k][i]>>]
        BY <1>5, <2>6, <3>2, <4>2 DEF Event
      <4>4. /\ i = 1 => link[<<k, ledger[k][i]>>] = Absent
            /\ i > 1 => \E j \in 1..(i - 1) : link[<<k, ledger[k][i]>>] = ledger[k][j]
        BY <1>3, <3>2 DEF LedgerInv, RevisionsLinked
      <4>5. i \in Nat /\ \A j \in 1..(i - 1) : j \in 1..n
        BY <1>3, <3>2
      <4> QED BY <3>2, <4>1, <4>3, <4>4, <4>5
    <3>3. CASE k = d.id /\ i = n + 1
      <4>1. link'[<<k, ledger'[k][i]>>] = Revises(d)
        BY <2>3, <2>6, <3>3
      <4>2. CASE n = 0
        <5>1. ledger[d.id] = <<>> /\ Recorded(d.id) = {}
          BY <1>3, <4>2, EmptySeq DEF Recorded
        <5>2. d.previous = Absent /\ Latest(d.id) = Absent
          BY <5>1, <1>2, LatestIsRecorded DEF LedgerInv, ReadsStand
        <5> QED BY <2>3, <3>3, <4>1, <4>2, <5>2 DEF Revises
      <4>3. CASE n # 0
        <5>1. Latest(d.id) \in Recorded(d.id)
          BY <1>2, <1>3, <4>3, LatestIsRecorded, EmptySeq
        <5>2. Revises(d) \in Recorded(d.id)
          BY <5>1 DEF Revises, LedgerInv, ReadsStand
        <5>3. PICK j \in 1..n : Revises(d) = ledger[d.id][j]
          BY <1>3, <5>2 DEF Recorded
        <5>4. j \in 1..(i - 1) /\ i # 1
          BY <1>3, <3>3, <4>3, <5>3
        <5> QED BY <2>3, <3>3, <4>1, <5>3, <5>4
      <4> QED BY <4>2, <4>3
    <3>4. i \in 1..(n + 1) \/ k # d.id
      BY <2>3
    <3>5. k # d.id \/ (k = d.id /\ i \in 1..n) \/ (k = d.id /\ i = n + 1)
      BY <1>3, <3>4
    <3> QED BY <3>1, <3>2, <3>3, <3>5
  <2>9. RevisionsLinked'
    BY <2>8 DEF RevisionsLinked
  <2> QED BY <2>2, <2>4, <2>6, <2>7, <2>9
<1> QED BY <1>4, <1>5
-----------------------------------------------------------------------------
(* Every step keeps the ledger's invariant *)

\* The worker's side never touches the ledger.
LedgerSteps == \E p \in Publisher :
  Write(p) \/ Abandon(p) \/ \E k \in Identity, c \in Content : ReadLatest(p, k, c)

LEMMA WriteKeepsLedger ==
  ASSUME LedgerInv, NEW p \in Publisher, Write(p)
  PROVE  LedgerInv'
<1> DEFINE d == draft[p]
<1>1. /\ d \in [id: Identity, content: Content, previous: Content \cup {Absent}]
      /\ draft[p] # Absent /\ Publish(d) /\ draft' = [draft EXCEPT ![p] = Absent]
  BY DEF LedgerInv, LedgerTyped, Write
<1>2. d.id \in Identity /\ d.content \in Content /\ LedgerTyped
  BY <1>1 DEF LedgerInv
<1>3. \A q \in Publisher : draft'[q] = draft[q] \/ draft'[q] = Absent
  BY <1>1 DEF LedgerInv, LedgerTyped
<1>4. draft' \in [Publisher -> {Absent} \cup
                     [id: Identity, content: Content, previous: Content \cup {Absent}]]
  BY <1>1, <1>2 DEF LedgerTyped
<1>5. CASE row' = row /\ ledger' = ledger /\ link' = link
  <2>1. LedgerTyped'
    BY <1>2, <1>4, <1>5 DEF LedgerTyped
  <2>2. ReadsStand'
    BY <1>3, <1>5 DEF LedgerInv, ReadsStand, Recorded
  <2> QED BY <1>5, <2>1, <2>2 DEF LedgerInv, FrozenRowsAgree, RevisionsLinked
<1>6. CASE /\ row' = [row EXCEPT ![d.id] = d.content]
           /\ d.id \in Frozen => row[d.id] = Absent
  <2>1. d.id \in Frozen => ledger[d.id] = <<>> /\ d.previous = Absent
    <3>1. d.id \in Frozen => ledger[d.id] = <<>>
      BY <1>6 DEF LedgerInv, FrozenRowsAgree
    <3>2. ledger[d.id] = <<>> => Recorded(d.id) = {}
      BY EmptySeq DEF Recorded
    <3> QED BY <1>1, <3>1, <3>2 DEF LedgerInv, ReadsStand
  <2>2. /\ row' \in [Identity -> Content \cup {Absent}]
        /\ row'[d.id] = d.content
        /\ \A k \in Identity \ {d.id} : row'[k] = row[k]
    BY <1>2, <1>6 DEF LedgerTyped
  <2>3. CASE d.previous = d.content
    <3>1. ledger' = ledger /\ link' = link
      BY <1>1, <1>6, <2>3, EventAssumption, <1>2 DEF Publish, Insert, LedgerTyped
    <3>2. d.id \notin Frozen
      BY <1>2, <2>1, <2>3, EventAssumption
    <3>3. FrozenRowsAgree'
      BY <2>2, <3>1, <3>2, EventAssumption DEF LedgerInv, FrozenRowsAgree
    <3>4. ReadsStand'
      BY <1>3, <3>1 DEF LedgerInv, ReadsStand, Recorded
    <3> QED BY <1>2, <1>4, <2>2, <3>1, <3>3, <3>4 DEF LedgerInv, LedgerTyped, RevisionsLinked
  <2>4. CASE Insert(d)
    <3>1. /\ ledger' \in [Identity -> Seq(Content)]
          /\ link' \in [Event -> Content \cup {Absent}]
          /\ \A k \in Identity : Recorded(k) \subseteq Recorded(k)'
          /\ \A k \in Identity \ {d.id} : ledger'[k] = ledger[k]
          /\ d.id \in Frozen => ledger'[d.id] = <<d.content>>
          /\ RevisionsLinked'
      BY <1>1, <2>1, <2>4, InsertKeepsLedger
    <3>2. FrozenRowsAgree'
      <4>1. ASSUME NEW k \in Frozen, k = d.id
            PROVE  ledger'[k] = IF row'[k] = Absent THEN <<>> ELSE <<row'[k]>>
        BY <1>2, <2>2, <3>1, <4>1, EventAssumption
      <4>2. ASSUME NEW k \in Frozen, k # d.id
            PROVE  ledger'[k] = IF row'[k] = Absent THEN <<>> ELSE <<row'[k]>>
        <5>1. k \in Identity \ {d.id}
          BY <4>2, EventAssumption
        <5>2. ledger[k] = IF row[k] = Absent THEN <<>> ELSE <<row[k]>>
          BY DEF LedgerInv, FrozenRowsAgree
        <5> QED BY <2>2, <3>1, <5>1, <5>2
      <4> QED BY <4>1, <4>2 DEF FrozenRowsAgree
    <3>3. ReadsStand'
      BY <1>1, <1>3, <3>1 DEF LedgerInv, LedgerTyped, ReadsStand
    <3> QED BY <1>4, <2>2, <3>1, <3>2, <3>3 DEF LedgerInv, LedgerTyped
  <2> QED BY <1>1, <1>6, <2>3, <2>4 DEF Publish
<1> QED BY <1>1, <1>5, <1>6 DEF Publish

\* What a draft has read is in the chain of its key, and every link precedes the
\* event that has it, in every reachable state.
THEOREM LedgerIsSound == Spec => []LedgerInv
<1>1. Init => LedgerInv
  <2> SUFFICES ASSUME Init PROVE LedgerInv
    OBVIOUS
  <2>1. \A k \in Identity : ledger[k] = <<>> /\ row[k] = Absent /\ DOMAIN ledger[k] = {}
    BY EmptySeq DEF Init
  <2>2. LedgerTyped /\ ReadsStand
    BY EmptySeq DEF Init, LedgerTyped, ReadsStand
  <2>3. FrozenRowsAgree /\ RevisionsLinked
    BY <2>1, EventAssumption DEF FrozenRowsAgree, RevisionsLinked
  <2> QED BY <2>2, <2>3 DEF LedgerInv
<1>2. LedgerInv /\ [Next]_vars => LedgerInv'
  <2> SUFFICES ASSUME LedgerInv, [Next]_vars PROVE LedgerInv'
    OBVIOUS
  <2>1. CASE UNCHANGED <<ledgerVars, draft>>
    <3>1. UNCHANGED <<row, ledger, link, draft>>
      BY <2>1 DEF ledgerVars
    <3>2. LedgerTyped' /\ FrozenRowsAgree'
      BY <3>1 DEF LedgerInv, LedgerTyped, FrozenRowsAgree
    <3>3. ReadsStand'
      BY <3>1 DEF LedgerInv, ReadsStand, Recorded
    <3>4. RevisionsLinked'
      BY <3>1 DEF LedgerInv, RevisionsLinked
    <3> QED BY <3>2, <3>3, <3>4 DEF LedgerInv
  <2>2. ASSUME NEW p \in Publisher, Write(p) PROVE LedgerInv'
    BY <2>2, WriteKeepsLedger
  <2>3. ASSUME NEW p \in Publisher, Abandon(p) PROVE LedgerInv'
    <3>1. UNCHANGED <<row, ledger, link>> /\ draft' = [draft EXCEPT ![p] = Absent]
      BY <2>3 DEF Abandon, ledgerVars
    <3>2. LedgerTyped' /\ FrozenRowsAgree'
      BY <3>1 DEF LedgerInv, LedgerTyped, FrozenRowsAgree
    <3>3. ReadsStand'
      <4>1. \A q \in Publisher : draft'[q] # Absent => draft'[q] = draft[q]
        BY <3>1 DEF LedgerInv, LedgerTyped
      <4> QED BY <3>1, <4>1 DEF LedgerInv, ReadsStand, Recorded
    <3>4. RevisionsLinked'
      BY <3>1 DEF LedgerInv, RevisionsLinked
    <3> QED BY <3>2, <3>3, <3>4 DEF LedgerInv
  <2>4. ASSUME NEW p \in Publisher, NEW k \in Identity, NEW c \in Content, ReadLatest(p, k, c)
        PROVE  LedgerInv'
    <3> DEFINE d == [id |-> k, content |-> c, previous |-> Latest(k)]
    <3>1. UNCHANGED <<row, ledger, link>> /\ draft' = [draft EXCEPT ![p] = d]
      BY <2>4 DEF ReadLatest, ledgerVars
    <3>2. LedgerTyped
      BY DEF LedgerInv
    <3>3. Latest(k) # Absent => Latest(k) \in Recorded(k) /\ Latest(k) \in Content
      BY <3>2, LatestIsRecorded
    <3>4. d \in [id: Identity, content: Content, previous: Content \cup {Absent}]
      BY <3>3
    <3>5. LedgerTyped'
      BY <3>1, <3>2, <3>4 DEF LedgerTyped
    <3>6. \A q \in Publisher : draft'[q] = draft[q] \/ draft'[q] = d
      BY <3>1, <3>2 DEF LedgerTyped
    <3>7. ReadsStand'
      BY <3>1, <3>3, <3>6 DEF LedgerInv, ReadsStand, Recorded
    <3> QED BY <3>1, <3>5, <3>7 DEF LedgerInv, FrozenRowsAgree, RevisionsLinked
  <2>5. LedgerSteps \/ UNCHANGED <<ledgerVars, draft>>
    BY DEF Next, LedgerSteps, vars, Process, Crash, Restart, Claim, LeaseLapses, Route,
           RouteFails, GiveBack, GiveUp
  <2> QED BY <2>1, <2>2, <2>3, <2>4, <2>5 DEF LedgerSteps
<1> QED BY <1>1, <1>2, PTL DEF Spec

\* The chain of revisions of an identity is never broken.
THEOREM RevisionChain == Spec => []RevisionsLinked
  BY LedgerIsSound, PTL DEF LedgerInv

\* No event of an insert-only source contradicts the row that was frozen.
THEOREM FrozenEvents == Spec => []FrozenRowsAgree
  BY LedgerIsSound, PTL DEF LedgerInv

-----------------------------------------------------------------------------
(* Every step keeps the outbox's invariant *)

\* A new event's row is opened, and it was not there before.
LEMMA WriteKeepsOutbox ==
  ASSUME LedgerInv, OutboxInv, NEW p \in Publisher, Write(p)
  PROVE  OutboxInv'
<1>0. PICK d \in [id: Identity, content: Content, previous: Content \cup {Absent}] : d = draft[p]
  BY DEF LedgerInv, LedgerTyped, Write
<1> DEFINE e == <<d.id, d.content>>
<1>1. /\ d.id \in Identity /\ d.content \in Content /\ e \in Event /\ LedgerTyped
      /\ Publish(d) /\ routed' = routed /\ pc' = pc /\ at' = at
  BY <1>0 DEF LedgerInv, Write, workerVars, Event
<1>2. CASE ledger' = ledger /\ outbox' = outbox
  BY <1>1, <1>2 DEF OutboxInv, OutboxTyped, WorkerTyped, HandedOff, RoutedOnce, Recorded, Event
<1>3. CASE Insert(d) /\ d.content \notin Recorded(d.id)
  <2>1. /\ ledger' = [ledger EXCEPT ![d.id] = Append(@, d.content)]
        /\ outbox' = [outbox EXCEPT ![e] = "open"]
    BY <1>3 DEF Insert
  <2>2. outbox[e] = "none" /\ routed[e] = 0
    BY <1>1, <1>3 DEF OutboxInv, HandedOff, RoutedOnce
  <2>3. /\ outbox' \in [Event -> {"none", "open"} \cup Settled]
        /\ outbox'[e] = "open"
        /\ \A f \in Event \ {e} : outbox'[f] = outbox[f]
    BY <1>1, <2>1 DEF OutboxInv, OutboxTyped
  <2>4. RoutedOnce'
    BY <1>1, <2>2, <2>3 DEF OutboxInv, RoutedOnce
  <2>5. HandedOff'
    <3>1. Recorded(d.id)' = Recorded(d.id) \cup {d.content}
      <4> DEFINE n == Len(ledger[d.id])
      <4>1. ledger[d.id] \in Seq(Content) /\ DOMAIN ledger[d.id] = 1..n /\ n \in Nat
        BY <1>1, LatestIsRecorded
      <4>2. ledger'[d.id] = Append(ledger[d.id], d.content)
        BY <1>1, <2>1 DEF LedgerTyped
      <4>3. /\ DOMAIN ledger'[d.id] = 1..(n + 1)
            /\ \A i \in 1..n : ledger'[d.id][i] = ledger[d.id][i]
            /\ ledger'[d.id][n + 1] = d.content
        BY <1>1, <4>1, <4>2, AppendProperties
      <4>4. ASSUME NEW c PROVE c \in Recorded(d.id)' <=> c \in Recorded(d.id) \/ c = d.content
        <5>1. c \in Recorded(d.id)' <=> \E i \in 1..(n + 1) : c = ledger'[d.id][i]
          BY <4>3 DEF Recorded
        <5>2. c \in Recorded(d.id) <=> \E i \in 1..n : c = ledger[d.id][i]
          BY <4>1 DEF Recorded
        <5>3. \A i \in 1..(n + 1) : i \in 1..n \/ i = n + 1
          BY <4>1
        <5>4. 1..n \subseteq 1..(n + 1) /\ n + 1 \in 1..(n + 1)
          BY <4>1
        <5> QED BY <4>3, <5>1, <5>2, <5>3, <5>4
      <4> QED BY <4>4
    <3>2. \A k \in Identity \ {d.id} : Recorded(k)' = Recorded(k)
      BY <1>1, <2>1 DEF LedgerTyped, Recorded
    <3>3. ASSUME NEW k \in Identity, NEW c \in Content
          PROVE  (outbox'[<<k, c>>] = "none") <=> c \notin Recorded(k)'
      <4>1. <<k, c>> \in Event /\ (<<k, c>> = e <=> k = d.id /\ c = d.content)
        BY DEF Event
      <4>2. (outbox[<<k, c>>] = "none") <=> c \notin Recorded(k)
        BY DEF OutboxInv, HandedOff
      <4>3. CASE k = d.id
        BY <1>1, <2>3, <3>1, <4>1, <4>2, <4>3
      <4>4. CASE k # d.id
        BY <2>3, <3>2, <4>1, <4>2, <4>4
      <4> QED BY <4>3, <4>4
    <3> QED BY <3>3 DEF HandedOff
  <2> QED BY <1>1, <2>3, <2>4, <2>5 DEF OutboxInv, OutboxTyped, WorkerTyped
<1> QED BY <1>1, <1>2, <1>3 DEF Publish, Insert

\* A worker gives up its own claim only, and completes a row it still holds.
LEMMA SettleKeepsOutbox ==
  ASSUME OutboxInv, NEW w \in Worker, NEW e \in Event, NEW state \in {"open", "failed"},
         UNCHANGED ledgerVars, Return(w), outbox[e] = "open",
         \/ Release(e, state) /\ routed' = routed
         \/ Release(e, "completed") /\ routed' = [routed EXCEPT ![e] = @ + 1]
  PROVE  OutboxInv'
<1>1. /\ ledger' = ledger /\ pc' = [pc EXCEPT ![w] = "idle"] /\ at' = [at EXCEPT ![w] = Absent]
  BY DEF ledgerVars, Return
<1>2. OutboxTyped /\ WorkerTyped /\ HandedOff /\ RoutedOnce
  BY DEF OutboxInv
<1>3. WorkerTyped'
  BY <1>1, <1>2 DEF WorkerTyped
<1>4. /\ \A k \in Identity : Recorded(k)' = Recorded(k)
      /\ \A k \in Identity, c \in Content : <<k, c>> \in Event
  BY <1>1 DEF Recorded, Event
<1>5. CASE Release(e, state) /\ routed' = routed
  <2>1. /\ outbox' \in [Event -> {"none", "open"} \cup Settled]
        /\ outbox'[e] = state
        /\ \A f \in Event \ {e} : outbox'[f] = outbox[f]
    BY <1>2, <1>5 DEF Release, OutboxTyped, Settled
  <2>2. HandedOff'
    BY <1>2, <1>4, <2>1 DEF HandedOff
  <2>3. RoutedOnce'
    BY <1>2, <1>5, <2>1 DEF RoutedOnce
  <2> QED BY <1>2, <1>3, <1>5, <2>1, <2>2, <2>3 DEF OutboxInv, OutboxTyped
<1>6. CASE Release(e, "completed") /\ routed' = [routed EXCEPT ![e] = @ + 1]
  <2>1. /\ outbox' \in [Event -> {"none", "open"} \cup Settled]
        /\ outbox'[e] = "completed"
        /\ \A f \in Event \ {e} : outbox'[f] = outbox[f]
    BY <1>2, <1>6 DEF Release, OutboxTyped, Settled
  <2>2. /\ routed' \in [Event -> Nat]
        /\ routed'[e] = routed[e] + 1
        /\ \A f \in Event \ {e} : routed'[f] = routed[f]
    BY <1>2, <1>6 DEF OutboxTyped
  <2>3. HandedOff'
    BY <1>2, <1>4, <2>1 DEF HandedOff
  <2>4. RoutedOnce'
    BY <1>2, <2>1, <2>2 DEF RoutedOnce
  <2> QED BY <1>3, <2>1, <2>2, <2>3, <2>4 DEF OutboxInv, OutboxTyped
<1> QED BY <1>5, <1>6

LEMMA SameOutbox ==
  ASSUME OutboxInv, UNCHANGED <<ledger, outbox, routed>>, WorkerTyped'
  PROVE  OutboxInv'
  BY DEF OutboxInv, OutboxTyped, HandedOff, RoutedOnce, Recorded

LEMMA OutboxIsSound == Spec => []OutboxInv
<1>1. Init => OutboxInv
  <2> SUFFICES ASSUME Init PROVE OutboxInv
    OBVIOUS
  <2>1. \A k \in Identity : Recorded(k) = {}
    BY EmptySeq DEF Init, Recorded
  <2> QED BY <2>1 DEF Init, OutboxInv, OutboxTyped, WorkerTyped, HandedOff, RoutedOnce, Event
<1>2. LedgerInv /\ OutboxInv /\ [Next]_vars => OutboxInv'
  <2> SUFFICES ASSUME LedgerInv, OutboxInv, [Next]_vars PROVE OutboxInv'
    OBVIOUS
  <2> USE DEF outboxVars, workerVars, ledgerVars
  <2>0. WorkerTyped
    BY DEF OutboxInv
  <2>1. ASSUME NEW p \in Publisher, Write(p) PROVE OutboxInv'
    BY <2>1, WriteKeepsOutbox
  <2>2. ASSUME NEW p \in Publisher, Abandon(p) PROVE OutboxInv'
    BY <2>0, <2>2, SameOutbox DEF Abandon, WorkerTyped
  <2>3. ASSUME NEW p \in Publisher, NEW k \in Identity, NEW c \in Content, ReadLatest(p, k, c)
        PROVE  OutboxInv'
    BY <2>0, <2>3, SameOutbox DEF ReadLatest, WorkerTyped
  <2>4. ASSUME NEW w \in Worker, Route(w) PROVE OutboxInv'
    <3>1. at[w] \in Event
      BY <2>0, <2>4 DEF Route, WorkerTyped
    <3> QED BY <2>4, <3>1, SettleKeepsOutbox DEF Route, Holds
  <2>5. ASSUME NEW w \in Worker, RouteFails(w) PROVE OutboxInv'
    BY <2>0, <2>5, SameOutbox DEF RouteFails, WorkerTyped
  <2>6. ASSUME NEW w \in Worker, GiveBack(w) PROVE OutboxInv'
    <3>1. at[w] \in Event
      BY <2>0, <2>6 DEF GiveBack, WorkerTyped
    <3>2. CASE Holds(w)
      <4> DEFINE state == IF try[w] >= MaxAttempts THEN "failed" ELSE "open"
      <4>1. /\ state \in {"open", "failed"} /\ outbox[at[w]] = "open" /\ Return(w)
            /\ Release(at[w], state) /\ routed' = routed /\ UNCHANGED ledgerVars
        BY <2>6, <3>2 DEF GiveBack, Holds
      <4> QED BY <3>1, <4>1, SettleKeepsOutbox
    <3>3. CASE ~Holds(w)
      BY <2>0, <2>6, <3>3, SameOutbox DEF GiveBack, Return, WorkerTyped
    <3> QED BY <3>2, <3>3
  <2>7. ASSUME NEW w \in Worker, GiveUp(w) PROVE OutboxInv'
    BY <2>0, <2>7, SameOutbox DEF GiveUp, Return, WorkerTyped
  <2>8. ASSUME NEW w \in Worker, Crash(w) PROVE OutboxInv'
    BY <2>0, <2>8, SameOutbox DEF Crash, WorkerTyped
  <2>9. ASSUME NEW w \in Worker, Restart(w) PROVE OutboxInv'
    BY <2>0, <2>9, SameOutbox DEF Restart, WorkerTyped
  <2>10. ASSUME NEW w \in Worker, NEW e \in Event, Claim(w, e) PROVE OutboxInv'
    BY <2>0, <2>10, SameOutbox DEF Claim, WorkerTyped
  <2>11. ASSUME NEW e \in Event, LeaseLapses(e) PROVE OutboxInv'
    BY <2>0, <2>11, SameOutbox DEF LeaseLapses, WorkerTyped
  <2>12. CASE UNCHANGED vars
    BY <2>0, <2>12, SameOutbox DEF vars, WorkerTyped
  <2> QED BY <2>1, <2>2, <2>3, <2>4, <2>5, <2>6, <2>7, <2>8, <2>9, <2>10, <2>11, <2>12
          DEF Next, Process
<1> QED BY <1>1, <1>2, LedgerIsSound, PTL DEF Spec

\* Each event's routing is committed once, when its outbox row is completed.
THEOREM RoutingIsExactlyOnce == Spec => []RoutedOnce
  BY OutboxIsSound, PTL DEF OutboxInv

-----------------------------------------------------------------------------
(* Claims and attempts *)

ClaimsTyped ==
  /\ claimedBy \in [Event -> Worker \cup {Nobody}]
  /\ lease \in [Event -> BOOLEAN]
  /\ attempts \in [Event -> 0..MaxAttempts]
  /\ try \in [Worker -> 0..MaxAttempts]
  /\ crashes \in 0..MaxCrashes
  /\ lapses \in 0..MaxLapses

\* An attempt is counted at most up to the limit it is compared with.
LEMMA CountedInBounds ==
  ASSUME NEW n \in 0..MaxAttempts
  PROVE  Counted(n) \in 0..MaxAttempts
  BY LimitAssumption DEF Counted

LEMMA ClaimsStep == OutboxInv /\ ClaimsTyped /\ [Next]_vars => ClaimsTyped'
<1> SUFFICES ASSUME OutboxInv, ClaimsTyped, [Next]_vars PROVE ClaimsTyped'
  OBVIOUS
<1> USE LimitAssumption DEF ClaimsTyped
<1>1. ASSUME NEW p \in Publisher,
             Write(p) \/ Abandon(p) \/ \E k \in Identity, c \in Content : ReadLatest(p, k, c)
      PROVE ClaimsTyped'
  BY <1>1 DEF Write, Abandon, ReadLatest, outboxVars, workerVars
<1>2. ASSUME NEW w \in Worker, Process(w) PROVE ClaimsTyped'
  <2>1. CASE RouteFails(w)
    BY <2>1 DEF RouteFails, outboxVars
  <2>2. CASE Return(w)
    <3>1. UNCHANGED outboxVars => ClaimsTyped'
      BY <2>2 DEF Return, outboxVars
    <3>2. ASSUME NEW state, Release(at[w], state) PROVE ClaimsTyped'
      <4>1. claimedBy' \in [Event -> Worker \cup {Nobody}] /\ attempts' \in [Event -> 0..MaxAttempts]
        BY <3>2 DEF Release
      <4>2. lease' \in [Event -> BOOLEAN]
        BY <3>2 DEF Release
      <4>3. /\ try' \in [Worker -> 0..MaxAttempts]
            /\ crashes' \in 0..MaxCrashes /\ lapses' \in 0..MaxLapses
        BY <2>2 DEF Return
      <4> QED BY <4>1, <4>2, <4>3
    <3> QED BY <1>2, <2>1, <3>1, <3>2 DEF Process, Route, GiveBack, GiveUp
  <2> QED BY <1>2, <2>1, <2>2 DEF Process, Route, GiveBack, GiveUp
<1>3. ASSUME NEW w \in Worker, Crash(w) \/ Restart(w) PROVE ClaimsTyped'
  BY <1>3 DEF Crash, Restart, outboxVars
<1>4. ASSUME NEW w \in Worker, NEW e \in Event, Claim(w, e) PROVE ClaimsTyped'
  <2>1. attempts[e] \in 0..MaxAttempts /\ Counted(attempts[e]) \in 0..MaxAttempts
    BY CountedInBounds
  <2> QED BY <1>4, <2>1 DEF Claim
<1>5. ASSUME NEW e \in Event, LeaseLapses(e) PROVE ClaimsTyped'
  BY <1>5 DEF LeaseLapses
<1>6. CASE UNCHANGED vars
  BY <1>6 DEF vars, outboxVars, workerVars
<1> QED BY <1>1, <1>2, <1>3, <1>4, <1>5, <1>6 DEF Next

LEMMA ClaimsAreTyped == Spec => []ClaimsTyped
<1>1. Init => ClaimsTyped
  BY LimitAssumption DEF Init, ClaimsTyped
<1> QED BY <1>1, ClaimsStep, OutboxIsSound, PTL DEF Spec

\* Every variable keeps its type, whatever the number of each kind of process.
THEOREM TypeCorrect == Spec => []TypeOK
<1>1. LedgerInv /\ OutboxInv /\ ClaimsTyped => TypeOK
  BY DEF LedgerInv, LedgerTyped, OutboxInv, OutboxTyped, WorkerTyped, ClaimsTyped, TypeOK
<1> QED BY <1>1, LedgerIsSound, OutboxIsSound, ClaimsAreTyped, PTL

\* A step changes only the row of a claim that is still open, or opens a row
\* that was not there.
LEMMA SettledStays ==
  ASSUME LedgerInv, OutboxInv, ClaimsTyped, [Next]_vars, NEW e \in Event, outbox[e] \in Settled
  PROVE  /\ outbox'[e] = outbox[e] /\ routed'[e] = routed[e]
         /\ attempts'[e] = attempts[e] /\ claimedBy'[e] = claimedBy[e]
<1> DEFINE Kept == /\ outbox'[e] = outbox[e] /\ routed'[e] = routed[e]
                   /\ attempts'[e] = attempts[e] /\ claimedBy'[e] = claimedBy[e]
<1>0. OutboxTyped /\ ClaimsTyped /\ outbox[e] \notin {"none", "open"}
  BY DEF OutboxInv, Settled
<1>1. ASSUME NEW p \in Publisher, Write(p) PROVE Kept
  <2>0. PICK d \in [id: Identity, content: Content, previous: Content \cup {Absent}] :
               d = draft[p]
    BY <1>1 DEF LedgerInv, LedgerTyped, Write
  <2>1. Publish(d) /\ UNCHANGED <<claimedBy, attempts, routed>>
    BY <1>1, <2>0 DEF Write
  <2>2. CASE outbox' = outbox
    BY <2>1, <2>2
  <2>3. CASE d.content \notin Recorded(d.id) /\ outbox' = [outbox EXCEPT ![<<d.id, d.content>>] = "open"]
    <3>1. outbox[<<d.id, d.content>>] = "none"
      BY <2>3 DEF OutboxInv, HandedOff
    <3> QED BY <1>0, <2>1, <2>3, <3>1 DEF OutboxTyped
  <2> QED BY <2>1, <2>2, <2>3 DEF Publish, Insert
<1>2. ASSUME NEW p \in Publisher,
             Abandon(p) \/ \E k \in Identity, c \in Content : ReadLatest(p, k, c)
      PROVE Kept
  BY <1>2 DEF Abandon, ReadLatest, outboxVars
<1>3. ASSUME NEW w \in Worker, Process(w) PROVE Kept
  <2>1. CASE UNCHANGED <<outboxVars, routed>>
    BY <2>1 DEF outboxVars
  <2>2. ASSUME NEW state, Holds(w), Release(at[w], state),
               routed' = routed \/ routed' = [routed EXCEPT ![at[w]] = @ + 1]
        PROVE Kept
    <3>1. at[w] # e
      BY <1>0, <2>2 DEF Holds
    <3> QED BY <1>0, <2>2, <3>1 DEF Release, OutboxTyped, ClaimsTyped
  <2> QED BY <1>3, <2>1, <2>2 DEF Process, Route, RouteFails, GiveBack, GiveUp
<1>4. ASSUME NEW w \in Worker, Crash(w) \/ Restart(w) PROVE Kept
  BY <1>4 DEF Crash, Restart, outboxVars
<1>5. ASSUME NEW w \in Worker, NEW f \in Event, Claim(w, f) PROVE Kept
  <2>1. f # e
    BY <1>0, <1>5 DEF Claim, Claimable
  <2> QED BY <1>0, <1>5, <2>1 DEF Claim, ClaimsTyped
<1>6. ASSUME NEW f \in Event, LeaseLapses(f) PROVE Kept
  BY <1>6 DEF LeaseLapses
<1>7. CASE UNCHANGED vars
  BY <1>7 DEF vars, outboxVars
<1> QED BY <1>1, <1>2, <1>3, <1>4, <1>5, <1>6, <1>7 DEF Next

\* A completed or failed row is settled for good: claims, late workers and
\* republished contents leave it alone.
THEOREM SettledStaysSettled == Spec => SettledIsFinal
<1> DEFINE Final ==
      \A e \in Event : outbox[e] \in Settled =>
        /\ outbox'[e] = outbox[e] /\ routed'[e] = routed[e]
        /\ attempts'[e] = attempts[e] /\ claimedBy'[e] = claimedBy[e]
<1>1. LedgerInv /\ OutboxInv /\ ClaimsTyped /\ [Next]_vars => [Final]_vars
  BY SettledStays
<1>2. Spec => [][Final]_vars
  <2> HIDE DEF Final
  <2> QED BY <1>1, LedgerIsSound, OutboxIsSound, ClaimsAreTyped, PTL DEF Spec
<1> QED BY <1>2 DEF SettledIsFinal
=============================================================================
