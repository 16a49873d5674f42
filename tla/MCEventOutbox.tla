---------------------------- MODULE MCEventOutbox ----------------------------
(* The event ledger and its outbox, explored one after the other: part says  *)
(* whether a behaviour is about concurrent publications of two identities,   *)
(* or about two workers that route the event of one.                         *)
EXTENDS EventOutbox
CONSTANTS k1, k2, cA, cB, cC, p1, p2, w1, w2
VARIABLE part

PublishNext == \E p \in Publisher :
  Write(p) \/ Abandon(p) \/ \E k \in Identity, c \in Content : ReadLatest(p, k, c)
RouteNext ==
  \/ Write(p1) \/ Abandon(p1) \/ ReadLatest(p1, k1, cA)
  \/ \E w \in Worker : Process(w) \/ Crash(w) \/ Restart(w) \/ \E e \in Event : Claim(w, e)
  \/ \E e \in Event : LeaseLapses(e)

OutboxInit == Init /\ part \in {"ledger", "routing"}
OutboxNext ==
  /\ part' = part
  /\ \/ part = "ledger" /\ PublishNext
     \/ part = "routing" /\ RouteNext
outboxAndPart == <<vars, part>>
OutboxSpec == OutboxInit /\ [][OutboxNext]_outboxAndPart /\ (part = "routing" => Fairness)

\* EventsSettle of the behaviours in which workers run.
RoutedEventsSettle == part = "routing" => EventsSettle
=============================================================================
