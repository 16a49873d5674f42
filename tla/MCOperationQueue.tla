-------------------------- MODULE MCOperationQueue --------------------------
(* Small instances of the operation lane. *)
EXTENDS OperationQueue

CONSTANTS w1, w2, r1, r2, c1, k1, win1

\* Two schedulers (or two fires of one) in the same window, and a keyed request
\* that its caller repeats under a fresh correlation id.
ScheduledRequests ==
  {[cid |-> r, comp |-> c1, key |-> Nobody, window |-> win1] : r \in {r1, r2}}
KeyedRequests ==
  {[cid |-> r, comp |-> c1, key |-> k1, window |-> Nobody] : r \in {r1, r2}}
AllRequests == ScheduledRequests \cup KeyedRequests

\* Two questions, explored one after the other: what two workers that crash make
\* of one accepted run, and what repeated acceptance makes of two.
VARIABLE part

Lane ==
  \/ \E q \in Request : q.cid = r1 /\ q.key # Nobody /\ Accept(q)
  \/ \E w \in Worker :
       \/ Handle(w) \/ PublishEvents(w) \/ Crash(w) \/ Restart(w)
       \/ \E stale \in BOOLEAN : Claim(w, r1, stale)
       \/ \E late \in SUBSET {r1} : Maintain(w, late)
  \/ LeaseLapses(r1) \/ FollowUp(r1)

\* One worker, whose process does not die.
Acceptance ==
  \/ \E q \in Request : Accept(q)
  \/ Handle(w1) \/ PublishEvents(w1)
  \/ \E r \in Run, stale \in BOOLEAN : Claim(w1, r, stale)
  \/ \E late \in SUBSET Run : Maintain(w1, late)
  \/ \E r \in Run : LeaseLapses(r) \/ FollowUp(r)

MCQueueInit == Init /\ part \in {"lane", "acceptance"}
MCQueueNext ==
  /\ part' = part
  /\ \/ part = "lane" /\ Lane
     \/ part = "acceptance" /\ Acceptance
mcQueueVars == <<vars, part>>

\* Fairness where the lane is looked at.
MCQueueFairness ==
  /\ \A w \in Worker : /\ WF_vars(part = "lane" /\ Handle(w))
                        /\ WF_vars(part = "lane" /\ Restart(w))
  /\ WF_vars(\E w \in Worker, stale \in BOOLEAN : part = "lane" /\ Claim(w, r1, stale))
  /\ WF_vars(part = "lane" /\ Unattended(r1) /\ LeaseLapses(r1))
  /\ SF_vars(\E w \in Worker : part = "lane" /\ Maintain(w, {}))
MCQueueSpec == MCQueueInit /\ [][MCQueueNext]_mcQueueVars /\ MCQueueFairness

\* AcceptedRunsClose of the behaviours in which workers crash.
LaneRunsClose == part = "lane" => AcceptedRunsClose
=============================================================================
