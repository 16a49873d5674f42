----------------------------- MODULE RunPromise -----------------------------
(***************************************************************************)
(* What the platform promises the caller of an operation, with no word of  *)
(* jobs, leases or workers: a request is accepted once, stays pending, and *)
(* gets one outcome that never changes.  A duplicate of work in flight is  *)
(* answered as skipped at once.  Maintenance may close several at a time.  *)
(***************************************************************************)
CONSTANT Run
VARIABLE status

Outcomes == {"completed", "failed", "abandoned"}

Init == status = [r \in Run |-> "absent"]

Accept(r) ==
  /\ status[r] = "absent"
  /\ \E s \in {"pending", "skipped"} : status' = [status EXCEPT ![r] = s]

Close ==
  \E closing \in SUBSET {r \in Run : status[r] = "pending"} :
    /\ closing # {}
    /\ \E outcome \in [closing -> Outcomes] :
         status' = [r \in Run |-> IF r \in closing THEN outcome[r] ELSE status[r]]

Next == Close \/ \E r \in Run : Accept(r)

Spec == Init /\ [][Next]_status
=============================================================================
