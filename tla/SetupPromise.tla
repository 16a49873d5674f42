---------------------------- MODULE SetupPromise ----------------------------
(***************************************************************************)
(* What the setup service promises an operator, with no word of versions,  *)
(* links or locks: edits are handled one at a time, each becomes live at   *)
(* once and as a whole, next to everything that was live before, and the   *)
(* answer says what happened to it.  Only the newest commit can be undone  *)
(* by a power loss, and never one that was answered as saved.              *)
(***************************************************************************)
CONSTANT Edit
VARIABLES live, stable, answer   \* stable is what a power loss cannot undo

Init == live = {} /\ stable = {} /\ answer = [e \in Edit |-> "none"]

Refuse(e) ==
  /\ answer[e] = "none"
  /\ answer' = [answer EXCEPT ![e] = "failed"]
  /\ UNCHANGED <<live, stable>>

Begin(e) ==
  /\ answer[e] = "none" /\ \A d \in Edit : answer[d] # "pending"
  /\ answer' = [answer EXCEPT ![e] = "pending"]
  /\ UNCHANGED <<live, stable>>

Commit(e) ==
  /\ answer[e] = "pending" /\ e \notin live /\ stable = live
  /\ live' = live \cup {e}
  /\ UNCHANGED <<stable, answer>>

Harden == stable' = live /\ UNCHANGED <<live, answer>>

\* Any request may be lost with its process; a caller who is told more than
\* that is told the truth.
Answer(e) ==
  /\ answer[e] = "pending"
  /\ \E a \in {"saved", "unsure", "failed", "lost"} :
       /\ a = "saved" => e \in live \cap stable
       /\ a = "unsure" => e \in live
       /\ a = "failed" => e \notin live \cup stable
       /\ answer' = [answer EXCEPT ![e] = a]
  /\ UNCHANGED <<live, stable>>

PowerLoss ==
  /\ \E left \in {live, stable} : live' = left /\ stable' = left
  /\ answer' = [e \in Edit |-> IF answer[e] = "pending" THEN "lost" ELSE answer[e]]

Next ==
  \/ Harden \/ PowerLoss
  \/ \E e \in Edit : Refuse(e) \/ Begin(e) \/ Commit(e) \/ Answer(e)

Spec == Init /\ [][Next]_<<live, stable, answer>>
=============================================================================
