--------------------------- MODULE MCBudgetLedger ---------------------------
(* The two ledgers of model calls, explored one after the other: the daily   *)
(* one that processors share (pairs are interchangeable), and the two of the *)
(* thesis desk with the cycle that charges them.                             *)
EXTENDS BudgetLedger, ThesisCycle, TLC

CONSTANTS p1, p2, c1, c2, c3, e1, e2, e3, e4
VARIABLE part

Symmetry == Permutations({p1, p2})

\* Two bulls and a bear of one exposure; of the evidence, e4 repeats e1.
Sides       == [c \in Candidate |-> IF c = c2 THEN "short" ELSE "long"]
OneExposure == [c \in Candidate |-> "x"]
Origins     == [i \in Item |-> IF i = e4 THEN e1 ELSE i]
Adapter     == [i \in Item |-> IF i = e2 THEN "sentiment" ELSE IF i = e3 THEN "analysis" ELSE "trend"]
Collections == {{e1, e2, e3}, {e1, e2, e3, e4}}
Full        == {e1, e2, e3}
Says(c, refs) == [key |-> c, refs |-> refs]
Debates     == {{Says(c1, Full), Says(c2, Full), Says(c3, Full)},
                {Says(c1, {e1, e4}), Says(c2, {e1, e2})}}
TwoRoles    == <<"bull", "bear">>
Shares      == [l \in Ledger |-> IF l = "generation" THEN 3 ELSE 1]

ModelInit == Init /\ DeskInit /\ part \in {"daily", "desk"}
ModelNext ==
  /\ part' = part
  /\ \/ part = "daily" /\ Next /\ UNCHANGED deskVars
     \/ part = "desk" /\ DeskNext /\ UNCHANGED vars
modelVars == <<vars, deskVars, part>>
ModelSpec == ModelInit /\ [][ModelNext]_modelVars
=============================================================================
