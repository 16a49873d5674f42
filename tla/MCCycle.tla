------------------------------- MODULE MCCycle -------------------------------
(* Two cycles, a run of the processor and one of the source it depends on.   *)
EXTENDS CycleRun
CONSTANTS c1, c2, q1, q2, s1, p1

SoloRuns == [q \in Solo |-> IF q = q1 THEN p1 ELSE s1]
OneDependency == [p \in Processor |-> {s1}]
WithItsLast == [p \in Processor |-> {s1, p}]
CycleLive == CycleSpec /\ CycleFairness
=============================================================================
