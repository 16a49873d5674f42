------------------------------ MODULE MCService ------------------------------
(* The committed configuration and the processes that run on it, explored   *)
(* one after the other: part says which of the two a behaviour is about,    *)
(* while the other stays in its initial state.                              *)
EXTENDS SetupState, WorkerRole
CONSTANTS w1, w2, l1, r1, e1, e2, e3, a1, a2
VARIABLE part

ServiceInit == SetupInit /\ RoleInit /\ part \in {"setup", "role"}
ServiceNext ==
  /\ part' = part
  /\ \/ part = "setup" /\ SetupNext /\ UNCHANGED roleVars
     \/ part = "role" /\ RoleNext /\ UNCHANGED setupVars
serviceVars == <<setupVars, roleVars, part>>
ServiceSpec == ServiceInit /\ [][ServiceNext]_serviceVars /\ (part = "role" => RoleFairness)

\* Every variable of the two components keeps its type.
ServiceTypeOK == SetupTypeOK /\ RoleTypeOK

\* ServiceRecovers of the behaviours that are about the workers.
WorkersRecover == part = "role" => ServiceRecovers
=============================================================================
