--------------------------- MODULE MCEnvLifecycle ---------------------------
(***************************************************************************)
(* Instances of EnvLifecycle for TLC.                                      *)
(***************************************************************************)
EXTENDS EnvLifecycle, TLC

CONSTANTS h1, h2, v1

OneHost == [v \in Vms |-> h1]
TwoHosts == [v \in Vms |-> IF v = v1 THEN h1 ELSE h2]
AnyVm == Permutations(Vms)
=============================================================================
