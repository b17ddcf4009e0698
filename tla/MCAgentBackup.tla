--------------------------- MODULE MCAgentBackup ---------------------------
(***************************************************************************)
(* Instances of AgentBackup for TLC.                                       *)
(***************************************************************************)
EXTENDS AgentBackup, TLC

OneSize == {1}
TwoSizes == {1, 2}
OneClient == {"c1"}
=============================================================================
