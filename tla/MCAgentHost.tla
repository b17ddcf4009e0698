---- MODULE MCAgentHost ----
EXTENDS AgentHost, TLC
CONSTANTS v1, v2, c1

OnePort == v1 :> 1 @@ v2 :> 1 @@ c1 :> 0
TwoRanges == {{1, 2}, {2, 3}}
====
