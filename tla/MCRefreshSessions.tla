-------------------------- MODULE MCRefreshSessions --------------------------
(* RefreshSessions on small instances. *)
EXTENDS RefreshSessions, TLC

CONSTANTS c1, c2, f1, f2

MCAgentOf == [c \in {c1, c2} |-> "httpx"]

Symmetric == Permutations({c1, c2}) 
==============================================================================
