----------------------------- MODULE ServerMemory -----------------------------
(***************************************************************************)
(* What the server keeps in its memory only, side by side: the pings and   *)
(* updates asked of runtimes (RuntimeRequests) and the connections of the  *)
(* web application (RealtimeHub).                                          *)
(*                                                                         *)
(* They share no variable, and one of them works while the other is in its *)
(* first state (see AgentServices).  Fairness is that of the hub: none of  *)
(* the steps it speaks of is enabled in the hub's first state.             *)
(***************************************************************************)
EXTENDS RuntimeRequests, RealtimeHub

MemoryInit == RequestsInit /\ HubInit

MemoryNext ==
    \/ HubInit /\ RequestsNext /\ UNCHANGED hubVars
    \/ RequestsInit /\ HubNext /\ UNCHANGED requestsVars

memoryVars == <<requestsVars, hubVars>>

MemorySpec == MemoryInit /\ [][MemoryNext]_memoryVars /\ HubFairness
=============================================================================
