----------------------------- MODULE AgentServices -----------------------------
(***************************************************************************)
(* What surrounds the agents, side by side: what makes them work on an     *)
(* issue (TaskTriggers), how items are handed out (AgentPool), how issues  *)
(* are planned (TaskPlanning), the repositories they work in (RepoCache)   *)
(* and the processes of the daemon they run under (DaemonControl).         *)
(*                                                                         *)
(* They share no variable: each keeps rows, files or processes of its own  *)
(* that the others neither read nor write, and a property of one speaks    *)
(* of its variables only.  So a behaviour of all of them is, for such a    *)
(* property, a behaviour of the one it is about; and to check them it is   *)
(* enough to let one of them work while the others are in a first state.   *)
(* ServicesNext is that union, not the interleaving of all with all.       *)
(***************************************************************************)
EXTENDS TaskTriggers, AgentPool, TaskPlanning, RepoCache, DaemonControl

ServicesInit == TriggersInit /\ PoolInit /\ PlanningInit /\ CacheInit /\ ControlInit

ServicesNext ==
    \/ /\ PoolInit /\ PlanningInit /\ CacheInit /\ ControlInit
       /\ TriggersNext
       /\ UNCHANGED <<poolVars, planningVars, cacheVars, controlVars>>
    \/ /\ TriggersInit /\ PlanningInit /\ CacheInit /\ ControlInit
       /\ PoolNext
       /\ UNCHANGED <<triggersVars, planningVars, cacheVars, controlVars>>
    \/ /\ TriggersInit /\ PoolInit /\ CacheInit /\ ControlInit
       /\ PlanningNext
       /\ UNCHANGED <<triggersVars, poolVars, cacheVars, controlVars>>
    \/ /\ TriggersInit /\ PoolInit /\ PlanningInit /\ ControlInit
       /\ CacheNext
       /\ UNCHANGED <<triggersVars, poolVars, planningVars, controlVars>>
    \/ /\ TriggersInit /\ PoolInit /\ PlanningInit /\ CacheInit
       /\ ControlNext
       /\ UNCHANGED <<triggersVars, poolVars, planningVars, cacheVars>>

servicesVars == <<triggersVars, poolVars, planningVars, cacheVars, controlVars>>

ServicesSpec == ServicesInit /\ [][ServicesNext]_servicesVars
=============================================================================
