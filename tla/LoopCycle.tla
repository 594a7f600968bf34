------------------------------- MODULE LoopCycle -------------------------------
(***************************************************************************)
(* What an Engineering Loop promises its user: the cycle of                *)
(* internal/loop/coordinator.go seen from outside.  It plans, develops and *)
(* reviews; every rejected review costs one iteration and leads to a fix   *)
(* and another review.  A user's request takes effect in two steps         *)
(* (internal/handler/loop.go): it can put the loop back where the request  *)
(* found it, never anywhere the cycle had not led.                         *)
(***************************************************************************)
EXTENDS Naturals

CONSTANTS
    MaxIterations,   \* max_iterations of the loop
    NoStage,
    User,
    NoRequest

VARIABLES
    status,          \* "pending", "running", "paused", "done", "failed", "cancelled"
    stage,           \* "plan", "develop", "review", "fix" or NoStage
    iteration,       \* fixes begun
    asked            \* the row each user's request will write

vars == <<status, stage, iteration, asked>>

Init ==
    /\ status = "pending"
    /\ stage = NoStage
    /\ iteration = 0
    /\ asked = [u \in User |-> NoRequest]

Start ==
    /\ status = "pending"
    /\ status' = "running"
    /\ stage' = "plan"
    /\ UNCHANGED <<iteration, asked>>

\* The end of the current stage begins the next one.
Advance ==
    /\ status = "running"
    /\ \/ /\ stage = "plan" /\ stage' = "develop"
          /\ UNCHANGED iteration
       \/ /\ stage \in {"develop", "fix"} /\ stage' = "review"
          /\ UNCHANGED iteration
       \/ /\ stage = "review" /\ stage' = "fix"
          /\ iteration < MaxIterations
          /\ iteration' = iteration + 1
    /\ UNCHANGED <<status, asked>>

\* Only an approved review completes the loop; anything may make it fail.
Finish ==
    /\ status = "running"
    /\ \/ status' = "done" /\ stage = "review" /\ stage' = NoStage /\ iteration' = 0
       \/ status' = "failed" /\ stage' = NoStage /\ iteration' = 0
       \/ status' = "failed" /\ UNCHANGED <<stage, iteration>>
    /\ UNCHANGED asked

\* A request finds the loop as it is.
Ask(u) ==
    /\ asked[u] = NoRequest
    /\ \E target \in {"paused", "running", "cancelled"} :
          asked' = [asked EXCEPT ![u] =
                        [status |-> target, stage |-> stage, iteration |-> iteration]]
    /\ UNCHANGED <<status, stage, iteration>>

Answer(u) ==
    /\ asked[u] # NoRequest
    /\ status' = asked[u].status
    /\ stage' = asked[u].stage
    /\ iteration' = asked[u].iteration
    /\ asked' = [asked EXCEPT ![u] = NoRequest]

\* The server restarts.
Forget ==
    /\ asked' = [u \in User |-> NoRequest]
    /\ UNCHANGED <<status, stage, iteration>>

Next ==
    \/ Start
    \/ Advance
    \/ Finish
    \/ \E u \in User : Ask(u) \/ Answer(u)
    \/ Forget

Spec == Init /\ [][Next]_vars
=============================================================================
