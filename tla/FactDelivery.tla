----------------------------- MODULE FactDelivery -----------------------------
(***************************************************************************)
(* What the delivery of lifecycle facts promises to those who read its     *)
(* rows: nothing is written about a fact before the transition it records  *)
(* is committed, each row a fact owes is written once, a fact counts as    *)
(* delivered when all that its core projection owes is there, activity and *)
(* inbox item then follow together, and a fact overtakes none of its item  *)
(* it is known to come after.  There are no workers, leases or retries     *)
(* here; a fact may be given up, and whoever was about to write one of its *)
(* rows may still do so.                                                   *)
(***************************************************************************)
EXTENDS Naturals

CONSTANTS
    Fact,            \* rows of lifecycle_outbox
    Run, NoRun,
    ItemOf,          \* Fact -> work_item_id
    RunOf            \* Fact -> run_id

VARIABLES
    owed,            \* the rows each fact calls for
    status,          \* "untold", "told", "delivered" or "abandoned"
    before,          \* pairs of facts of an item that are delivered in this order
    trace,           \* status of the trace of each Run
    comments,        \* comments of each fact
    metrics,         \* metrics of each Run
    activities,      \* entries of each fact in the activity log
    inbox            \* inbox items of each fact

rowVars == <<trace, comments, metrics, activities, inbox>>
vars == <<owed, status, before, rowVars>>

TraceEnd == {"completed", "failed", "aborted"}

\* A fact that does not end its Run's trace has no ends.
Owed == [comment : BOOLEAN, metric : BOOLEAN, ends : SUBSET TraceEnd,
         activity : BOOLEAN, inbox : BOOLEAN]

Init ==
    /\ owed \in [Fact -> Owed]
    /\ status = [f \in Fact |-> "untold"]
    /\ before = {}
    /\ trace = [r \in Run |-> "none"]
    /\ comments = [f \in Fact |-> 0]
    /\ metrics = [r \in Run |-> 0]
    /\ activities = [f \in Fact |-> 0]
    /\ inbox = [f \in Fact |-> 0]

\* The transition is committed; it may be known to come after earlier ones.
Tell(f) ==
    /\ status[f] = "untold"
    /\ status' = [status EXCEPT ![f] = "told"]
    /\ \E earlier \in SUBSET {e \in Fact : ItemOf[e] = ItemOf[f] /\ status[e] # "untold"} :
          before' = before \union (earlier \X {f})
    /\ UNCHANGED <<owed, rowVars>>

\* The rows of a fact that was told and is not delivered yet.
Writing(f) == status[f] \in {"told", "abandoned"} /\ UNCHANGED <<owed, status, before>>

BeginTrace(f) ==
    /\ Writing(f)
    /\ RunOf[f] # NoRun /\ trace[RunOf[f]] = "none"
    /\ trace' = [trace EXCEPT ![RunOf[f]] = "running"]
    /\ UNCHANGED <<comments, metrics, activities, inbox>>

FinishTrace(f) ==
    /\ Writing(f)
    /\ RunOf[f] # NoRun /\ trace[RunOf[f]] = "running"
    /\ \E s \in owed[f].ends : trace' = [trace EXCEPT ![RunOf[f]] = s]
    /\ UNCHANGED <<comments, metrics, activities, inbox>>

Comment(f) ==
    /\ Writing(f)
    /\ owed[f].comment /\ comments[f] = 0
    /\ comments' = [comments EXCEPT ![f] = 1]
    /\ UNCHANGED <<trace, metrics, activities, inbox>>

Measure(f) ==
    /\ Writing(f)
    /\ owed[f].metric /\ metrics[RunOf[f]] = 0
    /\ metrics' = [metrics EXCEPT ![RunOf[f]] = 1]
    /\ UNCHANGED <<trace, comments, activities, inbox>>

Deliver(f) ==
    /\ status[f] = "told"
    /\ \A e \in Fact : <<e, f>> \in before => status[e] \in {"delivered", "abandoned"}
    /\ owed[f].comment => comments[f] = 1
    /\ owed[f].metric => metrics[RunOf[f]] = 1
    /\ RunOf[f] # NoRun => /\ trace[RunOf[f]] # "none"
                           /\ owed[f].ends # {} => trace[RunOf[f]] \in owed[f].ends
    /\ status' = [status EXCEPT ![f] = "delivered"]
    /\ UNCHANGED <<owed, before, rowVars>>

GiveUp(f) ==
    /\ status[f] = "told"
    /\ status' = [status EXCEPT ![f] = "abandoned"]
    /\ UNCHANGED <<owed, before, rowVars>>

\* What people are told of a delivered fact.
Notify(f) ==
    /\ status[f] = "delivered"
    /\ owed[f].activity /\ activities[f] = 0
    /\ activities' = [activities EXCEPT ![f] = 1]
    /\ inbox' = [inbox EXCEPT ![f] = IF owed[f].inbox THEN 1 ELSE 0]
    /\ UNCHANGED <<owed, status, before, trace, comments, metrics>>

Next ==
    \E f \in Fact :
        \/ Tell(f)
        \/ BeginTrace(f) \/ FinishTrace(f) \/ Comment(f) \/ Measure(f)
        \/ Deliver(f) \/ GiveUp(f)
        \/ Notify(f)

Spec == Init /\ [][Next]_vars
=============================================================================
