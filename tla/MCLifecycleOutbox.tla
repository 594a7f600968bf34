-------------------------- MODULE MCLifecycleOutbox --------------------------
(* Two facts of item t1: its Run r1 starts and completes, or it is failed   *)
(* by the offline sweep and requeued by a recovery (both facts then end the *)
(* trace of r1 and write its metric).                                       *)
EXTENDS LifecycleOutbox

CONSTANTS e1, e2, t1, r1, w1, w2, p1, p2

Finished == [e \in Event |-> IF e = e1 THEN "run.started" ELSE "run.completed"]
Recovered == [e \in Event |-> IF e = e1 THEN "run.failed" ELSE "run.retry_scheduled"]

\* Who claims the first fact first may be slow.
MCMaxSlow == [e \in Event |-> IF e = e1 THEN 2 ELSE 0]

MCItemOf == [e \in Event |-> t1]
OneRun == [e \in Event |-> r1]
FinishedOrRecovered == {Finished, Recovered}
=============================================================================
