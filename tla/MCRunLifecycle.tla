--------------------------- MODULE MCRunLifecycle ---------------------------
(* Items t1 and t2 compete for issue i1, each at a runtime of its own and  *)
(* for an agent of its own, so that the sweeps and recoveries of one meet  *)
(* the item of the other in every state.                                   *)
EXTENDS RunLifecycle

CONSTANTS t1, t2, i1, a1, a2, r1, r2

\* The first item has sessions to resume, the second starts afresh each time.
OneReports == [t \in Task |-> IF t = t1 THEN 1 ELSE 0]
NoneReports == [t \in Task |-> 0]

MCIssueOf == [t \in Task |-> i1]
MCAgentOf == [t \in Task |-> IF t = t1 THEN a1 ELSE a2]
MCRuntimeOf == [t \in Task |-> IF t = t1 THEN r1 ELSE r2]
=============================================================================
