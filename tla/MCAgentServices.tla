---------------------------- MODULE MCAgentServices ----------------------------
(* Two agents an issue may name, and two requests about it at once; of one *)
(* agent, items of two issues at two runtimes; two requests to plan an     *)
(* issue, each of which may force; one repository and two items that check *)
(* it out; three processes of the daemon, the first an old one.            *)
EXTENDS AgentServices, TLC
CONSTANTS a, b, r1, r2, i1, i2, x, y, u1, d1

\* The second agent does not answer comments.
MCOff == {<<b, "on_comment">>}
MCNaming == {{}, {a}, {a, b}, {Person}, {Everyone}}

MCAgentOf == [i \in Item |-> a]
MCIssueOf == [i \in Item |-> IF i = i1 THEN x ELSE y]
MCRank == [i \in Item |-> IF i = i1 THEN 1 ELSE 2]
MCMaxAttempts == [i \in Item |-> IF i = i1 THEN 2 ELSE 1]
MCBareOf == [z \in Url |-> d1]

Node(type, needs) == [type |-> type, told |-> TRUE, needs |-> needs]
\* A diamond, a cycle that names a dependency twice, and plans validateDAG refuses.
MCPlan == {<<Node("executor", <<>>), Node("executor", <<1>>), Node("synthesis", <<1, 2>>)>>,
           <<Node("executor", <<2, 2>>), Node("executor", <<1>>)>>,
           <<Node("planner", <<>>)>>, <<Node("executor", <<1>>)>>, <<>>,
           <<[Node("executor", <<>>) EXCEPT !.told = FALSE]>>}
=============================================================================
