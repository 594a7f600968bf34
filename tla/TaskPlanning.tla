----------------------------- MODULE TaskPlanning -----------------------------
(***************************************************************************)
(* The decomposition of an issue into a task graph                         *)
(* (internal/service/planner.go, pkg/taskgraph/store.go,                   *)
(* internal/handler/auto_decompose.go and task_graph.go).                  *)
(*                                                                         *)
(* A request looks for a graph, asks a language model for a plan, and then *)
(* writes the nodes and the edges one statement at a time, in no           *)
(* transaction, while the graph is shown and edited and the issue can be   *)
(* deleted.  One issue; the model may answer with any of Plan.             *)
(***************************************************************************)
EXTENDS Naturals, FiniteSets, Sequences

CONSTANTS
    Planner,         \* requests to decompose the issue
    Plan,            \* what the model may answer: sequences of nodes, each a record of
                     \* its type, whether it is described, and the indices it depends
                     \* on, in the order and as often as the answer names them
    MaxNodes,        \* what validateDAG allows
    MaxTouches       \* bound: changes to nodes by users

ASSUME PlanningAssumption ==
    /\ Plan \subseteq Seq([type : STRING, told : BOOLEAN, needs : Seq(Nat)])
    /\ MaxNodes \in Nat \ {0} /\ MaxTouches \in Nat

VARIABLES
    goal,            \* the issue: "described", "blank" or "deleted"
    nodes,           \* task_graph_nodes
    edges,           \* task_graph_edges
    planning,        \* [Planner -> how far the request is, whether it said ?force=true,
                     \* the plan it was given, the next node to write and the
                     \* dependencies written]
    together,        \* history: the pairs of requests that were at work at once
    erased,          \* history: the nodes that users deleted
    touches

planningVars == <<goal, nodes, edges, planning, together, erased, touches>>

\* A node is known by the request that made it and its place in the plan.
Made(c) == {n \in nodes : n.by = c}
HasGraph == nodes # {}
IdsOf(rows) == {<<n.by, n.index>> : n \in rows}

PlanningInit ==
    /\ goal = "described"
    /\ nodes = {} /\ edges = {} /\ together = {} /\ erased = {} /\ touches = 0
    /\ planning = [c \in Planner |-> [at |-> "new", force |-> FALSE, plan |-> <<>>,
                                     next |-> 1, linked |-> {}]]

\* validateDAG: the size, and of every node the type, the description, and dependencies
\* that exist and are not the node itself; not that they are free of cycles, nor that one
\* is named only once.
Valid(plan) ==
    /\ Len(plan) \in 1 .. MaxNodes
    /\ \A i \in DOMAIN plan :
          /\ plan[i].type \in {"executor", "synthesis"} /\ plan[i].told
          /\ \A j \in DOMAIN plan[i].needs : plan[i].needs[j] \in (DOMAIN plan) \ {i}

Answered(c, how) == planning' = [planning EXCEPT ![c].at = how]
Given(c) == planning[c].plan
AtWork(c) == planning[c].at \in {"asking", "nodes", "placing", "edges"}

-----------------------------------------------------------------------------
\* DecomposeIssue up to the call of the model.
DecomposeIssue(c, force) ==
    /\ planning[c].at = "new"
    /\ planning' = [planning EXCEPT ![c].force = force,
           ![c].at = CASE goal # "described"   -> "refused"
                       [] ~force /\ HasGraph -> "exists"
                       [] OTHER              -> "asking"]
    /\ together' = together \union {{c, d} : d \in {p \in Planner : AtWork(p)}}
    /\ UNCHANGED <<goal, nodes, edges, erased, touches>>

\* The model answers, with a plan that may be invalid, or the call fails.
ModelAnswers(c, plan) ==
    /\ planning[c].at = "asking"
    /\ IF Valid(plan)
       THEN planning' = [planning EXCEPT ![c].at = "nodes", ![c].plan = plan]
       ELSE Answered(c, "invalid")
    /\ UNCHANGED <<goal, nodes, edges, together, erased, touches>>
ModelFails(c) ==
    /\ planning[c].at = "asking"
    /\ Answered(c, "failed")
    /\ UNCHANGED <<goal, nodes, edges, together, erased, touches>>

\* createDAGNodes: the next node, and its place and agent.
CreateNode(c) ==
    /\ planning[c].at = "nodes"
    /\ IF goal = "deleted"
       THEN Answered(c, "failed") /\ UNCHANGED nodes
       ELSE /\ nodes' = nodes \union {[by |-> c, index |-> planning[c].next,
                                       placed |-> FALSE, status |-> "pending"]}
            /\ Answered(c, "placing")
    /\ UNCHANGED <<goal, edges, together, erased, touches>>

Placed(n) == [n EXCEPT !.placed = TRUE]

PlaceNode(c) ==
    LET made == {n \in Made(c) : n.index = planning[c].next}
        then == IF planning[c].next = Len(Given(c)) THEN "edges" ELSE "nodes"
    IN  /\ planning[c].at = "placing"
        /\ IF made = {}
           THEN Answered(c, "failed")
           ELSE planning' = [planning EXCEPT ![c].at = then, ![c].next = @ + 1]
        /\ nodes' = (nodes \ made) \union {Placed(n) : n \in made}
        /\ UNCHANGED <<goal, edges, together, erased, touches>>

\* createDAGEdges: for each node, in the order of the plan, each of its dependencies in
\* the order named.  A dependency is known by the node and its place among the needs.
Wanted(c) == UNION {{<<i, j>> : j \in DOMAIN Given(c)[i].needs} : i \in DOMAIN Given(c)}
Edge(c, w) == [from |-> <<c, Given(c)[w[1]].needs[w[2]]>>, to |-> <<c, w[1]>>, nth |-> w[2]]
Before(v, w) == v[1] < w[1] \/ (v[1] = w[1] /\ v[2] < w[2])
NextLinks(c) ==
    LET left == Wanted(c) \ planning[c].linked
    IN  {w \in left : \A v \in left : ~Before(v, w)}

Links(c) == {e \in edges : e.from[1] = c \/ e.to[1] = c}
Missing(e) == {e.from, e.to} \ IdsOf(nodes)

CreateEdge(c, w) ==
    /\ planning[c].at = "edges" /\ w \in NextLinks(c)
    /\ IF Missing(Edge(c, w)) # {}                   \* the foreign keys
       THEN Answered(c, "failed") /\ UNCHANGED edges
       ELSE /\ edges' = edges \union {Edge(c, w)}
            /\ planning' = [planning EXCEPT ![c].linked = @ \union {w}]
    /\ UNCHANGED <<goal, nodes, together, erased, touches>>

PlanIsMade(c) ==
    /\ planning[c].at = "edges" /\ NextLinks(c) = {}
    /\ Answered(c, "made")
    /\ UNCHANGED <<goal, nodes, edges, together, erased, touches>>

\* The server stops, or the client goes away, which cancels the context of the request:
\* what was written stays.
PlanningStops(c) ==
    /\ AtWork(c)
    /\ Answered(c, "failed")
    /\ UNCHANGED <<goal, nodes, edges, together, erased, touches>>

-----------------------------------------------------------------------------
\* Mutant: the edges of a deleted node stay.
DropsNothing(ids) == edges
\* ON DELETE CASCADE.
DropsEdges(ids) == {e \in edges : e.from \notin ids /\ e.to \notin ids}

DeleteTaskGraphNode(n) ==
    /\ n \in nodes /\ touches < MaxTouches
    /\ nodes' = nodes \ {n} /\ edges' = DropsEdges(IdsOf({n}))
    /\ erased' = erased \union IdsOf({n})
    /\ touches' = touches + 1
    /\ UNCHANGED <<goal, planning, together>>

UpdateTaskGraphNode(n, s) ==
    /\ n \in nodes /\ touches < MaxTouches
    /\ nodes' = (nodes \ {n}) \union {[n EXCEPT !.status = s]}
    /\ touches' = touches + 1
    /\ UNCHANGED <<goal, edges, planning, together, erased>>

\* UpdateIssue and DeleteIssue, as far as the graph goes.
GoalBlanked ==
    /\ goal = "described"
    /\ goal' = "blank"
    /\ UNCHANGED <<nodes, edges, planning, together, erased, touches>>
GoalDeleted ==
    /\ goal # "deleted"
    /\ goal' = "deleted"
    /\ nodes' = {} /\ edges' = {} /\ erased' = erased \union IdsOf(nodes)
    /\ UNCHANGED <<planning, together, touches>>

PlanningNext ==
    \/ \E c \in Planner :
          \/ \E force \in BOOLEAN : DecomposeIssue(c, force)
          \/ ModelFails(c) \/ PlanningStops(c)
          \/ \E plan \in Plan : ModelAnswers(c, plan)
          \/ CreateNode(c) \/ PlaceNode(c) \/ PlanIsMade(c)
          \/ planning[c].at = "edges" /\ \E e \in NextLinks(c) : CreateEdge(c, e)
    \/ \E n \in nodes : \/ DeleteTaskGraphNode(n)
                        \/ \E s \in {"running", "completed"} : UpdateTaskGraphNode(n, s)
    \/ GoalBlanked \/ GoalDeleted

PlanningSpec == PlanningInit /\ [][PlanningNext]_planningVars

-----------------------------------------------------------------------------
\* planner.go:187-205: after a request was answered with its plan, the graph has every node
\* of the plan, placed, and between them exactly the dependencies of the plan, as often as
\* they are named, but for the nodes users deleted; whatever the other requests wrote into
\* the same issue, and whatever was deleted while the request was at work.
AnsweredIsWhole ==
    \A c \in Planner : planning[c].at = "made" =>
        LET kept == {i \in DOMAIN Given(c) : <<c, i>> \notin erased}
        IN  /\ \A i \in kept : \E n \in Made(c) : n.index = i /\ n.placed
            /\ Links(c) = {Edge(c, w) : w \in {v \in Wanted(c) :
                                  Edge(c, v).from[2] \in kept /\ Edge(c, v).to[2] \in kept}}

\* planner.go:207-289: what a request has written, also one that failed or was stopped
\* halfway, is a beginning of its plan: its first nodes, and dependencies of the plan only
\* once all its nodes were written.
Written(c) == {id[2] : id \in {i \in IdsOf(nodes) \union erased : i[1] = c}}
LeftIsABeginning ==
    \A c \in Planner :
        /\ Written(c) \subseteq DOMAIN Given(c)
        /\ \A i \in Written(c), k \in DOMAIN Given(c) : k < i => k \in Written(c)
        /\ Links(c) \subseteq {Edge(c, w) : w \in Wanted(c)}
        /\ Links(c) # {} => Written(c) = DOMAIN Given(c)

\* planner.go:104-113: nodes of two plans are in one issue only where one was forced, or
\* the two requests were at work at once, the long call of the model included.
PlansAreNotMixed ==
    \A c, d \in Planner :
        c # d /\ Made(c) # {} /\ Made(d) # {} =>
            \/ planning[c].force \/ planning[d].force
            \/ {c, d} \in together

\* The graph is what the requests that wrote it were given.
GraphIsThePlan == AnsweredIsWhole /\ LeftIsABeginning /\ PlansAreNotMixed
=============================================================================
