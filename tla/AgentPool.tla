------------------------------- MODULE AgentPool -------------------------------
(***************************************************************************)
(* How queued items are handed to the daemons and what an agent's row says *)
(* of it: ClaimTaskForRuntime with its capacity check and the two writers  *)
(* of agent.status (internal/service/task.go, lifecycle_outbox.go,         *)
(* internal/handler/daemon.go), and the settings that both depend on       *)
(* (internal/handler/agent.go).                                            *)
(*                                                                         *)
(* Between a claim and its end an item does here what RunLifecycle says in *)
(* detail; every statement is a step, and nothing is held between two.     *)
(***************************************************************************)
EXTENDS Naturals, FiniteSets

CONSTANTS
    PoolAgent, Runtime, Item,
    AgentOf,         \* [Item -> PoolAgent]
    IssueOf,         \* [Item -> an issue]
    Rank,            \* [Item -> Nat]: priority DESC, created_at ASC
    Staged,          \* the items of a loop: their stage limits turns and tools
    Enforcing,       \* the runtimes whose adapter can enforce that
    Limit,           \* values of max_concurrent_tasks
    MaxAttempts,     \* [Item -> Nat]: max_attempts of the item, see RunLifecycle
    MaxEdits         \* bound: changes of an agent by its owner

ASSUME PoolAssumption ==
    /\ IsFiniteSet(Item)
    /\ AgentOf \in [Item -> PoolAgent]
    /\ Rank \in [Item -> Nat]
    /\ Limit \subseteq Nat \ {0}
    /\ MaxAttempts \in [Item -> Nat \ {0}]
    /\ MaxEdits \in Nat

VARIABLES
    agent,           \* the row: its runtime, limit and status; status "none" before it exists
    item,            \* the row: status, runtime and how often it was claimed
    untold,          \* facts about the end of a Run the outbox worker has not projected
    poll,            \* a runtime's claim request in the server: where it is, the
                     \* candidates left and the agents found without capacity
    refresh,         \* a reconciliation of one agent's status: what it has read
    unsure,          \* history: two writers of the status overlapped, one was lost,
                     \* or the owner set it
    strained,        \* history: the limit was lowered, or its items wait at two runtimes
    edits

poolVars == <<agent, item, untold, poll, refresh, unsure, strained, edits>>

\* The outbox worker and the registration of a daemon.
Writer == {"outbox", "register"}
AtRest == [at |-> "rest", rest |-> {}, full |-> {}]
NoRefresh == [at |-> "rest"]

PoolInit ==
    /\ agent = [a \in PoolAgent |-> [status |-> "none"]]
    /\ item = [i \in Item |-> [status |-> "absent", claims |-> 0]]
    /\ untold = [i \in Item |-> 0]
    /\ poll = [r \in Runtime |-> AtRest]
    /\ refresh = [w \in Writer |-> NoRefresh]
    /\ unsure = [a \in PoolAgent |-> FALSE]
    /\ strained = [a \in PoolAgent |-> FALSE]
    /\ edits = 0

-----------------------------------------------------------------------------
\* The rows of the table.
ListAgents == {a \in PoolAgent : agent[a].status # "none"}

IsActive(i) == item[i].status \in {"dispatched", "running"}
Active(a) == {i \in Item : AgentOf[i] = a /\ IsActive(i)}

\* Mutant: an item that was handed out and has not started is not counted.
CountStarted(a) == Cardinality({i \in Active(a) : item[i].status = "running"})
CountRunningTasks(a) == Cardinality(Active(a))

\* updateAgentStatus, also of the outbox worker.
UpdateAgentStatus(a, status) == agent' = [agent EXCEPT ![a].status = status]

\* ListPendingTasksByRuntime orders by priority and age: the first of those left.
Candidate(r) == CHOOSE i \in poll[r].rest : \A j \in poll[r].rest : Rank[i] <= Rank[j]

\* The writers of the status of a that are between their first read and their write.
Writing(a) ==
    {r \in Runtime : poll[r].at = "claimed" /\ AgentOf[Candidate(r)] = a}
        \union {w \in Writer : refresh[w].at # "rest" /\ refresh[w].agent = a}
Begins(a) == unsure' = [unsure EXCEPT ![a] = Writing(a) # {}]

-----------------------------------------------------------------------------
(* Settings.                                                               *)

\* The two statements that write the owner's choices into the row.
InsertAgent(a, r, n, status) ==
    agent' = [agent EXCEPT ![a] = [status |-> status, runtime |-> r, limit |-> n]]
SetAgent(a, r, n, status) ==
    agent' = [agent EXCEPT ![a].status = status, ![a].runtime = r, ![a].limit = n]

\* CreateAgent reconciles the status where the runtime is online.
CreateAgent(a, r, n, online) ==
    /\ a \notin ListAgents
    /\ InsertAgent(a, r, n, IF online THEN "idle" ELSE "offline")
    /\ UNCHANGED <<item, untold, poll, refresh, unsure, strained, edits>>

\* UpdateAgent may move the agent; items already queued stay where they are.
UpdateAgent(a, r, n, status) ==
    /\ a \in ListAgents /\ edits < MaxEdits
    /\ SetAgent(a, r, n, status)
    /\ unsure' = [unsure EXCEPT ![a] = @ \/ status # agent[a].status]
    /\ strained' = [strained EXCEPT ![a] = @ \/ n < agent[a].limit
                        \/ \E i \in Item : AgentOf[i] = a /\ item[i].status # "absent"
                                               /\ item[i].runtime # r]
    /\ edits' = edits + 1
    /\ UNCHANGED <<item, untold, poll, refresh>>

\* CreateAgentTask; a trigger checks the agent first.
Queue(i) ==
    /\ item[i].status = "absent" /\ AgentOf[i] \in ListAgents
    /\ item' = [item EXCEPT ![i] = [status |-> "queued", claims |-> 0,
                                    runtime |-> agent[AgentOf[i]].runtime]]
    /\ UNCHANGED <<agent, untold, poll, refresh, unsure, strained, edits>>

-----------------------------------------------------------------------------
(* The claim of a runtime.                                                 *)

\* ValidateExecOptions, with the limits of the stage: the only options of an item that
\* some adapter lacks.
Enforces(i, r) == i \in Staged => r \in Enforcing

\* ValidateAdapterForTaskType
Unsupported(i, r) == ~Enforces(i, r)

\* The candidates the loop still looks at.
Remaining(rest, full, r) == {i \in rest : Unsupported(i, r) \/ AgentOf[i] \notin full}
Considers(rest, full, r) ==
    IF Remaining(rest, full, r) = {} THEN AtRest
    ELSE [at |-> "looking", rest |-> Remaining(rest, full, r), full |-> full]

\* Its query also returns what is dispatched, which the loop skips.
ListPendingTasksByRuntime(r) ==
    {i \in Item : item[i].status = "queued" /\ item[i].runtime = r}

Lists(r) ==
    /\ poll[r] = AtRest
    /\ poll' = [poll EXCEPT ![r] = Considers(ListPendingTasksByRuntime(r), {}, r)]
    /\ UNCHANGED <<agent, item, untold, refresh, unsure, strained, edits>>

GoesOn(r, full) ==
    poll' = [poll EXCEPT ![r] = Considers(@.rest \ {Candidate(r)}, full, r)]

Ends(i, status) ==
    /\ item' = [item EXCEPT ![i].status = status]
    /\ untold' = [untold EXCEPT ![i] = @ + 1]

\* rejectQueuedTask; the item may be gone meanwhile.
Rejects(r) ==
    /\ poll[r].at = "looking" /\ Unsupported(Candidate(r), r)
    /\ IF item[Candidate(r)].status = "queued"
       THEN Ends(Candidate(r), "over")
       ELSE UNCHANGED <<item, untold>>
    /\ GoesOn(r, poll[r].full)
    /\ UNCHANGED <<agent, refresh, unsure, strained, edits>>

\* Mutant: one more than the limit.
HasCapacityPlus(a) == CountRunningTasks(a) <= agent[a].limit
HasCapacity(a) == CountRunningTasks(a) < agent[a].limit

\* claimTaskCandidate up to its decision.
Counts(r) ==
    /\ poll[r].at = "looking" /\ ~Unsupported(Candidate(r), r)
    /\ LET owner == AgentOf[Candidate(r)]
       IN  IF HasCapacity(owner)
           THEN poll' = [poll EXCEPT ![r].at = "counted"]
           ELSE GoesOn(r, poll[r].full \union {owner})
    /\ UNCHANGED <<agent, item, untold, refresh, unsure, strained, edits>>

\* The WHERE of ClaimAgentTaskRunByID.
Claimable(i) ==
    /\ item[i].status = "queued"
    /\ \A j \in Item : IssueOf[j] = IssueOf[i] => ~IsActive(j)

ClaimTaskCandidate(r) ==
    LET i == Candidate(r)
    IN  /\ poll[r].at = "counted"
        /\ IF Claimable(i)
           THEN /\ item' = [item EXCEPT ![i].status = "dispatched", ![i].claims = @ + 1]
                /\ poll' = [poll EXCEPT ![r] = [@ EXCEPT !.at = "claimed", !.rest = {i},
                                                         !.full = {}]]
                /\ Begins(AgentOf[i])
           ELSE GoesOn(r, poll[r].full) /\ UNCHANGED <<item, unsure>>
        /\ UNCHANGED <<agent, untold, refresh, strained, edits>>

\* The status, and the answer.
Answers(r) ==
    /\ poll[r].at = "claimed"
    /\ UpdateAgentStatus(AgentOf[Candidate(r)], "working")
    /\ poll' = [poll EXCEPT ![r] = AtRest]
    /\ UNCHANGED <<item, untold, refresh, unsure, strained, edits>>

\* The daemon gave the request up, which cancels the statements that are left.
GivenUp(r) ==
    /\ poll[r] # AtRest
    /\ poll' = [poll EXCEPT ![r] = AtRest]
    /\ unsure' = IF poll[r].at = "claimed"
                 THEN [unsure EXCEPT ![AgentOf[Candidate(r)]] = TRUE] ELSE unsure
    /\ UNCHANGED <<agent, item, untold, refresh, strained, edits>>

-----------------------------------------------------------------------------
(* What becomes of an item.                                                *)

StartTask(i) ==
    /\ item[i].status = "dispatched"
    /\ item' = [item EXCEPT ![i].status = "running"]
    /\ UNCHANGED <<agent, untold, poll, refresh, unsure, strained, edits>>

\* Mutant: nothing tells of an item that goes back to the queue.
RetriesUntold(i) == item' = [item EXCEPT ![i].status = "queued"] /\ UNCHANGED untold

\* RetryActive, and the recovery of an orphan.
Retries(i) == Ends(i, "queued")

RetryTask(i) ==
    /\ IsActive(i) /\ item[i].claims < MaxAttempts[i]
    /\ Retries(i)
    /\ UNCHANGED <<agent, poll, refresh, unsure, strained, edits>>

\* CompleteTask, FailTask and the sweeps on an active item, a cancellation on any.
EndTask(i) ==
    /\ IsActive(i) \/ item[i].status = "queued"
    /\ Ends(i, "over")
    /\ UNCHANGED <<agent, poll, refresh, unsure, strained, edits>>

-----------------------------------------------------------------------------
(* The status of an agent.                                                 *)

StartsRefresh(w, a, seen) ==
    /\ refresh[w].at = "rest"
    /\ refresh' = [refresh EXCEPT ![w] = [at |-> "listed", agent |-> a, seen |-> seen]]
    /\ Begins(a)

\* The worker projects one fact at a time; it is settled when the status is written.
Projects(i) ==
    /\ untold[i] > 0
    /\ StartsRefresh("outbox", AgentOf[i], "none")
    /\ untold' = [untold EXCEPT ![i] = @ - 1]
    /\ UNCHANGED <<agent, item, poll, strained, edits>>

\* reconcileAgentsForWorkspace lists the agents with their statuses first.
Surveys(a) ==
    /\ a \in ListAgents
    /\ StartsRefresh("register", a, agent[a].status)
    /\ UNCHANGED <<agent, item, untold, poll, strained, edits>>

ReconcileCounts(w) ==
    /\ refresh[w].at = "listed"
    /\ refresh' = [refresh EXCEPT ![w] =
           [at |-> "counted", agent |-> @.agent, seen |-> @.seen,
            status |-> IF CountRunningTasks(@.agent) > 0 THEN "working" ELSE "idle"]]
    /\ UNCHANGED <<agent, item, untold, poll, unsure, strained, edits>>

\* The registration leaves a status alone that was right when it was listed.
ReconcileWrites(w) ==
    /\ refresh[w].at = "counted"
    /\ IF refresh[w].status = refresh[w].seen
       THEN UNCHANGED agent
       ELSE UpdateAgentStatus(refresh[w].agent, refresh[w].status)
    /\ refresh' = [refresh EXCEPT ![w] = NoRefresh]
    /\ UNCHANGED <<item, untold, poll, unsure, strained, edits>>

-----------------------------------------------------------------------------
PoolNext ==
    \/ \E a \in PoolAgent, r \in Runtime, n \in Limit :
          \/ \E online \in BOOLEAN : CreateAgent(a, r, n, online)
          \/ \E status \in {agent[a].status, "error"} : UpdateAgent(a, r, n, status)
    \/ \E i \in Item : Queue(i) \/ StartTask(i) \/ RetryTask(i) \/ EndTask(i) \/ Projects(i)
    \/ \E r \in Runtime : \/ Lists(r) \/ Rejects(r) \/ Counts(r)
                          \/ ClaimTaskCandidate(r) \/ Answers(r) \/ GivenUp(r)
    \/ \E a \in PoolAgent : Surveys(a)
    \/ \E w \in Writer : ReconcileCounts(w) \/ ReconcileWrites(w)

PoolSpec == PoolInit /\ [][PoolNext]_poolVars

-----------------------------------------------------------------------------
\* task.go:151 "respecting max_concurrent_tasks": the capacity is counted in one
\* statement and the item claimed in another, by two runtimes at once; an agent whose
\* items all wait at one runtime still never works on more than its limit.
CapacityKept ==
    \A a \in ListAgents : ~strained[a] => Cardinality(Active(a)) <= agent[a].limit

\* Nobody is about to write the status of a, and no fact about its items is left.
Quiet(a) ==
    /\ Writing(a) = {}
    /\ \A i \in Item : AgentOf[i] = a => untold[i] = 0

\* ReconcileAgentStatus: once the facts about its items are projected an agent is
\* shown working exactly while an item of it is, unless two writers of its status
\* overlapped, one was cut off or the owner wrote it.
StatusTellsTheWork ==
    \A a \in PoolAgent :
        Quiet(a) /\ ~unsure[a] => (agent[a].status = "working") = (Active(a) # {})
=============================================================================
