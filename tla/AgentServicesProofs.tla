------------------------- MODULE AgentServicesProofs -------------------------
(***************************************************************************)
(* What the services around the agents promise, for any agents, runtimes,  *)
(* items and processes.  A step of all of them is a step of one while the  *)
(* others keep what is theirs, so each invariant speaks of one component.  *)
(***************************************************************************)
EXTENDS AgentServices, FiniteSetTheorems, WellFoundedInduction, TLAPS

\* Every step of the services is one of each component, or leaves it alone.
LEMMA ControlRests ==
    ASSUME [ServicesNext]_servicesVars
    PROVE  [ControlNext]_controlVars
  BY DEF ServicesNext, servicesVars, controlVars

-----------------------------------------------------------------------------
(* The processes of the daemon.                                            *)

Place == {"unborn", "new", "listening", "loading", "serving", "leaving", "left", "gone"}

ControlType ==
    /\ at \in [Process -> Place]
    /\ cancelled \subseteq Process
    /\ heir \in [Process -> Process \union {0}]
    /\ port \in Process \union {0}
    /\ shown \in BOOLEAN

\* The health port belongs to the daemon that works, until it is told to stop.
PortHeld ==
    \A p \in Process : at[p] \in {"loading", "serving"} /\ p \notin cancelled => port = p

\* Only a daemon that answers is told to stop; it leaves for no other reason, and starts
\* its heir when it has given its runtimes up.
StoppedLate ==
    \A p \in Process :
        /\ p \in cancelled => at[p] \in {"serving", "leaving", "left", "gone"}
        /\ at[p] = "leaving" => p \in cancelled
        /\ heir[p] # 0 => at[p] \in {"left", "gone"}

\* While a daemon serves that nobody overlapped, no other will say farewell.
NobodyDrains ==
    \A p \in Process :
        at[p] = "serving" /\ p \notin cancelled /\ p \notin overlapped =>
            shown /\ \A q \in Process : ~Draining(q)

ControlInv == ControlType /\ PortHeld /\ StoppedLate /\ NobodyDrains

LEMMA ZeroIsNoProcess == 0 \notin Process /\ Legacy \in Process \union {0}
  BY ControlAssumption DEF Process

LEMMA ControlFirst == ControlInit => ControlInv
<1> SUFFICES ASSUME ControlInit PROVE ControlInv
  OBVIOUS
<1>1. /\ at \in [Process -> Place]
      /\ \A p \in Process : at[p] = IF p = Legacy THEN "serving" ELSE "unborn"
  BY DEF ControlInit, Place
<1>2. cancelled = {} /\ heir = [p \in Process |-> 0] /\ port = Legacy /\ shown = (Legacy # 0)
  BY DEF ControlInit
<1> QED BY <1>1, <1>2, ZeroIsNoProcess
        DEF ControlInv, ControlType, PortHeld, StoppedLate, NobodyDrains, Draining

\* A process is in one more place; nothing else of the invariant changes but the port.
LEMMA ControlStep ==
    ASSUME ControlInv, [ControlNext]_controlVars
    PROVE  ControlInv'
<1> USE ZeroIsNoProcess DEF ControlInv, ControlType, PortHeld, StoppedLate, NobodyDrains,
        Draining, Place, controlVars
<1>1. ASSUME NEW p \in Process, WritesPidFile(p) \/ SendHeartbeat(p) \/ ClosesHealth(p)
      PROVE  ControlInv'
  BY <1>1, ZenonT(60) DEF WritesPidFile, SendHeartbeat, ClosesHealth
<1>2. ASSUME NEW p \in Process, ListenHealth(p) PROVE ControlInv'
  BY <1>2 DEF ListenHealth, ProcessEnds
<1>3. ASSUME NEW p \in Process, NEW ok \in BOOLEAN, Loads(p, ok) PROVE ControlInv'
  <2>1. CASE ok
    BY <1>3, <2>1 DEF Loads
  <2>2. CASE ~ok
    BY <1>3, <2>2 DEF Loads, ProcessEnds
  <2> QED BY <2>1, <2>2
<1>4. ASSUME NEW p \in Process, HandleUpdate(p) PROVE ControlInv'
  BY <1>4 DEF HandleUpdate
<1>5. ASSUME NEW p \in Process, PollLoopReturns(p) \/ Deregisters(p) PROVE ControlInv'
  BY <1>5 DEF PollLoopReturns, Deregisters
<1>6. ASSUME NEW p \in Process, NEW c \in Process, Spawns(p, c) PROVE ControlInv'
  BY <1>6 DEF Spawns, NextProcess, Unborn
<1>7. ASSUME NEW p \in Process, Leaves(p) \/ Dies(p) PROVE ControlInv'
  BY <1>7 DEF Leaves, Dies, ProcessEnds
<1>8. ASSUME NEW p \in Process, StartsChild(p) \/ StartForeground(p) PROVE ControlInv'
  BY <1>8 DEF StartsChild, StartForeground, NextProcess, Unborn
<1>9. ASSUME NEW p \in Answering, Terminated(p),
             UNCHANGED <<heir, port, shown, overlapped>>
      PROVE  ControlInv'
  BY <1>9 DEF Answering, Terminated
<1>10. CASE StartDaemon \/ StopDaemon
  <2>1. CASE UNCHANGED <<at, cancelled, heir, port, shown, overlapped>>
    BY <2>1
  <2> QED BY <1>9, <1>10, <2>1 DEF StartDaemon, StopDaemon
<1>11. CASE LegacyIsGone \/ RecordsChild \/ SeesDaemon \/ SeesStopped
  BY <1>11 DEF LegacyIsGone, RecordsChild, SeesDaemon, SeesStopped
<1>12. CASE UNCHANGED controlVars
  BY <1>12
<1> QED BY <1>1, <1>2, <1>3, <1>4, <1>5, <1>6, <1>7, <1>8, <1>10, <1>11, <1>12 DEF ControlNext

\* At most one process of the profile polls, and a daemon that serves is shown online,
\* but one that started while another was draining (health.go:33, daemon.go:100).
THEOREM OneDaemonWorks == ServicesSpec => []DaemonIsOne
<1>1. ServicesInit => ControlInv
  BY ControlFirst DEF ServicesInit
<1>2. ControlInv /\ [ServicesNext]_servicesVars => ControlInv'
  BY ControlRests, ControlStep
<1>3. ControlInv => DaemonIsOne
  BY DEF ControlInv, PortHeld, NobodyDrains, DaemonIsOne, OneDaemonPolls, ServingIsShown
<1> QED BY <1>1, <1>2, <1>3, PTL DEF ServicesSpec

-----------------------------------------------------------------------------
(* The rows and requests of the pool.                                      *)

LEMMA PoolRests ==
    ASSUME [ServicesNext]_servicesVars
    PROVE  [PoolNext]_poolVars
  BY DEF ServicesNext, servicesVars, poolVars

AgentStatus == {"idle", "offline", "working", "error"}
NoAgent == [status |-> "none"]
AgentRow == [status : AgentStatus, runtime : Runtime, limit : Limit]
NoItem == [status |-> "absent", claims |-> 0]
ItemRow == [status : {"queued", "dispatched", "running", "over"}, claims : Nat, runtime : Runtime]
PollRow == [at : {"rest", "looking", "counted", "claimed"}, rest : SUBSET Item,
            full : SUBSET PoolAgent]
Seen0 == AgentStatus \union {"none"}
ListedRow == [at : {"listed"}, agent : PoolAgent, seen : Seen0]
CountedRow == [at : {"counted"}, agent : PoolAgent, seen : Seen0, status : {"idle", "working"}]

PoolType ==
    /\ agent \in [PoolAgent -> AgentRow \union {NoAgent}]
    /\ item \in [Item -> ItemRow \union {NoItem}]
    /\ untold \in [Item -> Nat]
    /\ poll \in [Runtime -> PollRow]
    /\ refresh \in [Writer -> ListedRow \union CountedRow \union {NoRefresh}]
    /\ unsure \in [PoolAgent -> BOOLEAN]
    /\ strained \in [PoolAgent -> BOOLEAN]

Present(i) == item[i].status # "absent"

\* A set of numbers has a least one.
LEMMA LeastNumber ==
    ASSUME NEW T, T \subseteq Nat, T # {}
    PROVE  \E x \in T : \A y \in T : x <= y
<1>1. PICK R : R = OpToRel(<, Nat)
  OBVIOUS
<1>2. IsWellFoundedOn(R, Nat)
  BY <1>1, NatLessThanWellFounded
<1>3. \A m, n \in Nat : m < n => <<m, n>> \in R
  BY <1>1 DEF OpToRel
<1>4. PICK x \in T : \A y \in T : ~(<<y, x>> \in R)
  BY ONLY <1>2, T \subseteq Nat, T # {}, WFMin
<1>5. \A y \in T : x \in Nat /\ y \in Nat /\ ~(y < x)
  BY ONLY T \subseteq Nat, <1>3, <1>4
<1> QED BY ONLY <1>4, <1>5

\* Of the items that are left one comes first.
LEMMA CandidateIsLeft ==
    ASSUME NEW r, poll[r].rest \subseteq Item, poll[r].rest # {}
    PROVE  Candidate(r) \in poll[r].rest
<1>1. {Rank[i] : i \in poll[r].rest} \subseteq Nat /\ {Rank[i] : i \in poll[r].rest} # {}
  BY PoolAssumption
<1>2. PICK x \in {Rank[i] : i \in poll[r].rest} : \A y \in {Rank[i] : i \in poll[r].rest} : x <= y
  BY <1>1, LeastNumber
<1>3. \E i \in poll[r].rest : \A j \in poll[r].rest : Rank[i] <= Rank[j]
  BY <1>2
<1> QED BY <1>3 DEF Candidate

\* Only what is left decides who comes first.
LEMMA CandidateStays ==
    ASSUME NEW r, poll'[r].rest = poll[r].rest
    PROVE  Candidate(r)' = Candidate(r)
  BY DEF Candidate

LEMMA AgentFacts ==
    ASSUME NEW x \in AgentRow \union {NoAgent}, NEW s \in AgentStatus, x.status # "none"
    PROVE  /\ x \in AgentRow /\ [x EXCEPT !.status = s] \in AgentRow
           /\ [x EXCEPT !.status = s].status = s
           /\ [x EXCEPT !.status = s].runtime = x.runtime
           /\ [x EXCEPT !.status = s].limit = x.limit
  BY DEF AgentRow, NoAgent

LEMMA ItemFacts ==
    ASSUME NEW x \in ItemRow \union {NoItem}, x.status # "absent",
           NEW s \in {"queued", "dispatched", "running", "over"}
    PROVE  /\ x \in ItemRow /\ [x EXCEPT !.status = s] \in ItemRow
           /\ [x EXCEPT !.status = s].status = s
           /\ [x EXCEPT !.status = s].runtime = x.runtime
  BY DEF ItemRow, NoItem

\* What an end or a retry writes.
LEMMA EndsFacts ==
    ASSUME PoolType, NEW i \in Item, Present(i), NEW s \in {"queued", "over"}, Ends(i, s)
    PROVE  /\ item' \in [Item -> ItemRow \union {NoItem}]
           /\ item'[i].status = s /\ item'[i].runtime = item[i].runtime
           /\ \A j \in Item : j # i => item'[j] = item[j]
           /\ untold' \in [Item -> Nat]
           /\ untold'[i] > 0 /\ \A j \in Item : j # i => untold'[j] = untold[j]
<1>1. item[i] \in ItemRow \union {NoItem} /\ item[i].status # "absent"
  BY DEF PoolType, Present
<1>2. /\ [item[i] EXCEPT !.status = s] \in ItemRow
      /\ [item[i] EXCEPT !.status = s].status = s
      /\ [item[i] EXCEPT !.status = s].runtime = item[i].runtime
  <2>1. s \in {"queued", "dispatched", "running", "over"}
    OBVIOUS
  <2> QED BY ONLY <1>1, <2>1, ItemFacts
<1>3. item' = [item EXCEPT ![i] = [item[i] EXCEPT !.status = s]]
  BY DEF Ends, PoolType
<1> HIDE DEF Present
<1>4. /\ item' \in [Item -> ItemRow \union {NoItem}]
      /\ item'[i] = [item[i] EXCEPT !.status = s]
      /\ \A j \in Item : j # i => item'[j] = item[j]
  BY <1>2, <1>3 DEF PoolType
<1>5. /\ untold' \in [Item -> Nat] /\ untold'[i] = untold[i] + 1 /\ untold[i] \in Nat
      /\ \A j \in Item : j # i => untold'[j] = untold[j]
  BY DEF Ends, PoolType
<1> QED BY <1>2, <1>4, <1>5

\* The loop goes on with some of what was left.
LEMMA ConsidersFacts ==
    ASSUME NEW rest, rest \subseteq Item, NEW full, full \subseteq PoolAgent, NEW r
    PROVE  LET x == Considers(rest, full, r)
           IN  /\ x \in PollRow /\ x.rest \subseteq rest
               /\ x.at \in {"rest", "looking"}
               /\ x.at # "rest" => x.rest # {}
  BY DEF Considers, Remaining, AtRest, PollRow

\* Who is known to whom: facts and requests speak of items that exist, those of agents
\* that exist, and a claimed item is alone.
PoolKnown ==
    /\ \A i \in Item : untold[i] > 0 => Present(i)
    /\ \A i \in Item : Present(i) => AgentOf[i] \in ListAgents
    /\ \A w \in Writer : refresh[w].at # "rest" => refresh[w].agent \in ListAgents
    /\ \A r \in Runtime :
          /\ poll[r].at # "rest" => poll[r].rest # {}
          /\ \A i \in poll[r].rest : Present(i) /\ item[i].runtime = r

LEMMA CandidateFacts ==
    ASSUME PoolType, PoolKnown, NEW r \in Runtime, poll[r].at # "rest"
    PROVE  /\ Candidate(r) \in Item /\ Candidate(r) \in poll[r].rest
           /\ Present(Candidate(r)) /\ item[Candidate(r)].runtime = r
           /\ AgentOf[Candidate(r)] \in ListAgents /\ AgentOf[Candidate(r)] \in PoolAgent
<1>1. poll[r].rest \subseteq Item /\ poll[r].rest # {}
  BY DEF PoolType, PollRow, PoolKnown
<1>2. Candidate(r) \in poll[r].rest
  BY <1>1, CandidateIsLeft
<1> QED BY <1>1, <1>2, PoolAssumption DEF PoolKnown

\* The status of an agent that exists is written.
LEMMA StatusFacts ==
    ASSUME PoolType, NEW a \in ListAgents, NEW s \in AgentStatus, UpdateAgentStatus(a, s)
    PROVE  /\ agent' \in [PoolAgent -> AgentRow \union {NoAgent}]
           /\ agent'[a].status = s /\ agent'[a].limit = agent[a].limit
           /\ agent'[a].runtime = agent[a].runtime
           /\ \A b \in PoolAgent : b # a => agent'[b] = agent[b]
           /\ ListAgents' = ListAgents
<1>1. a \in PoolAgent /\ agent[a] \in AgentRow \union {NoAgent} /\ agent[a].status # "none"
  BY DEF ListAgents, PoolType
<1>2. /\ [agent[a] EXCEPT !.status = s] \in AgentRow
      /\ [agent[a] EXCEPT !.status = s].status = s
      /\ [agent[a] EXCEPT !.status = s].runtime = agent[a].runtime
      /\ [agent[a] EXCEPT !.status = s].limit = agent[a].limit
  BY <1>1, AgentFacts
<1>3. agent' = [agent EXCEPT ![a] = [agent[a] EXCEPT !.status = s]]
  BY DEF UpdateAgentStatus, PoolType
<1>4. /\ agent' \in [PoolAgent -> AgentRow \union {NoAgent}]
      /\ agent'[a] = [agent[a] EXCEPT !.status = s]
      /\ \A b \in PoolAgent : b # a => agent'[b] = agent[b]
  BY <1>1, <1>2, <1>3 DEF PoolType
<1>5. agent'[a].status # "none"
  BY <1>2, <1>4 DEF AgentStatus
<1> QED BY <1>1, <1>2, <1>4, <1>5 DEF ListAgents

\* The owner's choices.
LEMMA CreateFacts ==
    ASSUME PoolType, NEW a \in PoolAgent, NEW r \in Runtime, NEW n \in Limit,
           NEW online \in BOOLEAN, CreateAgent(a, r, n, online)
    PROVE  /\ agent' \in [PoolAgent -> AgentRow \union {NoAgent}]
           /\ agent'[a].status \in {"idle", "offline"}
           /\ \A b \in PoolAgent : b # a => agent'[b] = agent[b]
           /\ a \notin ListAgents /\ ListAgents' = ListAgents \union {a}
           /\ UNCHANGED <<item, untold, poll, refresh, unsure, strained>>
<1>1. agent' = [agent EXCEPT ![a] = [status |-> IF online THEN "idle" ELSE "offline",
                                     runtime |-> r, limit |-> n]]
  BY DEF CreateAgent, InsertAgent
<1>2. agent'[a] \in AgentRow /\ agent'[a].status \in {"idle", "offline"}
  BY <1>1 DEF PoolType, AgentRow, AgentStatus
<1>3. /\ agent' \in [PoolAgent -> AgentRow \union {NoAgent}]
      /\ \A b \in PoolAgent : b # a => agent'[b] = agent[b]
  BY <1>1, <1>2 DEF PoolType
<1>4. a \notin ListAgents /\ UNCHANGED <<item, untold, poll, refresh, unsure, strained>>
  BY DEF CreateAgent
<1> QED BY <1>2, <1>3, <1>4 DEF ListAgents

LEMMA UpdateFacts ==
    ASSUME PoolType, NEW a \in PoolAgent, NEW r \in Runtime, NEW n \in Limit,
           NEW status \in {agent[a].status, "error"}, UpdateAgent(a, r, n, status)
    PROVE  /\ agent' \in [PoolAgent -> AgentRow \union {NoAgent}]
           /\ agent'[a].status = status /\ agent'[a].runtime = r /\ agent'[a].limit = n
           /\ \A b \in PoolAgent : b # a => agent'[b] = agent[b]
           /\ a \in ListAgents /\ ListAgents' = ListAgents
           /\ UNCHANGED <<item, untold, poll, refresh>>
           /\ unsure' \in [PoolAgent -> BOOLEAN] /\ strained' \in [PoolAgent -> BOOLEAN]
           /\ \A b \in PoolAgent : b # a => unsure'[b] = unsure[b] /\ strained'[b] = strained[b]
           /\ ~unsure'[a] => ~unsure[a] /\ status = agent[a].status
           /\ ~strained'[a] => /\ ~strained[a] /\ ~(n < agent[a].limit)
                               /\ \A i \in Item : AgentOf[i] = a /\ Present(i) =>
                                     item[i].runtime = r
<1>1. /\ a \in ListAgents /\ SetAgent(a, r, n, status)
      /\ UNCHANGED <<item, untold, poll, refresh>>
  BY DEF UpdateAgent
<1>2. agent[a] \in AgentRow /\ status \in AgentStatus
  BY <1>1 DEF ListAgents, PoolType, AgentRow, NoAgent, AgentStatus
<1>3. \A x \in AgentRow : LET y == [x EXCEPT !.status = status, !.runtime = r, !.limit = n]
                          IN  /\ y \in AgentRow /\ y.status = status /\ y.runtime = r
                              /\ y.limit = n
  BY <1>2 DEF AgentRow
<1>4. agent' = [agent EXCEPT ![a] = [agent[a] EXCEPT !.status = status, !.runtime = r, !.limit = n]]
  BY <1>1 DEF SetAgent, PoolType
<1>5. /\ agent'[a] \in AgentRow /\ agent'[a].status = status
      /\ agent'[a].runtime = r /\ agent'[a].limit = n
  BY <1>2, <1>3, <1>4 DEF PoolType
<1>6. /\ agent' \in [PoolAgent -> AgentRow \union {NoAgent}]
      /\ \A b \in PoolAgent : b # a => agent'[b] = agent[b]
  BY <1>2, <1>3, <1>4, <1>5 DEF PoolType
<1>7. ListAgents' = ListAgents
  BY <1>1, <1>2, <1>5, <1>6 DEF ListAgents, AgentStatus
<1>8. /\ unsure' \in [PoolAgent -> BOOLEAN] /\ strained' \in [PoolAgent -> BOOLEAN]
      /\ \A b \in PoolAgent : b # a => unsure'[b] = unsure[b] /\ strained'[b] = strained[b]
      /\ ~unsure'[a] => ~unsure[a] /\ status = agent[a].status
  BY DEF UpdateAgent, PoolType
<1>9. ~strained'[a] => /\ ~strained[a] /\ ~(n < agent[a].limit)
                       /\ \A i \in Item : AgentOf[i] = a /\ Present(i) => item[i].runtime = r
  BY DEF UpdateAgent, PoolType, Present
<1> QED BY <1>1, <1>5, <1>6, <1>7, <1>8, <1>9

\* An item comes into being, or starts.
LEMMA QueueFacts ==
    ASSUME PoolType, NEW i \in Item, Queue(i)
    PROVE  /\ item' \in [Item -> ItemRow \union {NoItem}]
           /\ item[i].status = "absent" /\ AgentOf[i] \in ListAgents
           /\ item'[i].status = "queued" /\ item'[i].runtime = agent[AgentOf[i]].runtime
           /\ \A j \in Item : j # i => item'[j] = item[j]
<1>1. item[i].status = "absent" /\ AgentOf[i] \in ListAgents
  BY DEF Queue
<1>2. agent[AgentOf[i]].runtime \in Runtime
  BY <1>1 DEF ListAgents, PoolType, AgentRow, NoAgent
<1>3. item' = [item EXCEPT ![i] = [status |-> "queued", claims |-> 0,
                                   runtime |-> agent[AgentOf[i]].runtime]]
  BY DEF Queue
<1> QED BY <1>1, <1>2, <1>3 DEF PoolType, ItemRow

LEMMA StartFacts ==
    ASSUME PoolType, NEW i \in Item, StartTask(i)
    PROVE  /\ item' \in [Item -> ItemRow \union {NoItem}]
           /\ item[i].status = "dispatched" /\ item'[i].status = "running"
           /\ item'[i].runtime = item[i].runtime
           /\ \A j \in Item : j # i => item'[j] = item[j]
<1>1. item[i] \in ItemRow \union {NoItem} /\ item[i].status = "dispatched"
  BY DEF PoolType, StartTask
<1>2. /\ [item[i] EXCEPT !.status = "running"] \in ItemRow
      /\ [item[i] EXCEPT !.status = "running"].status = "running"
      /\ [item[i] EXCEPT !.status = "running"].runtime = item[i].runtime
  BY <1>1, ItemFacts
<1>3. item' = [item EXCEPT ![i] = [item[i] EXCEPT !.status = "running"]]
  BY DEF StartTask, PoolType
<1>4. /\ item' \in [Item -> ItemRow \union {NoItem}]
      /\ item'[i] = [item[i] EXCEPT !.status = "running"]
      /\ \A j \in Item : j # i => item'[j] = item[j]
  BY <1>2, <1>3 DEF PoolType
<1> QED BY <1>1, <1>2, <1>4

\* A request goes on to its next candidate.
LEMMA GoesOnFacts ==
    ASSUME PoolType, NEW r \in Runtime, NEW full, full \subseteq PoolAgent, GoesOn(r, full)
    PROVE  /\ poll' \in [Runtime -> PollRow]
           /\ poll'[r].at \in {"rest", "looking"} /\ poll'[r].rest \subseteq poll[r].rest
           /\ poll'[r].at # "rest" => poll'[r].rest # {}
           /\ \A q \in Runtime : q # r => poll'[q] = poll[q]
<1>1. poll[r].rest \ {Candidate(r)} \subseteq Item
  BY DEF PoolType, PollRow
<1>2. PICK x : x = Considers(poll[r].rest \ {Candidate(r)}, full, r)
  OBVIOUS
<1>3. /\ x \in PollRow /\ x.rest \subseteq poll[r].rest
      /\ x.at \in {"rest", "looking"} /\ (x.at # "rest" => x.rest # {})
  BY <1>1, <1>2, ConsidersFacts
<1>4. poll' = [poll EXCEPT ![r] = x]
  BY <1>2 DEF GoesOn, PoolType
<1> QED BY <1>3, <1>4 DEF PoolType

LEMMA ListsFacts ==
    ASSUME PoolType, NEW r \in Runtime, Lists(r)
    PROVE  /\ poll' \in [Runtime -> PollRow]
           /\ poll'[r].at \in {"rest", "looking"}
           /\ poll'[r].at # "rest" => poll'[r].rest # {}
           /\ \A i \in poll'[r].rest : i \in Item /\ Present(i) /\ item[i].runtime = r
           /\ \A q \in Runtime : q # r => poll'[q] = poll[q]
<1>1. PICK x : x = Considers(ListPendingTasksByRuntime(r), {}, r)
  OBVIOUS
<1>2. ListPendingTasksByRuntime(r) \subseteq Item
  BY DEF ListPendingTasksByRuntime
<1>3. /\ x \in PollRow /\ x.rest \subseteq ListPendingTasksByRuntime(r)
      /\ x.at \in {"rest", "looking"} /\ (x.at # "rest" => x.rest # {})
  BY <1>1, <1>2, ConsidersFacts
<1>4. poll' = [poll EXCEPT ![r] = x]
  BY <1>1 DEF Lists
<1> QED BY <1>3, <1>4 DEF PoolType, ListPendingTasksByRuntime, Present

\* The request rejects its candidate, which may have left the queue.
LEMMA RejectsFacts ==
    ASSUME PoolType, PoolKnown, NEW r \in Runtime, Rejects(r)
    PROVE  /\ poll[r].at = "looking" /\ GoesOn(r, poll[r].full) /\ poll[r].full \subseteq PoolAgent
           /\ \/ \E i \in Item : item[i].status = "queued" /\ Present(i) /\ Ends(i, "over")
              \/ UNCHANGED <<item, untold>>
<1>1. poll[r].at = "looking" /\ GoesOn(r, poll[r].full) /\ poll[r].full \subseteq PoolAgent
  BY DEF Rejects, PoolType, PollRow
<1>2. Candidate(r) \in Item
  BY <1>1, CandidateFacts
<1> QED BY <1>1, <1>2 DEF Rejects, Present

\* It finds capacity, or passes all items of the agent over.
LEMMA CountsFacts ==
    ASSUME PoolType, PoolKnown, NEW r \in Runtime, Counts(r)
    PROVE  /\ poll[r].at = "looking"
           /\ \/ \E full \in SUBSET PoolAgent : GoesOn(r, full)
              \/ /\ HasCapacity(AgentOf[Candidate(r)])
                 /\ poll' \in [Runtime -> PollRow]
                 /\ poll'[r].at = "counted" /\ poll'[r].rest = poll[r].rest
                 /\ \A q \in Runtime : q # r => poll'[q] = poll[q]
<1>1. poll[r].at = "looking" /\ poll[r] \in PollRow
  BY DEF Counts, PoolType
<1>2. AgentOf[Candidate(r)] \in PoolAgent
  BY <1>1, CandidateFacts
<1>3. ASSUME HasCapacity(AgentOf[Candidate(r)])
      PROVE  /\ poll' \in [Runtime -> PollRow]
             /\ poll'[r].at = "counted" /\ poll'[r].rest = poll[r].rest
             /\ \A q \in Runtime : q # r => poll'[q] = poll[q]
  <2>1. poll' = [poll EXCEPT ![r] = [poll[r] EXCEPT !.at = "counted"]]
    BY <1>3 DEF Counts, PoolType
  <2>2. /\ [poll[r] EXCEPT !.at = "counted"] \in PollRow
        /\ [poll[r] EXCEPT !.at = "counted"].at = "counted"
        /\ [poll[r] EXCEPT !.at = "counted"].rest = poll[r].rest
    BY <1>1 DEF PollRow
  <2> QED BY <2>1, <2>2 DEF PoolType
<1>4. ASSUME ~HasCapacity(AgentOf[Candidate(r)])
      PROVE  \E full \in SUBSET PoolAgent : GoesOn(r, full)
  <2>1. GoesOn(r, poll[r].full \union {AgentOf[Candidate(r)]})
    BY <1>4 DEF Counts
  <2> QED BY <1>1, <1>2, <2>1 DEF PollRow
<1> QED BY <1>1, <1>3, <1>4

\* It claims the item, or goes on.
Claims(r) ==
    /\ item' \in [Item -> ItemRow \union {NoItem}]
    /\ item'[Candidate(r)].status = "dispatched"
    /\ item'[Candidate(r)].runtime = item[Candidate(r)].runtime
    /\ \A j \in Item : j # Candidate(r) => item'[j] = item[j]
    /\ poll' \in [Runtime -> PollRow]
    /\ poll'[r].at = "claimed" /\ poll'[r].rest = {Candidate(r)}
    /\ Candidate(r)' = Candidate(r)
    /\ \A q \in Runtime : q # r => poll'[q] = poll[q]
    /\ Begins(AgentOf[Candidate(r)])

LEMMA ClaimFacts ==
    ASSUME PoolType, PoolKnown, NEW r \in Runtime, ClaimTaskCandidate(r)
    PROVE  /\ poll[r].at = "counted" /\ UNCHANGED <<agent, untold, refresh, strained>>
           /\ \/ item[Candidate(r)].status = "queued" /\ Claims(r)
              \/ /\ GoesOn(r, poll[r].full) /\ poll[r].full \subseteq PoolAgent
                 /\ UNCHANGED <<item, unsure>>
<1>1. /\ poll[r].at = "counted" /\ poll[r] \in PollRow
      /\ UNCHANGED <<agent, untold, refresh, strained>>
  BY DEF ClaimTaskCandidate, PoolType
<1>2. PICK i \in Item : i = Candidate(r) /\ Present(i)
  BY <1>1, CandidateFacts
<1>3. ASSUME Claimable(i) PROVE item[i].status = "queued" /\ Claims(r)
  <2>1. /\ item' = [item EXCEPT ![i].status = "dispatched", ![i].claims = @ + 1]
        /\ poll' = [poll EXCEPT ![r] = [@ EXCEPT !.at = "claimed", !.rest = {i}, !.full = {}]]
        /\ Begins(AgentOf[i]) /\ item[i].status = "queued"
    BY <1>2, <1>3 DEF ClaimTaskCandidate, Claimable
  <2>2. item[i] \in ItemRow
    BY <2>1 DEF PoolType, NoItem
  <2>3. PICK row : row = [item[i] EXCEPT !.status = "dispatched", !.claims = item[i].claims + 1]
    OBVIOUS
  <2>4. row \in ItemRow /\ row.status = "dispatched" /\ row.runtime = item[i].runtime
    <3>1. \A x \in ItemRow : x.claims + 1 \in Nat
      BY DEF ItemRow
    <3>2. PICK n \in Nat : n = item[i].claims + 1
      BY <2>2, <3>1
    <3>3. row = [item[i] EXCEPT !.status = "dispatched", !.claims = n]
      BY <2>3, <3>2
    <3> QED BY <2>2, <3>3 DEF ItemRow
  <2>5. item' = [item EXCEPT ![i] = row]
    BY <2>1, <2>3 DEF PoolType
  <2>6. /\ item' \in [Item -> ItemRow \union {NoItem}]
        /\ item'[i] = row /\ \A j \in Item : j # i => item'[j] = item[j]
    BY <2>4, <2>5 DEF PoolType
  <2>7. PICK p : p = [poll[r] EXCEPT !.at = "claimed", !.rest = {i}, !.full = {}]
    OBVIOUS
  <2>8. p \in PollRow /\ p.at = "claimed" /\ p.rest = {i}
    BY <1>1, <2>7 DEF PollRow
  <2>9. poll' = [poll EXCEPT ![r] = p]
    BY <2>1, <2>7 DEF PoolType
  <2>10. /\ poll' \in [Runtime -> PollRow]
         /\ poll'[r] = p /\ \A q \in Runtime : q # r => poll'[q] = poll[q]
    BY <2>8, <2>9 DEF PoolType
  <2>11. Candidate(r)' = i
    <3>1. Candidate(r)' = CHOOSE j \in {i} : \A k \in {i} : Rank[j] <= Rank[k]
      BY <2>8, <2>10 DEF Candidate
    <3>2. Rank[i] <= Rank[i]
      BY PoolAssumption
    <3> QED BY <3>1, <3>2
  <2> QED BY <1>2, <2>1, <2>4, <2>6, <2>8, <2>10, <2>11 DEF Claims
<1>4. ASSUME ~Claimable(i)
      PROVE  GoesOn(r, poll[r].full) /\ poll[r].full \subseteq PoolAgent /\ UNCHANGED <<item, unsure>>
  BY <1>1, <1>2, <1>4 DEF ClaimTaskCandidate, PollRow
<1> QED BY <1>1, <1>2, <1>3, <1>4

\* The request is over, answered or given up.
LEMMA RestFacts ==
    ASSUME PoolType, NEW r \in Runtime, poll' = [poll EXCEPT ![r] = AtRest]
    PROVE  /\ poll' \in [Runtime -> PollRow]
           /\ poll'[r].at = "rest" /\ poll'[r].rest = {}
           /\ \A q \in Runtime : q # r => poll'[q] = poll[q]
  BY DEF PoolType, PollRow, AtRest

\* A writer lists, counts and writes.
LEMMA StartsFacts ==
    ASSUME PoolType, NEW w \in Writer, NEW z \in PoolAgent, NEW seen \in Seen0,
           StartsRefresh(w, z, seen)
    PROVE  /\ refresh' \in [Writer -> ListedRow \union CountedRow \union {NoRefresh}]
           /\ refresh[w].at = "rest" /\ refresh'[w].at = "listed"
           /\ refresh'[w].agent = z /\ refresh'[w].seen = seen
           /\ \A v \in Writer : v # w => refresh'[v] = refresh[v]
           /\ Begins(z)
  BY DEF StartsRefresh, PoolType, ListedRow

LEMMA RefreshCases ==
    ASSUME PoolType, NEW w \in Writer
    PROVE  /\ refresh[w].at = "listed" => refresh[w] \in ListedRow
           /\ refresh[w].at = "counted" => refresh[w] \in CountedRow
  BY DEF PoolType, ListedRow, CountedRow, NoRefresh

LEMMA CountingFacts ==
    ASSUME PoolType, NEW w \in Writer, ReconcileCounts(w)
    PROVE  /\ refresh' \in [Writer -> ListedRow \union CountedRow \union {NoRefresh}]
           /\ refresh[w].at = "listed" /\ refresh'[w].at = "counted"
           /\ refresh'[w].agent = refresh[w].agent /\ refresh'[w].seen = refresh[w].seen
           /\ (refresh'[w].status = "working") = (CountRunningTasks(refresh[w].agent) > 0)
           /\ \A v \in Writer : v # w => refresh'[v] = refresh[v]
<1>1. refresh[w].at = "listed" /\ refresh[w] \in ListedRow
  BY RefreshCases DEF ReconcileCounts
<1>2. PICK n : n = CountRunningTasks(refresh[w].agent)
  OBVIOUS
<1>3. PICK st : st = IF n > 0 THEN "working" ELSE "idle"
  OBVIOUS
<1>4. PICK row : row = [at |-> "counted", agent |-> refresh[w].agent, seen |-> refresh[w].seen,
                        status |-> st]
  OBVIOUS
<1>5. refresh' = [refresh EXCEPT ![w] = row]
  BY <1>2, <1>3, <1>4 DEF ReconcileCounts, PoolType
<1>6. /\ row \in CountedRow /\ row.at = "counted" /\ row.agent = refresh[w].agent
      /\ row.seen = refresh[w].seen /\ (row.status = "working") = (n > 0)
  BY <1>1, <1>3, <1>4 DEF ListedRow, CountedRow
<1>7. /\ refresh' \in [Writer -> ListedRow \union CountedRow \union {NoRefresh}]
      /\ refresh'[w] = row /\ \A v \in Writer : v # w => refresh'[v] = refresh[v]
  BY <1>5, <1>6 DEF PoolType
<1> QED BY <1>1, <1>2, <1>6, <1>7

LEMMA WritesFacts ==
    ASSUME PoolType, NEW w \in Writer, ReconcileWrites(w)
    PROVE  /\ refresh' \in [Writer -> ListedRow \union CountedRow \union {NoRefresh}]
           /\ refresh[w] \in CountedRow /\ refresh[w].at = "counted"
           /\ refresh'[w].at = "rest"
           /\ \A v \in Writer : v # w => refresh'[v] = refresh[v]
           /\ \/ refresh[w].status = refresh[w].seen /\ UNCHANGED agent
              \/ UpdateAgentStatus(refresh[w].agent, refresh[w].status)
  BY RefreshCases DEF ReconcileWrites, PoolType, NoRefresh

\* Each step leaves rows and requests of their kinds.
LEMMA PoolTypeStep ==
    ASSUME PoolType, PoolKnown, [PoolNext]_poolVars
    PROVE  PoolType'
<1>1. ASSUME NEW z \in PoolAgent, NEW r \in Runtime, NEW n \in Limit,
             NEW online \in BOOLEAN, CreateAgent(z, r, n, online)
      PROVE  PoolType'
  BY <1>1, CreateFacts DEF PoolType
<1>2. ASSUME NEW z \in PoolAgent, NEW r \in Runtime, NEW n \in Limit,
             NEW status \in {agent[z].status, "error"}, UpdateAgent(z, r, n, status)
      PROVE  PoolType'
  BY <1>2, UpdateFacts DEF PoolType
<1>3. ASSUME NEW i \in Item, Queue(i) PROVE PoolType'
  BY <1>3, QueueFacts DEF Queue, PoolType
<1>4. ASSUME NEW i \in Item, StartTask(i) PROVE PoolType'
  BY <1>4, StartFacts DEF StartTask, PoolType
<1>5. ASSUME NEW i \in Item, RetryTask(i) PROVE PoolType'
  BY <1>5, EndsFacts DEF RetryTask, Retries, IsActive, Present, PoolType
<1>6. ASSUME NEW i \in Item, EndTask(i) PROVE PoolType'
  BY <1>6, EndsFacts DEF EndTask, IsActive, Present, PoolType
<1>7. ASSUME NEW i \in Item, Projects(i) PROVE PoolType'
  <2>1. AgentOf[i] \in PoolAgent /\ "outbox" \in Writer /\ "none" \in Seen0
    BY PoolAssumption DEF Writer, Seen0
  <2>2. refresh' \in [Writer -> ListedRow \union CountedRow \union {NoRefresh}]
    BY <1>7, <2>1, StartsFacts DEF Projects
  <2>3. untold' \in [Item -> Nat]
    BY <1>7 DEF Projects, PoolType
  <2> QED BY <1>7, <2>2, <2>3 DEF Projects, StartsRefresh, Begins, PoolType
<1>8. ASSUME NEW r \in Runtime, Lists(r) PROVE PoolType'
  BY <1>8, ListsFacts DEF Lists, PoolType
<1>9. ASSUME NEW r \in Runtime, Rejects(r) PROVE PoolType'
  <2>1. poll' \in [Runtime -> PollRow]
    BY <1>9, RejectsFacts, GoesOnFacts
  <2>2. item' \in [Item -> ItemRow \union {NoItem}] /\ untold' \in [Item -> Nat]
    BY <1>9, RejectsFacts, EndsFacts DEF PoolType
  <2> QED BY <1>9, <2>1, <2>2 DEF Rejects, PoolType
<1>10. ASSUME NEW r \in Runtime, Counts(r) PROVE PoolType'
  <2>1. poll' \in [Runtime -> PollRow]
    BY <1>10, CountsFacts, GoesOnFacts
  <2> QED BY <1>10, <2>1 DEF Counts, PoolType
<1>11. ASSUME NEW r \in Runtime, ClaimTaskCandidate(r) PROVE PoolType'
  <2>1. CASE Claims(r)
    BY <1>11, <2>1, ClaimFacts DEF Claims, Begins, PoolType
  <2>2. CASE GoesOn(r, poll[r].full) /\ poll[r].full \subseteq PoolAgent /\ UNCHANGED <<item, unsure>>
    BY <1>11, <2>2, ClaimFacts, GoesOnFacts DEF PoolType
  <2> QED BY <1>11, <2>1, <2>2, ClaimFacts
<1>12. ASSUME NEW r \in Runtime, Answers(r) PROVE PoolType'
  <2>1. poll[r].at = "claimed" /\ "working" \in AgentStatus
    BY <1>12 DEF Answers, AgentStatus
  <2>2. agent' \in [PoolAgent -> AgentRow \union {NoAgent}]
    BY <1>12, <2>1, CandidateFacts, StatusFacts DEF Answers
  <2> QED BY <1>12, <2>2, RestFacts DEF Answers, PoolType
<1>13. ASSUME NEW r \in Runtime, GivenUp(r) PROVE PoolType'
  <2>1. unsure' \in [PoolAgent -> BOOLEAN]
    BY <1>13 DEF GivenUp, PoolType
  <2> QED BY <1>13, <2>1, RestFacts DEF GivenUp, PoolType
<1>14. ASSUME NEW z \in PoolAgent, Surveys(z) PROVE PoolType'
  <2>1. "register" \in Writer /\ agent[z].status \in Seen0
    BY <1>14 DEF Writer, Seen0, PoolType, AgentRow, NoAgent
  <2>2. refresh' \in [Writer -> ListedRow \union CountedRow \union {NoRefresh}]
    BY <1>14, <2>1, StartsFacts DEF Surveys
  <2> QED BY <1>14, <2>2 DEF Surveys, StartsRefresh, Begins, PoolType
<1>15. ASSUME NEW w \in Writer, ReconcileCounts(w) PROVE PoolType'
  BY <1>15, CountingFacts DEF ReconcileCounts, PoolType
<1>16. ASSUME NEW w \in Writer, ReconcileWrites(w) PROVE PoolType'
  <2>1. refresh[w].status \in AgentStatus /\ refresh[w].agent \in ListAgents
    BY <1>16, WritesFacts DEF CountedRow, AgentStatus, PoolKnown
  <2>2. agent' \in [PoolAgent -> AgentRow \union {NoAgent}]
    BY <1>16, <2>1, WritesFacts, StatusFacts DEF PoolType
  <2> QED BY <1>16, <2>2, WritesFacts DEF ReconcileWrites, PoolType
<1>17. CASE UNCHANGED poolVars
  BY <1>17 DEF poolVars, PoolType
<1> QED BY <1>1, <1>2, <1>3, <1>4, <1>5, <1>6, <1>7, <1>8, <1>9, <1>10, <1>11, <1>12,
           <1>13, <1>14, <1>15, <1>16, <1>17 DEF PoolNext

\* Nothing that exists disappears.
LEMMA PoolKnownStep ==
    ASSUME PoolType, PoolKnown, [PoolNext]_poolVars
    PROVE  PoolKnown'
<1> USE DEF PoolKnown
<1>1. ASSUME NEW z \in PoolAgent, NEW r \in Runtime, NEW n \in Limit,
             NEW online \in BOOLEAN, CreateAgent(z, r, n, online)
      PROVE  PoolKnown'
  BY <1>1, CreateFacts DEF Present
<1>2. ASSUME NEW z \in PoolAgent, NEW r \in Runtime, NEW n \in Limit,
             NEW status \in {agent[z].status, "error"}, UpdateAgent(z, r, n, status)
      PROVE  PoolKnown'
  BY <1>2, UpdateFacts DEF Present
<1>3. ASSUME NEW i \in Item, Queue(i) PROVE PoolKnown'
  <2>1. UNCHANGED <<agent, untold, poll, refresh>> /\ ListAgents' = ListAgents
    BY <1>3 DEF Queue, ListAgents
  <2>2. \A j \in Item : Present(j) => Present(j)' /\ item'[j].runtime = item[j].runtime
    BY <1>3, QueueFacts DEF Present
  <2>3. \A j \in Item : Present(j)' => AgentOf[j] \in ListAgents
    BY <1>3, QueueFacts DEF Present
  <2>4. \A r \in Runtime : poll[r].rest \subseteq Item
    BY DEF PoolType, PollRow
  <2> QED BY <2>1, <2>2, <2>3, <2>4
<1>4. ASSUME NEW i \in Item, StartTask(i) PROVE PoolKnown'
  <2>1. UNCHANGED <<agent, untold, poll, refresh>> /\ ListAgents' = ListAgents
    BY <1>4 DEF StartTask, ListAgents
  <2>2. \A j \in Item : Present(j)' = Present(j) /\ item'[j].runtime = item[j].runtime
    BY <1>4, StartFacts DEF Present
  <2>3. \A r \in Runtime : poll[r].rest \subseteq Item
    BY DEF PoolType, PollRow
  <2> QED BY <2>1, <2>2, <2>3
<1>5. ASSUME NEW i \in Item, NEW s \in {"queued", "over"}, Present(i), Ends(i, s)
      PROVE  /\ \A j \in Item : Present(j)' = Present(j) /\ item'[j].runtime = item[j].runtime
             /\ \A j \in Item : untold'[j] > 0 => Present(j)
  BY <1>5, EndsFacts DEF Present
<1>6. ASSUME NEW i \in Item, RetryTask(i) \/ EndTask(i) PROVE PoolKnown'
  <2>1. UNCHANGED <<agent, poll, refresh>> /\ ListAgents' = ListAgents
    BY <1>6 DEF RetryTask, EndTask, ListAgents
  <2>2. /\ \A j \in Item : Present(j)' = Present(j) /\ item'[j].runtime = item[j].runtime
        /\ \A j \in Item : untold'[j] > 0 => Present(j)
    BY <1>5, <1>6 DEF RetryTask, Retries, EndTask, IsActive, Present
  <2>3. \A r \in Runtime : poll[r].rest \subseteq Item
    BY DEF PoolType, PollRow
  <2> QED BY <2>1, <2>2, <2>3
<1>7. ASSUME NEW i \in Item, Projects(i) PROVE PoolKnown'
  <2>1. AgentOf[i] \in PoolAgent /\ "outbox" \in Writer /\ "none" \in Seen0
    BY PoolAssumption DEF Writer, Seen0
  <2>2. /\ refresh'["outbox"].agent = AgentOf[i]
        /\ \A v \in Writer : v # "outbox" => refresh'[v] = refresh[v]
    BY <1>7, <2>1, StartsFacts DEF Projects
  <2>3. untold[i] > 0 /\ \A j \in Item : untold'[j] > 0 => untold[j] > 0
    BY <1>7 DEF Projects, PoolType
  <2>4. UNCHANGED <<agent, item, poll>>
    BY <1>7 DEF Projects
  <2> QED BY <2>2, <2>3, <2>4 DEF Present, ListAgents
<1>8. ASSUME NEW r \in Runtime, UNCHANGED <<agent, refresh>>,
             \A j \in Item : Present(j)' = Present(j) /\ item'[j].runtime = item[j].runtime,
             \A j \in Item : untold'[j] > 0 => Present(j),
             \A q \in Runtime : q # r => poll'[q] = poll[q],
             poll'[r].at # "rest" => poll'[r].rest # {},
             \A i \in poll'[r].rest : i \in Item /\ Present(i) /\ item[i].runtime = r
      PROVE  PoolKnown'
  <2>1. \A q \in Runtime : poll[q].rest \subseteq Item
    BY DEF PoolType, PollRow
  <2>2. ListAgents' = ListAgents
    BY <1>8 DEF ListAgents
  <2> HIDE DEF Present
  <2>3. \A q \in Runtime : /\ poll'[q].at # "rest" => poll'[q].rest # {}
                          /\ \A i \in poll'[q].rest : Present(i)' /\ item'[i].runtime = q
    BY <1>8, <2>1
  <2>4. \A w \in Writer : refresh'[w].at # "rest" => refresh'[w].agent \in ListAgents'
    BY <1>8, <2>2
  <2>5. /\ \A i \in Item : untold'[i] > 0 => Present(i)'
        /\ \A i \in Item : Present(i)' => AgentOf[i] \in ListAgents'
    BY <1>8, <2>2
  <2> QED BY <2>3, <2>4, <2>5
<1>9. ASSUME NEW r \in Runtime, Lists(r) PROVE PoolKnown'
  <2>1. /\ UNCHANGED <<agent, refresh, item, untold>>
        /\ \A j \in Item : untold'[j] > 0 => Present(j)
    BY <1>9 DEF Lists
  <2>2. \A j \in Item : Present(j)' = Present(j)
    BY <2>1 DEF Present
  <2> HIDE DEF PoolKnown
  <2> QED BY <1>8, <1>9, <2>1, <2>2, ListsFacts
<1>10. ASSUME NEW r \in Runtime, Rejects(r) PROVE PoolKnown'
  <2>1. /\ \A j \in Item : Present(j)' = Present(j) /\ item'[j].runtime = item[j].runtime
        /\ \A j \in Item : untold'[j] > 0 => Present(j)
    <3>1. CASE UNCHANGED <<item, untold>>
      BY <3>1 DEF Present
    <3> QED BY <1>5, <1>10, <3>1, RejectsFacts
  <2>2. UNCHANGED <<agent, refresh>>
    BY <1>10 DEF Rejects
  <2> QED BY <1>8, <1>10, <2>1, <2>2, RejectsFacts, GoesOnFacts DEF PoolType, PollRow
<1>11. ASSUME NEW r \in Runtime, Counts(r) PROVE PoolKnown'
  <2>1. UNCHANGED <<agent, refresh, item, untold>>
    BY <1>11 DEF Counts
  <2>2. /\ \A q \in Runtime : q # r => poll'[q] = poll[q]
        /\ poll'[r].at # "rest" => poll'[r].rest # {}
        /\ poll'[r].rest \subseteq poll[r].rest
    BY <1>11, CountsFacts, GoesOnFacts
  <2> QED BY <1>8, <2>1, <2>2 DEF Present, PoolType, PollRow
<1>12. ASSUME NEW r \in Runtime, ClaimTaskCandidate(r) PROVE PoolKnown'
  <2>1. poll[r].at = "counted" /\ UNCHANGED <<agent, untold, refresh>>
    BY <1>12, ClaimFacts
  <2>2. CASE Claims(r)
    <3>1. Candidate(r) \in poll[r].rest /\ Candidate(r) \in Item /\ Present(Candidate(r))
      BY <2>1, CandidateFacts
    <3>2. \A j \in Item : Present(j)' = Present(j) /\ item'[j].runtime = item[j].runtime
      BY <2>2, <3>1 DEF Claims, Present
    <3>3. /\ \A q \in Runtime : q # r => poll'[q] = poll[q]
          /\ poll'[r].rest # {} /\ poll'[r].rest \subseteq poll[r].rest
      BY <2>2, <3>1 DEF Claims
    <3> QED BY <1>8, <2>1, <3>2, <3>3 DEF PoolType, PollRow
  <2>3. CASE GoesOn(r, poll[r].full) /\ poll[r].full \subseteq PoolAgent /\ UNCHANGED <<item, unsure>>
    BY <1>8, <2>1, <2>3, GoesOnFacts DEF Present, PoolType, PollRow
  <2> QED BY <1>12, <2>2, <2>3, ClaimFacts
<1>13. ASSUME NEW r \in Runtime, poll' = [poll EXCEPT ![r] = AtRest],
             ListAgents' = ListAgents, UNCHANGED <<item, untold, refresh>>
       PROVE  PoolKnown'
  <2>1. /\ poll'[r].at = "rest" /\ poll'[r].rest = {}
        /\ \A q \in Runtime : q # r => poll'[q] = poll[q]
    BY <1>13, RestFacts
  <2>2. \A q \in Runtime : /\ poll'[q].at # "rest" => poll'[q].rest # {}
                          /\ \A i \in poll'[q].rest : Present(i)' /\ item'[i].runtime = q
    BY <1>13, <2>1 DEF Present
  <2> QED BY <1>13, <2>2 DEF Present
<1>14. ASSUME NEW r \in Runtime, Answers(r) PROVE PoolKnown'
  <2>1. poll[r].at = "claimed" /\ "working" \in AgentStatus
    BY <1>14 DEF Answers, AgentStatus
  <2>2. ListAgents' = ListAgents
    BY <1>14, <2>1, CandidateFacts, StatusFacts DEF Answers
  <2> QED BY <1>13, <1>14, <2>2 DEF Answers
<1>15. ASSUME NEW r \in Runtime, GivenUp(r) PROVE PoolKnown'
  BY <1>13, <1>15 DEF GivenUp, ListAgents
<1>16. ASSUME NEW z \in PoolAgent, Surveys(z) PROVE PoolKnown'
  <2>1. "register" \in Writer /\ agent[z].status \in Seen0
    BY <1>16 DEF Writer, Seen0, PoolType, AgentRow, NoAgent
  <2>2. /\ refresh'["register"].agent = z
        /\ \A v \in Writer : v # "register" => refresh'[v] = refresh[v]
    BY <1>16, <2>1, StartsFacts DEF Surveys
  <2> QED BY <1>16, <2>2 DEF Surveys, Present, ListAgents
<1>17. ASSUME NEW w \in Writer, ReconcileCounts(w) PROVE PoolKnown'
  BY <1>17, CountingFacts DEF ReconcileCounts, Present, ListAgents
<1>18. ASSUME NEW w \in Writer, ReconcileWrites(w) PROVE PoolKnown'
  <2>1. refresh[w].status \in AgentStatus /\ refresh[w].agent \in ListAgents
    BY <1>18, WritesFacts DEF CountedRow, AgentStatus
  <2>2. ListAgents' = ListAgents
    BY <1>18, <2>1, WritesFacts, StatusFacts DEF ListAgents
  <2> QED BY <1>18, <2>2, WritesFacts DEF ReconcileWrites, Present
<1>19. CASE UNCHANGED poolVars
  BY <1>19 DEF poolVars, Present, ListAgents
<1> QED BY <1>1, <1>2, <1>3, <1>4, <1>6, <1>7, <1>9, <1>10, <1>11, <1>12,
           <1>14, <1>15, <1>16, <1>17, <1>18, <1>19 DEF PoolNext

-----------------------------------------------------------------------------
(* The limit of an agent.                                                  *)

\* The items of an agent wait at its runtime, unless it was moved away from them.
OneQueue ==
    \A z \in ListAgents : ~strained[z] =>
        \A i \in Item : AgentOf[i] = z /\ Present(i) => item[i].runtime = agent[z].runtime

\* What a request has counted is true until it claims: no other request claims an item
\* of that agent, for none of them waits at another runtime.
CountHolds ==
    \A r \in Runtime : poll[r].at = "counted" /\ ~strained[AgentOf[Candidate(r)]] =>
        HasCapacity(AgentOf[Candidate(r)])

CapacityInv == OneQueue /\ CountHolds /\ CapacityKept

LEMMA LimitIsNumber ==
    ASSUME PoolType, NEW z \in ListAgents
    PROVE  agent[z].limit \in Nat
<1>1. agent[z] \in AgentRow \union {NoAgent} /\ agent[z].status # "none"
  BY DEF ListAgents, PoolType
<1>2. agent[z].limit \in Limit
  BY <1>1 DEF AgentRow, NoAgent
<1> QED BY <1>2, PoolAssumption

LEMMA FewerActive ==
    ASSUME NEW z, \A i \in Item : IsActive(i)' => IsActive(i)
    PROVE  /\ Cardinality(Active(z)) \in Nat /\ Cardinality(Active(z))' \in Nat
           /\ Cardinality(Active(z))' <= Cardinality(Active(z))
<1>1. IsFiniteSet(Active(z)) /\ Active(z)' \subseteq Active(z)
  BY PoolAssumption, FS_Subset DEF Active
<1> QED BY <1>1, FS_Subset, FS_CardinalityType

\* What neither moves an agent nor makes an item active keeps the limit.
LEMMA CapacityStays ==
    ASSUME PoolType, PoolKnown, CapacityInv, ListAgents' = ListAgents, strained' = strained,
           \A z \in ListAgents : /\ agent'[z].runtime = agent[z].runtime
                                 /\ agent'[z].limit = agent[z].limit,
           \A i \in Item : /\ Present(i)' = Present(i) /\ item'[i].runtime = item[i].runtime
                           /\ IsActive(i)' => IsActive(i),
           \A r \in Runtime : poll'[r].at = "counted" =>
               poll[r].at = "counted" /\ poll'[r].rest = poll[r].rest
    PROVE  CapacityInv'
<1>1. OneQueue'
  BY DEF CapacityInv, OneQueue
<1>2. \A z \in ListAgents : agent[z].limit \in Nat
  BY LimitIsNumber
<1>3. \A z \in ListAgents : /\ Cardinality(Active(z)) \in Nat /\ Cardinality(Active(z))' \in Nat
                             /\ Cardinality(Active(z))' <= Cardinality(Active(z))
  BY FewerActive
<1>4. CountHolds'
  <2> SUFFICES ASSUME NEW r \in Runtime, poll'[r].at = "counted",
                      ~strained'[AgentOf[Candidate(r)']]
               PROVE  HasCapacity(AgentOf[Candidate(r)])'
    BY DEF CountHolds
  <2>1. Candidate(r)' = Candidate(r) /\ poll[r].at = "counted"
    BY CandidateStays
  <2>2. PICK z \in ListAgents : z = AgentOf[Candidate(r)]
    BY <2>1, CandidateFacts
  <2>3. CountRunningTasks(z) < agent[z].limit
    BY <2>1, <2>2 DEF CapacityInv, CountHolds, HasCapacity
  <2>4. CountRunningTasks(z)' < agent'[z].limit
    BY <1>2, <1>3, <2>2, <2>3 DEF CountRunningTasks
  <2> QED BY <2>1, <2>2, <2>4 DEF HasCapacity, CountRunningTasks
<1>5. CapacityKept'
  BY <1>2, <1>3 DEF CapacityInv, CapacityKept
<1> QED BY <1>1, <1>4, <1>5 DEF CapacityInv

LEMMA CapacityStep ==
    ASSUME PoolType, PoolKnown, CapacityInv, [PoolNext]_poolVars
    PROVE  CapacityInv'
<1>1. ASSUME NEW z \in PoolAgent, NEW r \in Runtime, NEW n \in Limit,
             NEW online \in BOOLEAN, CreateAgent(z, r, n, online)
      PROVE  CapacityInv'
  <2>1. /\ \A y \in PoolAgent : y # z => agent'[y] = agent[y]
        /\ z \notin ListAgents /\ ListAgents' = ListAgents \union {z}
        /\ UNCHANGED <<item, untold, poll, refresh, unsure, strained>>
    BY <1>1, CreateFacts
  <2>2. \A i \in Item : AgentOf[i] = z => ~Present(i)
    BY <2>1 DEF PoolKnown
  <2>3. \A y \in ListAgents : agent'[y] = agent[y]
    BY <2>1 DEF ListAgents
  <2>4. OneQueue'
    BY <2>1, <2>2, <2>3 DEF CapacityInv, OneQueue, Present
  <2>5. \A r1 \in Runtime : Candidate(r1)' = Candidate(r1)
    BY <2>1, CandidateStays
  <2>6. \A y \in PoolAgent : Active(y)' = Active(y)
    BY <2>1 DEF Active, IsActive
  <2>7. ASSUME NEW q \in Runtime, poll[q].at = "counted", ~strained[AgentOf[Candidate(q)]]
        PROVE  HasCapacity(AgentOf[Candidate(q)])'
    <3>1. PICK y \in ListAgents : y = AgentOf[Candidate(q)] /\ y \in PoolAgent
      BY <2>7, CandidateFacts
    <3>2. Cardinality(Active(y)) < agent[y].limit
      BY <2>7, <3>1 DEF CapacityInv, CountHolds, HasCapacity, CountRunningTasks
    <3>3. Cardinality(Active(y)') < agent'[y].limit
      BY <2>3, <2>6, <3>1, <3>2
    <3> QED BY <2>5, <3>1, <3>3 DEF HasCapacity, CountRunningTasks
  <2>8. CountHolds'
    BY <2>1, <2>5, <2>7 DEF CountHolds
  <2>9. Active(z) = {} /\ Cardinality(Active(z)') = 0
    BY <2>2, <2>6, FS_EmptySet DEF Active, IsActive, Present
  <2>10. agent'[z].limit \in Nat
    BY <1>1, PoolAssumption DEF CreateAgent, InsertAgent, PoolType
  <2>11. CapacityKept'
    BY <2>1, <2>3, <2>6, <2>9, <2>10 DEF CapacityInv, CapacityKept, ListAgents
  <2> QED BY <2>4, <2>8, <2>11 DEF CapacityInv
<1>2. ASSUME NEW z \in PoolAgent, NEW r \in Runtime, NEW n \in Limit,
             NEW status \in {agent[z].status, "error"}, UpdateAgent(z, r, n, status)
      PROVE  CapacityInv'
  <2>1. /\ agent'[z].runtime = r /\ agent'[z].limit = n
        /\ \A y \in PoolAgent : y # z => agent'[y] = agent[y] /\ strained'[y] = strained[y]
        /\ z \in ListAgents /\ ListAgents' = ListAgents
        /\ UNCHANGED <<item, untold, poll, refresh>>
    BY <1>2, UpdateFacts
  <2>2. ~strained'[z] => /\ ~strained[z] /\ ~(n < agent[z].limit)
                         /\ \A i \in Item : AgentOf[i] = z /\ Present(i) => item[i].runtime = r
    BY <1>2, UpdateFacts
  <2>3. OneQueue'
    BY <2>1, <2>2 DEF CapacityInv, OneQueue, Present, ListAgents
  <2>4. \A q \in Runtime : Candidate(q)' = Candidate(q)
    BY <2>1, CandidateStays
  <2>5. \A y : Active(y)' = Active(y)
    BY <2>1 DEF Active, IsActive
  <2>6. \A y \in ListAgents : /\ agent[y].limit \in Nat /\ agent'[y].limit \in Nat
                               /\ Cardinality(Active(y)) \in Nat
    <3>1. n \in Nat
      BY PoolAssumption
    <3>2. \A y \in ListAgents : agent[y].limit \in Nat
      BY LimitIsNumber
    <3>3. \A y \in ListAgents : agent'[y].limit \in Nat
      BY <2>1, <3>1, <3>2 DEF ListAgents
    <3>4. \A i \in Item : IsActive(i)' => IsActive(i)
      BY <2>1 DEF IsActive
    <3> QED BY <3>2, <3>3, <3>4, FewerActive
  <2>7. \A y \in ListAgents : ~strained'[y] => ~strained[y] /\ agent[y].limit <= agent'[y].limit
    BY <2>1, <2>2, <2>6 DEF ListAgents
  <2>8. ASSUME NEW q \in Runtime, poll[q].at = "counted", ~strained'[AgentOf[Candidate(q)]]
        PROVE  HasCapacity(AgentOf[Candidate(q)])'
    <3>1. PICK y \in ListAgents : y = AgentOf[Candidate(q)] /\ y \in PoolAgent
      BY <2>8, CandidateFacts
    <3>2. Cardinality(Active(y)) < agent[y].limit
      BY <2>7, <2>8, <3>1 DEF CapacityInv, CountHolds, HasCapacity, CountRunningTasks
    <3>3. Cardinality(Active(y)') < agent'[y].limit
      BY <2>5, <2>6, <2>7, <2>8, <3>1, <3>2
    <3> QED BY <2>4, <3>1, <3>3 DEF HasCapacity, CountRunningTasks
  <2>9. CountHolds'
    BY <2>1, <2>4, <2>8 DEF CountHolds
  <2>10. CapacityKept'
    BY <2>1, <2>5, <2>6, <2>7 DEF CapacityInv, CapacityKept
  <2> QED BY <2>3, <2>9, <2>10 DEF CapacityInv
<1>3. ASSUME NEW i \in Item, Queue(i) PROVE CapacityInv'
  <2>1. /\ AgentOf[i] \in ListAgents /\ item[i].status = "absent"
        /\ item'[i].status = "queued" /\ item'[i].runtime = agent[AgentOf[i]].runtime
        /\ \A j \in Item : j # i => item'[j] = item[j]
    BY <1>3, QueueFacts
  <2>2. UNCHANGED <<agent, poll, strained>> /\ ListAgents' = ListAgents
    BY <1>3 DEF Queue, ListAgents
  <2>3. OneQueue'
    BY <2>1, <2>2 DEF CapacityInv, OneQueue, Present
  <2>4. \A j \in Item : IsActive(j)' = IsActive(j)
    BY <2>1 DEF IsActive
  <2>5. \A y : Active(y)' = Active(y)
    BY <2>4 DEF Active
  <2>6. \A q \in Runtime : Candidate(q)' = Candidate(q)
    BY <2>2, CandidateStays
  <2>7. CountHolds' /\ CapacityKept'
    BY <2>2, <2>5, <2>6 DEF CapacityInv, CountHolds, CapacityKept, HasCapacity, CountRunningTasks
  <2> QED BY <2>3, <2>7 DEF CapacityInv
<1>4. ASSUME NEW i \in Item, NEW s \in {"queued", "over"}, Present(i), Ends(i, s)
      PROVE  \A j \in Item : /\ Present(j)' = Present(j) /\ item'[j].runtime = item[j].runtime
                             /\ IsActive(j)' => IsActive(j)
  BY <1>4, EndsFacts DEF Present, IsActive
<1>5. ASSUME NEW i \in Item, StartTask(i) \/ RetryTask(i) \/ EndTask(i) PROVE CapacityInv'
  <2>1. UNCHANGED <<agent, poll, strained>> /\ ListAgents' = ListAgents
    BY <1>5 DEF StartTask, RetryTask, EndTask, ListAgents
  <2>2. \A j \in Item : /\ Present(j)' = Present(j) /\ item'[j].runtime = item[j].runtime
                        /\ IsActive(j)' => IsActive(j)
    <3>1. CASE StartTask(i)
      BY <3>1, StartFacts DEF Present, IsActive
    <3>2. CASE RetryTask(i) \/ EndTask(i)
      BY <1>4, <3>2 DEF RetryTask, Retries, EndTask, IsActive, Present
    <3> QED BY <1>5, <3>1, <3>2
  <2> QED BY <2>1, <2>2, CapacityStays
<1>6. \A j \in Item : UNCHANGED item =>
        /\ Present(j)' = Present(j) /\ item'[j].runtime = item[j].runtime
        /\ IsActive(j)' => IsActive(j)
  BY DEF Present, IsActive
<1>7. ASSUME UNCHANGED <<agent, item, poll, strained>> PROVE CapacityInv'
  <2>1. ListAgents' = ListAgents
    BY <1>7 DEF ListAgents
  <2> QED BY <1>6, <1>7, <2>1, CapacityStays
<1>8. ASSUME NEW r \in Runtime, UNCHANGED <<agent, strained>>,
             \A j \in Item : /\ Present(j)' = Present(j) /\ item'[j].runtime = item[j].runtime
                             /\ IsActive(j)' => IsActive(j),
             poll'[r].at # "counted", \A q \in Runtime : q # r => poll'[q] = poll[q]
      PROVE  CapacityInv'
  <2>1. ListAgents' = ListAgents
    BY <1>8 DEF ListAgents
  <2> QED BY <1>8, <2>1, CapacityStays
<1>9. ASSUME NEW r \in Runtime, Lists(r) PROVE CapacityInv'
  BY <1>6, <1>8, <1>9, ListsFacts DEF Lists
<1>10. ASSUME NEW r \in Runtime, Rejects(r) PROVE CapacityInv'
  <2>1. \A j \in Item : /\ Present(j)' = Present(j) /\ item'[j].runtime = item[j].runtime
                        /\ IsActive(j)' => IsActive(j)
    BY <1>4, <1>6, <1>10, RejectsFacts
  <2>2. poll'[r].at # "counted" /\ \A q \in Runtime : q # r => poll'[q] = poll[q]
    BY <1>10, RejectsFacts, GoesOnFacts
  <2>3. UNCHANGED <<agent, strained>>
    BY <1>10 DEF Rejects
  <2> QED BY <1>8, <2>1, <2>2, <2>3
<1>11. ASSUME NEW r \in Runtime, Counts(r) PROVE CapacityInv'
  <2>1. UNCHANGED <<agent, item, strained>> /\ poll[r].at = "looking"
    BY <1>11 DEF Counts
  <2>2. ASSUME NEW full \in SUBSET PoolAgent, GoesOn(r, full) PROVE CapacityInv'
    BY <1>6, <1>8, <2>1, <2>2, GoesOnFacts
  <2>3. ASSUME HasCapacity(AgentOf[Candidate(r)]), poll'[r].rest = poll[r].rest,
               \A q \in Runtime : q # r => poll'[q] = poll[q]
        PROVE  CapacityInv'
    <3>1. \A q \in Runtime : Candidate(q)' = Candidate(q)
      BY <2>3, CandidateStays
    <3>2. \A y : HasCapacity(y)' = HasCapacity(y)
      BY <2>1 DEF HasCapacity, CountRunningTasks, Active, IsActive
    <3>3. CountHolds'
      BY <2>1, <2>3, <3>1, <3>2 DEF CapacityInv, CountHolds
    <3> QED BY <2>1, <3>3 DEF CapacityInv, OneQueue, CapacityKept, ListAgents, Present, Active,
               IsActive
  <2> QED BY <1>11, <2>2, <2>3, CountsFacts
<1>12. ASSUME NEW r \in Runtime, ClaimTaskCandidate(r) PROVE CapacityInv'
  <2>1. poll[r].at = "counted" /\ UNCHANGED <<agent, untold, refresh, strained>>
    BY <1>12, ClaimFacts
  <2>2. CASE item[Candidate(r)].status = "queued" /\ Claims(r)
    <3>1. PICK i \in Item : /\ i = Candidate(r) /\ Present(i) /\ item[i].runtime = r
                            /\ AgentOf[i] \in ListAgents
      BY <2>1, CandidateFacts
    <3>2. /\ item'[i].status = "dispatched" /\ item'[i].runtime = item[i].runtime
          /\ \A j \in Item : j # i => item'[j] = item[j]
          /\ poll'[r].at = "claimed" /\ \A q \in Runtime : q # r => poll'[q] = poll[q]
      BY <2>2, <3>1 DEF Claims
    <3>3. \A j \in Item : Present(j)' = Present(j) /\ item'[j].runtime = item[j].runtime
      BY <3>1, <3>2 DEF Present
    <3>4. ListAgents' = ListAgents
      BY <2>1 DEF ListAgents
    <3>5. OneQueue'
      BY <2>1, <3>3, <3>4 DEF CapacityInv, OneQueue
    <3>6. \A y : y # AgentOf[i] => Active(y)' = Active(y)
      BY <3>2 DEF Active, IsActive
    <3>7. CountHolds'
      <4> SUFFICES ASSUME NEW q \in Runtime, poll'[q].at = "counted",
                          ~strained'[AgentOf[Candidate(q)']]
                   PROVE  HasCapacity(AgentOf[Candidate(q)])'
        BY DEF CountHolds
      <4>1. q # r /\ poll[q].at = "counted" /\ Candidate(q)' = Candidate(q)
        BY <3>2, CandidateStays
      <4>2. PICK j \in Item : /\ j = Candidate(q) /\ Present(j) /\ item[j].runtime = q
                              /\ AgentOf[j] \in ListAgents
        BY <4>1, CandidateFacts
      <4>3. AgentOf[j] # AgentOf[i]
        BY <2>1, <3>1, <4>1, <4>2 DEF CapacityInv, OneQueue
      <4>4. Cardinality(Active(AgentOf[j])) < agent[AgentOf[j]].limit
        BY <2>1, <4>1, <4>2 DEF CapacityInv, CountHolds, HasCapacity, CountRunningTasks
      <4>5. Cardinality(Active(AgentOf[j])') < agent'[AgentOf[j]].limit
        BY <2>1, <3>6, <4>3, <4>4
      <4> QED BY <4>1, <4>2, <4>5 DEF HasCapacity, CountRunningTasks
    <3>8. CapacityKept'
      <4>1. Active(AgentOf[i])' = Active(AgentOf[i]) \union {i} /\ i \notin Active(AgentOf[i])
        BY <2>2, <3>1, <3>2 DEF Active, IsActive
      <4>2. IsFiniteSet(Active(AgentOf[i]))
        BY PoolAssumption, FS_Subset DEF Active
      <4>3. /\ Cardinality(Active(AgentOf[i])') = Cardinality(Active(AgentOf[i])) + 1
            /\ Cardinality(Active(AgentOf[i])) \in Nat
        BY <4>1, <4>2, FS_AddElement, FS_CardinalityType
      <4>4. agent[AgentOf[i]].limit \in Nat
        BY <3>1, LimitIsNumber
      <4>5. ~strained[AgentOf[i]] => Cardinality(Active(AgentOf[i])) < agent[AgentOf[i]].limit
        BY <2>1, <3>1 DEF CapacityInv, CountHolds, HasCapacity, CountRunningTasks
      <4>6. ~strained[AgentOf[i]] => Cardinality(Active(AgentOf[i])') <= agent[AgentOf[i]].limit
        BY <4>3, <4>4, <4>5
      <4> QED BY <2>1, <3>4, <3>6, <4>6 DEF CapacityInv, CapacityKept
    <3> QED BY <3>5, <3>7, <3>8 DEF CapacityInv
  <2>3. CASE GoesOn(r, poll[r].full) /\ poll[r].full \subseteq PoolAgent /\ UNCHANGED <<item, unsure>>
    BY <1>6, <1>8, <2>1, <2>3, GoesOnFacts
  <2> QED BY <1>12, <2>2, <2>3, ClaimFacts
<1>13. ASSUME NEW r \in Runtime, Answers(r) PROVE CapacityInv'
  <2>1. /\ poll[r].at = "claimed" /\ "working" \in AgentStatus
        /\ UpdateAgentStatus(AgentOf[Candidate(r)], "working")
        /\ poll' = [poll EXCEPT ![r] = AtRest] /\ UNCHANGED <<item, strained>>
    BY <1>13 DEF Answers, AgentStatus
  <2>2. PICK z \in ListAgents : z = AgentOf[Candidate(r)]
    BY <2>1, CandidateFacts
  <2>3. /\ agent'[z].limit = agent[z].limit /\ agent'[z].runtime = agent[z].runtime
        /\ \A y \in PoolAgent : y # z => agent'[y] = agent[y]
        /\ ListAgents' = ListAgents
    BY <2>1, <2>2, StatusFacts
  <2>4. \A y \in ListAgents : agent'[y].runtime = agent[y].runtime /\ agent'[y].limit = agent[y].limit
    BY <2>2, <2>3 DEF ListAgents
  <2>5. poll'[r].at = "rest" /\ \A q \in Runtime : q # r => poll'[q] = poll[q]
    BY <2>1, RestFacts
  <2> QED BY <1>6, <2>1, <2>3, <2>4, <2>5, CapacityStays
<1>14. ASSUME NEW r \in Runtime, GivenUp(r) PROVE CapacityInv'
  BY <1>6, <1>8, <1>14, RestFacts DEF GivenUp
<1>15. ASSUME NEW w \in Writer, ReconcileWrites(w) PROVE CapacityInv'
  <2>1. refresh[w].status \in AgentStatus /\ refresh[w].agent \in ListAgents
    BY <1>15, WritesFacts DEF CountedRow, AgentStatus, PoolKnown
  <2>2. UNCHANGED <<item, poll, strained>>
    BY <1>15 DEF ReconcileWrites
  <2>3. CASE UNCHANGED agent
    BY <1>7, <2>2, <2>3
  <2>4. CASE UpdateAgentStatus(refresh[w].agent, refresh[w].status)
    <3>1. PICK z \in ListAgents : z = refresh[w].agent
      BY <2>1
    <3>2. /\ agent'[z].limit = agent[z].limit /\ agent'[z].runtime = agent[z].runtime
          /\ \A y \in PoolAgent : y # z => agent'[y] = agent[y]
          /\ ListAgents' = ListAgents
      BY <2>1, <2>4, <3>1, StatusFacts
    <3>3. \A y \in ListAgents : agent'[y].runtime = agent[y].runtime /\ agent'[y].limit = agent[y].limit
      BY <3>1, <3>2 DEF ListAgents
    <3> QED BY <1>6, <2>2, <3>2, <3>3, CapacityStays
  <2> QED BY <1>15, <2>3, <2>4, WritesFacts
<1>16. CASE \/ \E i \in Item : Projects(i)
            \/ \E z \in PoolAgent : Surveys(z)
            \/ \E w \in Writer : ReconcileCounts(w)
            \/ UNCHANGED poolVars
  BY <1>7, <1>16 DEF Projects, Surveys, ReconcileCounts, poolVars
<1> QED BY <1>1, <1>2, <1>3, <1>5, <1>9, <1>10, <1>11, <1>12, <1>13, <1>14, <1>15, <1>16
        DEF PoolNext

-----------------------------------------------------------------------------
(* The status of an agent.                                                 *)

Claiming(r, z) == poll[r].at = "claimed" /\ AgentOf[Candidate(r)] = z
Refreshing(w, z) == refresh[w].at # "rest" /\ refresh[w].agent = z
Told(z) == \A i \in Item : AgentOf[i] = z => untold[i] = 0

\* One at a time writes the status.
OneWriter(z) ==
    /\ \A r, q \in Runtime : Claiming(r, z) /\ Claiming(q, z) => r = q
    /\ \A v, w \in Writer : Refreshing(v, z) /\ Refreshing(w, z) => v = w
    /\ \A r \in Runtime, w \in Writer : ~(Claiming(r, z) /\ Refreshing(w, z))

\* A claimed item is worked on, or a fact tells of its end.
ClaimIsTrue(z) ==
    \A r \in Runtime : Claiming(r, z) => IsActive(Candidate(r)) \/ untold[Candidate(r)] > 0

\* What a writer is about to write is true, unless a fact is still to be told; what it
\* saw is what the row says.
RefreshIsTrue(z) ==
    \A w \in Writer : Refreshing(w, z) =>
        /\ refresh[w].at = "counted" /\ Told(z) =>
              (refresh[w].status = "working") = (Active(z) # {})
        /\ refresh[w].seen # "none" => refresh[w].seen = agent[z].status

StatusIsTrue(z) ==
    Quiet(z) => (agent[z].status = "working") = (Active(z) # {})

Sure(z) == ~unsure[z] => OneWriter(z) /\ ClaimIsTrue(z) /\ RefreshIsTrue(z) /\ StatusIsTrue(z)

StatusInv == \A z \in PoolAgent : Sure(z)

LEMMA NobodyWrites ==
    ASSUME NEW z
    PROVE  /\ Writing(z) = {} <=> ((\A r \in Runtime : ~Claiming(r, z))
                                    /\ (\A w \in Writer : ~Refreshing(w, z)))
           /\ Writing(z)' = {} <=> ((\A r \in Runtime : ~Claiming(r, z)')
                                    /\ (\A w \in Writer : ~Refreshing(w, z)'))
  BY DEF Writing, Claiming, Refreshing

\* A step that leaves the writers of the status of z alone, and tells a fact of every
\* item of z that it makes active or not.
Elsewhere(z) ==
    /\ ~unsure'[z] => ~unsure[z]
    /\ ~unsure'[z] =>
          \/ agent'[z].status = agent[z].status
          \/ /\ agent'[z].status # "working" /\ agent[z].status # "working"
             /\ \A w \in Writer : ~Refreshing(w, z)
    /\ \A r \in Runtime : /\ Claiming(r, z)' = Claiming(r, z)
                          /\ Claiming(r, z) => Candidate(r)' = Candidate(r)
    /\ \A w \in Writer : /\ Refreshing(w, z)' = Refreshing(w, z)
                         /\ Refreshing(w, z) => refresh'[w] = refresh[w]
    /\ \A i \in Item : AgentOf[i] = z =>
          \/ untold'[i] > 0
          \/ IsActive(i)' = IsActive(i) /\ untold'[i] = untold[i]

LEMMA ElsewhereKeeps ==
    ASSUME PoolType, PoolType', PoolKnown, NEW z \in PoolAgent, Sure(z), Elsewhere(z)
    PROVE  Sure(z)'
<1> SUFFICES ASSUME ~unsure'[z]
             PROVE  OneWriter(z)' /\ ClaimIsTrue(z)' /\ RefreshIsTrue(z)' /\ StatusIsTrue(z)'
  BY DEF Sure
<1>1. OneWriter(z) /\ ClaimIsTrue(z) /\ RefreshIsTrue(z) /\ StatusIsTrue(z)
  BY DEF Sure, Elsewhere
<1>2. OneWriter(z)'
  BY <1>1 DEF OneWriter, Elsewhere
<1>3. ClaimIsTrue(z)'
  <2> SUFFICES ASSUME NEW r \in Runtime, Claiming(r, z)'
               PROVE  IsActive(Candidate(r))' \/ untold'[Candidate(r)'] > 0
    BY DEF ClaimIsTrue
  <2>1. Claiming(r, z) /\ Candidate(r)' = Candidate(r)
    BY DEF Elsewhere
  <2>2. PICK i \in Item : i = Candidate(r) /\ AgentOf[i] = z
    BY <2>1, CandidateFacts DEF Claiming
  <2>3. IsActive(i) \/ untold[i] > 0
    BY <1>1, <2>1, <2>2 DEF ClaimIsTrue
  <2>4. IsActive(i)' \/ untold'[i] > 0
    BY <2>2, <2>3 DEF Elsewhere
  <2> QED BY <2>1, <2>2, <2>4 DEF IsActive
<1>4. Told(z)' => Told(z) /\ Active(z)' = Active(z)
  BY DEF Told, Active, Elsewhere
<1>5. RefreshIsTrue(z)'
  BY <1>1, <1>4 DEF RefreshIsTrue, Elsewhere, Refreshing
<1>6. StatusIsTrue(z)'
  <2>1. Quiet(z)' => Quiet(z) /\ Told(z)'
    BY <1>4, NobodyWrites DEF Quiet, Told, Elsewhere
  <2>2. (agent'[z].status = "working") = (agent[z].status = "working")
    BY DEF Elsewhere
  <2> QED BY <1>1, <1>4, <2>1, <2>2 DEF StatusIsTrue
<1> QED BY <1>2, <1>3, <1>5, <1>6

\* A request that neither is nor becomes a claim writes no status.
LEMMA OtherRequests ==
    ASSUME NEW r \in Runtime, \A q \in Runtime : q # r => poll'[q] = poll[q],
           NEW z, (~Claiming(r, z) /\ ~Claiming(r, z)') \/ poll'[r] = poll[r]
    PROVE  \A q \in Runtime : /\ Claiming(q, z)' = Claiming(q, z)
                              /\ Claiming(q, z) => Candidate(q)' = Candidate(q)
<1> SUFFICES ASSUME NEW q \in Runtime
             PROVE  /\ Claiming(q, z)' = Claiming(q, z)
                    /\ Claiming(q, z) => Candidate(q)' = Candidate(q)
  OBVIOUS
<1>1. CASE q = r /\ ~Claiming(r, z) /\ ~Claiming(r, z)'
  BY <1>1 DEF Claiming, Candidate
<1>2. CASE poll'[q] = poll[q]
  <2>1. Candidate(q)' = Candidate(q)
    BY <1>2, CandidateStays
  <2> QED BY <1>2, <2>1 DEF Claiming
<1> QED BY <1>1, <1>2

LEMMA SameRequests ==
    ASSUME UNCHANGED poll, NEW z
    PROVE  \A q \in Runtime : /\ Claiming(q, z)' = Claiming(q, z)
                              /\ Claiming(q, z) => Candidate(q)' = Candidate(q)
<1>1. \A q \in Runtime : Candidate(q)' = Candidate(q)
  BY CandidateStays
<1> QED BY <1>1 DEF Claiming

\* A writer that neither writes for z nor comes to.
LEMMA OtherWriters ==
    ASSUME NEW w, \A v \in Writer : v # w => refresh'[v] = refresh[v],
           NEW z, ~Refreshing(w, z) /\ ~Refreshing(w, z)'
    PROVE  \A v \in Writer : /\ Refreshing(v, z)' = Refreshing(v, z)
                             /\ Refreshing(v, z) => refresh'[v] = refresh[v]
  BY DEF Refreshing

\* An item that ends or goes back to the queue tells a fact.
LEMMA EndsTells ==
    ASSUME PoolType, NEW i \in Item, NEW s \in {"queued", "over"}, Present(i), Ends(i, s)
    PROVE  \A j \in Item : untold'[j] > 0 \/ (IsActive(j)' = IsActive(j) /\ untold'[j] = untold[j])
  BY EndsFacts DEF IsActive

LEMMA OwnerStep ==
    ASSUME PoolType, PoolType', PoolKnown, NEW z \in PoolAgent, Sure(z),
           NEW y \in PoolAgent, NEW r \in Runtime, NEW n \in Limit,
           \/ \E online \in BOOLEAN : CreateAgent(y, r, n, online)
           \/ \E status \in {agent[y].status, "error"} : UpdateAgent(y, r, n, status)
    PROVE  Sure(z)'
<1>1. UNCHANGED <<item, untold, poll, refresh>>
  BY DEF CreateAgent, UpdateAgent
<1>2. ~unsure'[z] => ~unsure[z]
  BY DEF CreateAgent, UpdateAgent, PoolType
<1>3. ~unsure'[z] =>
          \/ agent'[z].status = agent[z].status
          \/ /\ agent'[z].status # "working" /\ agent[z].status # "working"
             /\ \A w \in Writer : ~Refreshing(w, z)
  <2>1. ASSUME NEW online \in BOOLEAN, CreateAgent(y, r, n, online)
        PROVE  \/ agent'[z].status = agent[z].status
               \/ /\ agent'[z].status # "working" /\ agent[z].status # "working"
                  /\ \A w \in Writer : ~Refreshing(w, z)
    <3>1. CASE z # y
      BY <2>1, <3>1, CreateFacts
    <3>2. CASE z = y
      <4>1. z \notin ListAgents /\ agent'[z].status \in {"idle", "offline"}
        BY <2>1, <3>2, CreateFacts
      <4>2. \A w \in Writer : ~Refreshing(w, z)
        BY <4>1 DEF PoolKnown, Refreshing
      <4> QED BY <4>1, <4>2 DEF ListAgents
    <3> QED BY <3>1, <3>2
  <2>2. ASSUME NEW status \in {agent[y].status, "error"}, UpdateAgent(y, r, n, status), ~unsure'[z]
        PROVE  agent'[z].status = agent[z].status
    <3>1. /\ agent'[y].status = status /\ (~unsure'[y] => status = agent[y].status)
          /\ \A x \in PoolAgent : x # y => agent'[x] = agent[x]
      BY <2>2, UpdateFacts
    <3> QED BY <2>2, <3>1
  <2> QED BY <2>1, <2>2
<1>4. \A q \in Runtime : /\ Claiming(q, z)' = Claiming(q, z)
                         /\ Claiming(q, z) => Candidate(q)' = Candidate(q)
  BY <1>1, SameRequests
<1>5. Elsewhere(z)
  BY <1>1, <1>2, <1>3, <1>4 DEF Elsewhere, Refreshing, IsActive
<1> QED BY <1>5, ElsewhereKeeps

LEMMA ItemStep ==
    ASSUME PoolType, PoolType', PoolKnown, NEW z \in PoolAgent, Sure(z), NEW i \in Item,
           Queue(i) \/ StartTask(i) \/ RetryTask(i) \/ EndTask(i)
    PROVE  Sure(z)'
<1>1. UNCHANGED <<agent, poll, refresh, unsure>>
  BY DEF Queue, StartTask, RetryTask, EndTask
<1>2. \A j \in Item : untold'[j] > 0 \/ (IsActive(j)' = IsActive(j) /\ untold'[j] = untold[j])
  <2>1. CASE Queue(i)
    BY <2>1, QueueFacts DEF Queue, IsActive
  <2>2. CASE StartTask(i)
    BY <2>2, StartFacts DEF StartTask, IsActive
  <2>3. CASE RetryTask(i) \/ EndTask(i)
    BY <2>3, EndsTells DEF RetryTask, Retries, EndTask, IsActive, Present
  <2> QED BY <2>1, <2>2, <2>3
<1>3. \A q \in Runtime : /\ Claiming(q, z)' = Claiming(q, z)
                         /\ Claiming(q, z) => Candidate(q)' = Candidate(q)
  BY <1>1, SameRequests
<1>4. Elsewhere(z)
  BY <1>1, <1>2, <1>3 DEF Elsewhere, Refreshing
<1> QED BY <1>4, ElsewhereKeeps

\* A request that looks for an item.
LEMMA LookingStep ==
    ASSUME PoolType, PoolType', PoolKnown, NEW z \in PoolAgent, Sure(z), NEW r \in Runtime,
           UNCHANGED <<agent, refresh, unsure>>,
           \A j \in Item : untold'[j] > 0 \/ (IsActive(j)' = IsActive(j) /\ untold'[j] = untold[j]),
           poll[r].at # "claimed", poll'[r].at # "claimed",
           \A q \in Runtime : q # r => poll'[q] = poll[q]
    PROVE  Sure(z)'
<1>1. ~Claiming(r, z) /\ ~Claiming(r, z)'
  BY DEF Claiming
<1>2. \A q \in Runtime : /\ Claiming(q, z)' = Claiming(q, z)
                         /\ Claiming(q, z) => Candidate(q)' = Candidate(q)
  BY <1>1, OtherRequests
<1>3. Elsewhere(z)
  BY <1>2 DEF Elsewhere, Refreshing
<1> QED BY <1>3, ElsewhereKeeps

\* The claim makes its request the only writer, where no other wrote.
LEMMA ClaimStep ==
    ASSUME PoolType, PoolType', PoolKnown, NEW z \in PoolAgent, Sure(z), NEW r \in Runtime,
           ClaimTaskCandidate(r)
    PROVE  Sure(z)'
<1>1. poll[r].at = "counted" /\ UNCHANGED <<agent, untold, refresh, strained>>
  BY ClaimFacts
<1>2. CASE GoesOn(r, poll[r].full) /\ poll[r].full \subseteq PoolAgent /\ UNCHANGED <<item, unsure>>
  <2>1. poll'[r].at # "claimed" /\ \A q \in Runtime : q # r => poll'[q] = poll[q]
    BY <1>2, GoesOnFacts
  <2>2. \A j \in Item : IsActive(j)' = IsActive(j)
    BY <1>2 DEF IsActive
  <2> QED BY <1>1, <1>2, <2>1, <2>2, LookingStep
<1>3. CASE Claims(r)
  <2>1. PICK i \in Item : i = Candidate(r) /\ AgentOf[i] \in PoolAgent
    BY <1>1, CandidateFacts
  <2>2. /\ item'[i].status = "dispatched" /\ \A j \in Item : j # i => item'[j] = item[j]
        /\ poll'[r].at = "claimed" /\ Candidate(r)' = i
        /\ \A q \in Runtime : q # r => poll'[q] = poll[q]
        /\ Begins(AgentOf[i])
    BY <1>3, <2>1 DEF Claims
  <2>3. CASE z # AgentOf[i]
    <3>1. ~Claiming(r, z) /\ ~Claiming(r, z)'
      BY <1>1, <2>2, <2>3 DEF Claiming
    <3>2. \A q \in Runtime : /\ Claiming(q, z)' = Claiming(q, z)
                             /\ Claiming(q, z) => Candidate(q)' = Candidate(q)
      BY <2>2, <3>1, OtherRequests
    <3>3. unsure'[z] = unsure[z]
      BY <2>2, <2>3 DEF Begins, PoolType
    <3>4. \A j \in Item : AgentOf[j] = z => IsActive(j)' = IsActive(j)
      BY <2>2, <2>3 DEF IsActive
    <3>5. Elsewhere(z)
      BY <1>1, <3>2, <3>3, <3>4 DEF Elsewhere, Refreshing
    <3> QED BY <3>5, ElsewhereKeeps
  <2>4. CASE z = AgentOf[i]
    <3>1. unsure'[z] = (Writing(z) # {})
      BY <2>1, <2>2, <2>4 DEF Begins, PoolType
    <3>2. ASSUME ~unsure'[z]
          PROVE  (\A q \in Runtime : ~Claiming(q, z)) /\ (\A w \in Writer : ~Refreshing(w, z))
      BY <3>1, <3>2, NobodyWrites
    <3>3. Claiming(r, z)'
      BY <2>2, <2>4 DEF Claiming
    <3>4. ASSUME ~unsure'[z], NEW q \in Runtime, q # r PROVE ~Claiming(q, z)'
      <4>1. Candidate(q)' = Candidate(q)
        BY <2>2, <3>4, CandidateStays
      <4> QED BY <2>2, <3>2, <3>4, <4>1 DEF Claiming
    <3>5. ASSUME ~unsure'[z], NEW w \in Writer PROVE ~Refreshing(w, z)'
      BY <1>1, <3>2, <3>5 DEF Refreshing
    <3>6. ~unsure'[z] => OneWriter(z)' /\ RefreshIsTrue(z)'
      BY <3>4, <3>5 DEF OneWriter, RefreshIsTrue
    <3>7. IsActive(Candidate(r))'
      BY <2>2 DEF IsActive
    <3>8. ~unsure'[z] => ClaimIsTrue(z)'
      <4> SUFFICES ASSUME ~unsure'[z], NEW q \in Runtime, Claiming(q, z)'
                   PROVE  IsActive(Candidate(q))'
        BY DEF ClaimIsTrue
      <4>1. q = r
        BY <3>4
      <4> QED BY <2>2, <4>1 DEF IsActive, Candidate
    <3>9. StatusIsTrue(z)'
      BY <3>3, NobodyWrites DEF StatusIsTrue, Quiet
    <3> QED BY <3>6, <3>8, <3>9 DEF Sure
  <2> QED BY <2>3, <2>4
<1> QED BY <1>2, <1>3, ClaimFacts

\* The answer writes what is true of the agent whose item it is.
LEMMA AnswerStep ==
    ASSUME PoolType, PoolType', PoolKnown, NEW z \in PoolAgent, Sure(z), NEW r \in Runtime,
           Answers(r)
    PROVE  Sure(z)'
<1>1. /\ poll[r].at = "claimed" /\ "working" \in AgentStatus
      /\ UpdateAgentStatus(AgentOf[Candidate(r)], "working")
      /\ poll' = [poll EXCEPT ![r] = AtRest] /\ UNCHANGED <<item, untold, refresh, unsure>>
  BY DEF Answers, AgentStatus
<1>2. PICK i \in Item : i = Candidate(r) /\ AgentOf[i] \in ListAgents
  BY <1>1, CandidateFacts
<1>3. poll'[r].at = "rest" /\ \A q \in Runtime : q # r => poll'[q] = poll[q]
  BY <1>1, RestFacts
<1>4. /\ agent'[AgentOf[i]].status = "working"
      /\ \A y \in PoolAgent : y # AgentOf[i] => agent'[y] = agent[y]
  BY <1>1, <1>2, StatusFacts
<1>5. ~Claiming(r, z)'
  BY <1>3 DEF Claiming
<1>6. CASE z # AgentOf[i]
  <2>1. ~Claiming(r, z)
    BY <1>2, <1>6 DEF Claiming
  <2>2. \A q \in Runtime : /\ Claiming(q, z)' = Claiming(q, z)
                           /\ Claiming(q, z) => Candidate(q)' = Candidate(q)
    BY <1>3, <1>5, <2>1, OtherRequests
  <2>3. Elsewhere(z)
    BY <1>1, <1>4, <1>6, <2>2 DEF Elsewhere, Refreshing, IsActive
  <2> QED BY <2>3, ElsewhereKeeps
<1>7. CASE z = AgentOf[i]
  <2> SUFFICES ASSUME ~unsure[z]
               PROVE  OneWriter(z)' /\ ClaimIsTrue(z)' /\ RefreshIsTrue(z)' /\ StatusIsTrue(z)'
    BY <1>1 DEF Sure
  <2>1. Claiming(r, z) /\ OneWriter(z) /\ ClaimIsTrue(z)
    BY <1>1, <1>2, <1>7 DEF Claiming, Sure
  <2>2. ASSUME NEW w \in Writer PROVE ~Refreshing(w, z)'
    BY <1>1, <2>1 DEF OneWriter, Refreshing
  <2>3. ASSUME NEW q \in Runtime, q # r PROVE ~Claiming(q, z)'
    <3>1. ~Claiming(q, z)
      BY <2>1, <2>3 DEF OneWriter
    <3>2. Candidate(q)' = Candidate(q)
      BY <1>3, <2>3, CandidateStays
    <3> QED BY <1>3, <2>3, <3>1, <3>2 DEF Claiming
  <2>4. \A q \in Runtime : ~Claiming(q, z)'
    <3> SUFFICES ASSUME NEW q \in Runtime, Claiming(q, z)' PROVE FALSE
      OBVIOUS
    <3>1. q = r
      BY <2>3
    <3> QED BY <1>3, <3>1 DEF Claiming
  <2>5. OneWriter(z)' /\ ClaimIsTrue(z)' /\ RefreshIsTrue(z)'
    BY <2>2, <2>4 DEF OneWriter, ClaimIsTrue, RefreshIsTrue
  <2>6. Quiet(z)' => Active(z)' # {}
    <3>1. IsActive(i) \/ untold[i] > 0
      BY <1>2, <2>1 DEF ClaimIsTrue
    <3> QED BY <1>1, <1>7, <3>1 DEF Quiet, Active, IsActive
  <2> QED BY <1>4, <1>7, <2>5, <2>6 DEF StatusIsTrue
<1> QED BY <1>6, <1>7

LEMMA GiveUpStep ==
    ASSUME PoolType, PoolType', PoolKnown, NEW z \in PoolAgent, Sure(z), NEW r \in Runtime,
           GivenUp(r)
    PROVE  Sure(z)'
<1>1. poll' = [poll EXCEPT ![r] = AtRest] /\ UNCHANGED <<agent, item, untold, refresh>>
  BY DEF GivenUp
<1>2. poll'[r].at = "rest" /\ \A q \in Runtime : q # r => poll'[q] = poll[q]
  BY <1>1, RestFacts
<1>3. \A j \in Item : IsActive(j)' = IsActive(j)
  BY <1>1 DEF IsActive
<1>4. CASE poll[r].at # "claimed"
  BY <1>1, <1>2, <1>3, <1>4, LookingStep DEF GivenUp
<1>5. CASE poll[r].at = "claimed" /\ AgentOf[Candidate(r)] # z
  <2>1. ~Claiming(r, z) /\ ~Claiming(r, z)'
    BY <1>2, <1>5 DEF Claiming
  <2>2. \A q \in Runtime : /\ Claiming(q, z)' = Claiming(q, z)
                           /\ Claiming(q, z) => Candidate(q)' = Candidate(q)
    BY <1>2, <2>1, OtherRequests
  <2>3. unsure'[z] = unsure[z]
    BY <1>5 DEF GivenUp, PoolType
  <2>4. Elsewhere(z)
    BY <1>1, <1>3, <2>2, <2>3 DEF Elsewhere, Refreshing
  <2> QED BY <2>4, ElsewhereKeeps
<1>6. CASE poll[r].at = "claimed" /\ AgentOf[Candidate(r)] = z
  <2>1. unsure'[z]
    BY <1>6 DEF GivenUp, PoolType
  <2> QED BY <2>1 DEF Sure
<1> QED BY <1>4, <1>5, <1>6

\* A writer that begins is the only one, where no other wrote; it has seen the row.
LEMMA BeginStep ==
    ASSUME PoolType, PoolType', PoolKnown, NEW z \in PoolAgent, Sure(z),
           NEW w \in Writer, NEW y \in PoolAgent, NEW seen \in Seen0,
           StartsRefresh(w, y, seen), seen \in {"none", agent[y].status},
           UNCHANGED <<agent, item, poll>>,
           \A i \in Item : AgentOf[i] # y => untold'[i] = untold[i]
    PROVE  Sure(z)'
<1>1. /\ refresh[w].at = "rest" /\ refresh'[w].at = "listed"
      /\ refresh'[w].agent = y /\ refresh'[w].seen = seen
      /\ \A v \in Writer : v # w => refresh'[v] = refresh[v]
      /\ Begins(y)
  BY StartsFacts
<1>2. \A q \in Runtime : /\ Claiming(q, z)' = Claiming(q, z)
                         /\ Claiming(q, z) => Candidate(q)' = Candidate(q)
  BY SameRequests
<1>3. CASE z # y
  <2>1. ~Refreshing(w, z) /\ ~Refreshing(w, z)'
    BY <1>1, <1>3 DEF Refreshing
  <2>2. \A v \in Writer : /\ Refreshing(v, z)' = Refreshing(v, z)
                          /\ Refreshing(v, z) => refresh'[v] = refresh[v]
    BY <1>1, <2>1, OtherWriters
  <2>3. unsure'[z] = unsure[z]
    BY <1>1, <1>3 DEF Begins, PoolType
  <2>4. Elsewhere(z)
    BY <1>2, <1>3, <2>2, <2>3 DEF Elsewhere, IsActive
  <2> QED BY <2>4, ElsewhereKeeps
<1>4. CASE z = y
  <2>1. unsure'[z] = (Writing(z) # {})
    BY <1>1, <1>4 DEF Begins, PoolType
  <2> SUFFICES ASSUME ~unsure'[z]
               PROVE  OneWriter(z)' /\ ClaimIsTrue(z)' /\ RefreshIsTrue(z)' /\ StatusIsTrue(z)'
    BY DEF Sure
  <2>2. (\A q \in Runtime : ~Claiming(q, z)) /\ (\A v \in Writer : ~Refreshing(v, z))
    BY <2>1, NobodyWrites
  <2>3. \A q \in Runtime : ~Claiming(q, z)'
    BY <1>2, <2>2
  <2>4. \A v \in Writer : v # w => ~Refreshing(v, z)'
    BY <1>1, <2>2 DEF Refreshing
  <2>5. OneWriter(z)' /\ ClaimIsTrue(z)'
    BY <2>3, <2>4 DEF OneWriter, ClaimIsTrue
  <2>6. RefreshIsTrue(z)'
    BY <1>1, <1>4, <2>4 DEF RefreshIsTrue
  <2>7. Refreshing(w, z)'
    BY <1>1, <1>4 DEF Refreshing
  <2>8. StatusIsTrue(z)'
    BY <2>7, NobodyWrites DEF StatusIsTrue, Quiet
  <2> QED BY <2>5, <2>6, <2>8
<1> QED BY <1>3, <1>4

\* The count is true when it is made.
LEMMA CountingStep ==
    ASSUME PoolType, PoolType', PoolKnown, NEW z \in PoolAgent, Sure(z), NEW w \in Writer,
           ReconcileCounts(w)
    PROVE  Sure(z)'
<1>1. /\ refresh[w].at = "listed" /\ refresh'[w].at = "counted"
      /\ refresh'[w].agent = refresh[w].agent /\ refresh'[w].seen = refresh[w].seen
      /\ (refresh'[w].status = "working") = (CountRunningTasks(refresh[w].agent) > 0)
      /\ \A v \in Writer : v # w => refresh'[v] = refresh[v]
  BY CountingFacts
<1>2. UNCHANGED <<agent, item, untold, poll, unsure>>
  BY DEF ReconcileCounts
<1>3. \A q \in Runtime : /\ Claiming(q, z)' = Claiming(q, z)
                         /\ Claiming(q, z) => Candidate(q)' = Candidate(q)
  BY <1>2, SameRequests
<1>4. CASE refresh[w].agent # z
  <2>1. ~Refreshing(w, z) /\ ~Refreshing(w, z)'
    BY <1>1, <1>4 DEF Refreshing
  <2>2. \A v \in Writer : /\ Refreshing(v, z)' = Refreshing(v, z)
                          /\ Refreshing(v, z) => refresh'[v] = refresh[v]
    BY <1>1, <2>1, OtherWriters
  <2>3. Elsewhere(z)
    BY <1>2, <1>3, <2>2 DEF Elsewhere, IsActive
  <2> QED BY <2>3, ElsewhereKeeps
<1>5. CASE refresh[w].agent = z
  <2> SUFFICES ASSUME ~unsure[z]
               PROVE  OneWriter(z)' /\ ClaimIsTrue(z)' /\ RefreshIsTrue(z)' /\ StatusIsTrue(z)'
    BY <1>2 DEF Sure
  <2>1. OneWriter(z) /\ RefreshIsTrue(z) /\ Refreshing(w, z) /\ Refreshing(w, z)'
    BY <1>1, <1>5 DEF Sure, Refreshing
  <2>2. \A q \in Runtime : ~Claiming(q, z)'
    BY <1>3, <2>1 DEF OneWriter
  <2>3. \A v \in Writer : v # w => ~Refreshing(v, z)'
    BY <1>1, <2>1 DEF OneWriter, Refreshing
  <2>4. OneWriter(z)' /\ ClaimIsTrue(z)'
    BY <2>2, <2>3 DEF OneWriter, ClaimIsTrue
  <2>5. (CountRunningTasks(z) > 0) = (Active(z) # {})
    <3>1. IsFiniteSet(Active(z))
      BY PoolAssumption, FS_Subset DEF Active
    <3>2. Cardinality(Active(z)) \in Nat /\ (Cardinality(Active(z)) = 0 <=> Active(z) = {})
      BY <3>1, FS_CardinalityType, FS_EmptySet
    <3> QED BY <3>2 DEF CountRunningTasks
  <2>6. Active(z)' = Active(z)
    BY <1>2 DEF Active, IsActive
  <2>7. refresh'[w].seen # "none" => refresh'[w].seen = agent'[z].status
    BY <1>1, <1>2, <2>1 DEF RefreshIsTrue
  <2>8. (refresh'[w].status = "working") = (Active(z)' # {})
    BY <1>1, <1>5, <2>5, <2>6
  <2>9. RefreshIsTrue(z)'
    BY <2>3, <2>7, <2>8 DEF RefreshIsTrue
  <2>10. StatusIsTrue(z)'
    BY <2>1, NobodyWrites DEF StatusIsTrue, Quiet
  <2> QED BY <2>4, <2>9, <2>10
<1> QED BY <1>4, <1>5

\* What is written was counted, and no fact came since.
LEMMA WritingStep ==
    ASSUME PoolType, PoolType', PoolKnown, NEW z \in PoolAgent, Sure(z), NEW w \in Writer,
           ReconcileWrites(w)
    PROVE  Sure(z)'
<1>1. /\ refresh[w] \in CountedRow /\ refresh[w].at = "counted" /\ refresh'[w].at = "rest"
      /\ \A v \in Writer : v # w => refresh'[v] = refresh[v]
      /\ \/ refresh[w].status = refresh[w].seen /\ UNCHANGED agent
         \/ UpdateAgentStatus(refresh[w].agent, refresh[w].status)
  BY WritesFacts
<1>2. UNCHANGED <<item, untold, poll, unsure>>
  BY DEF ReconcileWrites
<1>3. PICK y \in ListAgents : y = refresh[w].agent
  BY <1>1 DEF PoolKnown
<1>4. /\ \A x \in PoolAgent : x # y => agent'[x] = agent[x]
      /\ \/ refresh[w].status = refresh[w].seen /\ UNCHANGED agent
         \/ agent'[y].status = refresh[w].status
  <2>1. refresh[w].status \in AgentStatus
    BY <1>1 DEF CountedRow, AgentStatus
  <2> QED BY <1>1, <1>3, <2>1, StatusFacts
<1>5. \A q \in Runtime : /\ Claiming(q, z)' = Claiming(q, z)
                         /\ Claiming(q, z) => Candidate(q)' = Candidate(q)
  BY <1>2, SameRequests
<1>6. ~Refreshing(w, z)'
  BY <1>1 DEF Refreshing
<1>7. CASE y # z
  <2>1. ~Refreshing(w, z)
    BY <1>3, <1>7 DEF Refreshing
  <2>2. \A v \in Writer : /\ Refreshing(v, z)' = Refreshing(v, z)
                          /\ Refreshing(v, z) => refresh'[v] = refresh[v]
    BY <1>1, <1>6, <2>1, OtherWriters
  <2>3. Elsewhere(z)
    BY <1>2, <1>4, <1>5, <1>7, <2>2 DEF Elsewhere, IsActive
  <2> QED BY <2>3, ElsewhereKeeps
<1>8. CASE y = z
  <2> SUFFICES ASSUME ~unsure[z]
               PROVE  OneWriter(z)' /\ ClaimIsTrue(z)' /\ RefreshIsTrue(z)' /\ StatusIsTrue(z)'
    BY <1>2 DEF Sure
  <2>1. OneWriter(z) /\ RefreshIsTrue(z) /\ Refreshing(w, z)
    BY <1>1, <1>3, <1>8 DEF Sure, Refreshing
  <2>2. \A q \in Runtime : ~Claiming(q, z)'
    BY <1>5, <2>1 DEF OneWriter
  <2>3. \A v \in Writer : v # w => ~Refreshing(v, z)'
    BY <1>1, <2>1 DEF OneWriter, Refreshing
  <2>4. OneWriter(z)' /\ ClaimIsTrue(z)' /\ RefreshIsTrue(z)'
    BY <1>6, <2>2, <2>3 DEF OneWriter, ClaimIsTrue, RefreshIsTrue
  <2>5. agent'[z].status = refresh[w].status
    <3>1. CASE refresh[w].status = refresh[w].seen /\ UNCHANGED agent
      <4>1. refresh[w].seen # "none"
        BY <1>1, <3>1 DEF CountedRow
      <4> QED BY <2>1, <3>1, <4>1 DEF RefreshIsTrue
    <3> QED BY <1>4, <1>8, <3>1
  <2>6. Quiet(z)' => Told(z)
    BY <1>2 DEF Quiet, Told
  <2>7. Active(z)' = Active(z)
    BY <1>2 DEF Active, IsActive
  <2>8. StatusIsTrue(z)'
    BY <1>1, <2>1, <2>5, <2>6, <2>7 DEF StatusIsTrue, RefreshIsTrue
  <2> QED BY <2>4, <2>8
<1> QED BY <1>7, <1>8

LEMMA StatusStep ==
    ASSUME PoolType, PoolType', PoolKnown, StatusInv, [PoolNext]_poolVars
    PROVE  StatusInv'
<1> SUFFICES ASSUME NEW z \in PoolAgent PROVE Sure(z)'
  BY DEF StatusInv
<1>1. Sure(z)
  BY DEF StatusInv
<1>2. ASSUME NEW y \in PoolAgent, NEW r \in Runtime, NEW n \in Limit,
             \/ \E online \in BOOLEAN : CreateAgent(y, r, n, online)
             \/ \E status \in {agent[y].status, "error"} : UpdateAgent(y, r, n, status)
      PROVE  Sure(z)'
  BY <1>1, <1>2, OwnerStep
<1>3. ASSUME NEW i \in Item, Queue(i) \/ StartTask(i) \/ RetryTask(i) \/ EndTask(i)
      PROVE  Sure(z)'
  BY <1>1, <1>3, ItemStep
<1>4. ASSUME NEW i \in Item, Projects(i) PROVE Sure(z)'
  <2>1. /\ AgentOf[i] \in PoolAgent /\ "outbox" \in Writer /\ "none" \in Seen0
        /\ StartsRefresh("outbox", AgentOf[i], "none") /\ UNCHANGED <<agent, item, poll>>
    BY <1>4, PoolAssumption DEF Projects, Writer, Seen0
  <2>2. \A j \in Item : AgentOf[j] # AgentOf[i] => untold'[j] = untold[j]
    BY <1>4 DEF Projects, PoolType
  <2> QED BY <1>1, <2>1, <2>2, BeginStep
<1>5. ASSUME NEW y \in PoolAgent, Surveys(y) PROVE Sure(z)'
  <2>1. /\ "register" \in Writer /\ agent[y].status \in Seen0
        /\ StartsRefresh("register", y, agent[y].status) /\ UNCHANGED <<agent, item, poll, untold>>
    BY <1>5 DEF Surveys, Writer, Seen0, PoolType, AgentRow, NoAgent
  <2> QED BY <1>1, <2>1, BeginStep
<1>6. \A j \in Item : UNCHANGED <<item, untold>> =>
          untold'[j] > 0 \/ (IsActive(j)' = IsActive(j) /\ untold'[j] = untold[j])
  BY DEF IsActive
<1>7. ASSUME NEW r \in Runtime, Lists(r) PROVE Sure(z)'
  <2>1. /\ UNCHANGED <<agent, item, untold, refresh, unsure>> /\ poll[r].at # "claimed"
        /\ poll'[r].at # "claimed" /\ \A q \in Runtime : q # r => poll'[q] = poll[q]
    <3>1. UNCHANGED <<agent, item, untold, refresh, unsure>> /\ poll[r].at = "rest"
      BY <1>7 DEF Lists, AtRest
    <3>2. poll'[r].at # "claimed" /\ \A q \in Runtime : q # r => poll'[q] = poll[q]
      BY <1>7, ListsFacts
    <3> QED BY <3>1, <3>2
  <2> QED BY <1>1, <1>6, <2>1, LookingStep
<1>8. ASSUME NEW r \in Runtime, Rejects(r) PROVE Sure(z)'
  <2>1. /\ UNCHANGED <<agent, refresh, unsure>> /\ poll[r].at # "claimed"
        /\ poll'[r].at # "claimed" /\ \A q \in Runtime : q # r => poll'[q] = poll[q]
    BY <1>8, RejectsFacts, GoesOnFacts DEF Rejects
  <2>2. \A j \in Item : untold'[j] > 0 \/ (IsActive(j)' = IsActive(j) /\ untold'[j] = untold[j])
    BY <1>6, <1>8, RejectsFacts, EndsTells
  <2> QED BY <1>1, <2>1, <2>2, LookingStep
<1>9. ASSUME NEW r \in Runtime, Counts(r) PROVE Sure(z)'
  <2>1. /\ UNCHANGED <<agent, item, untold, refresh, unsure>> /\ poll[r].at # "claimed"
        /\ poll'[r].at # "claimed" /\ \A q \in Runtime : q # r => poll'[q] = poll[q]
    BY <1>9, CountsFacts, GoesOnFacts DEF Counts
  <2> QED BY <1>1, <1>6, <2>1, LookingStep
<1>10. ASSUME NEW r \in Runtime, ClaimTaskCandidate(r) \/ Answers(r) \/ GivenUp(r)
       PROVE  Sure(z)'
  BY <1>1, <1>10, ClaimStep, AnswerStep, GiveUpStep
<1>11. ASSUME NEW w \in Writer, ReconcileCounts(w) \/ ReconcileWrites(w) PROVE Sure(z)'
  BY <1>1, <1>11, CountingStep, WritingStep
<1>12. CASE UNCHANGED poolVars
  <2>1. Elsewhere(z)
    BY <1>12, SameRequests DEF poolVars, Elsewhere, Refreshing, IsActive
  <2> QED BY <1>1, <2>1, ElsewhereKeeps
<1> QED BY <1>2, <1>3, <1>4, <1>5, <1>7, <1>8, <1>9, <1>10, <1>11, <1>12 DEF PoolNext

-----------------------------------------------------------------------------
PoolInv == PoolType /\ PoolKnown /\ CapacityInv /\ StatusInv

LEMMA PoolFirst == PoolInit => PoolInv
<1> SUFFICES ASSUME PoolInit PROVE PoolInv
  OBVIOUS
<1>1. /\ \A z \in PoolAgent : agent[z] = NoAgent /\ ~unsure[z]
      /\ \A i \in Item : item[i] = NoItem /\ untold[i] = 0
      /\ \A r \in Runtime : poll[r].at = "rest" /\ poll[r].rest = {}
      /\ \A w \in Writer : refresh[w].at = "rest"
  BY DEF PoolInit, NoAgent, NoItem, AtRest, NoRefresh
<1>2. PoolType
  BY DEF PoolInit, PoolType, NoAgent, NoItem, AtRest, NoRefresh, PollRow
<1>3. ListAgents = {} /\ PoolKnown
  BY <1>1 DEF ListAgents, PoolKnown, NoAgent, Present, NoItem
<1>4. CapacityInv
  BY <1>1, <1>3 DEF CapacityInv, OneQueue, CountHolds, CapacityKept
<1>5. \A z : Active(z) = {}
  BY <1>1 DEF Active, IsActive, NoItem
<1>6. StatusInv
  BY <1>1, <1>5 DEF StatusInv, Sure, OneWriter, ClaimIsTrue, RefreshIsTrue, StatusIsTrue,
     Claiming, Refreshing, NoAgent
<1> QED BY <1>2, <1>3, <1>4, <1>6 DEF PoolInv

LEMMA PoolStep ==
    ASSUME PoolInv, [PoolNext]_poolVars
    PROVE  PoolInv'
  BY PoolTypeStep, PoolKnownStep, CapacityStep, StatusStep DEF PoolInv

\* Two daemons may claim at once, each having counted before: an agent whose items all
\* wait at one runtime never works on more items than its limit (task.go:151, 251).
THEOREM LimitIsKept == ServicesSpec => []CapacityKept
<1>1. ServicesInit => PoolInv
  BY PoolFirst DEF ServicesInit
<1>2. PoolInv /\ [ServicesNext]_servicesVars => PoolInv'
  BY PoolRests, PoolStep
<1>3. PoolInv => CapacityKept
  BY DEF PoolInv, CapacityInv
<1> QED BY <1>1, <1>2, <1>3, PTL DEF ServicesSpec

\* The count of active items and the status written from it are separate statements, and
\* claims, ends and retries come between them: once every fact is projected an agent is
\* shown working exactly while it works, where its writers did not overlap (task.go:513).
THEOREM StatusIsRight == ServicesSpec => []StatusTellsTheWork
<1>1. ServicesInit => PoolInv
  BY PoolFirst DEF ServicesInit
<1>2. PoolInv /\ [ServicesNext]_servicesVars => PoolInv'
  BY PoolRests, PoolStep
<1>3. PoolInv => StatusTellsTheWork
  BY DEF PoolInv, StatusInv, Sure, StatusIsTrue, StatusTellsTheWork
<1> QED BY <1>1, <1>2, <1>3, PTL DEF ServicesSpec

-----------------------------------------------------------------------------
(* The graph of an issue.                                                  *)

LEMMA PlanningRests ==
    ASSUME [ServicesNext]_servicesVars
    PROVE  [PlanningNext]_planningVars
  BY DEF ServicesNext, servicesVars, planningVars

ValidPlan == {plan \in Plan : Valid(plan)}
Stage == {"new", "asking", "refused", "exists", "invalid", "failed", "nodes", "placing",
          "edges", "made"}
PlanRow == [at : Stage, force : BOOLEAN, plan : ValidPlan \union {<<>>}, next : Nat \ {0},
            linked : SUBSET (Nat \X Nat)]
NodeRow == [by : Planner, index : Nat, placed : BOOLEAN, status : {"pending", "running", "completed"}]
EdgeRow == [from : Planner \X Nat, to : Planner \X Nat, nth : Nat]

PlanningType ==
    /\ planning \in [Planner -> PlanRow]
    /\ nodes \subseteq NodeRow /\ edges \subseteq EdgeRow
    /\ erased \subseteq Planner \X Nat

Erased(c, i) == <<c, i>> \in erased
HasNode(c, i) == \E n \in nodes : n.by = c /\ n.index = i
IsPlaced(c, i) == \E n \in nodes : n.by = c /\ n.index = i /\ n.placed
Finished(c, i) == Erased(c, i) \/ IsPlaced(c, i)

\* A node is there once, and not when it was deleted; an edge joins two nodes of a plan.
RowsAgree ==
    /\ \A n, m \in nodes : n.by = m.by /\ n.index = m.index => n = m
    /\ \A n \in nodes : ~Erased(n.by, n.index)
    /\ \A e \in edges : /\ e.from[1] = e.to[1]
                         /\ HasNode(e.from[1], e.from[2]) /\ HasNode(e.to[1], e.to[2])

\* The nodes before the next are written and placed, and there are no others but the next.
WritesNodes(c) ==
    LET p == planning[c]
        Begun(i) == i \in DOMAIN p.plan /\ (i < p.next \/ (p.at # "nodes" /\ i = p.next))
    IN  /\ \A i \in Nat \ {0} : i < p.next => Finished(c, i)
        /\ \A n \in nodes : n.by = c => Begun(n.index)
        /\ \A i \in Nat : Erased(c, i) => Begun(i)

BothKept(c, w) == ~Erased(c, Edge(c, w).from[2]) /\ ~Erased(c, Edge(c, w).to[2])

\* The edges are those the request remembers, but for what was deleted.
WritesEdges(c) ==
    /\ planning[c].linked \subseteq Wanted(c)
    /\ \A e \in edges : e.from[1] = c => \E w \in planning[c].linked : e = Edge(c, w)
    /\ \A w \in planning[c].linked : BothKept(c, w) => Edge(c, w) \in edges

\* How far the request is.
Stands(c) ==
    LET p == planning[c]
    IN  /\ p.at \in {"new", "asking", "refused", "exists"} =>
              p.plan = <<>> /\ p.next = 1 /\ p.linked = {}
        /\ p.at \in {"nodes", "placing"} => p.next \in DOMAIN p.plan
        /\ p.at = "placing" => Erased(c, p.next) \/ HasNode(c, p.next)
        /\ p.at \in {"edges", "made"} \/ p.linked # {} => p.next = Len(p.plan) + 1
        /\ p.at = "made" => p.linked = Wanted(c)

Progress(c) == WritesNodes(c) /\ WritesEdges(c) /\ Stands(c)

\* Of two requests that were not at work together, one was forced, has not begun, or has
\* nothing in the graph and will write nothing.
Gone(c) == ~AtWork(c) /\ Made(c) = {}
NotMixed ==
    \A c, d \in Planner : c # d =>
        \/ planning[c].force \/ planning[d].force \/ {c, d} \in together
        \/ planning[c].at = "new" \/ planning[d].at = "new"
        \/ Gone(c) \/ Gone(d)

PlanInv == PlanningType /\ RowsAgree /\ NotMixed /\ \A c \in Planner : Progress(c)

LEMMA GivenIs ==
    ASSUME PlanningType, NEW c \in Planner
    PROVE  /\ Given(c) \in ValidPlan \union {<<>>} /\ Len(Given(c)) \in Nat
           /\ DOMAIN Given(c) = 1 .. Len(Given(c))
           /\ \A w \in Wanted(c) : /\ w = <<w[1], w[2]>> /\ w \in Nat \X Nat
                                   /\ w[1] \in DOMAIN Given(c)
                                   /\ w[2] \in DOMAIN Given(c)[w[1]].needs
                                   /\ Edge(c, w).from[1] = c /\ Edge(c, w).to[1] = c
                                   /\ Edge(c, w).from[2] \in DOMAIN Given(c)
                                   /\ Edge(c, w).to[2] \in DOMAIN Given(c)
                                   /\ Edge(c, w) \in EdgeRow
<1>1. Given(c) \in ValidPlan \union {<<>>}
  BY DEF PlanningType, PlanRow, Given
<1> DEFINE row == [type : STRING, told : BOOLEAN, needs : Seq(Nat)]
<1>2. Given(c) \in Seq(row)
  <2>1. <<>> \in Seq(row)
    OBVIOUS
  <2>2. ValidPlan \subseteq Seq(row)
    BY PlanningAssumption DEF ValidPlan
  <2> QED BY <1>1, <2>1, <2>2
<1>3. Len(Given(c)) \in Nat /\ DOMAIN Given(c) = 1 .. Len(Given(c))
  BY <1>2
<1>4. ASSUME NEW w \in Wanted(c)
      PROVE  /\ w = <<w[1], w[2]>> /\ w \in Nat \X Nat
             /\ w[1] \in DOMAIN Given(c) /\ w[2] \in DOMAIN Given(c)[w[1]].needs
             /\ Edge(c, w).from[1] = c /\ Edge(c, w).to[1] = c
             /\ Edge(c, w).from[2] \in DOMAIN Given(c)
             /\ Edge(c, w).to[2] \in DOMAIN Given(c)
             /\ Edge(c, w) \in EdgeRow
  <2>1. PICK i \in DOMAIN Given(c) : \E j \in DOMAIN Given(c)[i].needs : w = <<i, j>>
    BY <1>4 DEF Wanted
  <2>2. PICK j \in DOMAIN Given(c)[i].needs : w = <<i, j>>
    BY <2>1
  <2>3. i \in Nat /\ w[1] = i /\ w[2] = j
    BY <1>3, <2>2
  <2>4. Given(c)[i].needs \in Seq(Nat)
    <3> HIDE DEF row
    <3>1. Given(c)[i] \in row
      BY <1>2, <1>3
    <3> QED BY <3>1 DEF row
  <2>5. j \in Nat
    BY <2>4
  <2>6. Given(c) \in ValidPlan
    BY <1>1, <1>3, <2>1
  <2>7. Given(c)[i].needs[j] \in DOMAIN Given(c)
    BY <2>6 DEF ValidPlan, Valid
  <2> DEFINE k == Given(c)[i].needs[j]
  <2>8. Edge(c, w) = [from |-> <<c, k>>, to |-> <<c, i>>, nth |-> j]
    BY <2>3 DEF Edge
  <2> HIDE DEF k
  <2>9. k \in DOMAIN Given(c) /\ k \in Nat
    BY <1>3, <2>7 DEF k
  <2> QED BY <2>2, <2>3, <2>5, <2>8, <2>9 DEF EdgeRow
<1> QED BY <1>1, <1>3, <1>4

\* What belongs to other requests is left alone.
SameRows(c) ==
    /\ planning'[c] = planning[c]
    /\ \A n \in nodes : n.by = c => n \in nodes'
    /\ \A n \in nodes' : n.by = c => n \in nodes
    /\ \A e \in edges : e.from[1] = c => e \in edges'
    /\ \A e \in edges' : e.from[1] = c => e \in edges
    /\ erased' = erased

LEMMA SamePlan ==
    ASSUME NEW c \in Planner, planning'[c].plan = planning[c].plan
    PROVE  /\ Given(c)' = Given(c) /\ Wanted(c)' = Wanted(c)
           /\ \A w : Edge(c, w)' = Edge(c, w)
  BY DEF Given, Wanted, Edge

LEMMA OthersGoOn ==
    ASSUME NEW c \in Planner, PlanningType, Progress(c), SameRows(c)
    PROVE  Progress(c)' /\ (Gone(c) => Gone(c)')
<1>1. /\ \A i : Erased(c, i)' = Erased(c, i)
      /\ \A i : IsPlaced(c, i)' = IsPlaced(c, i) /\ HasNode(c, i)' = HasNode(c, i)
      /\ \A i : Finished(c, i)' = Finished(c, i)
  BY DEF SameRows, Erased, HasNode, IsPlaced, Finished
<1>2. /\ Given(c)' = Given(c) /\ Wanted(c)' = Wanted(c)
      /\ \A w : Edge(c, w)' = Edge(c, w)
  BY SamePlan DEF SameRows
<1>3. WritesNodes(c)'
  BY <1>1 DEF SameRows, Progress, WritesNodes
<1>4. \A w : BothKept(c, w)' = BothKept(c, w)
  BY <1>1, <1>2 DEF BothKept
<1>5. \A w \in planning[c].linked : Edge(c, w).from[1] = c
  BY GivenIs DEF Progress, WritesEdges
<1>6. WritesEdges(c)'
  BY <1>1, <1>2, <1>4, <1>5 DEF SameRows, Progress, WritesEdges
<1>7. Stands(c)'
  BY <1>1, <1>2 DEF SameRows, Progress, Stands
<1>8. Gone(c) => Gone(c)'
  BY DEF SameRows, Gone, AtWork, Made
<1> QED BY <1>3, <1>6, <1>7, <1>8 DEF Progress

\* Users change and delete nodes of all requests, and the edges of what they delete.
Touched ==
    /\ planning' = planning /\ together' = together
    /\ \A c, i : Erased(c, i) => Erased(c, i)'
    /\ \A c, i : Erased(c, i)' => Erased(c, i) \/ HasNode(c, i)
    /\ \A c, i : HasNode(c, i) => HasNode(c, i)' \/ Erased(c, i)'
    /\ \A c, i : HasNode(c, i)' => HasNode(c, i) /\ ~Erased(c, i)'
    /\ \A c, i : IsPlaced(c, i) => IsPlaced(c, i)' \/ Erased(c, i)'
    /\ \A e : e \in edges' <=> /\ e \in edges
                              /\ ~Erased(e.from[1], e.from[2])' /\ ~Erased(e.to[1], e.to[2])'

LEMMA TouchesKeep ==
    ASSUME NEW c \in Planner, PlanningType, PlanningType', Progress(c), Touched
    PROVE  Progress(c)' /\ (Gone(c) => Gone(c)')
<1>1. /\ \A i : Finished(c, i) => Finished(c, i)'
      /\ \A n \in nodes' : n.by = c => HasNode(c, n.index)
  BY DEF Touched, Finished, HasNode
<1>2. WritesNodes(c)'
  <2>1. \A n \in nodes' : \E m \in nodes : m.by = n.by /\ m.index = n.index
    BY DEF Touched, HasNode
  <2>2. \A i : Erased(c, i)' => Erased(c, i) \/ \E m \in nodes : m.by = c /\ m.index = i
    BY DEF Touched, HasNode
  <2>3. WritesNodes(c) /\ planning' = planning
    BY DEF Touched, Progress
  <2> QED BY <1>1, <2>1, <2>2, <2>3 DEF WritesNodes
<1>3. /\ Given(c)' = Given(c) /\ Wanted(c)' = Wanted(c)
      /\ \A w : Edge(c, w)' = Edge(c, w)
  BY SamePlan DEF Touched
<1>4. WritesEdges(c)'
  <2>1. \A e \in edges' : e.from[1] = c => \E w \in planning'[c].linked : e = Edge(c, w)'
    BY <1>3 DEF Touched, Progress, WritesEdges
  <2>2. ASSUME NEW w \in planning'[c].linked, BothKept(c, w)' PROVE Edge(c, w)' \in edges'
    <3>1. w \in planning[c].linked /\ w \in Wanted(c)
      BY DEF Touched, Progress, WritesEdges
    <3>2. Edge(c, w) \in edges
      BY <1>3, <2>2, <3>1 DEF Touched, Progress, WritesEdges, BothKept
    <3>3. PICK e \in edges : e = Edge(c, w)
      BY <3>2
    <3>4. e.from[1] = c /\ e.to[1] = c
      BY <3>1, <3>3, GivenIs
    <3>5. e \in edges'
      BY <1>3, <2>2, <3>3, <3>4 DEF Touched, BothKept
    <3> QED BY <1>3, <3>3, <3>5
  <2> QED BY <1>3, <2>1, <2>2 DEF Touched, Progress, WritesEdges
<1>5. Stands(c)'
  BY <1>3 DEF Touched, Progress, Stands
<1>6. Gone(c) => Gone(c)'
  BY <1>1 DEF Touched, Gone, AtWork, Made, HasNode
<1> QED BY <1>2, <1>4, <1>5, <1>6 DEF Progress

\* A step of one request that is at work.
LEMMA OneGoesOn ==
    ASSUME PlanInv, NEW c \in Planner, PlanningType', RowsAgree', Progress(c)', AtWork(c),
           planning'[c].force = planning[c].force, together' = together,
           \A d \in Planner \ {c} : SameRows(d)
    PROVE  PlanInv'
<1>1. \A d \in Planner \ {c} : Progress(d)' /\ (Gone(d) => Gone(d)')
  BY OthersGoOn DEF PlanInv
<1>2. \A d \in Planner \ {c} : planning'[d] = planning[d]
  BY DEF SameRows
<1>3. ~Gone(c) /\ planning[c].at # "new"
  BY DEF Gone, AtWork
<1>4. NotMixed'
  <2> SUFFICES ASSUME NEW d \in Planner, NEW p \in Planner, d # p
               PROVE  \/ planning'[d].force \/ planning'[p].force \/ {d, p} \in together'
                      \/ planning'[d].at = "new" \/ planning'[p].at = "new"
                      \/ Gone(d)' \/ Gone(p)'
    BY DEF NotMixed
  <2>1. \/ planning[d].force \/ planning[p].force \/ {d, p} \in together
        \/ planning[d].at = "new" \/ planning[p].at = "new"
        \/ Gone(d) \/ Gone(p)
    BY DEF PlanInv, NotMixed
  <2>2. /\ planning'[d].force = planning[d].force /\ planning'[p].force = planning[p].force
        /\ planning[d].at = "new" => planning'[d].at = "new"
        /\ planning[p].at = "new" => planning'[p].at = "new"
        /\ Gone(d) => Gone(d)' 
        /\ Gone(p) => Gone(p)'
    BY <1>1, <1>2, <1>3
  <2> QED BY <2>1, <2>2
<1> QED BY <1>1, <1>4 DEF PlanInv

LEMMA RequestRow ==
    ASSUME PlanningType, NEW c \in Planner, NEW row \in PlanRow,
           planning' = [planning EXCEPT ![c] = row]
    PROVE  /\ planning' \in [Planner -> PlanRow]
           /\ planning'[c] = row /\ \A d \in Planner \ {c} : planning'[d] = planning[d]
  BY DEF PlanningType

LEMMA AnsweredIs ==
    ASSUME PlanningType, NEW c \in Planner, NEW how \in Stage, Answered(c, how)
    PROVE  /\ planning' \in [Planner -> PlanRow]
           /\ planning'[c].at = how /\ planning'[c].force = planning[c].force
           /\ planning'[c].plan = planning[c].plan /\ planning'[c].next = planning[c].next
           /\ planning'[c].linked = planning[c].linked
           /\ \A d \in Planner \ {c} : planning'[d] = planning[d]
<1> DEFINE row == [planning[c] EXCEPT !.at = how]
<1>1. planning[c] \in PlanRow
  BY DEF PlanningType
<1>2. /\ row \in PlanRow /\ row.at = how /\ row.force = planning[c].force
      /\ row.plan = planning[c].plan /\ row.next = planning[c].next
      /\ row.linked = planning[c].linked
  BY <1>1 DEF PlanRow
<1>3. planning' = [planning EXCEPT ![c] = row]
  BY DEF Answered
<1> HIDE DEF row
<1> QED BY <1>2, <1>3, RequestRow

\* A request that gives up: what it has written stays.
LEMMA GivesUpKeeps ==
    ASSUME PlanInv, NEW c \in Planner, NEW how \in {"invalid", "failed"},
           AtWork(c), Answered(c, how), UNCHANGED <<nodes, edges, together, erased>>
    PROVE  PlanInv'
<1>0. how \in Stage
  BY DEF Stage
<1>1. /\ planning' \in [Planner -> PlanRow]
      /\ planning'[c].at = how /\ planning'[c].force = planning[c].force
      /\ planning'[c].plan = planning[c].plan /\ planning'[c].next = planning[c].next
      /\ planning'[c].linked = planning[c].linked
      /\ \A d \in Planner \ {c} : planning'[d] = planning[d]
  BY <1>0, AnsweredIs DEF PlanInv
<1>2. PlanningType'
  BY <1>1 DEF PlanInv, PlanningType
<1>3. RowsAgree'
  BY DEF PlanInv, RowsAgree, HasNode, Erased
<1>4. \A d \in Planner \ {c} : SameRows(d)
  BY <1>1 DEF SameRows
<1>5. /\ Given(c)' = Given(c) /\ Wanted(c)' = Wanted(c)
      /\ \A w : Edge(c, w)' = Edge(c, w)
  BY <1>1, SamePlan
<1>6. WritesNodes(c)'
  BY <1>1 DEF PlanInv, Progress, WritesNodes, Finished, Erased, IsPlaced
<1>7. WritesEdges(c)'
  BY <1>1, <1>5 DEF PlanInv, Progress, WritesEdges, BothKept, Erased
<1>8. Stands(c)'
  BY <1>1 DEF PlanInv, Progress, Stands
<1> QED BY <1>1, <1>2, <1>3, <1>4, <1>6, <1>7, <1>8, OneGoesOn DEF Progress

LEMMA DecomposeKeeps ==
    ASSUME PlanInv, NEW c \in Planner, NEW force \in BOOLEAN, DecomposeIssue(c, force)
    PROVE  PlanInv'
<1> DEFINE how == CASE goal # "described"   -> "refused"
                    [] ~force /\ HasGraph -> "exists"
                    [] OTHER              -> "asking"
<1>1. /\ how \in {"asking", "refused", "exists"}
      /\ how = "asking" => force \/ nodes = {}
  BY DEF HasGraph
<1>b. planning' = [planning EXCEPT ![c].force = force, ![c].at = how]
  BY DEF DecomposeIssue
<1> HIDE DEF how
<1> DEFINE row == [planning[c] EXCEPT !.force = force, !.at = how]
<1>2. planning[c] \in PlanRow /\ planning[c].at = "new"
  BY DEF PlanInv, PlanningType, DecomposeIssue
<1>3. /\ row \in PlanRow /\ row.at = how /\ row.force = force /\ row.plan = planning[c].plan
      /\ row.next = planning[c].next /\ row.linked = planning[c].linked
  BY <1>1, <1>2 DEF PlanRow, Stage
<1>4. planning' = [planning EXCEPT ![c] = row]
  BY <1>2, <1>b DEF PlanInv, PlanningType
<1> HIDE DEF row
<1>5. /\ planning' \in [Planner -> PlanRow]
      /\ planning'[c] = row /\ \A d \in Planner \ {c} : planning'[d] = planning[d]
  BY <1>3, <1>4, RequestRow DEF PlanInv
<1>6. UNCHANGED <<nodes, edges, erased>>
      /\ together' = together \union {{c, d} : d \in {p \in Planner : AtWork(p)}}
  BY DEF DecomposeIssue
<1>7. PlanningType'
  BY <1>5, <1>6 DEF PlanInv, PlanningType
<1>8. RowsAgree'
  BY <1>6 DEF PlanInv, RowsAgree, HasNode, Erased
<1>9. \A d \in Planner \ {c} : SameRows(d)
  BY <1>5, <1>6 DEF SameRows
<1>10. \A d \in Planner \ {c} : Progress(d)' /\ (Gone(d) => Gone(d)')
  BY <1>9, OthersGoOn DEF PlanInv
<1>11. Progress(c)'
  <2>1. /\ Given(c)' = Given(c) /\ Wanted(c)' = Wanted(c)
        /\ \A w : Edge(c, w)' = Edge(c, w)
    BY <1>3, <1>5, SamePlan
  <2>2. Progress(c) /\ planning[c].plan = <<>> /\ planning[c].next = 1 /\ planning[c].linked = {}
    BY <1>2 DEF PlanInv, Progress, Stands
  <2>3. WritesNodes(c)'
    BY <1>3, <1>5, <1>6, <2>2 DEF Progress, WritesNodes, Finished, Erased, IsPlaced
  <2>4. WritesEdges(c)'
    BY <1>3, <1>5, <1>6, <2>1, <2>2 DEF Progress, WritesEdges, BothKept, Erased
  <2>5. Stands(c)'
    BY <1>1, <1>3, <1>5, <2>2 DEF Stands
  <2> QED BY <2>3, <2>4, <2>5 DEF Progress
<1>12. Made(c) = {}
  <2>1. DOMAIN <<>> = {}
    OBVIOUS
  <2> QED BY <1>2, <2>1 DEF PlanInv, Progress, Stands, WritesNodes, Made
<1>13. how # "asking" => Gone(c)'
  BY <1>1, <1>3, <1>5, <1>6, <1>12 DEF Gone, AtWork, Made
<1>14. \A d \in Planner \ {c} :
           \/ planning'[c].force \/ {c, d} \in together' \/ planning'[d].at = "new"
           \/ Gone(c)' \/ Gone(d)'
  <2>1. ASSUME NEW d \in Planner \ {c}, ~force, how = "asking", ~AtWork(d) PROVE Gone(d)'
    <3>1. Gone(d)
      BY <1>1, <2>1 DEF Gone, Made
    <3> QED BY <1>10, <3>1
  <2>2. \A d \in Planner : AtWork(d) => {c, d} \in together'
    BY <1>6
  <2> QED BY <1>3, <1>5, <1>13, <2>1, <2>2
<1>15. NotMixed'
  <2> SUFFICES ASSUME NEW d \in Planner, NEW p \in Planner, d # p
               PROVE  \/ planning'[d].force \/ planning'[p].force \/ {d, p} \in together'
                      \/ planning'[d].at = "new" \/ planning'[p].at = "new"
                      \/ Gone(d)' \/ Gone(p)'
    BY DEF NotMixed
  <2>1. CASE d = c
    BY <1>14, <2>1
  <2>2. CASE p = c
    <3>1. {c, d} = {d, c}
      OBVIOUS
    <3> QED BY <1>14, <2>2, <3>1
  <2>3. CASE d # c /\ p # c
    <3>1. \/ planning[d].force \/ planning[p].force \/ {d, p} \in together
          \/ planning[d].at = "new" \/ planning[p].at = "new"
          \/ Gone(d) \/ Gone(p)
      BY DEF PlanInv, NotMixed
    <3>2. {d, p} \in together => {d, p} \in together'
      BY <1>6
    <3> QED BY <1>5, <1>10, <2>3, <3>1, <3>2
  <2> QED BY <2>1, <2>2, <2>3
<1> QED BY <1>7, <1>8, <1>10, <1>11, <1>15 DEF PlanInv

LEMMA ModelAnswersKeeps ==
    ASSUME PlanInv, NEW c \in Planner, NEW plan \in Plan, ModelAnswers(c, plan)
    PROVE  PlanInv'
<1>0. AtWork(c) /\ planning[c].at = "asking" /\ UNCHANGED <<nodes, edges, together, erased>>
  BY DEF ModelAnswers, AtWork
<1>1. CASE ~Valid(plan)
  BY <1>0, <1>1, GivesUpKeeps DEF ModelAnswers
<1>2. CASE Valid(plan)
  <2> DEFINE row == [planning[c] EXCEPT !.at = "nodes", !.plan = plan]
  <2>1. planning[c] \in PlanRow /\ plan \in ValidPlan
    BY <1>2 DEF PlanInv, PlanningType, ValidPlan
  <2>2. /\ row \in PlanRow /\ row.at = "nodes" /\ row.force = planning[c].force
        /\ row.plan = plan /\ row.next = planning[c].next /\ row.linked = planning[c].linked
    BY <2>1 DEF PlanRow, Stage
  <2>3. planning' = [planning EXCEPT ![c] = row]
    BY <1>2 DEF ModelAnswers
  <2> HIDE DEF row
  <2>4. /\ planning' \in [Planner -> PlanRow]
        /\ planning'[c] = row /\ \A d \in Planner \ {c} : planning'[d] = planning[d]
    BY <2>2, <2>3, RequestRow DEF PlanInv
  <2>5. PlanningType'
    BY <1>0, <2>4 DEF PlanInv, PlanningType
  <2>6. RowsAgree'
    BY <1>0 DEF PlanInv, RowsAgree, HasNode, Erased
  <2>7. \A d \in Planner \ {c} : SameRows(d)
    BY <1>0, <2>4 DEF SameRows
  <2>8. /\ Progress(c)
        /\ planning[c].plan = <<>> /\ planning[c].next = 1 /\ planning[c].linked = {}
    BY <1>0 DEF PlanInv, Progress, Stands
  <2>9. /\ \A n \in nodes : n.by # c
        /\ \A i \in Nat : ~Erased(c, i)
        /\ \A e \in edges : e.from[1] # c
    <3>1. DOMAIN <<>> = {}
      OBVIOUS
    <3> QED BY <2>8, <3>1 DEF Progress, WritesNodes, WritesEdges
  <2>10. WritesNodes(c)'
    BY <1>0, <2>2, <2>4, <2>8, <2>9 DEF WritesNodes, Erased
  <2>11. WritesEdges(c)'
    BY <1>0, <2>2, <2>4, <2>8, <2>9 DEF WritesEdges
  <2>12. 1 \in DOMAIN plan
    BY <1>2, PlanningAssumption DEF Valid
  <2>13. Stands(c)'
    BY <2>2, <2>4, <2>8, <2>12 DEF Stands
  <2> QED BY <1>0, <2>2, <2>4, <2>5, <2>6, <2>7, <2>10, <2>11, <2>13, OneGoesOn DEF Progress
<1> QED BY <1>1, <1>2

LEMMA CreateNodeKeeps ==
    ASSUME PlanInv, NEW c \in Planner, CreateNode(c)
    PROVE  PlanInv'
<1>0. AtWork(c) /\ planning[c].at = "nodes" /\ UNCHANGED <<edges, together, erased>>
  BY DEF CreateNode, AtWork
<1>1. CASE goal = "deleted"
  BY <1>0, <1>1, GivesUpKeeps DEF CreateNode
<1>2. CASE goal # "deleted"
  <2> DEFINE next == planning[c].next
             new == [by |-> c, index |-> next, placed |-> FALSE, status |-> "pending"]
  <2>1. next \in Nat \ {0} /\ next \in DOMAIN planning[c].plan
    BY <1>0 DEF PlanInv, PlanningType, PlanRow, Progress, Stands
  <2>2. /\ planning' \in [Planner -> PlanRow]
        /\ planning'[c].at = "placing" /\ planning'[c].force = planning[c].force
        /\ planning'[c].plan = planning[c].plan /\ planning'[c].next = next
        /\ planning'[c].linked = planning[c].linked
        /\ \A d \in Planner \ {c} : planning'[d] = planning[d]
    <3>1. "placing" \in Stage
      BY DEF Stage
    <3> QED BY <1>2, <3>1, AnsweredIs DEF PlanInv, CreateNode
  <2>3. new \in NodeRow /\ new.by = c /\ new.index = next /\ nodes' = nodes \union {new}
    BY <1>2, <2>1 DEF NodeRow, CreateNode
  <2> HIDE DEF new, next
  <2>4. PlanningType'
    BY <1>0, <2>2, <2>3 DEF PlanInv, PlanningType
  <2>5. WritesNodes(c) /\ Progress(c)
    BY DEF PlanInv, Progress
  <2>6. ~HasNode(c, next) /\ ~Erased(c, next)
    BY <1>0, <2>1, <2>5 DEF WritesNodes, HasNode, NodeRow, PlanInv, PlanningType, next
  <2>7. RowsAgree'
    <3>1. \A n, m \in nodes' : n.by = m.by /\ n.index = m.index => n = m
      BY <2>3, <2>6 DEF PlanInv, RowsAgree, HasNode
    <3>2. \A n \in nodes' : ~Erased(n.by, n.index)'
      BY <1>0, <2>3, <2>6 DEF PlanInv, RowsAgree, Erased
    <3>3. \A d, i : HasNode(d, i) => HasNode(d, i)'
      BY <2>3 DEF HasNode
    <3> QED BY <1>0, <3>1, <3>2, <3>3 DEF PlanInv, RowsAgree
  <2>8. \A d \in Planner \ {c} : SameRows(d)
    BY <1>0, <2>2, <2>3 DEF SameRows
  <2>9. WritesNodes(c)'
    <3>1. \A i : Finished(c, i) => Finished(c, i)'
      BY <1>0, <2>3 DEF Finished, Erased, IsPlaced
    <3>2. \A i \in Nat \ {0} : i < planning'[c].next => Finished(c, i)'
      BY <2>2, <2>5, <3>1 DEF WritesNodes, next
    <3>3. \A n \in nodes' : n.by = c => /\ n.index \in DOMAIN planning[c].plan
                                       /\ (n.index < next \/ n.index = next)
      BY <1>0, <2>1, <2>3, <2>5 DEF WritesNodes, next
    <3>4. \A i \in Nat : Erased(c, i)' => i \in DOMAIN planning[c].plan /\ i < next
      BY <1>0, <2>5 DEF WritesNodes, Erased, next
    <3> QED BY <2>2, <3>2, <3>3, <3>4 DEF WritesNodes
  <2>10. WritesEdges(c)'
    <3>1. /\ Given(c)' = Given(c) /\ Wanted(c)' = Wanted(c)
          /\ \A w : Edge(c, w)' = Edge(c, w)
      BY <2>2, SamePlan
    <3> QED BY <1>0, <2>2, <2>5, <3>1 DEF Progress, WritesEdges, BothKept, Erased
  <2>11. \E n \in nodes' : n.by = c /\ n.index = next
    BY <2>3
  <2>12. Stands(c)'
    BY <1>0, <2>1, <2>2, <2>5, <2>11 DEF Progress, Stands, HasNode, next
  <2> QED BY <1>0, <2>2, <2>4, <2>7, <2>8, <2>9, <2>10, <2>12, OneGoesOn DEF Progress
<1> QED BY <1>1, <1>2

LEMMA PlaceNodeKeeps ==
    ASSUME PlanInv, NEW c \in Planner, PlaceNode(c)
    PROVE  PlanInv'
<1> DEFINE made == {n \in Made(c) : n.index = planning[c].next}
           then == IF planning[c].next = Len(Given(c)) THEN "edges" ELSE "nodes"
<1>0. /\ AtWork(c) /\ planning[c].at = "placing" /\ UNCHANGED <<edges, together, erased>>
      /\ Progress(c) /\ WritesNodes(c) /\ planning[c] \in PlanRow
  BY DEF PlaceNode, AtWork, PlanInv, PlanningType, Progress
<1>1. CASE made = {}
  <2>1. Answered(c, "failed") /\ UNCHANGED nodes
    BY <1>1 DEF PlaceNode
  <2> QED BY <1>0, <2>1, GivesUpKeeps
<1>2. CASE made # {}
  <2> DEFINE next == planning[c].next
             row == [planning[c] EXCEPT !.at = then, !.next = @ + 1]
  <2>1. PICK n \in nodes : n.by = c /\ n.index = planning[c].next
    BY <1>2 DEF Made
  <2>2. made = {n}
    BY <2>1 DEF PlanInv, RowsAgree, Made
  <2> DEFINE new == Placed(n)
  <2>3. /\ nodes' = (nodes \ {n}) \union {new}
        /\ new \in NodeRow /\ new.by = c /\ new.index = planning[c].next /\ new.placed
    <3>1. n \in NodeRow
      BY DEF PlanInv, PlanningType
    <3>2. /\ new \in NodeRow /\ new.placed
          /\ new.by = n.by /\ new.index = n.index
      BY <3>1 DEF Placed, NodeRow
    <3>3. nodes' = (nodes \ made) \union {Placed(m) : m \in made}
      BY DEF PlaceNode
    <3> HIDE DEF made, new
    <3>4. {Placed(m) : m \in made} = {new}
      BY <2>2 DEF new
    <3> QED BY <2>1, <2>2, <3>2, <3>3, <3>4
  <2> HIDE DEF new
  <2>4. next \in Nat \ {0} /\ next \in DOMAIN planning[c].plan
    BY <1>0 DEF PlanRow, Progress, Stands
  <2>5. /\ row \in PlanRow /\ row.at = then /\ row.force = planning[c].force
        /\ row.plan = planning[c].plan /\ row.next = next + 1
        /\ row.linked = planning[c].linked
    <3>1. then \in Stage
      BY DEF Stage
    <3> HIDE DEF then
    <3>2. next + 1 \in Nat \ {0}
      BY <2>4
    <3> QED BY <1>0, <3>1, <3>2 DEF PlanRow
  <2>6. planning' = [planning EXCEPT ![c] = row]
    BY <1>2 DEF PlaceNode
  <2> HIDE DEF row
  <2>7. /\ planning' \in [Planner -> PlanRow]
        /\ planning'[c] = row /\ \A d \in Planner \ {c} : planning'[d] = planning[d]
    BY <2>5, <2>6, RequestRow DEF PlanInv
  <2>8. \A d, i : HasNode(d, i)' <=> HasNode(d, i)
    BY <2>1, <2>3 DEF HasNode
  <2>9. RowsAgree'
    <3>1. \A m, o \in nodes' : m.by = o.by /\ m.index = o.index => m = o
      BY <2>1, <2>3 DEF PlanInv, RowsAgree
    <3>2. \A m \in nodes' : ~Erased(m.by, m.index)'
      BY <1>0, <2>1, <2>3 DEF PlanInv, RowsAgree, Erased
    <3> QED BY <1>0, <2>8, <3>1, <3>2 DEF PlanInv, RowsAgree
  <2>10. PlanningType'
    BY <1>0, <2>3, <2>7 DEF PlanInv, PlanningType
  <2>11. \A d \in Planner \ {c} : SameRows(d)
    BY <1>0, <2>1, <2>3, <2>7 DEF SameRows
  <2> HIDE DEF next
  <2>12. WritesNodes(c)'
    <3>1. \A i : Finished(c, i) => Finished(c, i)'
      BY <1>0, <2>1, <2>3 DEF Finished, Erased, IsPlaced
    <3>2. ASSUME NEW i \in Nat \ {0}, i = next PROVE Finished(c, i)'
      BY <2>3, <3>2 DEF Finished, IsPlaced, next
    <3>3. \A i \in Nat \ {0} : i < next + 1 => Finished(c, i)'
      BY <1>0, <2>4, <3>1, <3>2 DEF WritesNodes, next
    <3>4. \A m \in nodes' : m.by = c => m.index \in DOMAIN planning[c].plan /\ m.index < next + 1
      <4>1. \A m \in nodes : m.index \in Nat
        BY DEF PlanInv, PlanningType, NodeRow
      <4> QED BY <1>0, <2>3, <2>4, <4>1 DEF WritesNodes, next
    <3>5. \A i \in Nat : Erased(c, i)' => i \in DOMAIN planning[c].plan /\ i < next + 1
      BY <1>0, <2>4 DEF WritesNodes, Erased, next
    <3> QED BY <2>5, <2>7, <3>3, <3>4, <3>5 DEF WritesNodes
  <2>13. WritesEdges(c)'
    <3>1. /\ Given(c)' = Given(c) /\ Wanted(c)' = Wanted(c)
          /\ \A w : Edge(c, w)' = Edge(c, w)
      BY <2>5, <2>7, SamePlan
    <3> QED BY <1>0, <2>5, <2>7, <3>1 DEF Progress, WritesEdges, BothKept, Erased
  <2>14. Stands(c)'
    <3>1. Len(planning[c].plan) \in Nat /\ DOMAIN planning[c].plan = 1 .. Len(planning[c].plan)
      BY GivenIs DEF Given, PlanInv
    <3>2. planning[c].linked = {}
      BY <1>0, <2>4, <3>1 DEF Progress, Stands, next
    <3>3. CASE next = Len(planning[c].plan)
      BY <2>5, <2>7, <3>2, <3>3 DEF Stands, Given, next
    <3>4. CASE next # Len(planning[c].plan)
      <4>1. next + 1 \in DOMAIN planning[c].plan
        BY <2>4, <3>1, <3>4
      <4> QED BY <2>5, <2>7, <3>2, <3>4, <4>1 DEF Stands, Given, next
    <3> QED BY <3>3, <3>4
  <2> QED BY <1>0, <2>5, <2>7, <2>9, <2>10, <2>11, <2>12, <2>13, <2>14, OneGoesOn DEF Progress
<1> QED BY <1>1, <1>2

LEMMA CreateEdgeKeeps ==
    ASSUME PlanInv, NEW c \in Planner, NEW w \in NextLinks(c), CreateEdge(c, w)
    PROVE  PlanInv'
<1>0. /\ AtWork(c) /\ planning[c].at = "edges" /\ UNCHANGED <<nodes, together, erased>>
      /\ Progress(c) /\ planning[c] \in PlanRow
  BY DEF CreateEdge, AtWork, PlanInv, PlanningType
<1>1. CASE Missing(Edge(c, w)) # {}
  <2>1. Answered(c, "failed") /\ UNCHANGED edges
    BY <1>1 DEF CreateEdge
  <2> QED BY <1>0, <2>1, GivesUpKeeps
<1>2. CASE Missing(Edge(c, w)) = {}
  <2> DEFINE new == Edge(c, w)
             linked == planning[c].linked \union {w}
             row == [planning[c] EXCEPT !.linked = linked]
  <2>1. w \in Wanted(c)
    BY DEF NextLinks
  <2>2. /\ w \in Nat \X Nat /\ new.from[1] = c /\ new.to[1] = c /\ new \in EdgeRow
    BY <2>1, GivenIs DEF PlanInv
  <2>3. /\ edges' = edges \union {new}
        /\ planning' = [planning EXCEPT ![c] = row]
    BY <1>2 DEF CreateEdge
  <2>4. new.from \in IdsOf(nodes) /\ new.to \in IdsOf(nodes)
    BY <1>2 DEF Missing
  <2> HIDE DEF new
  <2>5. HasNode(new.from[1], new.from[2]) /\ HasNode(new.to[1], new.to[2])
    <3>1. ASSUME NEW id \in IdsOf(nodes) PROVE HasNode(id[1], id[2])
      <4>1. PICK n \in nodes : id = <<n.by, n.index>>
        BY <3>1 DEF IdsOf
      <4> QED BY <4>1 DEF HasNode
    <3> QED BY <2>4, <3>1
  <2>6. linked \subseteq Wanted(c) /\ linked \in SUBSET (Nat \X Nat)
    BY <1>0, <2>1, <2>2 DEF Progress, WritesEdges, PlanRow
  <2> HIDE DEF linked
  <2>7. /\ row \in PlanRow /\ row.at = "edges" /\ row.force = planning[c].force
        /\ row.plan = planning[c].plan /\ row.next = planning[c].next /\ row.linked = linked
    BY <1>0, <2>6 DEF PlanRow
  <2> HIDE DEF row
  <2>8. /\ planning' \in [Planner -> PlanRow]
        /\ planning'[c] = row /\ \A d \in Planner \ {c} : planning'[d] = planning[d]
    BY <2>3, <2>7, RequestRow DEF PlanInv
  <2>9. PlanningType'
    BY <1>0, <2>2, <2>3, <2>8 DEF PlanInv, PlanningType, new
  <2>10. RowsAgree'
    BY <1>0, <2>2, <2>3, <2>5 DEF PlanInv, RowsAgree, HasNode, Erased, new
  <2>11. \A d \in Planner \ {c} : SameRows(d)
    BY <1>0, <2>2, <2>3, <2>8 DEF SameRows, new
  <2>12. /\ Given(c)' = Given(c) /\ Wanted(c)' = Wanted(c)
         /\ \A v : Edge(c, v)' = Edge(c, v)
    BY <2>7, <2>8, SamePlan
  <2>13. WritesNodes(c)'
    BY <1>0, <2>7, <2>8 DEF Progress, WritesNodes, Finished, Erased, IsPlaced
  <2>14. WritesEdges(c)'
    <3>1. ASSUME NEW e \in edges', e.from[1] = c PROVE \E v \in linked : e = Edge(c, v)
      <4>1. CASE e = new
        BY <4>1 DEF new, linked
      <4>2. CASE e \in edges
        BY <1>0, <3>1, <4>2 DEF Progress, WritesEdges, linked
      <4> QED BY <2>3, <4>1, <4>2
    <3>2. ASSUME NEW v \in linked, BothKept(c, v)' PROVE Edge(c, v) \in edges'
      <4>1. CASE v = w
        BY <2>3, <4>1 DEF new
      <4>2. CASE v \in planning[c].linked
        BY <1>0, <2>3, <2>12, <3>2, <4>2 DEF Progress, WritesEdges, BothKept, Erased
      <4> QED BY <4>1, <4>2 DEF linked
    <3> QED BY <2>6, <2>7, <2>8, <2>12, <3>1, <3>2 DEF WritesEdges
  <2>15. Stands(c)'
    BY <1>0, <2>7, <2>8 DEF Progress, Stands
  <2> QED BY <1>0, <2>7, <2>8, <2>9, <2>10, <2>11, <2>13, <2>14, <2>15, OneGoesOn DEF Progress
<1> QED BY <1>1, <1>2

\* Among the dependencies that are left there is a first one.
LEMMA LeftHasFirst ==
    ASSUME PlanningType, NEW c \in Planner, NEW u \in Wanted(c) \ planning[c].linked
    PROVE  NextLinks(c) # {}
<1> DEFINE left == Wanted(c) \ planning[c].linked
           rows == {v[1] : v \in left}
<1>1. \A v \in left : v[1] \in Nat /\ v[2] \in Nat
  BY GivenIs
<1>2. rows \subseteq Nat /\ rows # {}
  BY <1>1
<1> HIDE DEF rows
<1>3. PICK i \in rows : \A k \in rows : i <= k
  BY <1>2, LeastNumber
<1> DEFINE places == {v[2] : v \in {x \in left : x[1] = i}}
<1>4. places \subseteq Nat /\ places # {}
  BY <1>1, <1>3 DEF rows
<1> HIDE DEF places
<1>5. PICK j \in places : \A k \in places : j <= k
  BY <1>4, LeastNumber
<1>6. PICK w \in left : w[1] = i /\ w[2] = j
  BY <1>5 DEF places
<1>7. ASSUME NEW v \in left PROVE ~Before(v, w)
  <2>1. i <= v[1] /\ (v[1] = i => j <= v[2])
    BY <1>3, <1>5 DEF rows, places
  <2>2. i \in Nat /\ j \in Nat /\ v[1] \in Nat /\ v[2] \in Nat
    BY <1>1, <1>6
  <2> QED BY <1>6, <2>1, <2>2 DEF Before
<1> QED BY <1>6, <1>7 DEF NextLinks

LEMMA PlanIsMadeKeeps ==
    ASSUME PlanInv, NEW c \in Planner, PlanIsMade(c)
    PROVE  PlanInv'
<1>0. /\ AtWork(c) /\ planning[c].at = "edges" /\ UNCHANGED <<nodes, edges, together, erased>>
      /\ Progress(c) /\ Answered(c, "made")
  BY DEF PlanIsMade, AtWork, PlanInv
<1>1. planning[c].linked = Wanted(c)
  BY <1>0, LeftHasFirst DEF Progress, WritesEdges, PlanInv, PlanIsMade
<1>2. /\ planning' \in [Planner -> PlanRow]
      /\ planning'[c].at = "made" /\ planning'[c].force = planning[c].force
      /\ planning'[c].plan = planning[c].plan /\ planning'[c].next = planning[c].next
      /\ planning'[c].linked = planning[c].linked
      /\ \A d \in Planner \ {c} : planning'[d] = planning[d]
  <2>1. "made" \in Stage
    BY DEF Stage
  <2> QED BY <1>0, <2>1, AnsweredIs DEF PlanInv
<1>3. PlanningType'
  BY <1>0, <1>2 DEF PlanInv, PlanningType
<1>4. RowsAgree'
  BY <1>0 DEF PlanInv, RowsAgree, HasNode, Erased
<1>5. \A d \in Planner \ {c} : SameRows(d)
  BY <1>0, <1>2 DEF SameRows
<1>6. /\ Given(c)' = Given(c) /\ Wanted(c)' = Wanted(c)
      /\ \A w : Edge(c, w)' = Edge(c, w)
  BY <1>2, SamePlan
<1>7. WritesNodes(c)'
  BY <1>0, <1>2 DEF Progress, WritesNodes, Finished, Erased, IsPlaced
<1>8. WritesEdges(c)'
  BY <1>0, <1>2, <1>6 DEF Progress, WritesEdges, BothKept, Erased
<1>9. Stands(c)'
  BY <1>0, <1>1, <1>2, <1>6 DEF Progress, Stands
<1> QED BY <1>0, <1>2, <1>3, <1>4, <1>5, <1>7, <1>8, <1>9, OneGoesOn DEF Progress

\* What users do.
LEMMA TouchedKeeps ==
    ASSUME PlanInv, PlanningType', RowsAgree', Touched
    PROVE  PlanInv'
<1>1. \A c \in Planner : Progress(c)' /\ (Gone(c) => Gone(c)')
  BY TouchesKeep DEF PlanInv
<1>2. NotMixed'
  BY <1>1 DEF PlanInv, NotMixed, Touched
<1> QED BY <1>1, <1>2 DEF PlanInv

LEMMA DeleteNodeKeeps ==
    ASSUME PlanInv, NEW n \in nodes, DeleteTaskGraphNode(n)
    PROVE  PlanInv'
<1>1. /\ nodes' = nodes \ {n} /\ planning' = planning /\ together' = together
      /\ erased' = erased \union {<<n.by, n.index>>}
  BY DEF DeleteTaskGraphNode, IdsOf
<1>2. n \in NodeRow /\ n.by \in Planner /\ n.index \in Nat
  BY DEF PlanInv, PlanningType, NodeRow
<1>3. \A e \in edges : e.from = <<e.from[1], e.from[2]>> /\ e.to = <<e.to[1], e.to[2]>>
  BY DEF PlanInv, PlanningType, EdgeRow
<1>4. \A e : e \in edges' <=> (/\ e \in edges
                                /\ e.from # <<n.by, n.index>> /\ e.to # <<n.by, n.index>>)
  BY DEF DeleteTaskGraphNode, DropsEdges, IdsOf
<1>5. PlanningType'
  BY <1>1, <1>2, <1>4 DEF PlanInv, PlanningType
<1>6. \A c, i : Erased(c, i)' <=> Erased(c, i) \/ (c = n.by /\ i = n.index)
  BY <1>1 DEF Erased
<1>7. \A c, i : HasNode(c, i)' <=> HasNode(c, i) /\ ~(c = n.by /\ i = n.index)
  BY <1>1 DEF HasNode, PlanInv, RowsAgree
<1>8. \A c, i : IsPlaced(c, i) => IsPlaced(c, i)' \/ (c = n.by /\ i = n.index)
  BY <1>1 DEF IsPlaced
<1>9. \A c, i : HasNode(c, i) => ~Erased(c, i)
  BY DEF HasNode, PlanInv, RowsAgree
<1>10. \A e \in edges : /\ HasNode(e.from[1], e.from[2]) /\ HasNode(e.to[1], e.to[2])
                        /\ e.from[1] = e.to[1]
  BY DEF PlanInv, RowsAgree
<1>11. HasNode(n.by, n.index)
  BY DEF HasNode
<1>12. \A e : e \in edges' <=> /\ e \in edges
                              /\ ~Erased(e.from[1], e.from[2])' /\ ~Erased(e.to[1], e.to[2])'
  <2>1. ASSUME NEW e \in edges
        PROVE  /\ (Erased(e.from[1], e.from[2])' <=> e.from = <<n.by, n.index>>)
               /\ (Erased(e.to[1], e.to[2])' <=> e.to = <<n.by, n.index>>)
    <3>1. e.from = <<e.from[1], e.from[2]>> /\ e.to = <<e.to[1], e.to[2]>>
      BY <1>3
    <3>2. HasNode(e.from[1], e.from[2]) /\ HasNode(e.to[1], e.to[2])
      BY <1>10
    <3> QED BY <1>6, <1>9, <3>1, <3>2
  <2> QED BY <1>4, <2>1
<1>13. Touched
  <2>1. planning' = planning /\ together' = together
    BY <1>1
  <2>2. \A c, i : Erased(c, i) => Erased(c, i)'
    BY <1>6
  <2>3. \A c, i : Erased(c, i)' => Erased(c, i) \/ HasNode(c, i)
    BY <1>6, <1>11
  <2>4. \A c, i : HasNode(c, i) => HasNode(c, i)' \/ Erased(c, i)'
    BY <1>6, <1>7
  <2>5. \A c, i : HasNode(c, i)' => HasNode(c, i) /\ ~Erased(c, i)'
    BY <1>6, <1>7, <1>9
  <2>6. \A c, i : IsPlaced(c, i) => IsPlaced(c, i)' \/ Erased(c, i)'
    BY <1>6, <1>8
  <2> QED BY ONLY <2>1, <2>2, <2>3, <2>4, <2>5, <2>6, <1>12 DEF Touched
<1>14. RowsAgree'
  <2>1. \A m \in nodes' : ~Erased(m.by, m.index)'
    BY <1>1, <1>6 DEF PlanInv, RowsAgree
  <2>2. \A e \in edges' : HasNode(e.from[1], e.from[2])' /\ HasNode(e.to[1], e.to[2])'
    BY <1>6, <1>7, <1>10, <1>12
  <2>3. \A m, o \in nodes' : m.by = o.by /\ m.index = o.index => m = o
    BY <1>1 DEF PlanInv, RowsAgree
  <2> QED BY <1>4, <1>10, <2>1, <2>2, <2>3 DEF RowsAgree
<1> QED BY <1>5, <1>13, <1>14, TouchedKeeps

LEMMA UpdateNodeKeeps ==
    ASSUME PlanInv, NEW n \in nodes, NEW s \in {"running", "completed"}, UpdateTaskGraphNode(n, s)
    PROVE  PlanInv'
<1> DEFINE new == [n EXCEPT !.status = s]
<1>1. nodes' = (nodes \ {n}) \union {new} /\ UNCHANGED <<planning, together, erased, edges>>
  BY DEF UpdateTaskGraphNode
<1>2. n \in NodeRow
  BY DEF PlanInv, PlanningType
<1>3. new \in NodeRow /\ new.by = n.by /\ new.index = n.index /\ new.placed = n.placed
  BY <1>2 DEF NodeRow
<1> HIDE DEF new
<1>4. PlanningType'
  BY <1>1, <1>3 DEF PlanInv, PlanningType
<1>5. \A c, i : /\ (HasNode(c, i)' <=> HasNode(c, i))
               /\ (IsPlaced(c, i)' <=> IsPlaced(c, i))
               /\ (Erased(c, i)' <=> Erased(c, i))
  BY <1>1, <1>3 DEF HasNode, IsPlaced, Erased
<1>6. \A c, i : HasNode(c, i) => ~Erased(c, i)
  BY DEF HasNode, PlanInv, RowsAgree
<1>7. RowsAgree'
  <2>1. \A m, o \in nodes' : m.by = o.by /\ m.index = o.index => m = o
    BY <1>1, <1>3 DEF PlanInv, RowsAgree
  <2>2. \A m \in nodes' : ~Erased(m.by, m.index)'
    BY <1>1, <1>3 DEF PlanInv, RowsAgree, Erased
  <2> QED BY <1>1, <1>5, <2>1, <2>2 DEF PlanInv, RowsAgree
<1>8. \A e : e \in edges' <=> /\ e \in edges
                             /\ ~Erased(e.from[1], e.from[2])' /\ ~Erased(e.to[1], e.to[2])'
  <2>1. \A e \in edges : HasNode(e.from[1], e.from[2]) /\ HasNode(e.to[1], e.to[2])
    BY DEF PlanInv, RowsAgree
  <2> QED BY <1>1, <1>5, <1>6, <2>1
<1>9. Touched
  <2>1. planning' = planning /\ together' = together
    BY <1>1
  <2> QED BY ONLY <2>1, <1>5, <1>6, <1>8 DEF Touched
<1> QED BY <1>4, <1>7, <1>9, TouchedKeeps

LEMMA GoalDeletedKeeps ==
    ASSUME PlanInv, GoalDeleted
    PROVE  PlanInv'
<1>1. /\ nodes' = {} /\ edges' = {} /\ planning' = planning /\ together' = together
      /\ erased' = erased \union IdsOf(nodes)
  BY DEF GoalDeleted
<1>2. \A c, i : Erased(c, i)' <=> Erased(c, i) \/ HasNode(c, i)
  BY <1>1 DEF Erased, HasNode, IdsOf
<1>3. \A c, i : ~HasNode(c, i)' /\ (IsPlaced(c, i) => HasNode(c, i))
  BY <1>1 DEF HasNode, IsPlaced
<1>4. PlanningType'
  BY <1>1 DEF PlanInv, PlanningType, IdsOf, NodeRow
<1>5. RowsAgree'
  BY <1>1 DEF RowsAgree
<1>6. \A e : e \in edges' <=> /\ e \in edges
                             /\ ~Erased(e.from[1], e.from[2])' /\ ~Erased(e.to[1], e.to[2])'
  BY <1>1, <1>2 DEF PlanInv, RowsAgree
<1>7. Touched
  BY ONLY <1>1, <1>2, <1>3, <1>6 DEF Touched
<1> QED BY <1>4, <1>5, <1>7, TouchedKeeps

LEMMA PlanIsKept ==
    ASSUME PlanInv, [PlanningNext]_planningVars
    PROVE  PlanInv'
<1>1. ASSUME UNCHANGED <<nodes, edges, planning, together, erased>> PROVE PlanInv'
  <2>1. PlanningType' /\ RowsAgree'
    BY <1>1 DEF PlanInv, PlanningType, RowsAgree, HasNode, Erased
  <2>2. \A c \in Planner : SameRows(c)
    BY <1>1 DEF SameRows
  <2>3. NotMixed'
    BY <1>1 DEF PlanInv, NotMixed, Gone, AtWork, Made
  <2> QED BY <2>1, <2>2, <2>3, OthersGoOn DEF PlanInv
<1>2. ASSUME NEW c \in Planner, ModelFails(c) \/ PlanningStops(c) PROVE PlanInv'
  BY <1>2, GivesUpKeeps DEF ModelFails, PlanningStops, AtWork
<1> QED
  BY <1>1, <1>2, DecomposeKeeps, ModelAnswersKeeps, CreateNodeKeeps, PlaceNodeKeeps,
     PlanIsMadeKeeps, CreateEdgeKeeps, DeleteNodeKeeps, UpdateNodeKeeps, GoalDeletedKeeps
     DEF PlanningNext, GoalBlanked, planningVars

LEMMA PlanStarts ==
    ASSUME PlanningInit
    PROVE  PlanInv
<1>1. PlanningType
  BY DEF PlanningInit, PlanningType, PlanRow, Stage
<1>2. RowsAgree
  BY DEF PlanningInit, RowsAgree
<1>3. ASSUME NEW c \in Planner
      PROVE  /\ planning[c].at = "new" /\ planning[c].plan = <<>>
             /\ planning[c].next = 1 /\ planning[c].linked = {}
  BY DEF PlanningInit
<1>4. NotMixed
  BY <1>3 DEF NotMixed
<1>5. ASSUME NEW c \in Planner PROVE Progress(c)
  BY <1>3 DEF PlanningInit, Progress, WritesNodes, WritesEdges, Stands, Erased
<1> QED BY <1>1, <1>2, <1>4, <1>5 DEF PlanInv

LEMMA EdgesBelong ==
    ASSUME PlanInv, NEW c \in Planner, NEW e \in Links(c)
    PROVE  /\ e.from[1] = c /\ e.to[1] = c
           /\ ~Erased(e.from[1], e.from[2]) /\ ~Erased(e.to[1], e.to[2])
           /\ \E w \in planning[c].linked : w \in Wanted(c) /\ e = Edge(c, w)
<1>1. e \in edges /\ e.from[1] = c /\ e.to[1] = c
  BY DEF Links, PlanInv, RowsAgree
<1>2. ~Erased(e.from[1], e.from[2]) /\ ~Erased(e.to[1], e.to[2])
  BY <1>1 DEF PlanInv, RowsAgree, HasNode
<1>3. \E w \in planning[c].linked : w \in Wanted(c) /\ e = Edge(c, w)
  BY <1>1 DEF PlanInv, Progress, WritesEdges
<1> QED BY <1>1, <1>2, <1>3

\* A request that has answered has made its plan.
LEMMA WholeTells ==
    ASSUME PlanInv
    PROVE  AnsweredIsWhole
<1> SUFFICES ASSUME NEW c \in Planner, planning[c].at = "made"
    PROVE  LET kept == {i \in DOMAIN Given(c) : <<c, i>> \notin erased}
           IN  /\ \A i \in kept : \E n \in Made(c) : n.index = i /\ n.placed
               /\ Links(c) = {Edge(c, w) : w \in {v \in Wanted(c) :
                                Edge(c, v).from[2] \in kept /\ Edge(c, v).to[2] \in kept}}
  BY DEF AnsweredIsWhole
<1> DEFINE kept == {i \in DOMAIN Given(c) : <<c, i>> \notin erased}
           between == {v \in Wanted(c) :
                          Edge(c, v).from[2] \in kept /\ Edge(c, v).to[2] \in kept}
<1>1. /\ Progress(c) /\ planning[c].linked = Wanted(c)
      /\ planning[c].next = Len(Given(c)) + 1
  BY DEF PlanInv, Progress, Stands, Given
<1>2. Len(Given(c)) \in Nat /\ DOMAIN Given(c) = 1 .. Len(Given(c))
  BY GivenIs DEF PlanInv
<1>3. \A i \in DOMAIN Given(c) : Finished(c, i)
  BY <1>1, <1>2 DEF Progress, WritesNodes
<1>4. \A i \in kept : \E n \in Made(c) : n.index = i /\ n.placed
  BY <1>3 DEF Finished, Erased, IsPlaced, Made
<1>5. \A w \in Wanted(c) : BothKept(c, w) <=> w \in between
  BY GivenIs DEF BothKept, Erased, PlanInv
<1>6. ASSUME NEW e \in Links(c) PROVE \E w \in between : e = Edge(c, w)
  <2>1. PICK w \in Wanted(c) : e = Edge(c, w)
    BY <1>6, EdgesBelong
  <2>2. BothKept(c, w)
    BY <1>6, <2>1, EdgesBelong DEF BothKept
  <2> QED BY <1>5, <2>1, <2>2
<1>7. ASSUME NEW w \in between PROVE Edge(c, w) \in Links(c)
  <2>1. Edge(c, w) \in edges
    BY <1>1, <1>5, <1>7 DEF Progress, WritesEdges
  <2>2. Edge(c, w).from[1] = c
    BY GivenIs DEF PlanInv
  <2> QED BY <2>1, <2>2 DEF Links
<1> HIDE DEF between, kept
<1>8. Links(c) = {Edge(c, w) : w \in between}
  BY <1>6, <1>7
<1> QED BY <1>4, <1>8 DEF between, kept

\* And one that has not has made a beginning of it.
LEMMA BeginningTells ==
    ASSUME PlanInv
    PROVE  LeftIsABeginning
<1> SUFFICES ASSUME NEW c \in Planner
    PROVE  /\ Written(c) \subseteq DOMAIN Given(c)
           /\ \A i \in Written(c), k \in DOMAIN Given(c) : k < i => k \in Written(c)
           /\ Links(c) \subseteq {Edge(c, w) : w \in Wanted(c)}
           /\ Links(c) # {} => Written(c) = DOMAIN Given(c)
  BY DEF LeftIsABeginning
<1> DEFINE next == planning[c].next
<1>1. Progress(c) /\ next \in Nat \ {0}
  BY DEF PlanInv, PlanningType, PlanRow
<1>2. Len(Given(c)) \in Nat /\ DOMAIN Given(c) = 1 .. Len(Given(c))
  BY GivenIs DEF PlanInv
<1>3. \A i : Finished(c, i) => i \in Written(c)
  <2>1. \A n \in nodes : <<n.by, n.index>> \in IdsOf(nodes)
    BY DEF IdsOf
  <2> QED BY <2>1 DEF Finished, Erased, IsPlaced, Written
<1>4. ASSUME NEW i \in Written(c) PROVE i \in Nat /\ (Erased(c, i) \/ HasNode(c, i))
  <2>1. PICK id \in IdsOf(nodes) \union erased : id[1] = c /\ id[2] = i
    BY DEF Written
  <2>2. CASE id \in erased
    <3>1. id = <<id[1], id[2]>> /\ id[2] \in Nat
      BY <2>2 DEF PlanInv, PlanningType
    <3> QED BY <2>1, <2>2, <3>1 DEF Erased
  <2>3. CASE id \in IdsOf(nodes)
    <3>1. PICK n \in nodes : id = <<n.by, n.index>>
      BY <2>3 DEF IdsOf
    <3>2. n.index \in Nat
      BY DEF PlanInv, PlanningType, NodeRow
    <3> QED BY <2>1, <3>1, <3>2 DEF HasNode
  <2> QED BY <2>1, <2>2, <2>3
<1>5. \A i \in Written(c) : i \in DOMAIN Given(c) /\ (i < next \/ i = next)
  BY <1>1, <1>4 DEF Progress, WritesNodes, HasNode, Given
<1>6. \A k \in DOMAIN Given(c) : k < next => k \in Written(c)
  BY <1>1, <1>2, <1>3 DEF Progress, WritesNodes
<1>7. \A i \in Written(c), k \in DOMAIN Given(c) : k < i => k \in Written(c)
  <2> HIDE DEF next
  <2> QED BY <1>1, <1>2, <1>4, <1>5, <1>6
<1>8. Links(c) \subseteq {Edge(c, w) : w \in Wanted(c)}
  BY EdgesBelong
<1>9. ASSUME Links(c) # {} PROVE Written(c) = DOMAIN Given(c)
  <2>1. planning[c].linked # {}
    BY <1>9, EdgesBelong
  <2>2. next = Len(Given(c)) + 1
    BY <1>1, <2>1 DEF Progress, Stands, Given
  <2> HIDE DEF next
  <2>3. \A k \in DOMAIN Given(c) : k < next
    BY <1>2, <2>2
  <2>4. \A k : k \in Written(c) <=> k \in DOMAIN Given(c)
    BY <1>5, <1>6, <2>3
  <2> QED BY <2>4
<1> QED BY <1>5, <1>7, <1>8, <1>9

LEMMA UnmixedTells ==
    ASSUME PlanInv
    PROVE  PlansAreNotMixed
<1>1. ASSUME NEW c \in Planner, planning[c].at = "new" PROVE Made(c) = {}
  <2>1. DOMAIN <<>> = {}
    OBVIOUS
  <2> QED BY <1>1, <2>1 DEF PlanInv, Progress, Stands, WritesNodes, Made
<1> QED BY <1>1 DEF PlanInv, NotMixed, Gone, PlansAreNotMixed

\* planner.go: whatever other requests wrote and users deleted, the graph of a request
\* that was answered is its plan, what another leaves is a beginning of its own, and two
\* plans are in the issue only where one was forced or both requests were at work at once.
THEOREM GraphIsMade == ServicesSpec => []GraphIsThePlan
<1>1. ServicesInit => PlanInv
  BY PlanStarts DEF ServicesInit
<1>2. PlanInv /\ [ServicesNext]_servicesVars => PlanInv'
  BY PlanningRests, PlanIsKept
<1>3. PlanInv => GraphIsThePlan
  BY WholeTells, BeginningTells, UnmixedTells DEF GraphIsThePlan
<1> QED BY <1>1, <1>2, <1>3, PTL DEF ServicesSpec

-----------------------------------------------------------------------------
(* The repositories.                                                       *)

BranchName == RepoItem \X Nat
Worktree == [dir : RepoItem, url : Url, branch : BranchName, base : Nat, asked : Nat]
CloneRow == [at : {"none", "partial", "ready"}, of : Url \union {"none"}, main : Nat,
             configured : BOOLEAN, branches : SUBSET BranchName, worktrees : SUBSET Worktree]
CheckoutRow == [at : {"fetching", "adding", "again"}, url : Url, dir : RepoItem, asked : Nat]

CacheType ==
    /\ origin \in [Url -> [main : Nat, branches : SUBSET BranchName]]
    /\ bare \in [Bare -> CloneRow]
    /\ disk \subseteq [dir : RepoItem, url : Url]
    /\ work \in [RepoItem -> RepoItem \union {"none"}]
    /\ sync \in {Idle} \union [at : {"cloning", "configuring"}, dir : Bare]
    /\ checkout \in [RepoItem -> {Idle} \union CheckoutRow]
    /\ checkouts \in Nat

\* A branch that is checked out was pushed, since when git refuses to fetch.
Cut(row) == \E t \in row.worktrees : t.branch \in origin[row.of].branches

\* A clone has worktrees, and takes what origin has, only when it is there in full.
GoodClone(row) ==
    /\ row.at = "none" => row = NoClone
    /\ row.at # "none" => row.of \in Url /\ row.main <= origin[row.of].main
    /\ row.configured => row.at = "ready"
    /\ row.worktrees # {} => row.at = "ready"
    /\ \A t \in row.worktrees : t.url = row.of => t.base >= t.asked \/ Cut(row)

\* What is on disk was registered.
Known(p) == \E t \in bare[BareOf[p.url]].worktrees : t.dir = p.dir /\ t.url = p.url

SyncInv ==
    /\ sync.at = "cloning" => bare[sync.dir].at = "partial"
    /\ sync.at = "configuring" => bare[sync.dir].at = "ready"

\* A checkout that has fetched has in the clone what it asked for.
Met(c) ==
    c.asked = 0
    \/ LET row == bare[BareOf[c.url]]
       IN  row.at = "ready" /\ (row.of # c.url \/ row.main >= c.asked \/ Cut(row))

AskedInv ==
    \A i \in RepoItem : checkout[i] # Idle =>
        /\ checkout[i].asked <= origin[checkout[i].url].main
        /\ checkout[i].at \in {"adding", "again"} => Met(checkout[i])

\* The second name a checkout tries was never taken before.
Taken(b) ==
    \/ \E u \in Url : b \in origin[u].branches
    \/ \E d \in Bare : b \in bare[d].branches \/ \E t \in bare[d].worktrees : b = t.branch

NamesInv ==
    /\ \A i \in RepoItem, n \in Nat : Taken(<<i, n>>) =>
           n <= checkouts /\ (checkout[i] # Idle => n < checkouts)
    /\ \A i \in RepoItem : checkout[i] # Idle => checkouts > 0

CacheInv ==
    /\ CacheType /\ SyncInv /\ AskedInv /\ NamesInv /\ CheckoutsSucceed
    /\ \A d \in Bare : GoodClone(bare[d])
    /\ \A p \in disk : Known(p)

-----------------------------------------------------------------------------
LEMMA ClonesAre == NoClone \in CloneRow /\ \A u \in Url : Clone("partial", u) \in CloneRow
  BY DEF NoClone, Clone, CloneRow

LEMMA IdleIs == Idle.at = "idle" /\ Idle \notin CheckoutRow
  BY DEF Idle, CheckoutRow

LEMMA HasDirectory == \A u \in Url : BareOf[u] \in Bare
  BY DEF Bare

\* A clone that is there in full stays, with what it has.
FollowsFrom(row, old) ==
    old.at = "ready" => /\ row.at = "ready" /\ row.of = old.of
                        /\ row.main >= old.main /\ old.worktrees \subseteq row.worktrees

LEMMA CloneChanges ==
    ASSUME CacheInv, NEW d \in Bare, NEW row \in CloneRow, GoodClone(row),
           FollowsFrom(row, bare[d]), bare' = [bare EXCEPT ![d] = row], UNCHANGED origin
    PROVE  /\ bare' \in [Bare -> CloneRow] /\ bare'[d] = row
           /\ \A e \in Bare : e # d => bare'[e] = bare[e]
           /\ \A e \in Bare : GoodClone(bare[e])'
           /\ \A c \in CheckoutRow : Met(c) => Met(c)'
           /\ \A p \in [dir : RepoItem, url : Url] : Known(p) => Known(p)'
<1>0. bare \in [Bare -> CloneRow]
  BY DEF CacheInv, CacheType
<1>1. /\ bare' \in [Bare -> CloneRow] /\ bare'[d] = row
      /\ \A e \in Bare : e # d => bare'[e] = bare[e]
  BY <1>0
<1>2. \A e \in Bare : GoodClone(bare[e])'
  <2>1. \A r : Cut(r)' = Cut(r)
    BY DEF Cut
  <2>2. \A r : GoodClone(r)' = GoodClone(r)
    BY <2>1 DEF GoodClone
  <2> QED BY <1>1, <2>1, <2>2 DEF CacheInv, GoodClone
<1>3. ASSUME NEW c \in CheckoutRow, Met(c) PROVE Met(c)'
  <2> DEFINE e == BareOf[c.url]
  <2>1. e \in Bare
    BY HasDirectory DEF CheckoutRow
  <2>2. CASE e # d
    BY <1>1, <1>3, <2>1, <2>2 DEF Met, Cut
  <2>3. CASE e = d
    <3>1. CASE c.asked = 0
      BY <3>1 DEF Met
    <3>2. CASE c.asked # 0
      <4>1. /\ bare[d].at = "ready"
            /\ bare[d].of # c.url \/ bare[d].main >= c.asked \/ Cut(bare[d])
        BY <1>3, <2>3, <3>2 DEF Met
      <4>2. /\ row.at = "ready" /\ row.of = bare[d].of /\ row.main >= bare[d].main
            /\ bare[d].worktrees \subseteq row.worktrees
        BY <4>1 DEF FollowsFrom
      <4>3. Cut(bare[d]) => Cut(row)
        BY <4>2 DEF Cut
      <4>4. row.main \in Nat /\ bare[d].main \in Nat /\ c.asked \in Nat
        BY <1>0 DEF CloneRow, CheckoutRow
      <4>5. row.of # c.url \/ row.main >= c.asked \/ Cut(row)
        BY <4>1, <4>2, <4>3, <4>4
      <4> QED BY <1>1, <2>3, <4>2, <4>5 DEF Met, Cut
    <3> QED BY <3>1, <3>2
  <2> QED BY <2>2, <2>3
<1>4. ASSUME NEW p \in [dir : RepoItem, url : Url], Known(p) PROVE Known(p)'
  <2> DEFINE e == BareOf[p.url]
  <2>1. e \in Bare
    BY HasDirectory
  <2>2. CASE e # d
    BY <1>1, <1>4, <2>1, <2>2 DEF Known
  <2>3. CASE e = d
    <3>1. bare[d].worktrees # {}
      BY <1>4, <2>3 DEF Known
    <3>2. bare[d].worktrees \subseteq row.worktrees
      BY <3>1 DEF FollowsFrom, CacheInv, GoodClone
    <3> QED BY <1>1, <1>4, <2>3, <3>2 DEF Known
  <2> QED BY <2>2, <2>3
<1> QED BY <1>1, <1>2, <1>3, <1>4

\* What git fetches is what origin has, unless it refuses to.
LEMMA Fetched ==
    ASSUME CacheInv, NEW d \in Bare, bare' = GitFetch(d)
    PROVE  \E row \in CloneRow :
               /\ bare' = [bare EXCEPT ![d] = row] /\ GoodClone(row) /\ FollowsFrom(row, bare[d])
               /\ \A b \in row.branches : b \in bare[d].branches \/ Taken(b)
               /\ row.worktrees = bare[d].worktrees /\ row.at = bare[d].at
               /\ bare[d].configured => row.main = origin[row.of].main \/ Cut(row)
<1>0. bare[d] \in CloneRow /\ GoodClone(bare[d])
  BY DEF CacheInv, CacheType
<1>1. CASE bare[d].at # "ready" \/ ~bare[d].configured \/ Refused(d)
  <2>1. bare' = [bare EXCEPT ![d] = bare[d]]
    BY <1>1 DEF GitFetch, CacheInv, CacheType
  <2>2. FollowsFrom(bare[d], bare[d])
    BY <1>0 DEF FollowsFrom, CloneRow
  <2>3. bare[d].configured => Cut(bare[d])
    BY <1>0, <1>1 DEF GoodClone, Refused, CheckedOut, Registered, Cut
  <2> QED BY <1>0, <2>1, <2>2, <2>3
<1>2. CASE ~(bare[d].at # "ready" \/ ~bare[d].configured \/ Refused(d))
  <2> DEFINE o == origin[bare[d].of]
             row == [bare[d] EXCEPT !.main = o.main, !.branches = @ \union o.branches]
  <2>1. bare[d].of \in Url /\ o.main >= bare[d].main
    BY <1>0, <1>2 DEF GoodClone, CacheInv, CacheType, CloneRow
  <2>2. o.main \in Nat /\ o.branches \subseteq BranchName
    BY <2>1 DEF CacheInv, CacheType
  <2>3. bare' = [bare EXCEPT ![d] = row]
    BY <1>2 DEF GitFetch, CacheInv, CacheType, CloneRow
  <2> DEFINE m == o.main
             bs == bare[d].branches \union o.branches
  <2>4. row = [bare[d] EXCEPT !.main = m, !.branches = bs]
    BY <1>0 DEF CloneRow
  <2>5. bs \in SUBSET BranchName /\ m \in Nat
    BY <1>0, <2>2 DEF CloneRow
  <2>6. /\ row \in CloneRow /\ row.at = bare[d].at /\ row.of = bare[d].of /\ row.main = m
        /\ row.worktrees = bare[d].worktrees /\ row.branches = bs
        /\ row.configured = bare[d].configured
    <3> HIDE DEF m, bs, row
    <3> QED BY <1>0, <2>4, <2>5 DEF CloneRow
  <2>7. \A b \in bs : b \in bare[d].branches \/ Taken(b)
    BY <2>1 DEF Taken
  <2> HIDE DEF row, bs
  <2>8. GoodClone(row)
    <3>1. row.main <= origin[row.of].main
      BY <2>2, <2>6
    <3>2. Cut(row) = Cut(bare[d])
      BY <2>6 DEF Cut
    <3> QED BY <1>0, <1>2, <2>1, <2>6, <3>1, <3>2 DEF GoodClone
  <2>9. FollowsFrom(row, bare[d])
    BY <2>1, <2>6 DEF FollowsFrom
  <2>10. row.main = origin[row.of].main
    BY <2>6
  <2> QED BY <2>3, <2>6, <2>7, <2>8, <2>9, <2>10
<1> QED BY <1>1, <1>2

\* Origins only grow, by what is taken already.
LEMMA OriginGrows ==
    ASSUME CacheInv, origin' \in [Url -> [main : Nat, branches : SUBSET BranchName]],
           \A u \in Url : /\ origin'[u].main >= origin[u].main
                          /\ origin[u].branches \subseteq origin'[u].branches
                          /\ \A b \in origin'[u].branches : b \in origin[u].branches \/ Taken(b),
           UNCHANGED <<bare, disk, work, sync, checkout, last, checkouts>>
    PROVE  CacheInv'
<1>0. /\ bare \in [Bare -> CloneRow] /\ checkout \in [RepoItem -> {Idle} \union CheckoutRow]
      /\ origin \in [Url -> [main : Nat, branches : SUBSET BranchName]]
  BY DEF CacheInv, CacheType
<1>1. CacheType'
  BY DEF CacheInv, CacheType
<1>2. \A row : row.of \in Url /\ Cut(row) => Cut(row)'
  BY DEF Cut
<1>3. ASSUME NEW d \in Bare PROVE GoodClone(bare[d])'
  <2>1. bare[d] \in CloneRow /\ GoodClone(bare[d]) /\ bare'[d] = bare[d]
    BY <1>0 DEF CacheInv
  <2>2. ASSUME bare[d].at # "none"
        PROVE  bare[d].main <= origin'[bare[d].of].main /\ bare[d].of \in Url
    <3> DEFINE u == bare[d].of
    <3>1. u \in Url /\ bare[d].main <= origin[u].main
      BY <2>1, <2>2 DEF GoodClone
    <3>2. origin'[u].main \in Nat /\ origin[u].main \in Nat /\ bare[d].main \in Nat
      BY <1>0, <2>1, <3>1 DEF CloneRow
    <3> QED BY <3>1, <3>2
  <2>3. ASSUME NEW t \in bare[d].worktrees, t.url = bare[d].of
        PROVE  t.base >= t.asked \/ Cut(bare[d])'
    <3>1. bare[d].of \in Url
      BY <2>1, <2>3 DEF GoodClone
    <3>2. Cut(bare[d]) => Cut(bare[d])'
      BY <1>2, <2>1, <3>1 DEF Cut
    <3> QED BY <2>1, <2>3, <3>2 DEF GoodClone
  <2> QED BY <2>1, <2>2, <2>3 DEF GoodClone
<1>4. ASSUME NEW c \in CheckoutRow, Met(c) PROVE Met(c)'
  <2>1. CASE c.asked = 0
    BY <2>1 DEF Met
  <2>2. CASE c.asked # 0
    <3> DEFINE d == BareOf[c.url]
    <3>1. d \in Bare /\ bare[d].at = "ready" /\ GoodClone(bare[d])
      BY <1>4, <2>2, HasDirectory DEF Met, CheckoutRow, CacheInv
    <3>2. Cut(bare[d]) => Cut(bare[d])'
      BY <3>1 DEF Cut, GoodClone
    <3> QED BY <1>4, <3>1, <3>2 DEF Met
  <2> QED BY <2>1, <2>2
<1>5. AskedInv'
  <2> SUFFICES ASSUME NEW i \in RepoItem, checkout[i] # Idle
               PROVE  /\ checkout[i].asked <= origin'[checkout[i].url].main
                      /\ checkout[i].at \in {"adding", "again"} => Met(checkout[i])'
    BY DEF AskedInv
  <2> DEFINE u == checkout[i].url
  <2>1. checkout[i] \in CheckoutRow
    BY <1>0
  <2>2. checkout[i].asked <= origin[u].main
    BY DEF CacheInv, AskedInv
  <2>3. u \in Url /\ origin'[u].main \in Nat /\ origin[u].main \in Nat /\ checkout[i].asked \in Nat
    BY <1>0, <2>1 DEF CheckoutRow
  <2>4. checkout[i].asked <= origin'[u].main
    BY <2>2, <2>3
  <2>5. checkout[i].at \in {"adding", "again"} => Met(checkout[i])
    BY DEF CacheInv, AskedInv
  <2> QED BY <1>4, <2>1, <2>4, <2>5
<1>6. NamesInv'
  <2>1. \A b : Taken(b)' => Taken(b)
    BY DEF Taken
  <2> QED BY <2>1 DEF CacheInv, NamesInv
<1>7. SyncInv' /\ CheckoutsSucceed' /\ \A p \in disk' : Known(p)'
  BY DEF CacheInv, SyncInv, CheckoutsSucceed, Known
<1> QED BY <1>1, <1>3, <1>5, <1>6, <1>7 DEF CacheInv

LEMMA OriginSteps ==
    ASSUME CacheInv, (\E u \in Url : Commits(u)) \/ \E i \in RepoItem : Pushes(i)
    PROVE  CacheInv'
<1>0. origin \in [Url -> [main : Nat, branches : SUBSET BranchName]] /\ bare \in [Bare -> CloneRow]
  BY DEF CacheInv, CacheType
<1>1. ASSUME NEW u \in Url, Commits(u) PROVE CacheInv'
  <2> DEFINE m == origin[u].main + 1
             o == [origin[u] EXCEPT !.main = m]
  <2>1. origin' = [origin EXCEPT ![u] = o]
    BY <1>0, <1>1 DEF Commits
  <2>2. o \in [main : Nat, branches : SUBSET BranchName] /\ o.branches = origin[u].branches
        /\ o.main = m /\ m \in Nat /\ m >= origin[u].main
    BY <1>0
  <2> HIDE DEF o, m
  <2>3. origin' \in [Url -> [main : Nat, branches : SUBSET BranchName]]
    BY <1>0, <2>1, <2>2
  <2>4. \A v \in Url : /\ origin'[v].main >= origin[v].main
                       /\ origin'[v].branches = origin[v].branches
    BY <1>0, <2>1, <2>2
  <2> QED BY <1>1, <2>3, <2>4, OriginGrows DEF Commits
<1>2. ASSUME NEW i \in RepoItem, Pushes(i) PROVE CacheInv'
  <2>1. PICK d \in Bare : \E t \in bare[d].worktrees :
            origin' = [origin EXCEPT ![bare[d].of].branches = @ \union {t.branch}]
    BY <1>2 DEF Pushes, Registered
  <2>2. PICK t \in bare[d].worktrees :
            origin' = [origin EXCEPT ![bare[d].of].branches = @ \union {t.branch}]
    BY <2>1
  <2> DEFINE u == bare[d].of
             bs == origin[u].branches \union {t.branch}
             o == [origin[u] EXCEPT !.branches = bs]
  <2>3. u \in Url /\ t.branch \in BranchName /\ Taken(t.branch)
    BY <1>0 DEF CacheInv, GoodClone, CloneRow, Worktree, Taken
  <2>4. origin' = [origin EXCEPT ![u] = o]
    BY <1>0, <2>2, <2>3
  <2>5. o \in [main : Nat, branches : SUBSET BranchName] /\ o.branches = bs
        /\ o.main = origin[u].main
    BY <1>0, <2>3
  <2>6. \A b \in bs : b \in origin[u].branches \/ Taken(b)
    BY <2>3
  <2>7. origin[u].branches \subseteq bs
    OBVIOUS
  <2> HIDE DEF o, bs, u
  <2>8. origin' \in [Url -> [main : Nat, branches : SUBSET BranchName]]
    BY <1>0, <2>3, <2>4, <2>5
  <2>9. ASSUME NEW v \in Url
        PROVE  /\ origin'[v].main = origin[v].main /\ origin[v].branches \subseteq origin'[v].branches
               /\ \A b \in origin'[v].branches : b \in origin[v].branches \/ Taken(b)
    BY <1>0, <2>4, <2>5, <2>6, <2>7
  <2>10. \A v \in Url : origin'[v].main >= origin[v].main
    BY <1>0, <2>9
  <2> QED BY <1>2, <2>8, <2>9, <2>10, OriginGrows DEF Pushes
<1> QED BY <1>1, <1>2

-----------------------------------------------------------------------------
\* One clone changes, and with it what Sync does; no name is new.
LEMMA CloneStep ==
    ASSUME CacheInv, NEW d \in Bare, NEW row \in CloneRow, GoodClone(row),
           FollowsFrom(row, bare[d]), bare' = [bare EXCEPT ![d] = row],
           \A b \in row.branches : Taken(b),
           row.worktrees \subseteq bare[d].worktrees,
           sync' \in {Idle} \union [at : {"cloning", "configuring"}, dir : Bare], SyncInv',
           UNCHANGED <<origin, disk, work, checkout, last, checkouts>>
    PROVE  CacheInv'
<1>1. /\ bare' \in [Bare -> CloneRow] /\ bare'[d] = row
      /\ \A e \in Bare : e # d => bare'[e] = bare[e]
      /\ \A e \in Bare : GoodClone(bare[e])'
      /\ \A c \in CheckoutRow : Met(c) => Met(c)'
      /\ \A p \in [dir : RepoItem, url : Url] : Known(p) => Known(p)'
  BY CloneChanges
<1>2. CacheType'
  BY <1>1 DEF CacheInv, CacheType
<1>3. AskedInv'
  BY <1>1 DEF CacheInv, CacheType, AskedInv
<1>4. NamesInv'
  <2>1. \A b : Taken(b)' => Taken(b)
    BY <1>1 DEF Taken
  <2> QED BY <2>1 DEF CacheInv, NamesInv
<1>5. CheckoutsSucceed' /\ \A p \in disk' : Known(p)'
  BY <1>1 DEF CacheInv, CacheType, CheckoutsSucceed
<1> QED BY <1>1, <1>2, <1>3, <1>4, <1>5 DEF CacheInv

LEMMA SyncSteps ==
    ASSUME CacheInv,
           \/ \E u \in Url : \E reached \in BOOLEAN : SyncStarts(u, reached)
           \/ \E ok \in BOOLEAN : CloneEnds(ok)
           \/ Configures
    PROVE  CacheInv'
<1>0. /\ bare \in [Bare -> CloneRow] /\ \A e \in Bare : GoodClone(bare[e])
      /\ sync \in {Idle} \union [at : {"cloning", "configuring"}, dir : Bare]
      /\ \A d \in Bare : bare[d] \in CloneRow
  BY DEF CacheInv, CacheType
<1>1. ASSUME NEW u \in Url, NEW reached \in BOOLEAN, SyncStarts(u, reached) PROVE CacheInv'
  <2> DEFINE d == BareOf[u]
  <2>1. d \in Bare
    BY HasDirectory
  <2>2. /\ sync = Idle
        /\ IF bare[d] # NoClone
           THEN bare' = (IF reached THEN GitFetch(d) ELSE bare) /\ UNCHANGED sync
           ELSE /\ bare' = [bare EXCEPT ![d] = Clone("partial", u)]
                /\ sync' = [at |-> "cloning", dir |-> d]
        /\ UNCHANGED <<origin, disk, work, checkout, last, checkouts>>
    BY <1>1 DEF SyncStarts
  <2> HIDE DEF d
  <2>3. CASE bare[d] # NoClone /\ reached
    <3>1. PICK row \in CloneRow :
               /\ bare' = [bare EXCEPT ![d] = row] /\ GoodClone(row) /\ FollowsFrom(row, bare[d])
               /\ \A b \in row.branches : b \in bare[d].branches \/ Taken(b)
               /\ row.worktrees = bare[d].worktrees /\ row.at = bare[d].at
      BY <2>1, <2>2, <2>3, Fetched
    <3>2. \A b \in row.branches : Taken(b)
      BY <2>1, <3>1 DEF Taken
    <3>3. SyncInv'
      BY <2>2, <2>3, IdleIs DEF SyncInv
    <3> QED BY <1>0, <2>1, <2>2, <2>3, <3>1, <3>2, <3>3, CloneStep
  <2>4. CASE bare[d] # NoClone /\ ~reached
    <3>1. bare' = [bare EXCEPT ![d] = bare[d]]
      BY <1>0, <2>2, <2>4
    <3>2. FollowsFrom(bare[d], bare[d])
      BY <1>0, <2>1 DEF FollowsFrom, CloneRow
    <3>3. \A b \in bare[d].branches : Taken(b)
      BY <2>1 DEF Taken
    <3>4. SyncInv'
      BY <2>2, <2>4, IdleIs DEF SyncInv
    <3> QED BY <1>0, <2>1, <2>2, <2>4, <3>1, <3>2, <3>3, <3>4, CloneStep
  <2>5. CASE bare[d] = NoClone
    <3> DEFINE row == Clone("partial", u)
    <3>1. /\ row \in CloneRow /\ row.at = "partial" /\ row.of = u /\ row.main = 0
          /\ row.branches = {} /\ row.worktrees = {} /\ ~row.configured
      BY ClonesAre DEF Clone
    <3>2. bare' = [bare EXCEPT ![d] = row] /\ sync' = [at |-> "cloning", dir |-> d]
      BY <2>2, <2>5
    <3> HIDE DEF row
    <3>3. GoodClone(row)
      BY <3>1 DEF GoodClone, CacheInv, CacheType
    <3>4. FollowsFrom(row, bare[d])
      BY <2>5 DEF FollowsFrom, NoClone, Clone
    <3>5. SyncInv'
      BY <1>0, <2>1, <3>1, <3>2 DEF SyncInv
    <3> QED BY <2>1, <2>2, <3>1, <3>2, <3>3, <3>4, <3>5, CloneStep
  <2> QED BY <2>3, <2>4, <2>5
<1>2. ASSUME NEW ok \in BOOLEAN, CloneEnds(ok) PROVE CacheInv'
  <2>1. /\ sync \in [at : {"cloning"}, dir : Bare] /\ bare[sync.dir].at = "partial"
        /\ UNCHANGED <<origin, disk, work, checkout, last, checkouts>>
    BY <1>0, <1>2, IdleIs DEF CloneEnds, CacheInv, SyncInv
  <2> DEFINE d == sync.dir
             o == origin[bare[d].of]
             m == o.main
             bs == o.branches
             row == [bare[d] EXCEPT !.at = "ready", !.main = m, !.branches = bs]
  <2>2. d \in Bare /\ bare[d].of \in Url /\ bare[d].worktrees = {} /\ ~bare[d].configured
    BY <1>0, <2>1 DEF GoodClone, CloneRow
  <2>3. m \in Nat /\ bs \in SUBSET BranchName /\ \A b \in bs : Taken(b)
    BY <2>2 DEF CacheInv, CacheType, Taken
  <2>4. CASE ok
    <3>1. bare' = [bare EXCEPT ![d] = row] /\ sync' = [sync EXCEPT !.at = "configuring"]
      BY <1>0, <1>2, <2>4, <2>2 DEF CloneEnds, CloneRow
    <3>2. sync' \in [at : {"configuring"}, dir : Bare] /\ sync'.dir = d
      BY <2>1, <3>1
    <3>3. o.main = m
      OBVIOUS
    <3> HIDE DEF m, bs, d, o
    <3>4. /\ row \in CloneRow /\ row.at = "ready" /\ row.of = bare[d].of /\ row.main = m
          /\ row.branches = bs /\ row.worktrees = {} /\ ~row.configured
      BY <1>0, <2>2, <2>3, ZenonT(60) DEF CloneRow
    <3> HIDE DEF row
    <3>5. GoodClone(row)
      BY <2>2, <2>3, <3>3, <3>4 DEF GoodClone, o
    <3>6. FollowsFrom(row, bare[d])
      BY <2>1 DEF FollowsFrom, d
    <3>7. SyncInv'
      BY <1>0, <2>2, <3>1, <3>2, <3>4 DEF SyncInv
    <3> QED BY <2>1, <2>2, <2>3, <3>1, <3>2, <3>4, <3>5, <3>6, <3>7, CloneStep
  <2>5. CASE ~ok
    <3>1. bare' = [bare EXCEPT ![d] = NoClone] /\ sync' = Idle
      BY <1>2, <2>5 DEF CloneEnds
    <3>2. GoodClone(NoClone) /\ NoClone.branches = {} /\ NoClone.worktrees = {}
      BY DEF GoodClone, NoClone, Clone
    <3>3. FollowsFrom(NoClone, bare[d])
      BY <2>1 DEF FollowsFrom
    <3>4. SyncInv'
      BY <3>1, IdleIs DEF SyncInv
    <3> QED BY <2>1, <2>2, <3>1, <3>2, <3>3, <3>4, ClonesAre, CloneStep
  <2> QED BY <2>4, <2>5
<1>3. CASE Configures
  <2>1. /\ sync \in [at : {"configuring"}, dir : Bare] /\ bare[sync.dir].at = "ready"
        /\ UNCHANGED <<origin, disk, work, checkout, last, checkouts>>
        /\ bare' = [bare EXCEPT ![sync.dir].configured = TRUE] /\ sync' = Idle
    BY <1>0, <1>3, IdleIs DEF Configures, CacheInv, SyncInv
  <2> DEFINE d == sync.dir
             row == [bare[d] EXCEPT !.configured = TRUE]
  <2>2. d \in Bare /\ bare' = [bare EXCEPT ![d] = row]
    BY <1>0, <2>1
  <2>3. /\ row \in CloneRow /\ row.at = "ready" /\ row.of = bare[d].of /\ row.main = bare[d].main
        /\ row.branches = bare[d].branches /\ row.worktrees = bare[d].worktrees
    <3>1. bare[d] \in CloneRow /\ bare[d].at = "ready"
      BY <1>0, <2>1, <2>2
    <3> HIDE DEF d
    <3> QED BY <3>1 DEF CloneRow
  <2>4. GoodClone(bare[d]) /\ bare[d].main \in Nat
    BY <1>0, <2>2 DEF CloneRow
  <2>5. \A b \in bare[d].branches : Taken(b)
    BY <2>2 DEF Taken
  <2>6. bare[d].at = "ready"
    BY <2>1
  <2> HIDE DEF row, d
  <2>7. GoodClone(row)
    BY <2>3, <2>4, <2>6 DEF GoodClone, Cut
  <2>8. FollowsFrom(row, bare[d])
    BY <2>3, <2>4 DEF FollowsFrom
  <2>9. SyncInv'
    BY <2>1, IdleIs DEF SyncInv
  <2> QED BY <2>1, <2>2, <2>3, <2>5, <2>7, <2>8, <2>9, CloneStep
<1> QED BY <1>1, <1>2, <1>3

-----------------------------------------------------------------------------
\* Requests end, directories come and go; the clones stay as they are.
LEMMA RestStays ==
    ASSUME CacheInv,
           \A i \in RepoItem : checkout'[i] = checkout[i] \/ checkout'[i] = Idle,
           checkout' \in [RepoItem -> {Idle} \union CheckoutRow],
           work' \in [RepoItem -> RepoItem \union {"none"}], disk' \subseteq disk,
           sync' \in {sync, Idle}, CheckoutsSucceed', UNCHANGED <<origin, bare, checkouts>>
    PROVE  CacheInv'
<1>1. CacheType'
  BY DEF CacheInv, CacheType
<1>2. SyncInv'
  BY IdleIs DEF CacheInv, SyncInv
<1>3. AskedInv'
  BY DEF CacheInv, AskedInv, Met, Cut
<1>4. NamesInv'
  BY DEF CacheInv, NamesInv, Taken
<1>5. (\A d \in Bare : GoodClone(bare[d])') /\ \A p \in disk' : Known(p)'
  BY DEF CacheInv, GoodClone, Cut, Known
<1> QED BY <1>1, <1>2, <1>3, <1>4, <1>5 DEF CacheInv

LEMMA RestSteps ==
    ASSUME CacheInv, NEW i \in RepoItem,
           FindsNoClone(i) \/ Prepares(i) \/ RunEnds(i)
           \/ \E dir \in RepoItem : Reuses(i, dir)
    PROVE  CacheInv'
<1>0. /\ checkout \in [RepoItem -> {Idle} \union CheckoutRow]
      /\ work \in [RepoItem -> RepoItem \union {"none"}]
  BY DEF CacheInv, CacheType
<1>1. CASE FindsNoClone(i)
  <2>1. last' = [at |-> "failed", why |-> "not cached"]
    BY <1>1 DEF FindsNoClone
  <2>2. CheckoutsSucceed'
    BY <2>1 DEF CheckoutsSucceed
  <2> QED BY <1>0, <1>1, <2>2, RestStays DEF FindsNoClone, CacheInv, CacheType
<1>2. ASSUME last' = last PROVE CheckoutsSucceed'
  BY <1>2 DEF CacheInv, CheckoutsSucceed
<1>3. CASE Prepares(i)
  BY <1>0, <1>2, <1>3, RestStays DEF Prepares
<1>4. CASE RunEnds(i)
  BY <1>0, <1>2, <1>4, RestStays DEF RunEnds
<1>5. ASSUME NEW dir \in RepoItem, Reuses(i, dir) PROVE CacheInv'
  BY <1>0, <1>2, <1>5, RestStays DEF Reuses
<1> QED BY <1>1, <1>3, <1>4, <1>5

\* The new request looks for a name with a number that is higher than those in use.
LEMMA AsksStep ==
    ASSUME CacheInv, NEW i \in RepoItem, NEW u \in Url, Asks(i, u)
    PROVE  CacheInv'
<1>0. /\ checkout \in [RepoItem -> {Idle} \union CheckoutRow] /\ checkouts \in Nat
      /\ work \in [RepoItem -> RepoItem \union {"none"}]
      /\ origin \in [Url -> [main : Nat, branches : SUBSET BranchName]]
  BY DEF CacheInv, CacheType
<1>1. /\ checkouts' = checkouts + 1 /\ UNCHANGED <<origin, bare, disk, work, sync>>
      /\ work[i] \in RepoItem
  BY <1>0 DEF Asks
<1>2. /\ checkout' \in [RepoItem -> {Idle} \union CheckoutRow] /\ CheckoutsSucceed'
      /\ \A j \in RepoItem :
             \/ checkout'[j] = checkout[j]
             \/ checkout'[j].at = "fetching" /\ checkout'[j].asked = origin[checkout'[j].url].main
  <2>1. CASE bare[BareOf[u]] = NoClone
    <3>1. checkout' = checkout /\ last' = [at |-> "failed", why |-> "not cached"]
      BY <2>1 DEF Asks
    <3>2. CheckoutsSucceed'
      BY <3>1 DEF CheckoutsSucceed
    <3> QED BY <1>0, <3>1, <3>2
  <2>2. CASE bare[BareOf[u]] # NoClone
    <3> DEFINE c == [at |-> "fetching", url |-> u, dir |-> work[i], asked |-> origin[u].main]
    <3>1. checkout' = [checkout EXCEPT ![i] = c] /\ last' = last
      BY <2>2 DEF Asks
    <3>2. c \in CheckoutRow /\ c.at = "fetching" /\ c.asked = origin[c.url].main
      BY <1>0, <1>1 DEF CheckoutRow
    <3> HIDE DEF c
    <3>3. CheckoutsSucceed'
      BY <3>1 DEF CacheInv, CheckoutsSucceed
    <3> QED BY <1>0, <3>1, <3>2, <3>3
  <2> QED BY <2>1, <2>2
<1>3. CacheType'
  BY <1>0, <1>1, <1>2 DEF CacheInv, CacheType
<1>4. AskedInv'
  <2> SUFFICES ASSUME NEW j \in RepoItem, checkout'[j] # Idle
               PROVE  /\ checkout'[j].asked <= origin[checkout'[j].url].main
                      /\ checkout'[j].at \in {"adding", "again"} => Met(checkout'[j])
    BY <1>1 DEF AskedInv, Met, Cut
  <2>1. CASE checkout'[j] = checkout[j]
    BY <2>1 DEF CacheInv, AskedInv
  <2>2. CASE checkout'[j] # checkout[j]
    <3>1. checkout'[j] \in CheckoutRow /\ checkout'[j].at = "fetching"
          /\ checkout'[j].asked = origin[checkout'[j].url].main
      BY <1>2, <2>2
    <3>2. checkout'[j].asked \in Nat
      BY <3>1 DEF CheckoutRow
    <3> QED BY <3>1, <3>2
  <2> QED BY <2>1, <2>2
<1>5. NamesInv'
  <2>1. \A b : Taken(b)' => Taken(b)
    BY <1>1 DEF Taken
  <2>2. \A j \in RepoItem, n \in Nat : Taken(<<j, n>>) => n <= checkouts
    BY DEF CacheInv, NamesInv
  <2> QED BY <1>0, <1>1, <2>1, <2>2 DEF NamesInv
<1>6. SyncInv' /\ (\A d \in Bare : GoodClone(bare[d])') /\ \A p \in disk' : Known(p)'
  BY <1>1 DEF CacheInv, SyncInv, GoodClone, Cut, Known
<1> QED BY <1>2, <1>3, <1>4, <1>5, <1>6 DEF CacheInv

LEMMA FetchesStep ==
    ASSUME CacheInv, NEW i \in RepoItem, NEW reached \in BOOLEAN, Fetches(i, reached)
    PROVE  CacheInv'
<1> DEFINE c == checkout[i]
           d == BareOf[c.url]
           asked == IF reached /\ bare[d].configured THEN c.asked ELSE 0
           to == [c EXCEPT !.at = "adding", !.asked = asked]
<1>0. /\ checkout \in [RepoItem -> {Idle} \union CheckoutRow] /\ bare \in [Bare -> CloneRow]
      /\ origin \in [Url -> [main : Nat, branches : SUBSET BranchName]]
  BY DEF CacheInv, CacheType
<1>1. c \in CheckoutRow /\ c # Idle /\ d \in Bare /\ c.url \in Url
  BY <1>0, IdleIs, HasDirectory DEF Fetches, CheckoutRow
<1>2. checkout' = [checkout EXCEPT ![i] = to]
  BY <1>0, <1>1 DEF Fetches, CheckoutRow
<1>3. /\ to \in CheckoutRow /\ to.at = "adding" /\ to.url = c.url /\ to.asked = asked
      /\ asked \in Nat
  BY <1>1 DEF CheckoutRow
<1>4. \E row \in CloneRow :
          /\ bare' = [bare EXCEPT ![d] = row] /\ GoodClone(row) /\ FollowsFrom(row, bare[d])
          /\ \A b \in row.branches : b \in bare[d].branches \/ Taken(b)
          /\ row.worktrees = bare[d].worktrees /\ row.at = bare[d].at
          /\ reached /\ bare[d].configured => row.main = origin[row.of].main \/ Cut(row)
  <2>1. CASE reached
    BY <1>1, <2>1, Fetched DEF Fetches
  <2>2. CASE ~reached
    <3>1. bare' = [bare EXCEPT ![d] = bare[d]] /\ bare[d] \in CloneRow
      BY <1>0, <1>1, <2>2 DEF Fetches
    <3>2. FollowsFrom(bare[d], bare[d])
      BY <3>1 DEF FollowsFrom, CloneRow
    <3> QED BY <1>1, <2>2, <3>1, <3>2 DEF CacheInv
  <2> QED BY <2>1, <2>2
<1>5. PICK row \in CloneRow :
          /\ bare' = [bare EXCEPT ![d] = row] /\ GoodClone(row) /\ FollowsFrom(row, bare[d])
          /\ \A b \in row.branches : b \in bare[d].branches \/ Taken(b)
          /\ row.worktrees = bare[d].worktrees /\ row.at = bare[d].at
          /\ reached /\ bare[d].configured => row.main = origin[row.of].main \/ Cut(row)
  BY <1>4
<1>6. UNCHANGED <<origin, disk, work, sync, last, checkouts>>
  BY DEF Fetches
<1>7. /\ bare' \in [Bare -> CloneRow] /\ bare'[d] = row
      /\ \A e \in Bare : e # d => bare'[e] = bare[e]
      /\ \A e \in Bare : GoodClone(bare[e])'
      /\ \A r \in CheckoutRow : Met(r) => Met(r)'
      /\ \A p \in [dir : RepoItem, url : Url] : Known(p) => Known(p)'
  BY <1>1, <1>5, <1>6, CloneChanges
<1>8. c.asked <= origin[c.url].main /\ asked <= origin[c.url].main
  <2>1. c.asked <= origin[c.url].main
    BY <1>1 DEF CacheInv, AskedInv
  <2>2. origin[c.url].main \in Nat
    BY <1>0, <1>1
  <2> QED BY <2>1, <2>2
<1>9. asked = 0 \/ (/\ row.at = "ready"
                    /\ row.of # c.url \/ row.main >= asked \/ Cut(row))
  <2>1. CASE ~(reached /\ bare[d].configured)
    BY <2>1
  <2>2. CASE reached /\ bare[d].configured
    <3>1. row.at = "ready"
      BY <1>1, <1>5, <2>2 DEF CacheInv, GoodClone
    <3>2. ASSUME row.of = c.url, ~Cut(row) PROVE row.main >= asked
      <4>1. row.main = origin[c.url].main
        BY <1>5, <2>2, <3>2
      <4> QED BY <1>0, <1>1, <1>3, <1>8, <4>1
    <3> QED BY <3>1, <3>2
  <2> QED BY <2>1, <2>2
<1> HIDE DEF asked, to
<1>10. PICK new \in CheckoutRow : new = to
  BY <1>3
<1>11. Met(new)'
  <2>1. Cut(row)' = Cut(row)
    BY <1>6 DEF Cut
  <2>2. bare'[BareOf[new.url]] = row
    BY <1>3, <1>7, <1>10
  <2>3. CASE asked = 0
    BY <1>3, <1>10, <2>3 DEF Met
  <2>4. CASE asked # 0
    BY <1>3, <1>9, <1>10, <2>1, <2>2, <2>4 DEF Met
  <2> QED BY <2>3, <2>4
<1> HIDE DEF c, d
<1>12. CacheType'
  BY <1>0, <1>2, <1>3, <1>6, <1>7 DEF CacheInv, CacheType
<1>13. AskedInv'
  <2>1. ASSUME NEW j \in RepoItem, checkout'[j] # Idle
        PROVE  \E r \in CheckoutRow :
                   /\ checkout'[j] = r /\ r.asked <= origin'[r.url].main
                   /\ r.at \in {"adding", "again"} => Met(r)'
    <3>1. CASE j = i
      BY <1>0, <1>2, <1>3, <1>6, <1>8, <1>11, <1>10, <3>1
    <3>2. CASE j # i
      <4>1. checkout'[j] = checkout[j] /\ checkout[j] \in CheckoutRow
        BY <1>0, <1>2, <2>1, <3>2
      <4>2. PICK r \in CheckoutRow : r = checkout[j]
        BY <4>1
      <4>3. r.asked <= origin[r.url].main /\ (r.at \in {"adding", "again"} => Met(r))
        BY <2>1, <4>1, <4>2 DEF CacheInv, AskedInv
      <4> QED BY <1>6, <1>7, <4>1, <4>2, <4>3
    <3> QED BY <3>1, <3>2
  <2> QED BY <2>1 DEF AskedInv, Met
<1>14. NamesInv'
  <2>1. \A b : Taken(b)' => Taken(b)
    BY <1>1, <1>5, <1>6, <1>7 DEF Taken
  <2>2. \A j \in RepoItem : checkout'[j] # Idle => checkout[j] # Idle
    BY <1>0, <1>1, <1>2 DEF c
  <2> QED BY <1>6, <2>1, <2>2 DEF CacheInv, NamesInv
<1>15. CheckoutsSucceed' /\ SyncInv' /\ \A p \in disk' : Known(p)'
  <2>1. \A e \in Bare : bare'[e].at = bare[e].at
    BY <1>5, <1>7
  <2>2. sync = Idle \/ sync.dir \in Bare
    BY DEF CacheInv, CacheType
  <2>3. SyncInv'
    BY <1>6, <2>1, <2>2, IdleIs DEF CacheInv, SyncInv
  <2> QED BY <1>6, <1>7, <2>3 DEF CacheInv, CacheType, CheckoutsSucceed
<1> QED BY <1>7, <1>12, <1>13, <1>14, <1>15 DEF CacheInv

\* A directory that git registers in a clone.
Lands(p, d, row) ==
    BareOf[p.url] = d /\ \E t \in row.worktrees : t.dir = p.dir /\ t.url = p.url

\* An attempt to add a worktree leaves at most its branch and its worktree behind; a
\* request whose first name is taken goes on with a second.
LEMMA OneAttempt ==
    ASSUME CacheInv, NEW i \in RepoItem, checkout[i].at \in {"adding", "again"},
           NEW b \in BranchName, b = Branch(i, checkout[i].at),
           NEW d \in Bare, NEW row \in CloneRow, GoodClone(row), FollowsFrom(row, bare[d]),
           bare' = [bare EXCEPT ![d] = row], row.at = bare[d].at,
           row.branches \subseteq bare[d].branches \union {b},
           \A t \in row.worktrees : t \in bare[d].worktrees \/ t.branch = b,
           disk' \subseteq [dir : RepoItem, url : Url],
           \A p \in disk' : p \in disk \/ Lands(p, d, row),
           \/ checkout' = [checkout EXCEPT ![i] = Idle]
           \/ checkout' = [checkout EXCEPT ![i].at = "again"] /\ checkout[i].at = "adding",
           CheckoutsSucceed', UNCHANGED <<origin, work, sync, checkouts>>
    PROVE  CacheInv'
<1>0. /\ checkout \in [RepoItem -> {Idle} \union CheckoutRow] /\ checkout[i] \in CheckoutRow
      /\ checkout[i] # Idle /\ checkouts \in Nat /\ disk \subseteq [dir : RepoItem, url : Url]
  BY IdleIs DEF CacheInv, CacheType
<1>1. /\ bare' \in [Bare -> CloneRow] /\ bare'[d] = row
      /\ \A e \in Bare : e # d => bare'[e] = bare[e]
      /\ \A e \in Bare : GoodClone(bare[e])'
      /\ \A c \in CheckoutRow : Met(c) => Met(c)'
      /\ \A p \in [dir : RepoItem, url : Url] : Known(p) => Known(p)'
  BY CloneChanges
<1>2. PICK new \in CheckoutRow :
          /\ new = [checkout[i] EXCEPT !.at = "again"]
          /\ new.at = "again" /\ new.url = checkout[i].url /\ new.asked = checkout[i].asked
  <2> DEFINE again == [checkout[i] EXCEPT !.at = "again"]
  <2>1. again \in CheckoutRow /\ again.at = "again"
        /\ again.url = checkout[i].url /\ again.asked = checkout[i].asked
    BY <1>0 DEF CheckoutRow
  <2> HIDE DEF again
  <2>2. \E new \in CheckoutRow : new = again
    BY <2>1
  <2> QED BY <2>1, <2>2 DEF again
<1>3. /\ checkout' \in [RepoItem -> {Idle} \union CheckoutRow]
      /\ \A j \in RepoItem : j # i => checkout'[j] = checkout[j]
      /\ checkout'[i] = Idle \/ (checkout'[i] = new /\ checkout[i].at = "adding")
  BY <1>0, <1>2
<1>4. CacheType'
  BY <1>1, <1>3 DEF CacheInv, CacheType
<1>5. AskedInv'
  <2>1. ASSUME NEW j \in RepoItem, checkout'[j] # Idle
        PROVE  \E r \in CheckoutRow :
                   /\ checkout'[j] = r /\ r.asked <= origin'[r.url].main
                   /\ r.at \in {"adding", "again"} => Met(r)'
    <3>1. PICK old \in CheckoutRow : /\ old = checkout[j] /\ old.asked <= origin[old.url].main
                                     /\ old.at \in {"adding", "again"} => Met(old)
      BY <1>0, <1>3, <2>1 DEF CacheInv, AskedInv
    <3>2. CASE j # i
      BY <1>1, <1>3, <3>1, <3>2
    <3>3. CASE j = i
      <4>1. checkout'[j] = new /\ Met(old)' /\ new.url = old.url /\ new.asked = old.asked
        BY <1>1, <1>2, <1>3, <2>1, <3>1, <3>3
      <4>2. Met(new)'
        BY <4>1 DEF Met
      <4> QED BY <3>1, <4>1, <4>2
    <3> QED BY <3>2, <3>3
  <2> QED BY <2>1 DEF AskedInv, Met
<1>6. NamesInv'
  <2>1. \A x : Taken(x)' => Taken(x) \/ x = b
    BY <1>1 DEF Taken
  <2>2. checkouts > 0 /\ (checkout[i].at = "adding" => b = <<i, 0>>)
        /\ (b = <<i, 0>> \/ b = <<i, checkouts>>)
    BY <1>0 DEF CacheInv, NamesInv, Branch
  <2>3. ASSUME NEW j \in RepoItem, NEW n \in Nat, Taken(<<j, n>>)'
        PROVE  n <= checkouts /\ (checkout'[j] # Idle => n < checkouts)
    <3>1. CASE <<j, n>> = b
      <4>1. j = i /\ (n = 0 \/ n = checkouts) /\ (checkout[i].at = "adding" => n = 0)
        BY <2>2, <3>1
      <4> QED BY <1>0, <1>3, <2>2, <4>1
    <3>2. CASE <<j, n>> # b
      BY <1>0, <1>3, <2>1, <2>3, <3>2 DEF CacheInv, NamesInv
    <3> QED BY <3>1, <3>2
  <2>4. \A j \in RepoItem : checkout'[j] # Idle => checkouts > 0
    BY <2>2
  <2> QED BY <2>3, <2>4 DEF NamesInv
<1>7. SyncInv'
  <2>1. \A e \in Bare : bare'[e].at = bare[e].at
    BY <1>1
  <2>2. sync = Idle \/ sync.dir \in Bare
    BY DEF CacheInv, CacheType
  <2> QED BY <2>1, <2>2, IdleIs DEF CacheInv, SyncInv
<1>8. \A p \in disk' : Known(p)'
  <2> SUFFICES ASSUME NEW p \in disk' PROVE Known(p)'
    OBVIOUS
  <2>1. CASE p \in disk
    BY <1>0, <1>1, <2>1 DEF CacheInv
  <2>2. CASE p \notin disk
    BY <1>1, <2>2 DEF Known, Lands
  <2> QED BY <2>1, <2>2
<1> QED BY <1>1, <1>4, <1>5, <1>6, <1>7, <1>8 DEF CacheInv

LEMMA AddsStep ==
    ASSUME CacheInv, NEW i \in RepoItem, Adds(i)
    PROVE  CacheInv'
<1> DEFINE c == checkout[i]
           u == c.url
           dir == c.dir
           d == BareOf[u]
           b == Branch(i, c.at)
           r == WorktreeAdd(d, u, dir, b, c.asked)
           was == \E t \in Registered(d) : t.dir = dir /\ t.url = u
           path == [dir |-> dir, url |-> u]
<1>0. /\ checkout \in [RepoItem -> {Idle} \union CheckoutRow] /\ bare \in [Bare -> CloneRow]
      /\ checkouts \in Nat /\ disk \subseteq [dir : RepoItem, url : Url]
  BY DEF CacheInv, CacheType
<1>1. /\ c \in CheckoutRow /\ d \in Bare /\ u \in Url /\ dir \in RepoItem /\ c.asked \in Nat
      /\ bare[d] \in CloneRow /\ GoodClone(bare[d]) /\ bare[d] # NoClone
      /\ c.at \in {"adding", "again"} /\ c # Idle
  BY <1>0, IdleIs, HasDirectory DEF Adds, CheckoutRow, CacheInv
<1>2. b \in BranchName /\ (c.at = "again" => ~(Taken(b)))
  <2>1. c.at = "again" => b = <<i, checkouts>>
    BY DEF Branch
  <2>2. b \in BranchName
    BY <1>0 DEF Branch, BranchName
  <2>3. ~(checkouts < checkouts)
    BY <1>0
  <2> QED BY <1>0, <1>1, <2>1, <2>2, <2>3 DEF CacheInv, NamesInv
<1>3. /\ bare' = r.to /\ disk' = r.disk /\ UNCHANGED <<origin, work, sync, checkouts>>
      /\ IF Again(c.at, r.says)
         THEN checkout' = [checkout EXCEPT ![i].at = "again"] /\ UNCHANGED last
         ELSE /\ checkout' = [checkout EXCEPT ![i] = Idle]
              /\ last' = IF r.says = "ok" THEN Idle
                         ELSE [at |-> "failed", why |-> IF was THEN "used before" ELSE r.says]
  BY DEF Adds
<1>4. path \in disk => was
  <2>1. path \in disk => Known(path)
    BY DEF CacheInv
  <2> QED BY <2>1 DEF Known, Registered
<1>5. ASSUME r.says # "already exists" \/ was \/ c.at = "adding",
             r.says \in {"ok", "invalid reference", "already exists"} \/ was
      PROVE  /\ CheckoutsSucceed'
             /\ \/ checkout' = [checkout EXCEPT ![i] = Idle]
                \/ checkout' = [checkout EXCEPT ![i].at = "again"] /\ checkout[i].at = "adding"
  <2> HIDE DEF r, was, c
  <2>1. CASE Again(c.at, r.says)
    BY <1>3, <2>1 DEF Again, c, CacheInv, CheckoutsSucceed
  <2>2. CASE ~Again(c.at, r.says)
    <3>1. CASE r.says = "ok"
      BY <1>3, <2>2, <3>1, IdleIs DEF CheckoutsSucceed
    <3>2. CASE r.says # "ok"
      <4>1. /\ last' = [at |-> "failed", why |-> IF was THEN "used before" ELSE r.says]
            /\ was \/ r.says = "invalid reference"
        BY <1>1, <1>3, <1>5, <2>2, <3>2 DEF Again
      <4> QED BY <1>3, <2>2, <4>1 DEF CheckoutsSucceed
    <3> QED BY <3>1, <3>2
  <2> QED BY <2>1, <2>2
\* Nothing comes of it.
<1>6. ASSUME r.to = bare, r.disk = disk, r.says # "already exists" \/ c.at = "adding",
             r.says \in {"invalid reference", "already exists"}
      PROVE  CacheInv'
  <2>1. bare' = [bare EXCEPT ![d] = bare[d]] /\ disk' = disk
    BY <1>0, <1>1, <1>3, <1>6
  <2>2. FollowsFrom(bare[d], bare[d])
    BY <1>1 DEF FollowsFrom, CloneRow
  <2>3. /\ CheckoutsSucceed'
        /\ \/ checkout' = [checkout EXCEPT ![i] = Idle]
           \/ checkout' = [checkout EXCEPT ![i].at = "again"] /\ checkout[i].at = "adding"
    BY <1>5, <1>6
  <2> HIDE DEF r, d
  <2> QED BY <1>0, <1>1, <1>2, <1>3, <2>1, <2>2, <2>3, OneAttempt
<1>7. CASE bare[d].at = "partial"
  <2>1. r = [says |-> "invalid reference", to |-> bare, disk |-> disk]
    BY <1>7 DEF WorktreeAdd
  <2> HIDE DEF r, c
  <2>2. r.to = bare /\ r.disk = disk /\ r.says = "invalid reference"
    BY <2>1
  <2> QED BY <1>6, <2>2
<1>8. CASE bare[d].at # "partial" /\ b \in bare[d].branches
  <2>1. r = [says |-> "already exists", to |-> bare, disk |-> disk]
    BY <1>8 DEF WorktreeAdd
  <2>2. c.at = "adding"
    BY <1>1, <1>2, <1>8 DEF Taken
  <2> HIDE DEF r, c
  <2>3. r.to = bare /\ r.disk = disk /\ r.says = "already exists"
    BY <2>1
  <2> QED BY <1>6, <2>2, <2>3
<1>9. CASE bare[d].at # "partial" /\ b \notin bare[d].branches
  <2>0. bare[d].at = "ready"
    BY <1>1, <1>9 DEF GoodClone, CloneRow
  <2> DEFINE bs == bare[d].branches \union {b}
             row == [bare[d] EXCEPT !.branches = bs]
             made == [bare EXCEPT ![d].branches = @ \union {b}]
  <2>1. made = [bare EXCEPT ![d] = row]
    BY <1>0, <1>1
  <2>2. bs \in SUBSET BranchName
    BY <1>1, <1>2 DEF CloneRow
  <2>3. /\ row \in CloneRow /\ row.at = "ready" /\ row.of = bare[d].of /\ row.main = bare[d].main
        /\ row.branches = bs /\ row.worktrees = bare[d].worktrees
        /\ bare[d].main \in Nat
    <3> HIDE DEF bs, d
    <3> QED BY <1>1, <2>0, <2>2 DEF CloneRow
  <2>4. CASE path \in disk \/ was
    <3>1. r.to = made /\ r.disk = disk /\ r.says \in {"already exists", "already registered"} /\ was
      BY <1>4, <1>9, <2>4 DEF WorktreeAdd
    <3>2. bare' = [bare EXCEPT ![d] = row] /\ disk' = disk
      BY <1>3, <2>1, <3>1
    <3>3. /\ CheckoutsSucceed'
          /\ \/ checkout' = [checkout EXCEPT ![i] = Idle]
             \/ checkout' = [checkout EXCEPT ![i].at = "again"] /\ checkout[i].at = "adding"
      BY <1>5, <3>1
    <3> HIDE DEF r, row, bs, d, made
    <3>4. GoodClone(row)
      BY <1>1, <2>0, <2>3 DEF GoodClone, Cut
    <3>5. FollowsFrom(row, bare[d])
      BY <2>3 DEF FollowsFrom
    <3>6. /\ checkout[i].at \in {"adding", "again"} /\ b = Branch(i, checkout[i].at)
          /\ d \in Bare /\ b \in BranchName /\ UNCHANGED <<origin, work, sync, checkouts>>
      BY <1>1, <1>2, <1>3
    <3>7. /\ row \in CloneRow /\ row.at = bare[d].at /\ row.worktrees = bare[d].worktrees
          /\ row.branches \subseteq bare[d].branches \union {b}
      BY <2>0, <2>3 DEF bs, d
    <3> HIDE DEF b, c, u, dir, was, path
    <3> QED BY <1>0, <3>2, <3>3, <3>4, <3>5, <3>6, <3>7, OneAttempt
  <2>5. CASE path \notin disk /\ ~was
    <3> DEFINE t == [dir |-> dir, url |-> u, branch |-> b, base |-> bare[d].main, asked |-> c.asked]
               ws == bare[d].worktrees \union {t}
               new == [row EXCEPT !.worktrees = ws]
    <3>1. /\ r.to = [made EXCEPT ![d].worktrees = @ \union {t}]
          /\ r.disk = disk \union {path} /\ r.says = "ok"
      BY <1>9, <2>5 DEF WorktreeAdd
    <3>2. bare' = [bare EXCEPT ![d] = new] /\ disk' = disk \union {path}
      <4>1. bare' = [[bare EXCEPT ![d] = row] EXCEPT ![d].worktrees = @ \union {t}]
        BY <1>3, <2>1, <3>1
      <4>2. row.worktrees \union {t} = ws
        BY <2>3
      <4> HIDE DEF row, ws, t, made, r, d
      <4>3. bare' = [bare EXCEPT ![d] = [row EXCEPT !.worktrees = ws]]
        BY <1>0, <1>1, <4>1, <4>2
      <4> QED BY <1>3, <3>1, <4>3
    <3>3. t \in Worktree /\ ws \in SUBSET Worktree
      <4>1. bare[d].main \in Nat /\ bare[d].worktrees \in SUBSET Worktree
        BY <1>1 DEF CloneRow
      <4>2. t \in Worktree
        <5> HIDE DEF b, c, d, u, dir
        <5> QED BY <1>1, <1>2, <4>1 DEF Worktree
      <4> HIDE DEF t, d
      <4> QED BY <4>1, <4>2
    <3>4. /\ CheckoutsSucceed'
          /\ \/ checkout' = [checkout EXCEPT ![i] = Idle]
             \/ checkout' = [checkout EXCEPT ![i].at = "again"] /\ checkout[i].at = "adding"
      BY <1>5, <3>1
    <3>5. /\ t.url = u /\ t.dir = dir /\ t.branch = b /\ t.base = bare[d].main /\ t.asked = c.asked
          /\ path.dir = dir /\ path.url = u /\ path \in [dir : RepoItem, url : Url]
      BY <1>1
    <3>6. Met(c)
      BY <1>1 DEF CacheInv, AskedInv
    <3> HIDE DEF r, bs, made, t, path
    <3>7. /\ new \in CloneRow /\ new.at = "ready" /\ new.of = bare[d].of /\ new.main = bare[d].main
          /\ new.branches = bs /\ new.worktrees = ws
      <4> HIDE DEF row, ws
      <4> QED BY <2>3, <3>3 DEF CloneRow
    <3> HIDE DEF new, row
    <3>8. Cut(bare[d]) => Cut(new)
      BY <3>7 DEF Cut
    <3>9. t.url = bare[d].of => t.base >= t.asked \/ Cut(new)
      <4>1. ASSUME u = bare[d].of PROVE c.asked = 0 \/ bare[d].main >= c.asked \/ Cut(bare[d])
        BY <3>6, <4>1 DEF Met
      <4>2. c.asked = 0 => bare[d].main >= c.asked
        BY <2>3
      <4> HIDE DEF c, d, u
      <4> QED BY <3>5, <3>8, <4>1, <4>2
    <3>10. GoodClone(new)
      BY <1>1, <2>0, <3>7, <3>8, <3>9 DEF GoodClone
    <3>11. FollowsFrom(new, bare[d])
      BY <2>3, <3>7 DEF FollowsFrom
    <3>12. /\ disk' \subseteq [dir : RepoItem, url : Url]
           /\ \A p \in disk' : p \in disk \/ Lands(p, d, new)
      BY <1>0, <3>2, <3>5, <3>7 DEF Lands
    <3>13. \A w \in new.worktrees : w \in bare[d].worktrees \/ w.branch = b
      BY <3>5, <3>7
    <3>14. /\ checkout[i].at \in {"adding", "again"} /\ b = Branch(i, checkout[i].at)
           /\ d \in Bare /\ b \in BranchName /\ UNCHANGED <<origin, work, sync, checkouts>>
      BY <1>1, <1>2, <1>3
    <3>15. /\ new \in CloneRow /\ new.at = bare[d].at
           /\ new.branches \subseteq bare[d].branches \union {b}
           /\ bare' = [bare EXCEPT ![d] = new]
      BY <2>0, <3>2, <3>7 DEF bs
    <3> HIDE DEF b, c, u, dir, was, d, ws
    <3> QED BY <3>4, <3>10, <3>11, <3>12, <3>13, <3>14, <3>15, OneAttempt
  <2> QED BY <2>4, <2>5
<1> QED BY <1>7, <1>8, <1>9

-----------------------------------------------------------------------------
LEMMA CacheIsKept ==
    ASSUME CacheInv, [CacheNext]_cacheVars
    PROVE  CacheInv'
<1>1. CASE UNCHANGED cacheVars
  <2>1. \A i \in RepoItem : checkout'[i] = checkout[i]
    BY <1>1 DEF cacheVars
  <2>2. CheckoutsSucceed'
    BY <1>1 DEF cacheVars, CacheInv, CheckoutsSucceed
  <2> QED BY <1>1, <2>1, <2>2, RestStays DEF cacheVars, CacheInv, CacheType
<1>2. CASE DaemonDies
  <2>1. /\ \A i \in RepoItem : checkout'[i] = Idle /\ work'[i] = "none"
        /\ checkout' \in [RepoItem -> {Idle} \union CheckoutRow]
        /\ work' \in [RepoItem -> RepoItem \union {"none"}]
    BY <1>2 DEF DaemonDies
  <2>2. CheckoutsSucceed'
    BY <1>2 DEF DaemonDies, CacheInv, CheckoutsSucceed
  <2> QED BY <1>2, <2>1, <2>2, RestStays DEF DaemonDies
<1>3. ASSUME NEW i \in RepoItem,
             \/ \E u \in Url : Asks(i, u)
             \/ \E reached \in BOOLEAN : Fetches(i, reached)
             \/ Adds(i)
      PROVE  CacheInv'
  BY <1>3, AsksStep, FetchesStep, AddsStep
<1> QED BY <1>1, <1>2, <1>3, OriginSteps, SyncSteps, RestSteps DEF CacheNext

LEMMA CacheStarts ==
    ASSUME CacheInit
    PROVE  CacheInv
<1>1. bare \in [Bare -> CloneRow] /\ \A d \in Bare : bare[d] = NoClone
  BY ClonesAre DEF CacheInit
<1>2. CacheType
  BY <1>1 DEF CacheInit, CacheType
<1>3. \A i \in RepoItem : checkout[i] = Idle
  BY DEF CacheInit
<1>4. GoodClone(NoClone) /\ NoClone.branches = {} /\ NoClone.worktrees = {}
  BY DEF GoodClone, NoClone, Clone
<1>5. ~(\E b : Taken(b))
  BY <1>1, <1>4 DEF CacheInit, Taken
<1>6. SyncInv /\ CheckoutsSucceed /\ disk = {}
  BY IdleIs DEF CacheInit, SyncInv, CheckoutsSucceed
<1>7. AskedInv /\ NamesInv
  BY <1>3, <1>5 DEF AskedInv, NamesInv
<1> QED BY <1>1, <1>2, <1>4, <1>6, <1>7 DEF CacheInv

LEMMA CacheTells ==
    ASSUME CacheInv
    PROVE  CheckoutsServe
<1>1. ASSUME NEW d \in Bare, NEW t \in bare[d].worktrees, t.url = bare[d].of
      PROVE  t.base >= t.asked \/ CheckedOut(d) \cap origin[bare[d].of].branches # {}
  <2>1. t.base >= t.asked \/ Cut(bare[d])
    BY <1>1 DEF CacheInv, GoodClone
  <2> QED BY <2>1 DEF Cut, CheckedOut, Registered
<1> QED BY <1>1 DEF CacheInv, CheckoutsServe, CheckoutsAreFresh, Registered

LEMMA CacheRests ==
    ASSUME [ServicesNext]_servicesVars
    PROVE  [CacheNext]_cacheVars
  BY DEF ServicesNext, servicesVars, cacheVars

\* cache.go: whatever is cloned, fetched, pushed and checked out at once, and wherever the
\* daemon dies, a checkout starts from the main it asked for, and fails only for the reasons
\* CheckoutsSucceed names.
THEOREM CheckoutsAreServed == ServicesSpec => []CheckoutsServe
<1>1. ServicesInit => CacheInv
  BY CacheStarts DEF ServicesInit
<1>2. CacheInv /\ [ServicesNext]_servicesVars => CacheInv'
  BY CacheRests, CacheIsKept
<1>3. CacheInv => CheckoutsServe
  BY CacheTells
<1> QED BY <1>1, <1>2, <1>3, PTL DEF ServicesSpec

-----------------------------------------------------------------------------
(* The queue of an issue.                                                  *)

Anyone == Agent \union {Person, None}
CommentRow == [author : Agent \union {Person}, names : Naming, parent : Nat]

\* What a request holds; one that is about to insert an item knows the agent.
RequestState ==
    {s \in [at : States, snap : Anyone, to : Anyone, shut : BOOLEAN, c : Nat,
            names : SUBSET (Agent \union {Person, Everyone})] :
        s.at \in {"insert", "answer", "insertMention"} => s.to \in Agent}

TriggersType ==
    /\ exists \in BOOLEAN /\ closed \in BOOLEAN /\ raced \in BOOLEAN
    /\ assignee \in Anyone
    /\ archived \subseteq Agent
    /\ comments \in Seq(CommentRow)
    /\ \A c \in 1 .. Len(comments) : comments[c].parent < c
    /\ pending \in Agent \union {None} /\ working \in Agent \union {None}
    /\ req \in [Request -> RequestState]
    /\ owed \in [Agent -> Nat]

\* What a request that nothing interferes with may rely on.
Course(s) ==
    /\ s.at \in {"write", "post", "ask", "answer"} => s.snap = assignee
    /\ s.at \in {"cancel", "trigger", "insert", "answer"} => s.to = lastAssigned
    /\ s.at \in {"ask", "answer"} => s.c \in 1 .. Len(comments)
    /\ s.at \in {"insert", "answer", "insertMention"} => s.to \in Agent \ archived
    /\ s.at \in {"mention", "insertMention"} => s.names \subseteq MentionedEver \cap Agent
    /\ s.at = "insertMention" => s.to \in MentionedEver

AloneInv ==
    ~raced =>
        \A r \in Request :
            /\ Course(req[r])
            /\ req[r] # Unserved => \A q \in Request \ {r} : req[q] = Unserved

\* The pending item, also while a request is about to cancel it.
Standing == ~raced => assignee \in {None, lastAssigned}
PendingInv ==
    /\ Standing
    /\ pending # None =>
        /\ exists
        /\ ~raced =>
              /\ pending \notin archived
                 \/ \E r \in Request : req[r].at = "cancelAgent" /\ req[r].to = pending
              /\ pending \in {lastAssigned} \union MentionedEver
                 \/ \E r \in Request : req[r].at = "cancel"

TriggersInv == TriggersType /\ CommentsAreHeard /\ AloneInv /\ PendingInv

LEMMA Nobody == None \notin Agent
  BY Distinct

LEMMA UnservedIs == Unserved \in RequestState /\ Unserved.at = "idle"
  BY DEF Unserved, RequestState, States, Anyone

LEMMA UnservedCourse == Course(Unserved)' /\ Course(Unserved)
  BY DEF Course, Unserved

\* A request comes: it is alone, or raced says so.
LEMMA Enters ==
    ASSUME TriggersInv, NEW r \in Request, NEW t \in RequestState, Admits(r, t),
           ~raced => Course(t)'
    PROVE  /\ req' \in [Request -> RequestState] /\ raced' \in BOOLEAN /\ AloneInv'
           /\ req[r] = Unserved /\ req'[r] = t
           /\ \A q \in Request \ {r} : req'[q] = req[q]
           /\ raced => raced'
<1>1. /\ req' = [req EXCEPT ![r] = t] /\ req[r] = Unserved
      /\ raced' = (raced \/ \E q \in Request \ {r} : req[q] # Unserved)
  BY DEF Admits
<1>2. req \in [Request -> RequestState] /\ raced \in BOOLEAN
  BY DEF TriggersInv, TriggersType
<1>3. /\ req' \in [Request -> RequestState] /\ raced' \in BOOLEAN
      /\ req'[r] = t /\ \A q \in Request \ {r} : req'[q] = req[q]
  BY <1>1, <1>2
<1>4. ASSUME ~raced', NEW q \in Request
      PROVE  /\ \E s \in RequestState : req'[q] = s /\ Course(s)'
             /\ q = r \/ req'[q] = Unserved
  <2>1. ~raced /\ \A p \in Request \ {r} : req[p] = Unserved
    BY <1>1, <1>4
  <2>2. q = r \/ req'[q] = Unserved
    BY <1>3, <2>1
  <2> QED BY <1>3, <2>1, <2>2, UnservedIs, UnservedCourse
<1>5. AloneInv'
  <2> SUFFICES ASSUME ~raced', NEW q \in Request
               PROVE  /\ Course(req[q])'
                      /\ req'[q] # Unserved => \A p \in Request \ {q} : req'[p] = Unserved
    BY DEF AloneInv
  <2>1. PICK s \in RequestState : req'[q] = s /\ Course(s)'
    BY <1>4
  <2>2. Course(req[q])'
    BY <2>1 DEF Course
  <2> QED BY <1>4, <2>2
<1> QED BY <1>1, <1>3, <1>5

\* A request goes on with t.
LEMMA RequestGoesOn ==
    ASSUME TriggersInv, NEW r \in Request, NEW t \in RequestState, Goes(r, t),
           req[r].at # "idle", ~raced => Course(t)'
    PROVE  /\ req' \in [Request -> RequestState] /\ raced' = raced /\ AloneInv'
           /\ req'[r] = t /\ \A q \in Request \ {r} : req'[q] = req[q]
           /\ ~raced => \A q \in Request \ {r} : req[q] = Unserved
<1>1. req' = [req EXCEPT ![r] = t] /\ raced' = raced
  BY DEF Goes
<1>2. req \in [Request -> RequestState]
  BY DEF TriggersInv, TriggersType
<1>3. /\ req' \in [Request -> RequestState] /\ req'[r] = t
      /\ \A q \in Request \ {r} : req'[q] = req[q]
  BY <1>1, <1>2
<1>4. ~raced => \A q \in Request \ {r} : req[q] = Unserved
  BY UnservedIs DEF TriggersInv, AloneInv
<1>5. ASSUME ~raced', NEW q \in Request
      PROVE  /\ \E s \in RequestState : req'[q] = s /\ Course(s)'
             /\ q = r \/ req'[q] = Unserved
  <2>1. q = r \/ req'[q] = Unserved
    BY <1>1, <1>3, <1>4, <1>5
  <2> QED BY <1>1, <1>3, <1>5, <2>1, UnservedIs, UnservedCourse
<1>6. AloneInv'
  <2> SUFFICES ASSUME ~raced', NEW q \in Request
               PROVE  /\ Course(req[q])'
                      /\ req'[q] # Unserved => \A p \in Request \ {q} : req'[p] = Unserved
    BY DEF AloneInv
  <2>1. PICK s \in RequestState : req'[q] = s /\ Course(s)'
    BY <1>5
  <2>2. Course(req[q])'
    BY <2>1 DEF Course
  <2> QED BY <1>5, <2>2
<1> QED BY <1>1, <1>3, <1>4, <1>6

\* Comments that are heard stay heard while their item, or the request that is about to
\* insert it, stays.
LEMMA HeardStays ==
    ASSUME CommentsAreHeard,
           \A a \in Agent : owed'[a] > 0 => owed[a] > 0 /\ (pending = a => pending' = a),
           \A q \in Request : req[q].at = "answer" => req'[q] = req[q]
    PROVE  CommentsAreHeard'
  BY DEF CommentsAreHeard

LEMMA PendingStays ==
    ASSUME PendingInv, pending' \in {pending, None}, exists => exists',
           raced => raced', assignee' = assignee, lastAssigned' = lastAssigned,
           archived' = archived,
           MentionedEver \subseteq MentionedEver',
           \A q \in Request : req[q].at \in {"cancel", "cancelAgent"} => req'[q] = req[q]
    PROVE  PendingInv'
  BY DEF PendingInv, Standing

-----------------------------------------------------------------------------
(* A request of a user begins.                                             *)

LEMMA UserEnters ==
    ASSUME TriggersInv, NEW r \in Request, NEW t \in RequestState, Admits(r, t),
           ~raced => Course(t)', UNCHANGED <<closed, comments, queue, owed>>,
           exists' \in BOOLEAN, assignee' \in Anyone, archived' \subseteq Agent, PendingInv'
    PROVE  TriggersInv'
<1>1. /\ req' \in [Request -> RequestState] /\ raced' \in BOOLEAN /\ AloneInv'
      /\ req[r] = Unserved /\ \A q \in Request \ {r} : req'[q] = req[q]
  BY Enters
<1>2. TriggersType'
  BY <1>1 DEF TriggersInv, TriggersType, queue
<1>3. \A q \in Request : req[q].at = "answer" => req'[q] = req[q]
  BY <1>1, UnservedIs
<1>4. CommentsAreHeard'
  BY <1>3, HeardStays DEF TriggersInv, queue
<1> QED BY <1>1, <1>2, <1>4 DEF TriggersInv

\* The same where the issue and the agents stay as they are.
LEMMA UserReads ==
    ASSUME TriggersInv, NEW r \in Request, NEW t \in RequestState, Admits(r, t),
           ~raced => Course(t), UNCHANGED <<issue, archived, comments, queue, owed>>
    PROVE  TriggersInv'
<1>1. ~raced => Course(t)'
  BY DEF Course, issue, MentionedEver
<1>2. /\ req[r] = Unserved /\ \A q \in Request \ {r} : req'[q] = req[q]
      /\ raced => raced'
  BY <1>1, Enters
<1>3. /\ exists' \in BOOLEAN /\ assignee' \in Anyone /\ archived' \subseteq Agent
      /\ UNCHANGED <<closed, comments, queue, owed>>
  BY DEF TriggersInv, TriggersType, issue
<1>4. \A q \in Request : req[q].at \in {"cancel", "cancelAgent"} => req'[q] = req[q]
  BY <1>2, UnservedIs
<1>5. MentionedEver' = MentionedEver
  BY DEF MentionedEver
<1>6. PendingInv'
  BY <1>2, <1>4, <1>5, PendingStays DEF TriggersInv, issue, queue
<1> QED BY <1>1, <1>3, <1>6, UserEnters

LEMMA UsersKeep ==
    ASSUME TriggersInv, NEW r \in Request, Users(r)
    PROVE  TriggersInv'
<1>0. assignee \in Anyone /\ closed \in BOOLEAN /\ archived \subseteq Agent
  BY DEF TriggersInv, TriggersType
<1>1. ASSUME NEW to \in Agent \union {Person, None}, CreateIssue(r, to) PROVE TriggersInv'
  <2> DEFINE s == [Unserved EXCEPT !.at = "trigger", !.to = to]
  <2>1. /\ s \in RequestState /\ s.at = "trigger" /\ s.to = to
    BY DEF Unserved, RequestState, States, Anyone
  <2>2. /\ Admits(r, s) /\ UNCHANGED <<closed, comments, queue, owed>> /\ archived' = archived
        /\ exists' = TRUE /\ assignee' = to /\ lastAssigned' = to /\ ~exists
    BY <1>1 DEF CreateIssue, InsertIssue
  <2> HIDE DEF s
  <2>3. Course(s)'
    BY <2>1, <2>2 DEF Course
  <2>4. PendingInv'
    BY <2>2 DEF TriggersInv, PendingInv, Standing, queue
  <2> QED BY <1>0, <2>1, <2>2, <2>3, <2>4, UserEnters DEF Anyone
<1>2. ASSUME NEW to \in Agent \union {Person, None, "same"}, NEW shut \in BOOLEAN,
             LoadForUpdate(r, to, shut)
      PROVE  TriggersInv'
  <2> DEFINE write == IF to = "same" THEN assignee ELSE to
             s == [Unserved EXCEPT !.at = "write", !.snap = assignee, !.shut = shut,
                                   !.to = write]
  <2>1. write \in Anyone
    BY <1>0 DEF Anyone
  <2>2. Admits(r, s) /\ UNCHANGED <<issue, archived, comments, queue, owed>>
    BY <1>2 DEF LoadForUpdate
  <2> HIDE DEF write
  <2>3. /\ s \in RequestState /\ s.at = "write" /\ s.snap = assignee
    BY <1>0, <2>1 DEF Unserved, RequestState, States
  <2> HIDE DEF s
  <2>4. Course(s)
    BY <2>3 DEF Course
  <2> QED BY <2>2, <2>3, <2>4, UserReads
<1>3. CASE LoadForComment(r)
  <2> DEFINE s == [Unserved EXCEPT !.at = "post", !.snap = assignee, !.shut = closed]
  <2>1. Admits(r, s) /\ UNCHANGED <<issue, archived, comments, queue, owed>>
    BY <1>3 DEF LoadForComment
  <2>2. /\ s \in RequestState /\ s.at = "post" /\ s.snap = assignee
    BY <1>0 DEF Unserved, RequestState, States, Anyone
  <2> HIDE DEF s
  <2>3. Course(s)
    BY <2>2 DEF Course
  <2> QED BY <2>1, <2>2, <2>3, UserReads
<1>4. CASE LoadForDelete(r)
  <2> DEFINE s == [Unserved EXCEPT !.at = "cancelToDelete"]
  <2>1. Admits(r, s) /\ UNCHANGED <<issue, archived, comments, queue, owed>>
    BY <1>4 DEF LoadForDelete
  <2>2. /\ s \in RequestState /\ s.at = "cancelToDelete"
    BY DEF Unserved, RequestState, States, Anyone
  <2> HIDE DEF s
  <2>3. Course(s)
    BY <2>2 DEF Course
  <2> QED BY <2>1, <2>2, <2>3, UserReads
<1>5. ASSUME NEW a \in Agent, ArchiveAgent(r, a) PROVE TriggersInv'
  <2> DEFINE s == [Unserved EXCEPT !.at = "cancelAgent", !.to = a]
  <2>1. /\ s \in RequestState /\ s.at = "cancelAgent" /\ s.to = a
    BY DEF Unserved, RequestState, States, Anyone
  <2>2. /\ Admits(r, s) /\ UNCHANGED <<issue, comments, queue, owed>>
        /\ archived' = archived \cup {a}
    BY <1>5 DEF ArchiveAgent
  <2> HIDE DEF s
  <2>3. Course(s)'
    BY <2>1 DEF Course
  <2>4. /\ req[r] = Unserved /\ req'[r] = s /\ \A q \in Request \ {r} : req'[q] = req[q]
        /\ raced => raced'
    BY <2>1, <2>2, <2>3, Enters
  <2>5. PendingInv'
    <3>1. \A q \in Request : req[q].at \in {"cancel", "cancelAgent"} => req'[q] = req[q]
      BY <2>4, UnservedIs
    <3>2. MentionedEver' = MentionedEver
      BY <2>2 DEF MentionedEver
    <3>3. /\ pending' = pending /\ exists' = exists /\ assignee' = assignee /\ PendingInv
          /\ lastAssigned' = lastAssigned
      BY <2>2 DEF TriggersInv, queue, issue
    <3> QED BY <2>1, <2>2, <2>4, <3>1, <3>2, <3>3 DEF PendingInv, Standing
  <2>6. /\ exists' \in BOOLEAN /\ assignee' \in Anyone /\ archived' \subseteq Agent
        /\ UNCHANGED <<closed, comments, queue, owed>>
    BY <2>2 DEF TriggersInv, TriggersType, issue
  <2> QED BY <2>1, <2>2, <2>3, <2>5, <2>6, UserEnters
<1>6. ASSUME NEW a \in Agent, RestoreAgent(r, a) PROVE TriggersInv'
  <2>1. /\ Admits(r, Unserved) /\ UNCHANGED <<issue, comments, queue, owed>>
        /\ archived' = archived \ {a}
    BY <1>6 DEF RestoreAgent
  <2>2. /\ req[r] = Unserved /\ req'[r] = Unserved
        /\ \A q \in Request \ {r} : req'[q] = req[q]
        /\ raced => raced'
    BY <2>1, UnservedIs, UnservedCourse, Enters
  <2>3. PendingInv'
    <3>1. \A q \in Request : req'[q] = req[q]
      BY <2>2
    <3>2. MentionedEver' = MentionedEver
      BY <2>1 DEF MentionedEver
    <3>3. /\ pending' = pending /\ exists' = exists /\ assignee' = assignee /\ PendingInv
          /\ lastAssigned' = lastAssigned
      BY <2>1 DEF TriggersInv, queue, issue
    <3> QED BY <2>1, <2>2, <3>1, <3>2, <3>3 DEF PendingInv, Standing
  <2>4. /\ exists' \in BOOLEAN /\ assignee' \in Anyone /\ archived' \subseteq Agent
        /\ UNCHANGED <<closed, comments, queue, owed>>
    BY <2>1 DEF TriggersInv, TriggersType, issue
  <2> QED BY <2>1, <2>3, <2>4, UnservedIs, UnservedCourse, UserEnters
<1> QED BY <1>1, <1>2, <1>3, <1>4, <1>5, <1>6 DEF Users

-----------------------------------------------------------------------------
(* A request is served.                                                    *)

LEMMA ServesOn ==
    ASSUME TriggersInv, NEW r \in Request, NEW t \in RequestState, Goes(r, t),
           req[r].at # "idle", ~raced => Course(t)', UNCHANGED archived,
           exists' \in BOOLEAN, closed' \in BOOLEAN, assignee' \in Anyone,
           comments' \in Seq(CommentRow),
           \A c \in 1 .. Len(comments') : comments'[c].parent < c,
           pending' \in Agent \union {None}, working' \in Agent \union {None},
           owed' \in [Agent -> Nat], CommentsAreHeard', PendingInv'
    PROVE  TriggersInv'
<1>1. req' \in [Request -> RequestState] /\ raced' = raced /\ AloneInv'
  BY RequestGoesOn
<1>2. TriggersType'
  BY <1>1 DEF TriggersInv, TriggersType
<1> QED BY <1>1, <1>2 DEF TriggersInv

\* A step that leaves the queue alone, of a request that is about to cancel or insert nothing.
LEMMA ServesQuietly ==
    ASSUME TriggersInv, NEW r \in Request, NEW t \in RequestState, Goes(r, t),
           req[r].at \notin {"idle", "answer", "cancel", "cancelAgent"}, ~raced => Course(t)',
           UNCHANGED <<issue, archived, queue, owed>>, comments' \in Seq(CommentRow),
           \A c \in 1 .. Len(comments') : comments'[c].parent < c,
           MentionedEver \subseteq MentionedEver'
    PROVE  TriggersInv'
<1>1. /\ raced' = raced /\ \A q \in Request \ {r} : req'[q] = req[q]
  BY RequestGoesOn
<1>2. /\ \A q \in Request : req[q].at = "answer" => req'[q] = req[q]
      /\ \A q \in Request : req[q].at \in {"cancel", "cancelAgent"} => req'[q] = req[q]
  BY <1>1
<1>3. CommentsAreHeard'
  BY <1>2, HeardStays DEF TriggersInv, queue
<1>4. PendingInv'
  BY <1>1, <1>2, PendingStays DEF TriggersInv, issue, queue
<1>5. /\ exists' \in BOOLEAN /\ closed' \in BOOLEAN /\ assignee' \in Anyone
      /\ pending' \in Agent \union {None} /\ working' \in Agent \union {None}
      /\ owed' \in [Agent -> Nat]
  BY DEF TriggersInv, TriggersType, issue, queue
<1> QED BY <1>3, <1>4, <1>5, ServesOn

LEMMA WriteStep ==
    ASSUME TriggersInv, NEW r \in Request, WriteIssue(r)
    PROVE  TriggersInv'
<1>0. /\ req[r] \in RequestState /\ req[r].at = "write" /\ assignee \in Anyone
      /\ req[r].to \in Anyone /\ req[r].shut \in BOOLEAN /\ closed \in BOOLEAN
      /\ UNCHANGED <<exists, archived, comments, queue, owed>>
  BY DEF TriggersInv, TriggersType, RequestState, WriteIssue
<1>1. ~raced => req[r].snap = assignee
  BY <1>0 DEF TriggersInv, AloneInv, Course
<1>2. assignee' \in Anyone /\ closed' \in BOOLEAN
  BY <1>0 DEF WriteIssue
<1> DEFINE s == [req[r] EXCEPT !.at = "cancel"]
<1>3. s \in RequestState /\ s.at = "cancel" /\ s.to = req[r].to
  BY <1>0 DEF RequestState, States
<1> DEFINE changed == exists /\ AssigneeChanged(req[r])
<1>4. IF changed THEN Goes(r, s) ELSE Goes(r, Unserved)
  BY DEF WriteIssue
<1> HIDE DEF s
<1>5. PICK t \in RequestState :
          /\ Goes(r, t)
          /\ IF changed THEN t = s ELSE t = Unserved
  BY <1>3, <1>4, UnservedIs
<1>6. Course(t)'
  <2>1. CASE t = s
    <3>1. changed \/ s = Unserved
      BY <1>5, <2>1
    <3>2. lastAssigned' = req[r].to
      BY <1>0, <1>3, <3>1, UnservedIs DEF WriteIssue, AssigneeChanged
    <3> QED BY <1>3, <2>1, <3>2 DEF Course
  <2>2. CASE t = Unserved
    BY <2>2 DEF Course, Unserved
  <2> QED BY <1>5, <2>1, <2>2
<1>7. /\ raced' = raced /\ req'[r] = t /\ \A q \in Request \ {r} : req'[q] = req[q]
  BY <1>0, <1>5, <1>6, RequestGoesOn
<1>8. CommentsAreHeard'
  BY <1>0, <1>7, HeardStays DEF TriggersInv, queue
<1>9. PendingInv'
  <2>1. pending' = pending /\ exists' = exists /\ archived' = archived
        /\ MentionedEver' = MentionedEver /\ PendingInv
    BY <1>0 DEF queue, MentionedEver, TriggersInv
  <2>2. \A q \in Request : req[q].at \in {"cancel", "cancelAgent"} => req'[q] = req[q]
    BY <1>0, <1>7
  <2>0. Standing'
    BY <1>7, <2>1 DEF WriteIssue, PendingInv, Standing
  <2>3. CASE changed
    BY <1>3, <1>5, <1>7, <2>0, <2>1, <2>2, <2>3 DEF PendingInv
  <2>4. CASE exists /\ ~AssigneeChanged(req[r])
    <3>1. ~raced => lastAssigned' = lastAssigned
      BY <1>1, <2>1, <2>4 DEF WriteIssue, AssigneeChanged, PendingInv, Standing
    <3> QED BY <1>7, <2>0, <2>1, <2>2, <3>1 DEF PendingInv
  <2>5. CASE ~exists
    BY <2>0, <2>1, <2>5 DEF PendingInv
  <2> QED BY <2>3, <2>4, <2>5
<1>10. /\ exists' \in BOOLEAN /\ comments' \in Seq(CommentRow) /\ archived' = archived
       /\ \A c \in 1 .. Len(comments') : comments'[c].parent < c
       /\ pending' \in Agent \union {None} /\ working' \in Agent \union {None}
       /\ owed' \in [Agent -> Nat]
  BY <1>0 DEF TriggersInv, TriggersType, queue
<1> QED BY <1>0, <1>2, <1>5, <1>6, <1>8, <1>9, <1>10, ServesOn

\* What cancelling does to the queue.
LEMMA Cancelled ==
    ASSUME TriggersInv, NEW S \in SUBSET Agent, CancelAgentTasks(S)
    PROVE  /\ pending' \in {pending, None} /\ pending' \notin S
           /\ pending' \in Agent \union {None} /\ working' \in Agent \union {None}
           /\ owed' \in [Agent -> Nat]
           /\ \A a \in Agent : owed'[a] > 0 => owed[a] > 0 /\ (pending = a => pending' = a)
<1>1. /\ pending \in Agent \union {None} /\ working \in Agent \union {None}
      /\ owed \in [Agent -> Nat]
  BY DEF TriggersInv, TriggersType
<1>2. pending' = IF pending \in S THEN None ELSE pending
  BY DEF CancelAgentTasks
<1>3. working' = IF working \in S THEN None ELSE working
  BY DEF CancelAgentTasks
<1>4. owed' = [a \in Agent |-> IF a \in S THEN 0 ELSE owed[a]]
  BY DEF CancelAgentTasks
<1>5. owed' \in [Agent -> Nat]
  BY <1>1, <1>4
<1>6. ASSUME NEW a \in Agent, owed'[a] > 0 PROVE owed[a] > 0 /\ (pending = a => pending' = a)
  BY <1>1, <1>2, <1>4, <1>6
<1> QED BY <1>1, <1>2, <1>3, <1>5, <1>6, Nobody

LEMMA CancelStep ==
    ASSUME TriggersInv, NEW r \in Request,
           CancelTasksForIssue(r) \/ DeleteIssue(r)
    PROVE  TriggersInv'
<1> DEFINE s == [req[r] EXCEPT !.at = IF @ = "cancel" THEN "trigger" ELSE "delete"]
<1>0. /\ req[r] \in RequestState /\ CancelAgentTasks(Agent)
      /\ req[r].at \in {"cancel", "cancelToDelete", "delete"}
      /\ UNCHANGED <<assignee, lastAssigned, closed, archived, comments>>
      /\ exists' \in BOOLEAN
  BY DEF TriggersInv, TriggersType, CancelTasksForIssue, DeleteIssue, issue
<1>1. /\ s \in RequestState /\ s.to = req[r].to
      /\ s.at \in {"trigger", "delete"} /\ (s.at = "trigger" => req[r].at = "cancel")
  BY <1>0 DEF RequestState, States
<1>2. ~raced => Course(req[r])
  BY DEF TriggersInv, AloneInv
<1>3. Goes(r, s) \/ Goes(r, Unserved)
  BY DEF CancelTasksForIssue, DeleteIssue
<1> HIDE DEF s
<1>4. PICK t \in RequestState : Goes(r, t) /\ (t = s \/ t = Unserved)
  BY <1>1, <1>3, UnservedIs
<1>5. ~raced => Course(t)'
  <2>1. CASE t = s
    <3>1. ~raced /\ s.at = "trigger" => s.to = lastAssigned
      BY <1>1, <1>2 DEF Course
    <3> QED BY <1>0, <1>1, <2>1, <3>1 DEF Course
  <2>2. CASE t = Unserved
    BY <2>2 DEF Course, Unserved
  <2> QED BY <1>4, <2>1, <2>2
<1>6. raced' = raced /\ \A q \in Request \ {r} : req'[q] = req[q]
  BY <1>0, <1>4, <1>5, RequestGoesOn
<1>7. /\ pending' = None /\ working' \in Agent \union {None} /\ owed' \in [Agent -> Nat]
      /\ \A a \in Agent : owed'[a] > 0 => owed[a] > 0 /\ (pending = a => pending' = a)
  <2>1. Agent \in SUBSET Agent
    OBVIOUS
  <2> QED BY <1>0, <2>1, Cancelled
<1>8. CommentsAreHeard'
  <2>1. \A q \in Request : req[q].at = "answer" => req'[q] = req[q]
    BY <1>0, <1>6
  <2> QED BY <1>7, <2>1, HeardStays DEF TriggersInv
<1>9. PendingInv'
  BY <1>0, <1>6, <1>7 DEF PendingInv, Standing, TriggersInv
<1>10. /\ closed' \in BOOLEAN /\ comments' \in Seq(CommentRow) /\ archived' = archived
       /\ \A c \in 1 .. Len(comments') : comments'[c].parent < c
       /\ assignee' \in Anyone
  BY <1>0 DEF TriggersInv, TriggersType
<1> QED BY <1>0, <1>4, <1>5, <1>7, <1>8, <1>9, <1>10, ServesOn

LEMMA CancelAgentStep ==
    ASSUME TriggersInv, NEW r \in Request, CancelTasksForAgent(r)
    PROVE  TriggersInv'
<1> DEFINE a == req[r].to
           S == {a} \cap Agent
<1>0. /\ req[r] \in RequestState /\ CancelAgentTasks({a}) /\ req[r].at = "cancelAgent"
      /\ Goes(r, Unserved) /\ UNCHANGED <<issue, archived, comments>>
  BY DEF TriggersInv, TriggersType, CancelTasksForAgent
<1>1. CancelAgentTasks(S)
  <2>1. pending \in {a} <=> pending \in S \/ (pending = None /\ a = None)
    BY Nobody DEF TriggersInv, TriggersType
  <2>2. working \in {a} <=> working \in S \/ (working = None /\ a = None)
    BY Nobody DEF TriggersInv, TriggersType
  <2>3. \A x \in Agent : x \in {a} <=> x \in S
    OBVIOUS
  <2>4. owed' = [x \in Agent |-> IF x \in {a} THEN 0 ELSE owed[x]]
    BY <1>0 DEF CancelAgentTasks
  <2>5. owed' = [x \in Agent |-> IF x \in S THEN 0 ELSE owed[x]]
    BY <2>3, <2>4
  <2>6. /\ pending' = IF pending \in S THEN None ELSE pending
        /\ working' = IF working \in S THEN None ELSE working
    BY <1>0, <2>1, <2>2 DEF CancelAgentTasks
  <2> QED BY <2>5, <2>6 DEF CancelAgentTasks
<1> HIDE DEF S
<1>2. S \in SUBSET Agent
  BY DEF S
<1>3. /\ pending' \in {pending, None} /\ pending' \notin S
      /\ pending' \in Agent \union {None} /\ working' \in Agent \union {None}
      /\ owed' \in [Agent -> Nat]
      /\ \A x \in Agent : owed'[x] > 0 => owed[x] > 0 /\ (pending = x => pending' = x)
  BY <1>1, <1>2, Cancelled
<1>4. /\ raced' = raced /\ req'[r] = Unserved /\ \A q \in Request \ {r} : req'[q] = req[q]
      /\ ~raced => \A q \in Request \ {r} : req[q] = Unserved
  BY <1>0, UnservedIs, UnservedCourse, RequestGoesOn
<1>5. CommentsAreHeard'
  <2>1. \A q \in Request : req[q].at = "answer" => req'[q] = req[q]
    BY <1>0, <1>4
  <2> QED BY <1>3, <2>1, HeardStays DEF TriggersInv
<1>6. PendingInv'
  <2> SUFFICES ASSUME pending' # None
               PROVE  /\ exists'
                      /\ ~raced => /\ pending' \notin archived'
                                   /\ pending' \in {lastAssigned'} \union MentionedEver'
    BY <1>0, <1>4 DEF PendingInv, Standing, TriggersInv, issue
  <2>1. /\ pending' = pending /\ pending # a /\ MentionedEver' = MentionedEver /\ PendingInv
    BY <1>0, <1>3, Nobody DEF S, MentionedEver, TriggersInv
  <2>2. ASSUME ~raced, NEW q \in Request PROVE /\ req[q].at = "cancelAgent" => req[q].to # pending
                                              /\ req[q].at # "cancel"
    BY <1>0, <1>4, <2>1, <2>2, UnservedIs
  <2> QED BY <1>0, <2>1, <2>2 DEF PendingInv, issue
<1>7. /\ closed' \in BOOLEAN /\ comments' \in Seq(CommentRow) /\ archived' = archived
      /\ \A c \in 1 .. Len(comments') : comments'[c].parent < c
      /\ assignee' \in Anyone /\ exists' \in BOOLEAN
  BY <1>0 DEF TriggersInv, TriggersType, issue
<1> QED BY <1>0, <1>3, <1>5, <1>6, <1>7, UnservedIs, UnservedCourse, ServesOn

LEMMA ShouldStep ==
    ASSUME TriggersInv, NEW r \in Request, ShouldEnqueueAgentTask(r)
    PROVE  TriggersInv'
<1> DEFINE s == [req[r] EXCEPT !.at = "insert"]
           enabled == Enabled(req[r].to, "on_assign")
<1>0. /\ req[r] \in RequestState /\ req[r].at = "trigger"
      /\ IF enabled THEN Goes(r, s) ELSE Goes(r, Unserved)
      /\ UNCHANGED <<issue, archived, comments, queue, owed>>
  BY DEF TriggersInv, TriggersType, ShouldEnqueueAgentTask
<1>1. enabled => /\ s \in RequestState /\ s.at = "insert" /\ s.to = req[r].to
                 /\ s.to \in Agent \ archived
  BY <1>0 DEF RequestState, States, Enabled
<1>2. ~raced => req[r].to = lastAssigned
  BY <1>0 DEF TriggersInv, AloneInv, Course
<1> HIDE DEF s, enabled
<1>3. PICK t \in RequestState : Goes(r, t) /\ ((enabled /\ t = s) \/ t = Unserved)
  BY <1>0, <1>1, UnservedIs
<1>4. ~raced => Course(t)'
  BY <1>0, <1>1, <1>2, <1>3 DEF Course, Unserved, issue
<1>5. /\ comments' \in Seq(CommentRow) /\ MentionedEver' = MentionedEver
      /\ \A c \in 1 .. Len(comments') : comments'[c].parent < c
  BY <1>0 DEF TriggersInv, TriggersType, MentionedEver
<1> QED BY <1>0, <1>3, <1>4, <1>5, ServesQuietly

\* What the insertion of an item does to the queue.
LEMMA Inserted ==
    ASSUME TriggersInv, NEW r \in Request, NEW t \in RequestState, Goes(r, t), ~raced => Course(t)',
           req[r].at \in {"insert", "answer", "insertMention"},
           CreateAgentTask(req[r].to), UNCHANGED <<issue, archived, comments>>
    PROVE  /\ pending' \in Agent \union {None} /\ PendingInv'
           /\ pending # None => pending' = pending
           /\ exists' \in BOOLEAN /\ closed' \in BOOLEAN /\ assignee' \in Anyone
           /\ comments' \in Seq(CommentRow)
           /\ \A c \in 1 .. Len(comments') : comments'[c].parent < c
<1> DEFINE a == req[r].to
<1>1. /\ a \in Agent /\ pending' = IF exists /\ pending = None THEN a ELSE pending
  BY DEF TriggersInv, TriggersType, RequestState, CreateAgentTask
<1>2. ~raced => a \notin archived /\ a \in {lastAssigned} \union MentionedEver
  BY DEF TriggersInv, AloneInv, Course
<1>3. /\ raced' = raced /\ \A q \in Request \ {r} : req'[q] = req[q]
  BY RequestGoesOn
<1>4. PendingInv'
  <2>1. /\ exists' = exists /\ assignee' = assignee /\ archived' = archived
        /\ MentionedEver' = MentionedEver /\ PendingInv /\ lastAssigned' = lastAssigned
    BY DEF issue, MentionedEver, TriggersInv
  <2>2. \A q \in Request : req[q].at \in {"cancel", "cancelAgent"} => req'[q] = req[q]
    BY <1>3
  <2>3. CASE exists /\ pending = None
    BY <1>1, <1>2, <1>3, <2>1, <2>3 DEF PendingInv, Standing
  <2>4. CASE ~(exists /\ pending = None)
    BY <1>1, <1>3, <2>1, <2>2, <2>4, PendingStays
  <2> QED BY <2>3, <2>4
<1>5. /\ exists' \in BOOLEAN /\ closed' \in BOOLEAN /\ assignee' \in Anyone
      /\ comments' \in Seq(CommentRow)
      /\ \A c \in 1 .. Len(comments') : comments'[c].parent < c
  BY DEF TriggersInv, TriggersType, issue
<1>6. pending' \in Agent \union {None}
  BY <1>1 DEF TriggersInv, TriggersType
<1> HIDE DEF a
<1> QED BY <1>1, <1>4, <1>5, <1>6

\* Of the requests that insert an item, one is not about an answer.
LEMMA InsertQuietly ==
    ASSUME TriggersInv, NEW r \in Request, NEW t \in RequestState, Goes(r, t), ~raced => Course(t)',
           req[r].at \in {"insert", "insertMention"},
           CreateAgentTask(req[r].to), UNCHANGED <<issue, archived, comments, working, owed>>
    PROVE  TriggersInv'
<1>1. /\ pending' \in Agent \union {None} /\ PendingInv'
      /\ pending # None => pending' = pending
      /\ exists' \in BOOLEAN /\ closed' \in BOOLEAN /\ assignee' \in Anyone
      /\ comments' \in Seq(CommentRow)
      /\ \A c \in 1 .. Len(comments') : comments'[c].parent < c
  BY Inserted
<1>2. \A q \in Request \ {r} : req'[q] = req[q]
  BY RequestGoesOn
<1>3. CommentsAreHeard'
  <2>1. \A q \in Request : req[q].at = "answer" => req'[q] = req[q]
    BY <1>2
  <2> QED BY <1>1, <2>1, Nobody, HeardStays DEF TriggersInv
<1>4. working' \in Agent \union {None} /\ owed' \in [Agent -> Nat]
  BY DEF TriggersInv, TriggersType
<1> QED BY <1>1, <1>3, <1>4, ServesOn

LEMMA EnqueueStep ==
    ASSUME TriggersInv, NEW r \in Request, EnqueueTaskForIssue(r)
    PROVE  TriggersInv'
<1>1. /\ req[r].at = "insert" /\ CreateAgentTask(req[r].to) /\ Goes(r, Unserved)
      /\ UNCHANGED <<issue, archived, comments, working, owed>>
  BY DEF EnqueueTaskForIssue
<1> QED BY <1>1, UnservedIs, UnservedCourse, InsertQuietly

LEMMA PostStep ==
    ASSUME TriggersInv, NEW r \in Request, NEW author \in {Person, working} \ {None},
           NEW names \in Naming, NEW parent \in 0 .. Len(comments),
           PostComment(r, author, names, parent)
    PROVE  TriggersInv'
<1> DEFINE row == [author |-> author, names |-> names, parent |-> parent]
           n == Len(comments) + 1
           s == [req[r] EXCEPT !.at = "ask", !.c = n]
<1>0. /\ req[r] \in RequestState /\ req[r].at = "post" /\ comments \in Seq(CommentRow)
      /\ \A c \in 1 .. Len(comments) : comments[c].parent < c
      /\ UNCHANGED <<issue, archived, queue, owed>>
      /\ IF exists THEN comments' = Append(comments, row) /\ Goes(r, s)
                   ELSE Goes(r, Unserved) /\ UNCHANGED comments
  BY DEF TriggersInv, TriggersType, PostComment
<1>1. row \in CommentRow /\ row.names = names /\ row.parent < n /\ n \in Nat \ {0}
  BY <1>0 DEF CommentRow, TriggersInv, TriggersType
<1>2. ~raced => req[r].snap = assignee
  BY <1>0 DEF TriggersInv, AloneInv, Course
<1>3. CASE exists
  <2> HIDE DEF row, n
  <2>1. s \in RequestState /\ s.at = "ask" /\ s.c = n /\ s.snap = req[r].snap
    BY <1>0, <1>1 DEF RequestState, States
  <2> HIDE DEF s
  <2>2. PICK t \in RequestState : t = s
    BY <2>1
  <2>3. /\ comments' \in Seq(CommentRow) /\ Len(comments') = n /\ comments'[n] = row
        /\ \A c \in 1 .. Len(comments) : comments'[c] = comments[c]
        /\ Len(comments) \in Nat
    BY <1>0, <1>1, <1>3 DEF n
  <2>4. \A c \in 1 .. n : c \in 1 .. Len(comments) \/ c = n
    BY <2>3 DEF n
  <2>5. \A c \in 1 .. Len(comments') : comments'[c].parent < c
    BY <1>0, <1>1, <2>3, <2>4
  <2>6. MentionedEver \subseteq MentionedEver'
    <3>1. \A c \in 1 .. Len(comments) : c \in 1 .. Len(comments')
      BY <2>3 DEF n
    <3> QED BY <2>3, <3>1 DEF MentionedEver
  <2>7. ~raced => Course(t)'
    <3>1. n \in 1 .. Len(comments')
      BY <1>1, <2>3
    <3>2. ~raced => t.snap = assignee'
      BY <1>0, <1>2, <2>1, <2>2 DEF issue
    <3>3. /\ t.at = "ask" /\ t.c \in 1 .. Len(comments')
      BY <2>1, <2>2, <3>1
    <3> QED BY ONLY <3>2, <3>3 DEF Course
  <2>8. /\ Goes(r, t) /\ UNCHANGED <<issue, archived, queue, owed>>
        /\ req[r].at \notin {"idle", "answer", "cancel", "cancelAgent"}
    BY <1>0, <1>3, <2>2
  <2> QED BY <2>1, <2>3, <2>5, <2>6, <2>7, <2>8, ServesQuietly
<1>4. CASE ~exists
  <2>1. MentionedEver' = MentionedEver
    BY <1>0, <1>4 DEF MentionedEver
  <2>2. Goes(r, Unserved) /\ comments' = comments
    BY <1>0, <1>4
  <2> HIDE DEF s, row
  <2> QED BY <1>0, <2>1, <2>2, UnservedIs, UnservedCourse, ServesQuietly
<1> QED BY <1>3, <1>4

\* A request goes on to the agents its comment names.
LEMMA Mentions ==
    ASSUME TriggersInv, NEW r \in Request, NEW todo \in SUBSET Agent,
           ~raced => todo \subseteq MentionedEver
    PROVE  Mentioning(r, todo) \in RequestState /\ (~raced => Course(Mentioning(r, todo)))
<1> DEFINE s == [req[r] EXCEPT !.at = "mention", !.to = None, !.names = todo]
<1>1. s \in RequestState /\ s.at = "mention" /\ s.names = todo
  BY DEF TriggersInv, TriggersType, RequestState, States, Anyone
<1> HIDE DEF s
<1>2. ~raced => Course(s)
  BY <1>1 DEF Course
<1>3. Mentioning(r, todo) \in {s, Unserved}
  BY DEF Mentioning, s
<1> QED BY <1>1, <1>2, <1>3, UnservedIs, UnservedCourse

LEMMA FirstOfThem ==
    ASSUME TriggersInv, NEW r \in Request, req[r].at \in {"ask", "answer"}
    PROVE  FirstMentions(r) \in RequestState /\ (~raced => Course(FirstMentions(r)))
<1> DEFINE c == req[r].c
           todo == ToMention(c, req[r].snap)
<1>1. todo \in SUBSET Agent
  BY DEF ToMention
<1>2. ASSUME ~raced PROVE todo \subseteq MentionedEver
  <2>1. c \in 1 .. Len(comments)
    BY <1>2 DEF TriggersInv, AloneInv, Course
  <2>2. comments[c].parent \in Nat /\ comments[c].parent < c
    <3>1. comments \in Seq(CommentRow) /\ comments[c].parent < c
      BY <2>1 DEF TriggersInv, TriggersType
    <3> HIDE DEF c
    <3>2. comments[c] \in CommentRow
      BY <2>1, <3>1
    <3> QED BY <3>1, <3>2 DEF CommentRow
  <2>3. comments[c].parent = 0 \/ comments[c].parent \in 1 .. Len(comments)
    BY <2>1, <2>2 DEF TriggersInv, TriggersType
  <2> QED BY <2>1, <2>3 DEF ToMention, Named, Parent, MentionedEver
<1> HIDE DEF todo
<1>3. FirstMentions(r) = Mentioning(r, todo)
  BY DEF FirstMentions, todo
<1> QED BY <1>1, <1>2, <1>3, Mentions

LEMMA CourseStays ==
    ASSUME NEW t, Course(t), UNCHANGED <<issue, archived, comments>>
    PROVE  Course(t)'
  BY DEF Course, MentionedEver, issue

LEMMA AskStep ==
    ASSUME TriggersInv, NEW r \in Request, ShouldEnqueueOnComment(r)
    PROVE  TriggersInv'
<1> DEFINE a == req[r].snap
           s == [req[r] EXCEPT !.at = "answer", !.to = a]
           asks == AsksTheAssignee(r)
<1>0. /\ req[r] \in RequestState /\ req[r].at = "ask" /\ owed \in [Agent -> Nat]
      /\ UNCHANGED <<issue, archived, comments, queue>>
      /\ IF asks /\ pending = None THEN Goes(r, s) ELSE Goes(r, FirstMentions(r))
      /\ owed' = IF asks /\ pending \in {None, a}
                 THEN [owed EXCEPT ![a] = req[r].c] ELSE owed
  BY DEF TriggersInv, TriggersType, ShouldEnqueueOnComment, HasPendingTaskForIssue
<1>1. asks => a \in Agent \ archived
  BY DEF AsksTheAssignee, Enabled
<1>2. asks => s \in RequestState /\ s.at = "answer" /\ s.to = a /\ s.snap = a /\ s.c = req[r].c
  BY <1>0, <1>1 DEF RequestState, States, Anyone
<1>3. ~raced => Course(req[r])
  BY DEF TriggersInv, AloneInv
<1>4. ASSUME asks, ~raced PROVE Course(s)
  <2>1. a = assignee /\ a # None
    BY <1>0, <1>1, <1>3, <1>4, Nobody DEF Course
  <2>2. a = lastAssigned
    BY <1>4, <2>1 DEF TriggersInv, PendingInv, Standing
  <2> HIDE DEF a
  <2> QED BY <1>0, <1>1, <1>2, <1>3, <1>4, <2>1, <2>2 DEF Course
<1> HIDE DEF s, asks
<1>5. PICK t \in RequestState :
          /\ Goes(r, t) /\ (~raced => Course(t))
          /\ (asks /\ pending = None) => t = s
  BY <1>0, <1>2, <1>4, FirstOfThem
<1>6. ~raced => Course(t)'
  BY <1>0, <1>5, CourseStays
<1>7. /\ raced' = raced /\ req'[r] = t /\ \A q \in Request \ {r} : req'[q] = req[q]
  BY <1>0, <1>5, <1>6, RequestGoesOn
<1>8. owed' \in [Agent -> Nat]
  BY <1>0 DEF RequestState
<1>9. CommentsAreHeard'
  <2> SUFFICES ASSUME NEW x \in Agent, owed'[x] > 0
               PROVE  pending' = x \/ \E q \in Request : req'[q].at = "answer" /\ req'[q].to = x
    BY DEF CommentsAreHeard
  <2>1. CASE asks /\ pending \in {None, a} /\ x = a
    BY <1>0, <1>2, <1>5, <1>7, <2>1 DEF queue
  <2>2. CASE ~(asks /\ pending \in {None, a} /\ x = a)
    <3>1. owed[x] > 0
      BY <1>0, <2>2
    <3>2. pending = x \/ \E q \in Request : req[q].at = "answer" /\ req[q].to = x
      BY <3>1 DEF TriggersInv, CommentsAreHeard
    <3>3. \A q \in Request : req[q].at = "answer" => req'[q] = req[q]
      BY <1>0, <1>7
    <3> QED BY <1>0, <3>2, <3>3 DEF queue
  <2> QED BY <2>1, <2>2
<1>10. PendingInv'
  <2>1. \A q \in Request : req[q].at \in {"cancel", "cancelAgent"} => req'[q] = req[q]
    BY <1>0, <1>7
  <2>2. MentionedEver' = MentionedEver
    BY <1>0 DEF MentionedEver
  <2> QED BY <1>0, <1>7, <2>1, <2>2, PendingStays DEF TriggersInv, issue, queue
<1>11. /\ exists' \in BOOLEAN /\ closed' \in BOOLEAN /\ assignee' \in Anyone
       /\ pending' \in Agent \union {None} /\ working' \in Agent \union {None}
       /\ comments' \in Seq(CommentRow)
       /\ \A c \in 1 .. Len(comments') : comments'[c].parent < c
  BY <1>0 DEF TriggersInv, TriggersType, issue, queue
<1> QED BY <1>0, <1>5, <1>6, <1>8, <1>9, <1>10, <1>11, ServesOn

LEMMA AnsweredStep ==
    ASSUME TriggersInv, NEW r \in Request, EnqueueOnComment(r)
    PROVE  TriggersInv'
<1> DEFINE a == req[r].to
<1>0. /\ a \in Agent /\ req[r].at = "answer" /\ CreateAgentTask(a) /\ Goes(r, FirstMentions(r))
      /\ owed' = IF pending' = a THEN owed ELSE [owed EXCEPT ![a] = 0]
      /\ UNCHANGED <<issue, archived, comments, working>> /\ owed \in [Agent -> Nat]
  BY DEF EnqueueOnComment, TriggersInv, TriggersType, RequestState
<1>1. PICK t \in RequestState : Goes(r, t) /\ (~raced => Course(t))
  BY <1>0, FirstOfThem
<1>2. ~raced => Course(t)'
  BY <1>0, <1>1, CourseStays
<1>3. \A q \in Request \ {r} : req'[q] = req[q]
  BY <1>0, <1>1, <1>2, RequestGoesOn
<1>4. /\ pending' \in Agent \union {None} /\ PendingInv'
      /\ pending # None => pending' = pending
      /\ exists' \in BOOLEAN /\ closed' \in BOOLEAN /\ assignee' \in Anyone
      /\ comments' \in Seq(CommentRow)
      /\ \A c \in 1 .. Len(comments') : comments'[c].parent < c
  <2>1. req[r].at \in {"insert", "answer", "insertMention"}
    BY <1>0
  <2> QED BY <1>0, <1>1, <1>2, <2>1, Inserted
<1>5. owed' \in [Agent -> Nat] /\ working' \in Agent \union {None}
  BY <1>0 DEF TriggersInv, TriggersType
<1>6. CommentsAreHeard'
  <2> SUFFICES ASSUME NEW x \in Agent, owed'[x] > 0
               PROVE  pending' = x \/ \E q \in Request : req'[q].at = "answer" /\ req'[q].to = x
    BY DEF CommentsAreHeard
  <2>1. owed[x] > 0 /\ (x = a => pending' = a)
    BY <1>0
  <2>2. CASE x = a
    BY <2>1, <2>2
  <2>3. CASE x # a
    <3>1. pending = x \/ \E q \in Request : req[q].at = "answer" /\ req[q].to = x
      BY <2>1 DEF TriggersInv, CommentsAreHeard
    <3>2. CASE pending = x
      BY <1>4, <3>2, Nobody
    <3>3. ASSUME NEW q \in Request, req[q].at = "answer", req[q].to = x
          PROVE  req'[q] = req[q]
      BY <1>3, <2>3, <3>3
    <3> QED BY <3>1, <3>2, <3>3
  <2> QED BY <2>2, <2>3
<1> QED BY <1>0, <1>1, <1>2, <1>4, <1>5, <1>6, ServesOn

LEMMA MentionStep ==
    ASSUME TriggersInv, NEW r \in Request, NEW a \in Agent, AskMentioned(r, a)
    PROVE  TriggersInv'
<1> DEFINE rest == req[r].names \ {a}
           s == [req[r] EXCEPT !.at = "insertMention", !.to = a, !.names = @ \ {a}]
           on == Enabled(a, "on_mention") /\ ~HasPendingTaskForIssueAndAgent(a)
           names == rest \cap Agent
<1>0. /\ req[r] \in RequestState /\ req[r].at = "mention" /\ a \in req[r].names
      /\ IF on THEN Goes(r, s) ELSE Goes(r, Mentioning(r, rest))
      /\ UNCHANGED <<issue, archived, comments, queue, owed>>
  BY DEF TriggersInv, TriggersType, AskMentioned
<1>1. ~raced => req[r].names \subseteq MentionedEver \cap Agent
  BY <1>0 DEF TriggersInv, AloneInv, Course
<1>2. /\ s \in RequestState /\ s.at = "insertMention" /\ s.to = a /\ s.names = rest
      /\ on => a \notin archived
  BY <1>0 DEF RequestState, States, Anyone, Enabled
<1>3. ~raced /\ on => Course(s)
  BY <1>0, <1>1, <1>2 DEF Course
<1>4. Mentioning(r, rest) \in RequestState
  BY <1>0 DEF Mentioning, RequestState, States, Anyone, Unserved
<1>5. ~raced => Course(Mentioning(r, rest))
  BY <1>1, Mentions
<1> HIDE DEF s, on, rest, names
<1>6. PICK t \in RequestState : Goes(r, t) /\ (~raced => Course(t))
  BY <1>0, <1>2, <1>3, <1>4, <1>5
<1>7. ~raced => Course(t)'
  BY <1>0, <1>6, CourseStays
<1>8. /\ comments' \in Seq(CommentRow) /\ MentionedEver' = MentionedEver
      /\ \A c \in 1 .. Len(comments') : comments'[c].parent < c
  BY <1>0 DEF TriggersInv, TriggersType, MentionedEver
<1> QED BY <1>0, <1>6, <1>7, <1>8, ServesQuietly

LEMMA InsertMentionStep ==
    ASSUME TriggersInv, NEW r \in Request, EnqueueTaskForMention(r)
    PROVE  TriggersInv'
<1> DEFINE names == req[r].names
<1>0. /\ req[r] \in RequestState /\ req[r].at = "insertMention" /\ CreateAgentTask(req[r].to)
      /\ Goes(r, Mentioning(r, names))
      /\ UNCHANGED <<issue, archived, comments, working, owed>>
  BY DEF TriggersInv, TriggersType, EnqueueTaskForMention
<1>1. ~raced => names \subseteq MentionedEver \cap Agent
  BY <1>0 DEF TriggersInv, AloneInv, Course
<1>2. Mentioning(r, names) \in RequestState
  BY <1>0 DEF Mentioning, RequestState, States, Anyone, Unserved
<1>3. ~raced => Course(Mentioning(r, names))
  BY <1>1, Mentions
<1>4. PICK t \in RequestState : Goes(r, t) /\ (~raced => Course(t))
  BY <1>0, <1>2, <1>3
<1>5. ~raced => Course(t)'
  BY <1>0, <1>4, CourseStays
<1> QED BY <1>0, <1>4, <1>5, InsertQuietly

-----------------------------------------------------------------------------
\* Steps of the queue, and of the other services.
LEMMA RunStep ==
    ASSUME TriggersInv, StartRun \/ EndRun \/ UNCHANGED triggersVars
    PROVE  TriggersInv'
<1>1. /\ UNCHANGED <<issue, archived, comments, req, raced>>
      /\ pending' \in {pending, None}
      /\ working' \in Agent \union {None} /\ owed' \in [Agent -> Nat]
      /\ \A a \in Agent : owed'[a] > 0 => owed[a] > 0 /\ (pending = a => pending' = a)
  <2>1. CASE StartRun
    BY <2>1 DEF StartRun, TriggersInv, TriggersType
  <2>2. CASE EndRun
    BY <2>2 DEF EndRun, TriggersInv, TriggersType
  <2>3. CASE UNCHANGED triggersVars
    BY <2>3 DEF triggersVars, issue, queue, TriggersInv, TriggersType
  <2> QED BY <2>1, <2>2, <2>3
<1>2. TriggersType'
  BY <1>1 DEF TriggersInv, TriggersType, issue
<1>3. CommentsAreHeard'
  BY <1>1, HeardStays DEF TriggersInv
<1>4. AloneInv'
  BY <1>1 DEF TriggersInv, AloneInv, Course, MentionedEver, issue
<1>5. PendingInv'
  <2>1. MentionedEver' = MentionedEver
    BY <1>1 DEF MentionedEver
  <2> QED BY <1>1, <2>1, PendingStays DEF TriggersInv, issue
<1> QED BY <1>2, <1>3, <1>4, <1>5 DEF TriggersInv

LEMMA TriggersKeep ==
    ASSUME TriggersInv, [TriggersNext]_triggersVars
    PROVE  TriggersInv'
<1>1. ASSUME NEW r \in Request, Serving(r) PROVE TriggersInv'
  BY <1>1, WriteStep, CancelStep, ShouldStep, EnqueueStep, PostStep, AskStep, AnsweredStep,
     MentionStep, InsertMentionStep, CancelAgentStep DEF Serving
<1> QED BY <1>1, UsersKeep, RunStep DEF TriggersNext

LEMMA TriggersStart ==
    ASSUME TriggersInit
    PROVE  TriggersInv
<1>1. /\ comments = <<>> /\ Len(comments) = 0 /\ \A r \in Request : req[r] = Unserved
      /\ pending = None /\ \A a \in Agent : owed[a] = 0
  BY DEF TriggersInit
<1>2. TriggersType
  <2>1. req \in [Request -> RequestState] /\ owed \in [Agent -> Nat]
    BY UnservedIs DEF TriggersInit
  <2>2. comments \in Seq(CommentRow) /\ \A c \in 1 .. Len(comments) : comments[c].parent < c
    BY <1>1
  <2> QED BY <2>1, <2>2 DEF TriggersInit, TriggersType, Anyone
<1>3. CommentsAreHeard
  BY <1>1 DEF CommentsAreHeard
<1>4. AloneInv
  BY <1>1, UnservedCourse DEF AloneInv
<1>5. PendingInv
  BY <1>1 DEF PendingInv, Standing, TriggersInit
<1> QED BY <1>2, <1>3, <1>4, <1>5 DEF TriggersInv

LEMMA TriggersTell ==
    ASSUME TriggersInv
    PROVE  QueueAnswersTheIssue
<1>1. ASSUME AllServed, ~raced, pending # None
      PROVE  exists /\ pending \notin archived /\ pending \in {lastAssigned} \cup MentionedEver
  <2>1. \A r \in Request : req[r].at = "idle"
    BY <1>1, UnservedIs DEF AllServed
  <2> QED BY <1>1, <2>1 DEF TriggersInv, PendingInv
<1> QED BY <1>1 DEF TriggersInv, QueueAnswersTheIssue, SettledQueue

LEMMA TriggersRest ==
    ASSUME [ServicesNext]_servicesVars
    PROVE  [TriggersNext]_triggersVars
  BY DEF ServicesNext, servicesVars, triggersVars

\* comment.go, issue.go and task.go: whatever requests of users, claims and ends of items
\* come between the statements of a request, a comment that asks for the assignee is
\* followed by an item of that agent; and requests that were served one after the other
\* leave an item of nobody but the agent last assigned, which keeps its item when the issue
\* is unassigned (issue.go:413), and the agents mentioned.
THEOREM EveryCommentIsHeard == ServicesSpec => []QueueAnswersTheIssue
<1>1. ServicesInit => TriggersInv
  BY TriggersStart DEF ServicesInit
<1>2. TriggersInv /\ [ServicesNext]_servicesVars => TriggersInv'
  BY TriggersRest, TriggersKeep
<1>3. TriggersInv => QueueAnswersTheIssue
  BY TriggersTell
<1> QED BY <1>1, <1>2, <1>3, PTL DEF ServicesSpec
=============================================================================
