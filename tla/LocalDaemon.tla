------------------------------ MODULE LocalDaemon ------------------------------
(***************************************************************************)
(* One machine's daemon (internal/daemon/daemon.go): the poll loop and its *)
(* slots, one goroutine for each task it claimed with the goroutine that   *)
(* watches for a cancellation, its stop and its restart.                   *)
(*                                                                         *)
(* Of the server there is only the status of each item (see RunLifecycle). *)
(* A call may be lost on either way; once the daemon's context is          *)
(* cancelled none leaves it.                                               *)
(***************************************************************************)
EXTENDS Naturals, FiniteSets, Sequences, SequencesExt

CONSTANTS
    Runtime,         \* the runtimes the daemon registered
    Task,            \* work items
    RuntimeOf,       \* the runtime of each item
    Slots,           \* cfg.MaxConcurrentTasks
    MaxProcesses,    \* bound: processes of the daemon
    MaxFaults        \* bound: lost calls

ASSUME DaemonAssumption ==
    /\ IsFiniteSet(Runtime) /\ Runtime # {}
    /\ IsFiniteSet(Task)
    /\ RuntimeOf \in [Task -> Runtime]
    /\ Slots \in Nat \ {0}
    /\ MaxProcesses \in Nat /\ MaxFaults \in Nat

VARIABLES
    item,            \* agent_task_queue.status
    life,            \* the process: "up", "stopping" (its context is cancelled), "down"
    process,         \* processes started
    poll,            \* pollLoop: where it is, this pass's runtimes, the index in it,
                     \* pollOffset, and (history) the runtimes this pass asked
    sem,             \* slots taken
    handler,         \* handleTask of each item
    watcher,         \* its goroutine that polls for a cancellation
    result,          \* what runTask returned
    stray,           \* history: items whose claim went unheard or whose last call was lost
    faults

pollVars   == <<poll, sem>>
taskVars   == <<handler, watcher, result>>
vars == <<item, life, process, pollVars, taskVars, stray, faults>>

Active == {"dispatched", "running"}
Open   == {"queued"} \union Active
N      == Cardinality(Runtime)

\* Mutant: the offset is not wrapped.
IdleUnwrapped(at, offset) == [at |-> at, ids |-> <<>>, i |-> 0, offset |-> offset, asked |-> {}]

\* Between two passes only the offset is kept.
Idle(at, offset) == [at |-> at, ids |-> <<>>, i |-> 0, offset |-> offset % N, asked |-> {}]

Init ==
    /\ item = [t \in Task |-> "absent"]
    /\ life = "up" /\ process = 1
    /\ poll = Idle("top", 0)
    /\ sem = 0
    /\ handler = [t \in Task |-> "none"]
    /\ watcher = [t \in Task |-> "off"]
    /\ result = [t \in Task |-> "none"]
    /\ stray = {}
    /\ faults = 0

Fault == faults < MaxFaults /\ faults' = faults + 1

\* A call that reaches the server and whose answer comes back; one whose answer
\* is lost; one that never leaves, because the context is cancelled or it is lost.
Answered   == life = "up" /\ UNCHANGED faults
AnswerLost == life = "up" /\ Fault
Unsent     == (life = "stopping" /\ UNCHANGED faults) \/ (life = "up" /\ Fault)

-----------------------------------------------------------------------------
(* The poll loop.  allRuntimeIDs walks a map: each pass has its own order. *)

BeginPass ==
    /\ life = "up" /\ poll.at = "top"
    /\ \E order \in SetToSeqs(Runtime) :
           poll' = [poll EXCEPT !.at = "scan", !.ids = order, !.i = 0, !.asked = {}]
    /\ UNCHANGED <<item, life, process, sem, taskVars, stray, faults>>

\* Mutant: the offset is added to the index a second time.
AskedTwice == poll.ids[((2 * poll.offset + 2 * poll.i) % N) + 1]

Asked == poll.ids[((poll.offset + poll.i) % N) + 1]

Scanning == life # "down" /\ poll.at = "scan" /\ poll.i < N

AtCapacity ==
    /\ Scanning /\ sem = Slots
    /\ poll' = Idle("sleep", poll.offset + 1)
    /\ UNCHANGED <<item, life, process, sem, taskVars, stray, faults>>

GoesOn(asked) == [poll EXCEPT !.i = @ + 1, !.asked = @ \union {asked}]

\* Nothing for this runtime, or the call fails: the slot is released.
ClaimsNothing ==
    /\ Scanning /\ sem < Slots
    /\ \/ (\A t \in Task : item[t] = "queued" => RuntimeOf[t] # Asked) /\ Answered
       \/ Unsent
    /\ poll' = GoesOn(Asked)
    /\ UNCHANGED <<item, life, process, sem, taskVars, stray>>

Claims(t) ==
    /\ Scanning /\ sem < Slots
    /\ item[t] = "queued" /\ RuntimeOf[t] = Asked
    /\ Answered
    /\ item' = [item EXCEPT ![t] = "dispatched"]
    /\ sem' = sem + 1
    /\ handler' = [handler EXCEPT ![t] = "picked"]
    /\ poll' = Idle("top", poll.offset + poll.i + 1)
    /\ UNCHANGED <<life, process, watcher, result, stray>>

\* The item is dispatched and nobody works on it.
ClaimUnheard(t) ==
    /\ Scanning /\ sem < Slots
    /\ item[t] = "queued" /\ RuntimeOf[t] = Asked
    /\ AnswerLost
    /\ stray' = stray \union {t}
    /\ item' = [item EXCEPT ![t] = "dispatched"]
    /\ poll' = GoesOn(Asked)
    /\ UNCHANGED <<life, process, sem, taskVars>>

PassIsOver ==
    /\ life # "down" /\ poll.at = "scan" /\ poll.i = N
    /\ poll' = Idle("sleep", poll.offset + 1)
    /\ UNCHANGED <<item, life, process, sem, taskVars, stray, faults>>

Wakes ==
    /\ life = "up" /\ poll.at = "sleep"
    /\ poll' = [poll EXCEPT !.at = "top"]
    /\ UNCHANGED <<item, life, process, sem, taskVars, stray, faults>>

-----------------------------------------------------------------------------
(* handleTask.  It ends by giving its slot back.                           *)

Ends(t) ==
    /\ handler' = [handler EXCEPT ![t] = "none"]
    /\ watcher' = [watcher EXCEPT ![t] = "off"]
    /\ result' = [result EXCEPT ![t] = "none"]
    /\ sem' = sem - 1

Goes(t, stage) ==
    /\ handler' = [handler EXCEPT ![t] = stage]
    /\ UNCHANGED <<watcher, result, sem>>

StartTask(t) ==
    /\ handler[t] = "picked"
    /\ \/ /\ item[t] = "dispatched" /\ Answered
          /\ item' = [item EXCEPT ![t] = "running"]
          /\ handler' = [handler EXCEPT ![t] = "working"]
          /\ watcher' = [watcher EXCEPT ![t] = "on"]
          /\ UNCHANGED <<result, sem>>
       \/ /\ item[t] = "dispatched" /\ AnswerLost
          /\ item' = [item EXCEPT ![t] = "running"]
          /\ Goes(t, "failing")
       \/ /\ (item[t] # "dispatched" /\ Answered) \/ Unsent
          /\ Goes(t, "failing")
          /\ UNCHANGED item
    /\ UNCHANGED <<life, process, poll, stray>>

\* runTask returns: "completed", "blocked" for any other status of the agent,
\* "error" for a timeout, an empty output or a failed preparation.
AgentEnds(t, outcome) ==
    /\ handler[t] = "working"
    /\ result' = [result EXCEPT ![t] = outcome]
    /\ handler' = [handler EXCEPT ![t] = "ended"]
    /\ UNCHANGED <<item, life, process, pollVars, watcher, stray, faults>>

\* Mutant: the agent runs under the daemon's context instead of its own.
InterruptedByStop(t) == life = "stopping"

\* runCtx, under which the agent runs, is cancelled.
Interrupted(t) == watcher[t] \in {"interrupting", "fired"} \/ life = "stopping"

\* The watcher sees the cancellation and cancels runCtx, then closes the channel.
WatcherInterrupts(t) ==
    /\ watcher[t] = "on" /\ life = "up"
    /\ item[t] = "cancelled"
    /\ watcher' = [watcher EXCEPT ![t] = "interrupting"]
    /\ UNCHANGED <<item, life, process, pollVars, handler, result, stray, faults>>

WatcherCloses(t) ==
    /\ watcher[t] = "interrupting"
    /\ watcher' = [watcher EXCEPT ![t] = "fired"]
    /\ UNCHANGED <<item, life, process, pollVars, handler, result, stray, faults>>

\* Mutant: the early return of a discarded result keeps the slot.
ChecksWatcherKeepingSlot(t) ==
    /\ handler[t] = "ended"
    /\ IF watcher[t] = "fired"
       THEN /\ handler' = [handler EXCEPT ![t] = "none"]
            /\ watcher' = [watcher EXCEPT ![t] = "off"]
            /\ result' = [result EXCEPT ![t] = "none"]
            /\ UNCHANGED sem
       ELSE Goes(t, IF result[t] = "error" THEN "failing" ELSE "checking")
    /\ UNCHANGED <<item, life, process, poll, stray, faults>>

ChecksWatcher(t) ==
    /\ handler[t] = "ended"
    /\ IF watcher[t] = "fired"
       THEN Ends(t)
       ELSE Goes(t, IF result[t] = "error" THEN "failing" ELSE "checking")
    /\ UNCHANGED <<item, life, process, poll, stray, faults>>

ChecksStatus(t) ==
    /\ handler[t] = "checking"
    /\ \/ item[t] = "cancelled" /\ Answered /\ Ends(t)
       \/ /\ (item[t] # "cancelled" /\ Answered) \/ Unsent
          /\ Goes(t, IF result[t] = "blocked" THEN "failing" ELSE "completing")
    /\ UNCHANGED <<item, life, process, poll, stray>>

CompleteTask(t) ==
    /\ handler[t] = "completing"
    /\ \/ /\ item[t] = "running" /\ Answered
          /\ item' = [item EXCEPT ![t] = "completed"]
          /\ Ends(t)
       \/ /\ item[t] = "running" /\ AnswerLost
          /\ item' = [item EXCEPT ![t] = "completed"]
          /\ Goes(t, "failing")
       \/ /\ (item[t] # "running" /\ Answered) \/ Unsent
          /\ Goes(t, "failing")
          /\ UNCHANGED item
    /\ UNCHANGED <<life, process, poll, stray>>

\* Mutant: a start that failed is not reported.
FailTaskIfRunning(t) ==
    /\ handler[t] = "failing"
    /\ \/ /\ item[t] = "running" /\ (Answered \/ AnswerLost)
          /\ item' = [item EXCEPT ![t] = "failed"]
          /\ UNCHANGED stray
       \/ /\ item[t] # "running" /\ Answered
          /\ UNCHANGED <<item, stray>>
       \/ /\ Unsent
          /\ stray' = stray \union {t}
          /\ UNCHANGED item
    /\ Ends(t)
    /\ UNCHANGED <<life, process, poll>>

\* The last call about the item: when it is lost too the item stays as it is.
FailTask(t) ==
    /\ handler[t] = "failing"
    /\ \/ /\ item[t] \in Active /\ (Answered \/ AnswerLost)
          /\ item' = [item EXCEPT ![t] = "failed"]
          /\ UNCHANGED stray
       \/ /\ item[t] \notin Active /\ Answered
          /\ UNCHANGED <<item, stray>>
       \/ /\ Unsent
          /\ stray' = stray \union {t}
          /\ UNCHANGED item
    /\ Ends(t)
    /\ UNCHANGED <<life, process, poll>>

-----------------------------------------------------------------------------
(* The server's side of an item.                                           *)

ServerMoves(t, from, to) ==
    /\ item[t] \in from
    /\ item' = [item EXCEPT ![t] = to]
    /\ UNCHANGED <<life, process, pollVars, taskVars, stray, faults>>

Enqueue(t)   == ServerMoves(t, {"absent"}, "queued")
Cancel(t)    == ServerMoves(t, Open, "cancelled")
FailStale(t) == ServerMoves(t, Active, "failed")

-----------------------------------------------------------------------------
(* Stop and restart.                                                       *)

\* A signal, or triggerRestart after an update (see RuntimeRequests).
StopSignal ==
    /\ life = "up"
    /\ life' = "stopping"
    /\ UNCHANGED <<item, process, pollVars, taskVars, stray, faults>>

Working == {t \in Task : handler[t] # "none"}

\* From the top of its loop the process waits 30 seconds at most, from its
\* sleep as long as it takes.  What still runs ends with the process.
Exit ==
    /\ life = "stopping"
    /\ poll.at = "top" \/ (poll.at = "sleep" /\ Working = {})
    /\ life' = "down"
    /\ sem' = 0
    /\ handler' = [t \in Task |-> "none"]
    /\ watcher' = [t \in Task |-> "off"]
    /\ result' = [t \in Task |-> "none"]
    /\ UNCHANGED <<item, process, poll, stray, faults>>

\* The next process registers; its registration puts back what this one left.
Restart ==
    /\ life = "down"
    /\ process < MaxProcesses
    /\ process' = process + 1
    /\ life' = "up"
    /\ item' = [t \in Task |-> IF item[t] \in Active THEN "queued" ELSE item[t]]
    /\ stray' = {}
    /\ poll' = Idle("top", 0)
    /\ UNCHANGED <<sem, taskVars, faults>>

-----------------------------------------------------------------------------
Polls ==
    \/ BeginPass \/ AtCapacity \/ ClaimsNothing \/ PassIsOver \/ Wakes
    \/ \E t \in Task : Claims(t) \/ ClaimUnheard(t)

AgentIsInterrupted(t) == Interrupted(t) /\ AgentEnds(t, "blocked")

Handles(t) ==
    \/ StartTask(t)
    \/ WatcherInterrupts(t) \/ WatcherCloses(t)
    \/ ChecksWatcher(t) \/ ChecksStatus(t) \/ CompleteTask(t) \/ FailTask(t)

Server == \E t \in Task : Enqueue(t) \/ Cancel(t) \/ FailStale(t)

Next ==
    \/ Polls
    \/ \E t \in Task : Handles(t)
    \/ \E t \in Task, outcome \in {"completed", "blocked", "error"} : AgentEnds(t, outcome)
    \/ Server
    \/ StopSignal \/ Exit \/ Restart

\* Goroutines run and the 30 seconds pass; an agent ends when its context is
\* cancelled, and need not end before.
Fairness ==
    /\ WF_vars(Polls)
    /\ \A t \in Task : WF_vars(Handles(t)) /\ WF_vars(AgentIsInterrupted(t))
    /\ WF_vars(Exit)

Spec == Init /\ [][Next]_vars /\ Fairness

-----------------------------------------------------------------------------
TypeOK ==
    /\ item \in [Task -> Open \union {"absent", "completed", "failed", "cancelled"}]
    /\ life \in {"up", "stopping", "down"}
    /\ process \in 1..MaxProcesses
    /\ poll.at \in {"top", "scan", "sleep"}
    /\ poll.i \in 0..N /\ poll.offset \in 0..N - 1
    /\ sem \in 0..Slots
    /\ handler \in [Task -> {"none", "picked", "working", "ended", "checking",
                             "completing", "failing"}]
    /\ watcher \in [Task -> {"off", "on", "interrupting", "fired"}]
    /\ result \in [Task -> {"none", "completed", "blocked", "error"}]
    /\ stray \subseteq Task

\* Every way out of a task gives its slot back: the slots taken are the tasks
\* at work, so no sequence of failures wears the daemon's capacity down.
SlotsAccounted == sem = Cardinality(Working)

\* While the process runs, a dispatched or running item has a goroutine at
\* work on it, unless its claim went unheard or its call of last resort was
\* lost: a lost start, status or completion alone leaves nothing behind.
ClaimedIsWorked ==
    life = "up" => \A t \in Task : item[t] \in Active /\ t \notin stray => t \in Working

\* Slots, goroutines and claimed items tell of the same work.
SlotsHoldTheWork == SlotsAccounted /\ ClaimedIsWorked

\* A pass that ends without a claim and never ran out of slots has asked every
\* runtime, wherever the rotating offset stood.
IdlePassAsksEveryRuntime ==
    poll.at = "scan" /\ poll.i = N => poll.asked = Runtime

\* A cancellation on the server reaches the agent at work, and a stop, also
\* one for an update, ends the process however many tasks are in flight.
StopsReachTheWork ==
    /\ \A t \in Task : item[t] = "cancelled" /\ handler[t] = "working" ~> handler[t] # "working"
    /\ life = "stopping" ~> life = "down"
=============================================================================
