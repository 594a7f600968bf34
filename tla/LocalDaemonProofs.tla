--------------------------- MODULE LocalDaemonProofs ---------------------------
(***************************************************************************)
(* That a daemon never loses a slot, an item it claimed or a runtime to    *)
(* ask, for any number of runtimes, items, slots, lost calls, stops and    *)
(* restarts; and that what one run of an agent's CLI says is told truly    *)
(* and its result is whole, for every backend, any buffer, any number of   *)
(* lines and of failed calls.                                              *)
(*                                                                         *)
(* The daemon's inductive invariant says besides what is to be shown that  *)
(* a task nobody asked for yet, or one that waits, has no goroutine, that  *)
(* only a cancelled task is interrupted, that a dead process has no        *)
(* goroutines, and which runtimes a pass has asked when it stands at its   *)
(* i-th.  The session's says that what is on its way is in the order it    *)
(* was written in, that everything told so far comes before it, and, until *)
(* the result is taken, that there is a line up to which the reader heard  *)
(* everything and the text of the result counts it all.                    *)
(***************************************************************************)
EXTENDS LocalDaemon, TaskTranscript, FiniteSetTheorems, SequenceTheorems, TLAPS

Status  == Open \union {"absent", "completed", "failed", "cancelled"}
Stage   == {"none", "picked", "working", "ended", "checking", "completing", "failing"}
Watch   == {"off", "on", "interrupting", "fired"}
Outcome == {"none", "completed", "blocked", "error"}

\* Who works on what.
TaskType ==
    /\ item \in [Task -> Status]
    /\ life \in {"up", "stopping", "down"}
    /\ sem \in 0 .. Slots
    /\ handler \in [Task -> Stage]
    /\ watcher \in [Task -> Watch]
    /\ result \in [Task -> Outcome]
    /\ stray \subseteq Task

WaitsAlone  == \A t \in Task : item[t] \in {"absent", "queued"} => handler[t] = "none"
OnlyIfCancelled ==
    \A t \in Task : watcher[t] \in {"interrupting", "fired"} => item[t] = "cancelled"
DeadIsIdle  == life = "down" => \A t \in Task : handler[t] = "none"

WorkInv == /\ TaskType /\ SlotsHoldTheWork
           /\ WaitsAlone /\ OnlyIfCancelled /\ DeadIsIdle

-----------------------------------------------------------------------------
(* The work.                                                               *)

LEMMA WorkIsFinite ==
    IsFiniteSet(Working) /\ Cardinality(Working) \in Nat
  BY DaemonAssumption, FS_Subset, FS_CardinalityType DEF Working

LEMMA OneMoreAtWork ==
    ASSUME NEW t \in Task, handler \in [Task -> Stage], handler[t] = "none",
           NEW stage \in Stage \ {"none"}, handler' = [handler EXCEPT ![t] = stage]
    PROVE  Cardinality(Working') = Cardinality(Working) + 1
<1>1. Working' = Working \union {t} /\ t \notin Working
  BY DEF Working
<1> QED BY <1>1, WorkIsFinite, FS_AddElement

LEMMA OneLessAtWork ==
    ASSUME NEW t \in Task, handler \in [Task -> Stage], handler[t] # "none",
           handler' = [handler EXCEPT ![t] = "none"]
    PROVE  Cardinality(Working') = Cardinality(Working) - 1
<1>1. Working' = Working \ {t} /\ t \in Working
  BY DEF Working
<1> QED BY <1>1, WorkIsFinite, FS_RemoveElement

LEMMA SameAtWork ==
    ASSUME NEW t \in Task, handler \in [Task -> Stage], handler[t] # "none",
           NEW stage \in Stage \ {"none"}, handler' = [handler EXCEPT ![t] = stage]
    PROVE  Working' = Working
  BY DEF Working

\* A task that ends gives its slot back; it is over, or was lost.
LEMMA EndKeeps ==
    ASSUME WorkInv, NEW t \in Task, handler[t] # "none", Ends(t),
           NEW s \in Status, item' = [item EXCEPT ![t] = s],
           s \notin {"absent", "queued"}, item[t] = "cancelled" => s = "cancelled",
           stray \subseteq stray', stray' \subseteq Task,
           s \notin Active \/ t \in stray' \/ life # "up",
           life' = life
    PROVE  WorkInv'
<1>1. Cardinality(Working') = Cardinality(Working) - 1
  BY OneLessAtWork DEF Ends, WorkInv, TaskType
<1>2. t \in Working /\ Cardinality(Working) > 0
  <2>1. t \in Working
    BY DEF Working
  <2>2. Cardinality(Working) # 0
    BY <2>1, WorkIsFinite, FS_EmptySet
  <2> QED BY <2>1, <2>2, WorkIsFinite
<1>3. SlotsAccounted' /\ sem' \in 0 .. Slots
  BY <1>1, <1>2, WorkIsFinite, DaemonAssumption
     DEF Ends, WorkInv, SlotsHoldTheWork, SlotsAccounted, TaskType
<1>4. TaskType'
  BY <1>3 DEF Ends, WorkInv, TaskType, Stage, Watch, Outcome
<1>5. ClaimedIsWorked'
  BY DEF Ends, WorkInv, SlotsHoldTheWork, ClaimedIsWorked, TaskType, Working
<1>6. WaitsAlone' /\ OnlyIfCancelled' /\ DeadIsIdle'
  BY DEF Ends, WorkInv, TaskType, WaitsAlone, OnlyIfCancelled, DeadIsIdle
<1> QED BY <1>3, <1>4, <1>5, <1>6 DEF WorkInv, SlotsHoldTheWork

\* A task that goes on keeps it.
LEMMA GoKeeps ==
    ASSUME WorkInv, NEW t \in Task, handler[t] # "none",
           NEW stage \in Stage \ {"none"}, handler' = [handler EXCEPT ![t] = stage],
           NEW w \in Watch, watcher' = [watcher EXCEPT ![t] = w],
           w \in {"interrupting", "fired"} => watcher[t] = w,
           NEW o \in Outcome, result' = [result EXCEPT ![t] = o],
           NEW s \in Status, item' = [item EXCEPT ![t] = s],
           s \notin {"absent", "queued"}, item[t] = "cancelled" => s = "cancelled",
           UNCHANGED <<sem, stray, life>>
    PROVE  WorkInv'
<1>1. Working' = Working
  BY SameAtWork DEF WorkInv, TaskType
<1>2. TaskType'
  BY DEF WorkInv, TaskType
<1>3. SlotsAccounted'
  BY <1>1 DEF WorkInv, SlotsHoldTheWork, SlotsAccounted
<1>4. ClaimedIsWorked'
  BY <1>1 DEF WorkInv, SlotsHoldTheWork, ClaimedIsWorked, TaskType, Working
<1>5. WaitsAlone' /\ OnlyIfCancelled' /\ DeadIsIdle'
  BY DEF WorkInv, TaskType, WaitsAlone, OnlyIfCancelled, DeadIsIdle
<1> QED BY <1>2, <1>3, <1>4, <1>5 DEF WorkInv, SlotsHoldTheWork

\* What the steps of a task leave as it is can be said in the same form.
LEMMA Unchanging ==
    ASSUME NEW S, NEW T, NEW f \in [S -> T], NEW x \in S
    PROVE  f = [f EXCEPT ![x] = f[x]]
  OBVIOUS

LEMMA StaysForTask ==
    ASSUME WorkInv, NEW t \in Task
    PROVE  /\ item = [item EXCEPT ![t] = item[t]] /\ item[t] \in Status
           /\ watcher = [watcher EXCEPT ![t] = watcher[t]] /\ watcher[t] \in Watch
           /\ result = [result EXCEPT ![t] = result[t]] /\ result[t] \in Outcome
           /\ handler = [handler EXCEPT ![t] = handler[t]] /\ handler[t] \in Stage
           /\ handler[t] # "none" => item[t] \notin {"absent", "queued"}
  BY DEF WorkInv, TaskType, WaitsAlone

LEMMA ClaimKeeps ==
    ASSUME WorkInv, NEW t \in Task, Claims(t)
    PROVE  WorkInv'
<1>1. /\ item' = [item EXCEPT ![t] = "dispatched"] /\ handler' = [handler EXCEPT ![t] = "picked"]
      /\ sem' = sem + 1 /\ sem < Slots /\ UNCHANGED <<life, watcher, result, stray>>
      /\ item[t] = "queued" /\ handler[t] = "none" /\ life = "up"
  BY DEF Claims, Answered, WorkInv, WaitsAlone
<1>2. Cardinality(Working') = Cardinality(Working) + 1
  BY <1>1, OneMoreAtWork DEF WorkInv, TaskType, Stage
<1>3. SlotsAccounted'
  BY <1>1, <1>2 DEF WorkInv, SlotsHoldTheWork, SlotsAccounted
<1>4. TaskType'
  BY <1>1, DaemonAssumption DEF WorkInv, TaskType, Stage, Status, Open, Active
<1>5. ClaimedIsWorked'
  BY <1>1 DEF WorkInv, SlotsHoldTheWork, ClaimedIsWorked, TaskType, Working
<1>6. WaitsAlone' /\ OnlyIfCancelled' /\ DeadIsIdle'
  BY <1>1 DEF WorkInv, TaskType, WaitsAlone, OnlyIfCancelled, DeadIsIdle
<1> QED BY <1>3, <1>4, <1>5, <1>6 DEF WorkInv, SlotsHoldTheWork

\* The server, or a claim nobody heard of, changes an item that has no goroutine or
\* whose goroutine finds out.
LEMMA MoveKeeps ==
    ASSUME WorkInv, NEW t \in Task, NEW s \in Status, item' = [item EXCEPT ![t] = s],
           UNCHANGED <<handler, watcher, result, sem, life>>,
           stray \subseteq stray', stray' \subseteq Task,
           s \in {"absent", "queued"} => item[t] \in {"absent", "queued"},
           item[t] = "cancelled" => s = "cancelled",
           s \notin Active \/ t \in stray'
    PROVE  WorkInv'
<1>1. TaskType'
  BY DEF WorkInv, TaskType
<1>2. SlotsAccounted'
  BY DEF WorkInv, SlotsHoldTheWork, SlotsAccounted, Working
<1>3. ClaimedIsWorked'
  BY DEF WorkInv, SlotsHoldTheWork, ClaimedIsWorked, TaskType, Working
<1>4. WaitsAlone' /\ OnlyIfCancelled' /\ DeadIsIdle'
  BY DEF WorkInv, TaskType, WaitsAlone, OnlyIfCancelled, DeadIsIdle
<1> QED BY <1>1, <1>2, <1>3, <1>4 DEF WorkInv, SlotsHoldTheWork

LEMMA StartKeeps ==
    ASSUME WorkInv, NEW t \in Task, StartTask(t)
    PROVE  WorkInv'
<1>1. handler[t] # "none" /\ UNCHANGED <<sem, result, stray, life>> /\ item[t] \notin {"absent", "queued"}
  BY StaysForTask DEF StartTask, Goes
<1>2. PICK stage \in {"working", "failing"}, w \in Watch, s \in Status :
          /\ handler' = [handler EXCEPT ![t] = stage]
          /\ watcher' = [watcher EXCEPT ![t] = w] /\ (w = watcher[t] \/ w = "on")
          /\ item' = [item EXCEPT ![t] = s] /\ (s = item[t] \/ (s = "running" /\ item[t] = "dispatched"))
  <2>1. "on" \in Watch /\ "running" \in Status
    BY DEF Watch, Status, Open, Active
  <2> QED BY <2>1, StaysForTask DEF StartTask, Goes
<1>3. result' = [result EXCEPT ![t] = result[t]] /\ result[t] \in Outcome
  BY <1>1, StaysForTask
<1>4. stage \in Stage \ {"none"}
  BY DEF Stage
<1>5. s \notin {"absent", "queued"} /\ (item[t] = "cancelled" => s = "cancelled")
      /\ (w \in {"interrupting", "fired"} => watcher[t] = w)
  BY <1>1, <1>2
<1> QED BY <1>1, <1>2, <1>3, <1>4, <1>5, GoKeeps

LEMMA AgentEndKeeps ==
    ASSUME WorkInv, NEW t \in Task, NEW end \in {"completed", "blocked", "error"},
           AgentEnds(t, end)
    PROVE  WorkInv'
<1>1. handler[t] # "none" /\ UNCHANGED <<item, watcher, sem, stray, life>>
      /\ handler' = [handler EXCEPT ![t] = "ended"] /\ result' = [result EXCEPT ![t] = end]
  BY DEF AgentEnds, pollVars
<1>2. "ended" \in Stage \ {"none"} /\ end \in Outcome
  BY DEF Stage, Outcome
<1> QED BY <1>1, <1>2, StaysForTask, GoKeeps

\* The goroutine of the task goes to another stage and nothing else happens.
LEMMA JustGoes ==
    ASSUME WorkInv, NEW t \in Task, handler[t] # "none", NEW stage \in Stage \ {"none"},
           Goes(t, stage), UNCHANGED <<item, stray, life>>
    PROVE  WorkInv'
  BY StaysForTask, GoKeeps DEF Goes

LEMMA CheckKeeps ==
    ASSUME WorkInv, NEW t \in Task, ChecksWatcher(t) \/ ChecksStatus(t)
    PROVE  WorkInv'
<1>1. handler[t] # "none" /\ UNCHANGED <<item, stray, life>>
  BY DEF ChecksWatcher, ChecksStatus
<1>2. CASE Ends(t) /\ item[t] = "cancelled"
  <2>1. item[t] \notin Active /\ stray' \subseteq Task
    BY <1>1, <1>2 DEF Active, WorkInv, TaskType
  <2> QED BY <1>1, <1>2, <2>1, StaysForTask, EndKeeps
<1>3. CASE \E stage \in {"failing", "checking", "completing"} : Goes(t, stage)
  BY <1>1, <1>3, JustGoes DEF Stage
<1>4. watcher[t] = "fired" => item[t] = "cancelled"
  BY DEF WorkInv, OnlyIfCancelled
<1> QED BY <1>2, <1>3, <1>4 DEF ChecksWatcher, ChecksStatus

LEMMA CompleteKeeps ==
    ASSUME WorkInv, NEW t \in Task, CompleteTask(t)
    PROVE  WorkInv'
<1>0. "completed" \in Status /\ "completed" \notin Active /\ "failing" \in Stage \ {"none"}
      /\ stray \subseteq Task
  BY DEF Status, Active, Open, Stage, WorkInv, TaskType
<1>1. handler[t] # "none" /\ UNCHANGED <<stray, life>>
  BY DEF CompleteTask
<1>2. CASE item[t] = "running" /\ item' = [item EXCEPT ![t] = "completed"] /\ Ends(t)
  BY <1>0, <1>1, <1>2, EndKeeps
<1>3. CASE item[t] = "running" /\ item' = [item EXCEPT ![t] = "completed"] /\ Goes(t, "failing")
  BY <1>0, <1>1, <1>3, StaysForTask, GoKeeps DEF Goes
<1>4. CASE Goes(t, "failing") /\ UNCHANGED item
  BY <1>0, <1>1, <1>4, JustGoes
<1> QED BY <1>2, <1>3, <1>4 DEF CompleteTask

LEMMA FailKeeps ==
    ASSUME WorkInv, NEW t \in Task, FailTask(t)
    PROVE  WorkInv'
<1>0. "failed" \in Status /\ "failed" \notin Active
  BY DEF Status, Active, Open
<1>1. handler[t] # "none" /\ UNCHANGED life /\ Ends(t)
  BY DEF FailTask
<1>2. CASE item[t] \in Active /\ item' = [item EXCEPT ![t] = "failed"] /\ UNCHANGED stray
  BY <1>0, <1>1, <1>2, EndKeeps DEF Active, WorkInv, TaskType
<1>3. CASE item[t] \notin Active /\ UNCHANGED <<item, stray>>
  BY <1>1, <1>3, StaysForTask, EndKeeps DEF WorkInv, TaskType
<1>4. CASE stray' = stray \union {t} /\ UNCHANGED item
  BY <1>1, <1>4, StaysForTask, EndKeeps DEF WorkInv, TaskType
<1> QED BY <1>2, <1>3, <1>4 DEF FailTask

LEMMA WatchKeeps ==
    ASSUME WorkInv, NEW t \in Task, WatcherInterrupts(t) \/ WatcherCloses(t)
    PROVE  WorkInv'
<1>1. UNCHANGED <<item, life, sem, handler, result, stray>>
  BY DEF WatcherInterrupts, WatcherCloses, pollVars
<1>2. PICK w \in {"interrupting", "fired"} : watcher' = [watcher EXCEPT ![t] = w]
  BY DEF WatcherInterrupts, WatcherCloses
<1>3. item[t] = "cancelled"
  BY DEF WatcherInterrupts, WatcherCloses, WorkInv, OnlyIfCancelled
<1>4. TaskType'
  BY <1>1, <1>2 DEF WorkInv, TaskType, Watch
<1>5. OnlyIfCancelled'
  BY <1>1, <1>2, <1>3 DEF WorkInv, OnlyIfCancelled, TaskType
<1> QED BY <1>1, <1>4, <1>5
        DEF WorkInv, SlotsHoldTheWork, SlotsAccounted, ClaimedIsWorked, Working, WaitsAlone, DeadIsIdle

LEMMA ServerKeeps ==
    ASSUME WorkInv, NEW t \in Task, Enqueue(t) \/ Cancel(t) \/ FailStale(t)
    PROVE  WorkInv'
<1>1. PICK s \in {"queued", "cancelled", "failed"} :
          /\ item' = [item EXCEPT ![t] = s]
          /\ s = "queued" => item[t] = "absent"
          /\ item[t] # "cancelled"
  BY DEF Enqueue, Cancel, FailStale, ServerMoves, Open, Active
<1>2. UNCHANGED <<handler, watcher, result, sem, life, stray>>
  BY DEF Enqueue, Cancel, FailStale, ServerMoves, pollVars, taskVars
<1>3. s \in Status /\ s \notin Active /\ stray \subseteq Task
  BY DEF Status, Open, Active, WorkInv, TaskType
<1> QED BY <1>1, <1>2, <1>3, MoveKeeps

LEMMA UnheardKeeps ==
    ASSUME WorkInv, NEW t \in Task, ClaimUnheard(t)
    PROVE  WorkInv'
<1>1. "dispatched" \in Status /\ stray \subseteq Task
  BY DEF Status, Open, Active, WorkInv, TaskType
<1> QED BY <1>1, MoveKeeps DEF ClaimUnheard, taskVars

LEMMA ProcessKeeps ==
    ASSUME WorkInv, StopSignal \/ Exit \/ Restart
    PROVE  WorkInv'
<1>1. CASE StopSignal
  BY <1>1 DEF StopSignal, pollVars, taskVars, WorkInv, TaskType, SlotsHoldTheWork, SlotsAccounted,
              ClaimedIsWorked, Working, WaitsAlone, OnlyIfCancelled, DeadIsIdle
<1>2. CASE Exit
  <2>1. Working' = {} /\ sem' = 0 /\ life' = "down"
    BY <1>2 DEF Exit, Working
  <2>2. SlotsHoldTheWork'
    BY <2>1, FS_EmptySet DEF SlotsHoldTheWork, SlotsAccounted, ClaimedIsWorked
  <2>3. TaskType'
    BY <1>2, DaemonAssumption DEF Exit, WorkInv, TaskType, Stage, Watch, Outcome
  <2> QED BY <1>2, <2>2, <2>3 DEF Exit, WorkInv, WaitsAlone, OnlyIfCancelled, DeadIsIdle
<1>3. CASE Restart
  <2>1. UNCHANGED <<sem, handler, watcher, result>> /\ life = "down" /\ life' = "up" /\ stray' = {}
        /\ \A t \in Task : handler[t] = "none"
    BY <1>3 DEF Restart, taskVars, WorkInv, DeadIsIdle
  <2>2. \A t \in Task : /\ item'[t] \notin Active /\ item'[t] \in Status
                        /\ (item[t] = "cancelled" => item'[t] = "cancelled")
    BY <1>3 DEF Restart, WorkInv, TaskType, Active, Status, Open
  <2>3. TaskType'
    <3>1. item' = [t \in Task |-> item'[t]]
      BY <1>3 DEF Restart
    <3> QED BY <2>1, <2>2, <3>1 DEF WorkInv, TaskType
  <2>4. SlotsHoldTheWork'
    BY <2>1, <2>2 DEF WorkInv, SlotsHoldTheWork, SlotsAccounted, ClaimedIsWorked, Working
  <2> QED BY <2>1, <2>2, <2>3, <2>4 DEF WorkInv, WaitsAlone, OnlyIfCancelled, DeadIsIdle
<1> QED BY <1>1, <1>2, <1>3

LEMMA RestKeeps ==
    ASSUME WorkInv, UNCHANGED <<item, life, sem, handler, watcher, result, stray>>
    PROVE  WorkInv'
  BY DEF WorkInv, TaskType, SlotsHoldTheWork, SlotsAccounted, ClaimedIsWorked, Working, WaitsAlone,
         OnlyIfCancelled, DeadIsIdle

LEMMA WorkIsKept ==
    ASSUME WorkInv, [Next]_vars
    PROVE  WorkInv'
<1>1. CASE UNCHANGED vars
  BY <1>1, RestKeeps DEF vars, pollVars, taskVars
<1>2. CASE BeginPass \/ AtCapacity \/ ClaimsNothing \/ PassIsOver \/ Wakes
  <2>1. UNCHANGED <<item, life, sem, handler, watcher, result, stray>>
    BY <1>2 DEF BeginPass, AtCapacity, ClaimsNothing, PassIsOver, Wakes, taskVars
  <2> QED BY <2>1, RestKeeps
<1>3. ASSUME NEW t \in Task, Handles(t) PROVE WorkInv'
  BY <1>3, StartKeeps, WatchKeeps, CheckKeeps, CompleteKeeps, FailKeeps DEF Handles
<1> QED
  BY <1>1, <1>2, <1>3, ClaimKeeps, UnheardKeeps, AgentEndKeeps, ServerKeeps, ProcessKeeps
     DEF Next, Polls, Server

LEMMA WorkStarts ==
    ASSUME Init
    PROVE  WorkInv
<1>1. Working = {}
  BY DEF Init, Working
<1>2. SlotsHoldTheWork
  BY <1>1, FS_EmptySet DEF Init, SlotsHoldTheWork, SlotsAccounted, ClaimedIsWorked, Active
<1>3. TaskType
  BY DaemonAssumption DEF Init, TaskType, Status, Stage, Watch, Outcome
<1> QED BY <1>2, <1>3 DEF Init, WorkInv, WaitsAlone, OnlyIfCancelled, DeadIsIdle

\* daemon.go: whatever calls are lost, whatever is cancelled, failed or restarted and in
\* whatever order, the slots taken are the tasks at work, and an item that was claimed and
\* heard of has its goroutine.
THEOREM SlotsAreKept == Spec => []SlotsHoldTheWork
<1>1. Init => WorkInv
  BY WorkStarts
<1>2. WorkInv /\ [Next]_vars => WorkInv'
  BY WorkIsKept
<1>3. WorkInv => SlotsHoldTheWork
  BY DEF WorkInv
<1> QED BY <1>1, <1>2, <1>3, PTL DEF Spec


-----------------------------------------------------------------------------
(* The pass.                                                               *)

Order == SetToSeqs(Runtime)
Turn(p, k) == p.ids[((p.offset + k) % N) + 1]

PollType ==
    poll \in [at : {"top", "scan", "sleep"}, ids : Order \union {<<>>}, i : Nat,
              offset : 0 .. N - 1, asked : SUBSET Runtime]

\* At its i-th runtime a pass has asked those before, counted from the offset.
PassInv ==
    poll.at = "scan" =>
        /\ poll.ids \in Order /\ poll.i \in 0 .. N
        /\ \A k \in Nat : k < poll.i => Turn(poll, k) \in poll.asked

PollInv == PollType /\ PassInv

LEMMA RuntimesCounted == N \in Nat \ {0}
  BY DaemonAssumption, FS_CardinalityType, FS_EmptySet DEF N

LEMMA Remainders ==
    ASSUME NEW n \in Nat \ {0}
    PROVE  /\ \A m \in Nat : m % n \in 0 .. n - 1
           /\ \A m \in 0 .. n - 1 : m % n = m /\ (m + n) % n = m
  OBVIOUS

LEMMA OrderIsFull ==
    ASSUME NEW ids \in Order
    PROVE  ids \in [1 .. N -> Runtime] /\ \A r \in Runtime : \E j \in 1 .. N : ids[j] = r
<1>1. ids \in [1 .. N -> Runtime] /\ \A i, j \in 1 .. N : i # j => ids[i] # ids[j]
  BY DEF Order, SetToSeqs, N
<1>2. ids \in Injection(1 .. N, Runtime)
  BY <1>1 DEF Injection, IsInjective
<1>3. IsFiniteSet(1 .. N) /\ Cardinality(1 .. N) = N
  BY RuntimesCounted, FS_Interval
<1>4. ids \in Surjection(1 .. N, Runtime)
  BY <1>2, <1>3, DaemonAssumption, FS_Injection DEF N
<1> QED BY <1>1, <1>4 DEF Surjection

LEMMA AskedIsRuntime ==
    ASSUME PollInv, poll.at = "scan"
    PROVE  Asked \in Runtime /\ Asked = Turn(poll, poll.i)
<1>1. (poll.offset + poll.i) % N \in 0 .. N - 1
  <2>1. poll.offset + poll.i \in Nat
    BY RuntimesCounted DEF PollInv, PollType
  <2> QED BY <2>1, RuntimesCounted, Remainders
<1>2. poll.ids \in [1 .. N -> Runtime]
  BY OrderIsFull DEF PollInv, PassInv
<1> QED BY <1>1, <1>2, RuntimesCounted DEF Asked, Turn

\* Between passes only the offset matters.
LEMMA IdleKeeps ==
    ASSUME PollInv, NEW at \in {"top", "sleep"}, NEW offset \in Nat, poll' = Idle(at, offset)
    PROVE  PollInv'
<1>1. offset % N \in 0 .. N - 1
  BY RuntimesCounted, Remainders
<1> QED BY <1>1 DEF Idle, PollInv, PollType, PassInv

LEMMA NextTurnKeeps ==
    ASSUME PollInv, Scanning, poll' = GoesOn(Asked)
    PROVE  PollInv'
<1>1. poll.at = "scan" /\ poll.i < N /\ poll.i \in Nat /\ Asked \in Runtime /\ Asked = Turn(poll, poll.i)
  BY AskedIsRuntime DEF Scanning, PollInv, PollType
<1>2. /\ poll'.at = poll.at /\ poll'.ids = poll.ids /\ poll'.offset = poll.offset
      /\ poll'.i = poll.i + 1 /\ poll'.asked = poll.asked \union {Asked}
  BY DEF GoesOn, PollInv, PollType
<1>3. PollType'
  <2> DEFINE up == poll.i + 1
             more == poll.asked \union {Asked}
  <2>1. poll' = [poll EXCEPT !.i = up, !.asked = more]
    BY DEF GoesOn
  <2>2. up \in Nat /\ more \in SUBSET Runtime
    BY <1>1 DEF PollInv, PollType
  <2> HIDE DEF up, more
  <2> QED BY <2>1, <2>2 DEF PollInv, PollType
<1>4. \A k \in Nat : Turn(poll, k)' = Turn(poll, k)
  BY <1>2 DEF Turn
<1>5. \A k \in Nat : k < poll.i + 1 => k < poll.i \/ k = poll.i
  BY <1>1
<1>6. PassInv'
  BY <1>1, <1>2, <1>4, <1>5, RuntimesCounted DEF PollInv, PassInv
<1> QED BY <1>3, <1>6 DEF PollInv

LEMMA PollIsKept ==
    ASSUME PollInv, [Next]_vars
    PROVE  PollInv'
<1>1. CASE UNCHANGED poll
  BY <1>1 DEF PollInv, PollType, PassInv, Turn
<1>2. CASE BeginPass
  <2>1. PICK order \in Order :
            poll' = [poll EXCEPT !.at = "scan", !.ids = order, !.i = 0, !.asked = {}]
    BY <1>2 DEF BeginPass, Order
  <2>2. /\ PollType' /\ poll'.ids = order /\ poll'.i = 0
    BY <2>1 DEF PollInv, PollType
  <2>3. \A k \in Nat : ~(k < 0)
    OBVIOUS
  <2> QED BY <2>2, <2>3, RuntimesCounted DEF PollInv, PassInv
<1>3. CASE AtCapacity \/ PassIsOver
  <2>1. poll.offset + 1 \in Nat
    BY RuntimesCounted DEF PollInv, PollType
  <2> QED BY <1>3, <2>1, IdleKeeps DEF AtCapacity, PassIsOver
<1>4. ASSUME NEW t \in Task, Claims(t) PROVE PollInv'
  <2>1. poll.offset + poll.i + 1 \in Nat
    BY RuntimesCounted DEF PollInv, PollType
  <2> QED BY <1>4, <2>1, IdleKeeps DEF Claims
<1>5. CASE ClaimsNothing \/ \E t \in Task : ClaimUnheard(t)
  BY <1>5, NextTurnKeeps DEF ClaimsNothing, ClaimUnheard
<1>6. CASE Wakes
  BY <1>6 DEF Wakes, PollInv, PollType, PassInv
<1>7. CASE Restart
  BY <1>7, IdleKeeps DEF Restart
<1>8. ASSUME NEW t \in Task, Handles(t) \/ Enqueue(t) \/ Cancel(t) \/ FailStale(t)
      PROVE  UNCHANGED poll
  BY <1>8 DEF Handles, StartTask, WatcherInterrupts, WatcherCloses, ChecksWatcher, ChecksStatus,
              CompleteTask, FailTask, Enqueue, Cancel, FailStale, ServerMoves, pollVars
<1>9. CASE (\E t \in Task, end \in {"completed", "blocked", "error"} : AgentEnds(t, end))
           \/ StopSignal \/ Exit \/ UNCHANGED vars
  BY <1>1, <1>9 DEF AgentEnds, StopSignal, Exit, pollVars, vars
<1> QED
  BY <1>1, <1>2, <1>3, <1>4, <1>5, <1>6, <1>7, <1>8, <1>9 DEF Next, Polls, Server

LEMMA PassAsks ==
    ASSUME PollInv
    PROVE  IdlePassAsksEveryRuntime
<1> SUFFICES ASSUME poll.at = "scan", poll.i = N PROVE poll.asked = Runtime
  BY DEF IdlePassAsksEveryRuntime
<1>1. poll.asked \subseteq Runtime /\ poll.offset \in 0 .. N - 1 /\ poll.ids \in Order
  BY DEF PollInv, PollType, PassInv
<1>2. ASSUME NEW r \in Runtime PROVE r \in poll.asked
  <2>1. PICK j \in 1 .. N : poll.ids[j] = r
    BY <1>1, OrderIsFull
  <2>2. \E k \in 0 .. N - 1 : (poll.offset + k) % N = j - 1
    <3>1. CASE poll.offset <= j - 1
      <4> DEFINE k == j - 1 - poll.offset
      <4>1. k \in 0 .. N - 1 /\ poll.offset + k = j - 1 /\ j - 1 \in 0 .. N - 1
        BY <1>1, <3>1, RuntimesCounted
      <4>2. (j - 1) % N = j - 1
        BY <4>1, RuntimesCounted, Remainders
      <4> QED BY <4>1, <4>2
    <3>2. CASE ~(poll.offset <= j - 1)
      <4> DEFINE k == j - 1 - poll.offset + N
      <4>1. k \in 0 .. N - 1 /\ poll.offset + k = (j - 1) + N /\ j - 1 \in 0 .. N - 1
        BY <1>1, <3>2, RuntimesCounted
      <4>2. ((j - 1) + N) % N = j - 1
        BY <4>1, RuntimesCounted, Remainders
      <4> QED BY <4>1, <4>2
    <3> QED BY <3>1, <3>2
  <2>3. PICK k \in 0 .. N - 1 : (poll.offset + k) % N = j - 1
    BY <2>2
  <2>4. Turn(poll, k) = r
    BY <2>1, <2>3, RuntimesCounted DEF Turn
  <2>5. k \in Nat /\ k < poll.i
    BY <2>3, RuntimesCounted
  <2> QED BY <2>4, <2>5 DEF PollInv, PassInv
<1> QED BY <1>1, <1>2

\* daemon.go: wherever the offset stands and in whatever order the map is walked, a pass that
\* claims nothing and does not run out of slots asks every runtime.
THEOREM EveryRuntimeIsAsked == Spec => []IdlePassAsksEveryRuntime
<1>1. Init => PollInv
  <2>1. 0 % N = 0 /\ 0 \in 0 .. N - 1
    BY RuntimesCounted, Remainders
  <2> QED BY <2>1 DEF Init, Idle, PollInv, PollType, PassInv
<1>2. PollInv /\ [Next]_vars => PollInv'
  BY PollIsKept
<1>3. PollInv => IdlePassAsksEveryRuntime
  BY PassAsks
<1> QED BY <1>1, <1>2, <1>3, PTL DEF Spec

-----------------------------------------------------------------------------
(* The session: its types.                                                 *)

LEMMA TailOfSeq ==
    ASSUME NEW S, NEW s \in Seq(S), s # <<>>
    PROVE  /\ Head(s) \in S /\ Head(s) = s[1] /\ 1 \in DOMAIN s
           /\ Tail(s) \in Seq(S) /\ Len(Tail(s)) = Len(s) - 1
           /\ \A i \in DOMAIN Tail(s) : i + 1 \in DOMAIN s /\ Tail(s)[i] = s[i + 1]
<1>1. Head(s) \in S /\ Tail(s) \in Seq(S) /\ Len(Tail(s)) = Len(s) - 1
      /\ \A i \in 1 .. Len(Tail(s)) : Tail(s)[i] = s[i + 1]
  BY HeadTailProperties
<1>2. Head(s) = s[1] /\ Len(s) \in Nat \ {0}
  BY EmptySeq
<1>3. DOMAIN s = 1..Len(s) /\ DOMAIN Tail(s) = 1..Len(Tail(s))
  BY <1>1, LenProperties
<1>4. ASSUME NEW i \in DOMAIN Tail(s)
      PROVE  i + 1 \in DOMAIN s /\ Tail(s)[i] = s[i + 1]
  BY <1>1, <1>2, <1>3
<1> QED BY <1>1, <1>2, <1>3, <1>4

LEMMA TrySendTypes ==
    ASSUME SessionTypeOK, NEW n \in Nat, TrySend(n)
    PROVE  /\ chan' \in [buf : Seq(Nat), closed : BOOLEAN] /\ Len(chan'.buf) <= Capacity
           /\ chan'.buf = chan.buf \/ chan'.buf = Append(chan.buf, n)
           /\ crashed' \in BOOLEAN
<1> USE DEF SessionTypeOK, TrySend
<1>1. CASE ~chan.closed /\ Len(chan.buf) < Capacity
  <2>1. chan' = [chan EXCEPT !.buf = Append(chan.buf, n)] /\ chan.buf \in Seq(Nat)
        /\ Append(chan.buf, n) \in Seq(Nat)
    BY <1>1
  <2>2. chan'.buf = Append(chan.buf, n) /\ chan'.closed = chan.closed
        /\ chan' \in [buf : Seq(Nat), closed : BOOLEAN]
    BY <2>1
  <2>3. Len(chan'.buf) = Len(chan.buf) + 1
    BY <2>1, <2>2, AppendProperties
  <2>4. Len(chan.buf) \in Nat /\ Capacity \in Nat
    BY <2>1, LenProperties, SessionAssumption
  <2> QED BY <1>1, <2>2, <2>3, <2>4
<1>2. CASE ~(~chan.closed /\ Len(chan.buf) < Capacity)
  BY <1>2
<1> QED BY <1>1, <1>2

LEMMA TrySendSent ==
    ASSUME SessionTypeOK, NEW n, TrySend(n)
    PROVE  chan'.buf = chan.buf \/ chan'.buf = Append(chan.buf, n)
<1>1. chan \in [buf : Seq(Nat), closed : BOOLEAN]
  BY DEF SessionTypeOK
<1>2. chan' = chan \/ chan' = [chan EXCEPT !.buf = Append(chan.buf, n)]
  BY DEF TrySend
<1> QED BY <1>1, <1>2

LEMMA RpcChanges ==
    ASSUME rpc \in Rpc
    PROVE  /\ \A p \in 0..3, a \in {"none", "ok", "refused"} :
                [rpc EXCEPT !.pending = p, !.answer = a] \in Rpc
           /\ [rpc EXCEPT !.pending = 0] \in Rpc
<1>1. ASSUME NEW p \in 0..3, NEW a \in {"none", "ok", "refused"}
      PROVE  [rpc EXCEPT !.pending = p, !.answer = a] \in Rpc
  BY DEF Rpc
<1>2. [rpc EXCEPT !.pending = 0] \in Rpc
  BY DEF Rpc
<1> QED BY <1>1, <1>2

LEMMA SessionTypesKept ==
    ASSUME SessionTypeOK, SessionNext
    PROVE  SessionTypeOK'
<1> USE DEF SessionTypeOK, procVars
<1>0. backend' = backend => Kinds' = Kinds /\ WireLine' = WireLine
  BY DEF Kinds, WireLine
<1>1. ASSUME NEW kind \in Kinds, Writes(kind)  PROVE SessionTypeOK'
  <2>1. said' = Append(said, kind) /\ backend' = backend /\ Len(said) < MaxLines[backend]
    BY <1>1 DEF Writes
  <2>2. said' \in Seq(Kinds') /\ Len(said') = Len(said) + 1 /\ Len(said) \in Nat
    BY <2>1, <1>0, AppendProperties, LenProperties
  <2>3. MaxLines[backend] \in Nat
    BY SessionAssumption
  <2>4. [kind |-> kind, n |-> Len(said) + 1] \in WireLine
    BY <2>2 DEF WireLine
  <2>5. wire' \in Seq(WireLine')
    BY <1>1, <1>0, <2>4 DEF Writes
  <2> QED BY <1>1, <1>0, <2>1, <2>2, <2>3, <2>5 DEF Writes
<1>2. ASSUME NEW kind \in {"ok", "refused"}, Replies(kind)  PROVE SessionTypeOK'
  <2>1. [kind |-> kind, n |-> 0] \in WireLine
    BY DEF WireLine
  <2> QED BY <1>2, <1>0, <2>1 DEF Replies
<1>3. ASSUME NEW how \in {"ok", "bad"}, Exits(how)  PROVE SessionTypeOK'
  BY <1>3, <1>0 DEF Exits
<1>4. ASSUME NEW why \in {"deadline", "cancelled"}, ContextEnds(why)  PROVE SessionTypeOK'
  BY <1>4, <1>0 DEF ContextEnds
<1>5. ASSUME NEW kinds, Reads(kinds)
      PROVE  /\ Head(wire) \in WireLine /\ Head(wire).n \in Nat /\ Head(wire).kind \in kinds
             /\ wire' \in Seq(WireLine)
  <2>1. wire \in Seq(WireLine) /\ wire # <<>> /\ wire' = Tail(wire) /\ Head(wire).kind \in kinds
    BY <1>5 DEF Reads
  <2>2. Head(wire) \in WireLine /\ Tail(wire) \in Seq(WireLine)
    BY ONLY <2>1, TailOfSeq
  <2> QED BY <2>1, <2>2 DEF WireLine
<1>6. /\ \A p \in 0..3, a \in {"none", "ok", "refused"} :
            [rpc EXCEPT !.pending = p, !.answer = a] \in Rpc
      /\ [rpc EXCEPT !.pending = 0] \in Rpc
  BY RpcChanges
<1>7. ASSUME HandleText  PROVE SessionTypeOK'
  <2>1. /\ Head(wire).n \in Nat /\ wire' \in Seq(WireLine)
        /\ output' = Append(output, Head(wire).n) /\ TrySend(Head(wire).n)
    BY <1>7, <1>5 DEF HandleText
  <2>2. output' \in Seq(Nat)
    BY <2>1
  <2> QED BY <1>7, <2>1, <2>2, <1>0, TrySendTypes DEF HandleText
<1>8. ASSUME HandleTool  PROVE SessionTypeOK'
  <2>1. Head(wire).n \in Nat /\ wire' \in Seq(WireLine) /\ TrySend(Head(wire).n)
    BY <1>8, <1>5 DEF HandleTool
  <2> QED BY <1>8, <2>1, <1>0, TrySendTypes DEF HandleTool
<1>9. ASSUME HandleError  PROVE SessionTypeOK'
  <2>1. Head(wire).n \in Nat /\ wire' \in Seq(WireLine) /\ TrySend(Head(wire).n)
    BY <1>9, <1>5 DEF HandleError
  <2> QED BY <1>9, <2>1, <1>0, TrySendTypes DEF HandleError, Verdict
<1>10. ASSUME HandleResult  PROVE SessionTypeOK'
  <2>1. Head(wire).n \in Nat /\ wire' \in Seq(WireLine)
    BY <1>10, <1>5 DEF HandleResult
  <2>2. output' \in Seq(Nat) /\ verdict' \in Verdict
    BY <1>10, <2>1 DEF HandleResult, Verdict
  <2> QED BY <1>10, <2>1, <2>2, <1>0 DEF HandleResult
<1>11. ASSUME HandleTurnEnd  PROVE SessionTypeOK'
  <2>1. wire' \in Seq(WireLine) /\ Head(wire).kind \in {"done", "aborted"}
    BY <1>11, <1>5 DEF HandleTurnEnd
  <2>2. rpc' \in Rpc
    BY <1>11, <2>1 DEF HandleTurnEnd, Rpc
  <2> QED BY <1>11, <2>1, <2>2, <1>0 DEF HandleTurnEnd
<1>12. ASSUME HandleResponse  PROVE SessionTypeOK'
  <2>1. wire' \in Seq(WireLine) /\ Head(wire).kind \in {"ok", "refused"}
    BY <1>12, <1>5 DEF HandleResponse
  <2>2. rpc' \in Rpc
    <3>1. Head(wire).kind \in {"none", "ok", "refused"} /\ 0 \in 0..3
      BY <2>1
    <3> QED BY <1>12, <1>6, <3>1 DEF HandleResponse
  <2> QED BY <1>12, <2>1, <2>2, <1>0 DEF HandleResponse
<1>13. ASSUME ScanEnds  PROVE SessionTypeOK'
  <2>1. wire' \in Seq(WireLine) /\ verdict' \in Verdict
    BY <1>13 DEF ScanEnds, Verdict
  <2>2. rpc' \in Rpc
    BY <1>13, <1>6 DEF ScanEnds, PendingClosed
  <2> QED BY <1>13, <2>1, <2>2, <1>0 DEF ScanEnds
<1>14. ASSUME Asks \/ WriteFails \/ Refused \/ RequestInterrupted \/ TurnEnds \/ Collects
              \/ Finishes
       PROVE  SessionTypeOK'
  <2>1. rpc' \in Rpc
    <3>1. ending.no \in 0..3
      OBVIOUS
    <3> QED BY <1>14, <1>6, <3>1
            DEF Asks, WriteFails, Refused, RequestInterrupted, TurnEnds, Collects, Finishes
  <2>5. verdict' \in Verdict
    BY <1>14 DEF Asks, WriteFails, Refused, RequestInterrupted, TurnEnds, Collects, Finishes,
                 Verdict, Interruption
  <2>2. /\ ending' \in [at : {"asking", "awaiting", "turn", "closing", "reading", "deferred",
                              "over"}, no : 1..3]
        /\ ctx' \in {"open", "deadline", "cancelled"}
    BY <1>14 DEF Asks, WriteFails, Refused, RequestInterrupted, TurnEnds, Collects, Finishes,
                 MovesOn, Fails
  <2>3. outcome' \in [status : Verdict \union {"none"}, output : Seq(Nat)]
    <3>1. FinalStatus \in Verdict
      BY DEF FinalStatus, Interruption, Verdict
    <3>2. "failed" \in Verdict /\ <<>> \in Seq(Nat)
      BY DEF Verdict
    <3>3. CASE WriteFails \/ Refused \/ RequestInterrupted
      <4>1. outcome' = [status |-> "failed", output |-> <<>>]
        BY <3>3 DEF WriteFails, Refused, RequestInterrupted, Fails
      <4> QED BY <4>1, <3>2
    <3>4. CASE Collects \/ Finishes
      BY <3>4, <3>1 DEF Collects, Finishes
    <3>5. CASE Asks \/ TurnEnds
      BY <3>5 DEF Asks, TurnEnds
    <3> QED BY <1>14, <3>3, <3>4, <3>5
  <2>4. UNCHANGED <<backend, resume, proc, said, wire, reader, output, chan, crashed>>
    BY <1>14 DEF Asks, WriteFails, Refused, RequestInterrupted, TurnEnds, Collects, Finishes
  <2> QED BY <2>1, <2>2, <2>3, <2>4, <2>5, <1>0
<1>15. ASSUME GetsAnswer  PROVE SessionTypeOK'
  <2>1. /\ chan' \in [buf : Seq(Nat), closed : BOOLEAN] /\ Len(chan'.buf) <= Capacity
        /\ crashed' \in BOOLEAN
    BY <1>15, TrySendTypes DEF GetsAnswer
  <2>2. ending' \in [at : {"asking", "awaiting", "turn", "closing", "reading", "deferred",
                           "over"}, no : 1..3]
    BY <1>15 DEF GetsAnswer, MovesOn
  <2> QED BY <1>15, <2>1, <2>2, <1>0 DEF GetsAnswer
<1>16. ASSUME Leaves  PROVE SessionTypeOK'
  <2>1. \A m \in 0..Len(wire) : SubSeq(wire, 1, m) \in Seq(WireLine)
    OBVIOUS
  <2>2. wire' \in Seq(WireLine')
    BY <1>16, <2>1, <1>0 DEF Leaves
  <2> QED BY <1>16, <2>2, <1>0 DEF Leaves, MovesOn
<1> HIDE DEF SessionTypeOK
<1> QED BY <1>1, <1>2, <1>3, <1>4, <1>7, <1>8, <1>9, <1>10, <1>11, <1>12, <1>13, <1>14, <1>15, <1>16
        DEF SessionNext, Process, Scans, HandleNotification, Concludes, Kill

-----------------------------------------------------------------------------
(* What is on its way keeps the order it was written in.                   *)

\* Numbers f[1], ..., f[n] that rise, the answers (0) aside.
Rising(f, n) ==
    \A i, j \in 1..n : i < j /\ f[i] # 0 /\ f[j] # 0 => f[i] < f[j]

WireNo == [i \in DOMAIN wire |-> wire[i].n]

WireInOrder ==
    /\ \A i \in DOMAIN wire :
          /\ wire[i].n \in 0..Len(said)
          /\ wire[i].n = 0 => wire[i].kind \in {"ok", "refused"}
          /\ wire[i].n # 0 => wire[i].kind = said[wire[i].n]
    /\ Rising(WireNo, Len(wire))

ChannelInOrder ==
    /\ \A i \in DOMAIN chan.buf : chan.buf[i] \in 0..Len(said)
    /\ Rising(chan.buf, Len(chan.buf))
    /\ \A i \in DOMAIN chan.buf, j \in DOMAIN wire :
          chan.buf[i] # 0 /\ wire[j].n # 0 => chan.buf[i] < wire[j].n

\* The lines still to come, and 0.
Coming == Range(chan.buf) \union {wire[i].n : i \in DOMAIN wire}

InOrder == WireInOrder /\ ChannelInOrder

\* What a step of the session does to what is on its way.
Speaks ==
    \E kind \in Kinds :
       /\ said' = Append(said, kind)
       /\ wire' = Append(wire, [kind |-> kind, n |-> Len(said) + 1])
       /\ chan'.buf = chan.buf

Replied ==
    \E kind \in {"ok", "refused"} :
       /\ said' = said
       /\ wire' = Append(wire, [kind |-> kind, n |-> 0])
       /\ chan'.buf = chan.buf

Hears ==
    /\ said' = said
    /\ wire # <<>> /\ wire' = Tail(wire)
    /\ chan'.buf = chan.buf \/ chan'.buf = Append(chan.buf, Head(wire).n)

Announces ==
    /\ said' = said /\ wire' = wire
    /\ chan'.buf = chan.buf \/ chan'.buf = Append(chan.buf, 0)

CutsOff ==
    /\ said' = said /\ chan'.buf = chan.buf
    /\ \E m \in 0..Len(wire) : wire' = SubSeq(wire, 1, m)

SessionShape == Speaks \/ Replied \/ Hears \/ Announces \/ CutsOff

LEMMA RisingOn ==
    ASSUME NEW n \in Nat, NEW f, NEW g,
           \A i \in 1..n : f[i] \in Nat /\ g[i] = f[i], g[n + 1] \in Nat,
           Rising(f, n), \A i \in 1..n : g[n + 1] # 0 => f[i] < g[n + 1]
    PROVE  Rising(g, n + 1)
<1> SUFFICES ASSUME NEW i \in 1..(n + 1), NEW j \in 1..(n + 1), i < j, g[i] # 0, g[j] # 0
             PROVE  g[i] < g[j]
  BY DEF Rising
<1>1. i \in 1..n
  OBVIOUS
<1>2. CASE j = n + 1
  BY <1>1, <1>2
<1>3. CASE j # n + 1
  BY <1>1, <1>3 DEF Rising
<1> QED BY <1>2, <1>3

LEMMA SessionShapes ==
    ASSUME SessionTypeOK, SessionNext
    PROVE  SessionShape
<1> USE DEF SessionShape, Speaks, Replied, Hears, Announces, CutsOff
<1>1. ASSUME NEW kind \in Kinds, Writes(kind)  PROVE SessionShape
  BY <1>1 DEF Writes
<1>2. ASSUME NEW kind \in {"ok", "refused"}, Replies(kind)  PROVE SessionShape
  BY <1>2 DEF Replies
<1>3. ASSUME Process  PROVE SessionShape
  BY <1>1, <1>2, <1>3 DEF Process, Exits, procVars
<1>4. ASSUME HandleText \/ HandleTool \/ HandleError  PROVE SessionShape
  <2>1. TrySend(Head(wire).n) /\ said' = said /\ wire # <<>> /\ wire' = Tail(wire)
    BY <1>4 DEF HandleText, HandleTool, HandleError, Reads, procVars
  <2> QED BY <2>1, TrySendSent
<1>5. ASSUME HandleResult \/ HandleTurnEnd \/ HandleResponse  PROVE SessionShape
  BY <1>5 DEF HandleResult, HandleTurnEnd, HandleResponse, Reads, procVars
<1>6. ASSUME ScanEnds  PROVE SessionShape
  <2>1. SubSeq(wire, 1, 0) = <<>> /\ 0 \in 0..Len(wire)
    BY SubSeqEmpty, LenProperties DEF SessionTypeOK
  <2> QED BY <1>6, <2>1 DEF ScanEnds, procVars
<1>7. ASSUME GetsAnswer  PROVE SessionShape
  <2>1. (TrySend(0) \/ chan' = chan) /\ said' = said /\ wire' = wire
    BY <1>7 DEF GetsAnswer, procVars
  <2> QED BY <2>1, TrySendSent
<1>8. ASSUME Leaves  PROVE SessionShape
  BY <1>8 DEF Leaves, procVars, SessionTypeOK
<1>9. ASSUME \/ Asks \/ WriteFails \/ Refused \/ RequestInterrupted \/ TurnEnds \/ Collects
             \/ Finishes \/ Kill
      PROVE  SessionShape
  BY <1>9 DEF Asks, WriteFails, Refused, RequestInterrupted, TurnEnds, Collects, Finishes,
              Kill, Exits, procVars
<1>10. ASSUME NEW why \in {"deadline", "cancelled"}, ContextEnds(why)  PROVE SessionShape
  BY <1>10 DEF ContextEnds
<1> HIDE DEF SessionShape, Speaks, Replied, Hears, Announces, CutsOff
<1> QED BY <1>3, <1>4, <1>5, <1>6, <1>7, <1>8, <1>9, <1>10
        DEF SessionNext, Scans, HandleNotification, Concludes

LEMMA OrderIsKept ==
    ASSUME SessionTypeOK, SessionTypeOK', InOrder, SessionNext
    PROVE  /\ InOrder'
           /\ \A n \in Coming' : n \in Coming \/ n = 0 \/ n > Len(said)
           /\ Len(said) <= Len(said') /\ \A n \in DOMAIN said : said'[n] = said[n]
<1> DEFINE Goal == /\ InOrder'
                   /\ \A n \in Coming' : n \in Coming \/ n = 0 \/ n > Len(said)
                   /\ Len(said) <= Len(said') /\ \A n \in DOMAIN said : said'[n] = said[n]
<1>1. /\ said \in Seq(Kinds) /\ wire \in Seq(WireLine) /\ chan.buf \in Seq(Nat)
      /\ wire' \in Seq(WireLine') /\ chan'.buf \in Seq(Nat)
  BY DEF SessionTypeOK
<1>2. /\ Len(said) \in Nat /\ Len(wire) \in Nat /\ Len(chan.buf) \in Nat
      /\ DOMAIN said = 1..Len(said) /\ DOMAIN wire = 1..Len(wire)
      /\ DOMAIN chan.buf = 1..Len(chan.buf)
      /\ Len(wire') \in Nat /\ DOMAIN wire' = 1..Len(wire')
      /\ Len(chan'.buf) \in Nat /\ DOMAIN chan'.buf = 1..Len(chan'.buf)
  BY <1>1, LenProperties
<1>3. /\ \A i \in DOMAIN wire : wire[i].n \in Nat /\ WireNo[i] = wire[i].n
      /\ \A i \in DOMAIN chan.buf : chan.buf[i] \in Nat
      /\ \A i \in DOMAIN wire' : wire'[i].n \in Nat /\ WireNo'[i] = wire'[i].n
  <2>1. ASSUME NEW i \in DOMAIN wire  PROVE wire[i].n \in Nat
    <3>1. wire[i] \in WireLine
      BY <1>1, <1>2, ElementOfSeq
    <3> QED BY <3>1 DEF WireLine
  <2>2. \A i \in DOMAIN chan.buf : chan.buf[i] \in Nat
    BY <1>1, <1>2, ElementOfSeq
  <2>3. ASSUME NEW i \in DOMAIN wire'  PROVE wire'[i].n \in Nat
    <3>1. wire'[i] \in WireLine'
      BY <1>1, <1>2, ElementOfSeq
    <3> QED BY <3>1 DEF WireLine
  <2> QED BY <2>1, <2>2, <2>3 DEF WireNo
<1> HIDE DEF Goal
\* A line is added to the wire.
<1>4. ASSUME NEW kind \in Kinds \union {"ok", "refused"}, NEW n \in Nat,
             wire' = Append(wire, [kind |-> kind, n |-> n]), chan'.buf = chan.buf
      PROVE  /\ Len(wire') = Len(wire) + 1
             /\ wire'[Len(wire) + 1].kind = kind /\ wire'[Len(wire) + 1].n = n
             /\ \A i \in 1..Len(wire) : wire'[i] = wire[i]
             /\ n = 0 \/ n > Len(said) =>
                  /\ Rising(WireNo', Len(wire'))
                  /\ \A i \in DOMAIN chan'.buf, j \in DOMAIN wire' :
                        chan'.buf[i] # 0 /\ wire'[j].n # 0 => chan'.buf[i] < wire'[j].n
                  /\ \A m \in Coming' : m \in Coming \/ m = 0 \/ m > Len(said)
  <2> DEFINE last == [kind |-> kind, n |-> n]
  <2>1. last \in WireLine /\ last.n = n /\ last.kind = kind
    BY DEF WireLine
  <2> HIDE DEF last
  <2>2. /\ Len(wire') = Len(wire) + 1 /\ wire'[Len(wire) + 1] = last
        /\ \A i \in 1..Len(wire) : wire'[i] = wire[i]
    BY <1>1, <1>4, <2>1, AppendProperties DEF last
  <2>3. ASSUME n = 0 \/ n > Len(said)
        PROVE  /\ Rising(WireNo', Len(wire'))
               /\ \A i \in DOMAIN chan'.buf, j \in DOMAIN wire' :
                     chan'.buf[i] # 0 /\ wire'[j].n # 0 => chan'.buf[i] < wire'[j].n
               /\ \A m \in Coming' : m \in Coming \/ m = 0 \/ m > Len(said)
    <3>1. \A i \in 1..Len(wire) : WireNo[i] \in Nat /\ WireNo'[i] = WireNo[i]
      BY <1>2, <1>3, <2>2
    <3>2. WireNo'[Len(wire) + 1] = n
      BY <1>2, <1>3, <2>1, <2>2
    <3>3. \A i \in 1..Len(wire) : n # 0 => WireNo[i] < n
      BY <1>2, <1>3, <2>3 DEF InOrder, WireInOrder
    <3>4. Rising(WireNo', Len(wire) + 1)
      BY <1>2, <3>1, <3>2, <3>3, RisingOn DEF InOrder, WireInOrder
    <3>5. ASSUME NEW i \in DOMAIN chan.buf, NEW j \in DOMAIN wire',
                 chan.buf[i] # 0, wire'[j].n # 0
          PROVE  chan.buf[i] < wire'[j].n
      <4>1. CASE j = Len(wire) + 1
        BY <1>2, <1>3, <2>1, <2>2, <2>3, <3>5, <4>1 DEF InOrder, ChannelInOrder
      <4>2. CASE j # Len(wire) + 1
        BY <1>2, <2>2, <3>5, <4>2 DEF InOrder, ChannelInOrder
      <4> QED BY <4>1, <4>2
    <3>6. ASSUME NEW j \in DOMAIN wire'
          PROVE  wire'[j].n \in Coming \/ wire'[j].n = 0 \/ wire'[j].n > Len(said)
      <4>1. CASE j = Len(wire) + 1
        BY <2>1, <2>2, <2>3, <4>1
      <4>2. CASE j # Len(wire) + 1
        BY <1>2, <2>2, <4>2 DEF Coming
      <4> QED BY <4>1, <4>2
    <3>7. \A m \in Coming' : m \in Coming \/ m = 0 \/ m > Len(said)
      BY <1>4, <3>6 DEF Coming
    <3> QED BY <1>4, <2>2, <3>4, <3>5, <3>7
  <2> QED BY <2>1, <2>2, <2>3
<1>5. ASSUME Speaks  PROVE Goal
  <2>1. PICK kind \in Kinds :
          /\ said' = Append(said, kind)
          /\ wire' = Append(wire, [kind |-> kind, n |-> Len(said) + 1])
          /\ chan'.buf = chan.buf
    BY <1>5 DEF Speaks
  <2>2. /\ Len(said') = Len(said) + 1 /\ said'[Len(said) + 1] = kind
        /\ \A n \in 1..Len(said) : said'[n] = said[n]
    BY <1>1, <2>1, AppendProperties
  <2>3. /\ Len(wire') = Len(wire) + 1
        /\ wire'[Len(wire) + 1].kind = kind /\ wire'[Len(wire) + 1].n = Len(said) + 1
        /\ \A i \in 1..Len(wire) : wire'[i] = wire[i]
        /\ Rising(WireNo', Len(wire'))
        /\ \A i \in DOMAIN chan'.buf, j \in DOMAIN wire' :
              chan'.buf[i] # 0 /\ wire'[j].n # 0 => chan'.buf[i] < wire'[j].n
        /\ \A m \in Coming' : m \in Coming \/ m = 0 \/ m > Len(said)
    <3>1. Len(said) + 1 \in Nat /\ Len(said) + 1 > Len(said)
      BY <1>2
    <3> QED BY <1>4, <2>1, <3>1
  <2>4. ASSUME NEW i \in DOMAIN wire'
        PROVE  /\ wire'[i].n \in 0..Len(said')
               /\ wire'[i].n = 0 => wire'[i].kind \in {"ok", "refused"}
               /\ wire'[i].n # 0 => wire'[i].kind = said'[wire'[i].n]
    <3>1. CASE i = Len(wire) + 1
      BY <1>2, <2>2, <2>3, <3>1
    <3>2. CASE i # Len(wire) + 1
      <4>1. i \in DOMAIN wire /\ wire'[i] = wire[i]
        BY <1>2, <2>3, <3>2
      <4>2. /\ wire[i].n \in 0..Len(said)
            /\ wire[i].n = 0 => wire[i].kind \in {"ok", "refused"}
            /\ wire[i].n # 0 => wire[i].kind = said[wire[i].n]
        BY <4>1 DEF InOrder, WireInOrder
      <4> QED BY <1>2, <2>2, <4>1, <4>2
    <3> QED BY <3>1, <3>2
  <2>5. WireInOrder'
    BY <2>3, <2>4 DEF WireInOrder
  <2>6. \A i \in DOMAIN chan'.buf : chan'.buf[i] \in 0..Len(said')
    BY <1>2, <1>3, <2>1, <2>2 DEF InOrder, ChannelInOrder
  <2>7. ChannelInOrder'
    BY <2>1, <2>3, <2>6 DEF InOrder, ChannelInOrder
  <2> QED BY <1>2, <2>2, <2>3, <2>5, <2>7 DEF InOrder, Goal
<1>6. ASSUME Replied  PROVE Goal
  <2>1. PICK kind \in {"ok", "refused"} :
          /\ said' = said
          /\ wire' = Append(wire, [kind |-> kind, n |-> 0])
          /\ chan'.buf = chan.buf
    BY <1>6 DEF Replied
  <2>3. /\ Len(wire') = Len(wire) + 1
        /\ wire'[Len(wire) + 1].kind = kind /\ wire'[Len(wire) + 1].n = 0
        /\ \A i \in 1..Len(wire) : wire'[i] = wire[i]
        /\ Rising(WireNo', Len(wire'))
        /\ \A i \in DOMAIN chan'.buf, j \in DOMAIN wire' :
              chan'.buf[i] # 0 /\ wire'[j].n # 0 => chan'.buf[i] < wire'[j].n
        /\ \A m \in Coming' : m \in Coming \/ m = 0 \/ m > Len(said)
    BY <1>4, <2>1
  <2>4. ASSUME NEW i \in DOMAIN wire'
        PROVE  /\ wire'[i].n \in 0..Len(said')
               /\ wire'[i].n = 0 => wire'[i].kind \in {"ok", "refused"}
               /\ wire'[i].n # 0 => wire'[i].kind = said'[wire'[i].n]
    <3>1. CASE i = Len(wire) + 1
      BY <1>2, <2>1, <2>3, <3>1
    <3>2. CASE i # Len(wire) + 1
      BY <1>2, <2>1, <2>3, <3>2 DEF InOrder, WireInOrder
    <3> QED BY <3>1, <3>2
  <2>5. WireInOrder'
    BY <2>3, <2>4 DEF WireInOrder
  <2>6. ChannelInOrder'
    BY <2>1, <2>3 DEF InOrder, ChannelInOrder
  <2> QED BY <1>2, <2>1, <2>3, <2>5, <2>6 DEF InOrder, Goal
\* What is left of the wire when the first d lines of it are gone.
<1>7. ASSUME said' = said, NEW d \in Nat,
             \A i \in DOMAIN wire' : i + d \in DOMAIN wire /\ wire'[i] = wire[i + d]
      PROVE  /\ WireInOrder'
             /\ chan'.buf = chan.buf =>
                  ChannelInOrder' /\ \A n \in Coming' : n \in Coming
  <2>1. ASSUME NEW i \in 1..Len(wire'), NEW j \in 1..Len(wire'), i < j,
               WireNo'[i] # 0, WireNo'[j] # 0
        PROVE  WireNo'[i] < WireNo'[j]
    <3>1. /\ WireNo'[i] = WireNo[i + d] /\ WireNo'[j] = WireNo[j + d]
          /\ i + d \in 1..Len(wire) /\ j + d \in 1..Len(wire) /\ i + d < j + d
      BY <1>2, <1>3, <1>7, <2>1
    <3> QED BY <2>1, <3>1 DEF InOrder, WireInOrder, Rising
  <2>2. Rising(WireNo', Len(wire'))
    BY <2>1 DEF Rising
  <2>3. WireInOrder'
    BY <1>7, <2>2 DEF InOrder, WireInOrder
  <2>4. ASSUME chan'.buf = chan.buf
        PROVE  ChannelInOrder' /\ \A n \in Coming' : n \in Coming
    <3>1. ChannelInOrder'
      BY <1>7, <2>4 DEF InOrder, ChannelInOrder
    <3>2. \A n \in Coming' : n \in Coming
      BY <1>7, <2>4 DEF Coming
    <3> QED BY <3>1, <3>2
  <2> QED BY <2>3, <2>4
\* What is sent is what comes next.
<1>8. ASSUME Hears  PROVE Goal
  <2>0. /\ said' = said /\ wire # <<>> /\ wire' = Tail(wire)
        /\ chan'.buf = chan.buf \/ chan'.buf = Append(chan.buf, Head(wire).n)
    BY <1>8 DEF Hears
  <2>1. /\ Head(wire) = wire[1] /\ 1 \in DOMAIN wire
        /\ \A i \in DOMAIN wire' : i + 1 \in DOMAIN wire /\ wire'[i] = wire[i + 1]
    BY <1>1, <2>0, TailOfSeq
  <2>3. WireInOrder' /\ (chan'.buf = chan.buf => ChannelInOrder' /\ \A n \in Coming' : n \in Coming)
    BY <1>7, <2>0, <2>1
  <2>4. CASE chan'.buf = chan.buf
    BY <1>2, <2>0, <2>3, <2>4 DEF InOrder, Goal
  <2>5. CASE chan'.buf = Append(chan.buf, Head(wire).n)
    <3> DEFINE next == Head(wire).n
               last == Len(chan.buf) + 1
    <3>1. next \in Nat /\ next = wire[1].n /\ next \in 0..Len(said)
      BY <1>3, <2>1 DEF InOrder, WireInOrder
    <3>2. /\ Len(chan'.buf) = last /\ chan'.buf[last] = next
          /\ \A i \in 1..Len(chan.buf) : chan'.buf[i] = chan.buf[i]
      BY <1>1, <2>5, <3>1, AppendProperties
    <3> HIDE DEF next
    <3>3. \A i \in 1..Len(chan.buf) : next # 0 => chan.buf[i] < next
      <4> SUFFICES ASSUME NEW i \in 1..Len(chan.buf), next # 0  PROVE chan.buf[i] < next
        OBVIOUS
      <4>1. chan.buf[i] \in Nat /\ (chan.buf[i] # 0 => chan.buf[i] < wire[1].n)
        BY <1>2, <1>3, <2>1, <3>1 DEF InOrder, ChannelInOrder
      <4> QED BY <3>1, <4>1
    <3>4. Rising(chan'.buf, Len(chan'.buf))
      BY <1>2, <1>3, <3>1, <3>2, <3>3, RisingOn DEF InOrder, ChannelInOrder
    <3>5. \A i \in DOMAIN chan'.buf : chan'.buf[i] \in 0..Len(said')
      <4> SUFFICES ASSUME NEW i \in DOMAIN chan'.buf  PROVE chan'.buf[i] \in 0..Len(said)
        BY <2>0
      <4>1. CASE i = last
        BY <3>1, <3>2, <4>1
      <4>2. CASE i # last
        BY <1>2, <3>2, <4>2, SMTT(60) DEF InOrder, ChannelInOrder
      <4> QED BY <4>1, <4>2
    <3>6. ASSUME NEW i \in DOMAIN chan'.buf, NEW j \in DOMAIN wire',
                 chan'.buf[i] # 0, wire'[j].n # 0
          PROVE  chan'.buf[i] < wire'[j].n
      <4>1. j + 1 \in DOMAIN wire /\ wire'[j] = wire[j + 1] /\ 1 < j + 1
        BY <1>2, <2>1
      <4>2. CASE i = last
        <5>1. WireNo[1] = next /\ WireNo[j + 1] = wire'[j].n
          BY <1>3, <2>1, <3>1, <4>1
        <5>2. 1 \in 1..Len(wire) /\ j + 1 \in 1..Len(wire) /\ next # 0
          BY <1>2, <2>1, <3>2, <3>6, <4>1, <4>2
        <5>3. WireNo[1] < WireNo[j + 1]
          BY <3>6, <4>1, <5>1, <5>2 DEF InOrder, WireInOrder, Rising
        <5> QED BY <3>2, <4>2, <5>1, <5>3
      <4>3. CASE i # last
        <5>1. i \in DOMAIN chan.buf /\ chan'.buf[i] = chan.buf[i]
          BY <1>2, <3>2, <4>3
        <5> QED BY <3>6, <4>1, <5>1 DEF InOrder, ChannelInOrder
      <4> QED BY <4>2, <4>3
    <3>7. ChannelInOrder'
      BY <3>4, <3>5, <3>6 DEF ChannelInOrder
    <3>8. ASSUME NEW i \in DOMAIN chan'.buf  PROVE chan'.buf[i] \in Coming
      <4>1. CASE i = last
        BY <2>1, <3>1, <3>2, <4>1 DEF Coming
      <4>2. CASE i # last
        BY <1>2, <3>2, <4>2 DEF Coming, Range
      <4> QED BY <4>1, <4>2
    <3>9. \A j \in DOMAIN wire' : wire'[j].n \in Coming
      BY <2>1 DEF Coming
    <3>10. \A n \in Coming' : n \in Coming
      BY <3>8, <3>9 DEF Coming, Range
    <3> QED BY <1>2, <2>0, <2>3, <3>7, <3>10 DEF InOrder, Goal
  <2> QED BY <2>0, <2>4, <2>5
<1>9. ASSUME Announces  PROVE Goal
  <2>0. /\ said' = said /\ wire' = wire
        /\ chan'.buf = chan.buf \/ chan'.buf = Append(chan.buf, 0)
    BY <1>9 DEF Announces
  <2>1. WireInOrder'
    BY <2>0 DEF InOrder, WireInOrder, WireNo
  <2>2. CASE chan'.buf = chan.buf
    BY <1>2, <2>0, <2>1, <2>2 DEF InOrder, ChannelInOrder, Coming, Goal
  <2>3. CASE chan'.buf = Append(chan.buf, 0)
    <3>1. /\ Len(chan'.buf) = Len(chan.buf) + 1 /\ chan'.buf[Len(chan.buf) + 1] = 0
          /\ \A i \in 1..Len(chan.buf) : chan'.buf[i] = chan.buf[i]
      BY <1>1, <2>3, AppendProperties
    <3>2. Rising(chan'.buf, Len(chan'.buf))
      <4>1. \A i \in 1..Len(chan.buf) : chan.buf[i] \in Nat /\ chan'.buf[i] = chan.buf[i]
        BY <1>2, <1>3, <3>1
      <4>2. \A i \in 1..Len(chan.buf) :
              chan'.buf[Len(chan.buf) + 1] # 0 => chan.buf[i] < chan'.buf[Len(chan.buf) + 1]
        BY <3>1
      <4>3. chan'.buf[Len(chan.buf) + 1] \in Nat /\ Rising(chan.buf, Len(chan.buf))
        BY <3>1 DEF InOrder, ChannelInOrder
      <4>4. Rising(chan'.buf, Len(chan.buf) + 1)
        BY ONLY <1>2, <4>1, <4>2, <4>3, RisingOn
      <4> QED BY <3>1, <4>4
    <3>3. ASSUME NEW i \in DOMAIN chan'.buf
          PROVE  chan'.buf[i] = 0 \/ (i \in DOMAIN chan.buf /\ chan'.buf[i] = chan.buf[i])
      BY <1>2, <3>1
    <3>4. ChannelInOrder'
      BY <1>2, <2>0, <3>2, <3>3, SMTT(60) DEF InOrder, ChannelInOrder
    <3>5. \A n \in Coming' : n \in Coming \/ n = 0
      BY <2>0, <3>3 DEF Coming, Range
    <3> QED BY <1>2, <2>0, <2>1, <3>4, <3>5 DEF InOrder, Goal
  <2> QED BY <2>0, <2>2, <2>3
<1>10. ASSUME CutsOff  PROVE Goal
  <2>0. PICK m \in 0..Len(wire) : wire' = SubSeq(wire, 1, m)
    BY <1>10 DEF CutsOff
  <2>1. \A i \in DOMAIN wire' : i + 0 \in DOMAIN wire /\ wire'[i] = wire[i + 0]
    <3>1. \A i \in 1..m : wire[i] \in WireLine
      BY <1>1, <1>2, ElementOfSeq
    <3>2. /\ Len(wire') = IF 1 <= m THEN m - 1 + 1 ELSE 0
          /\ \A i \in 1 .. m - 1 + 1 : wire'[i] = wire[1 + i - 1]
      BY <2>0, <3>1, <1>2, SubSeqProperties
    <3>3. Len(wire') = m
      BY <3>2
    <3> QED BY <1>2, <3>2, <3>3
  <2>2. said' = said /\ chan'.buf = chan.buf
    BY <1>10 DEF CutsOff
  <2>3. WireInOrder' /\ ChannelInOrder' /\ \A n \in Coming' : n \in Coming
    BY <1>7, <2>1, <2>2
  <2> QED BY <1>2, <2>2, <2>3 DEF InOrder, Goal
<1>11. Goal
  BY <1>5, <1>6, <1>8, <1>9, <1>10, SessionShapes DEF SessionShape
<1> QED BY <1>11 DEF Goal

-----------------------------------------------------------------------------
(* What was told.                                                          *)

Taken == Range(drain.text) \union UNION {Range(m.lines) : m \in Messages}

\* A message is numbered, has lines of one kind and has them in order.
Told(m) ==
    /\ m.seq \in 1..drain.seq /\ m.lines # <<>> /\ Increasing(m.lines)
    /\ \A n \in Range(m.lines) : n \in DOMAIN said /\ said[n] = said[m.lines[1]]

TextIsHeld ==
    /\ Increasing(drain.text)
    /\ \A n \in Range(drain.text) : n \in DOMAIN said /\ said[n] = "text"
    /\ \A m \in Messages, n \in Range(drain.text) :
          said[m.lines[1]] = "text" => \A x \in Range(m.lines) : x < n

TranscriptInv ==
    /\ \A m \in Messages : Told(m)
    /\ TranscriptIsTrue
    /\ TextIsHeld
    /\ \A n \in Taken, x \in Coming : x # 0 => n < x

Apart(m, o) ==
    /\ m.seq # o.seq
    /\ Range(m.lines) \intersect Range(o.lines) = {}
    /\ said[m.lines[1]] = said[o.lines[1]] /\ m.seq < o.seq
         => \A x \in Range(m.lines), y \in Range(o.lines) : x < y

LEMMA MessagesAreTyped ==
    ASSUME TranscriptTypeOK
    PROVE  /\ \A m \in Messages : m \in Message /\ m.seq \in Nat /\ m.lines \in Seq(Nat)
           /\ drain.text \in Seq(Nat) /\ drain.seq \in Nat
<1>1. /\ Range(drain.batch) \subseteq Message /\ Range(drain.held) \subseteq Message
      /\ \A s \in Sender : Range(post[s].msgs) \subseteq Message
  <2>1. /\ drain.batch \in Seq(Message) /\ drain.held \in Seq(Message)
        /\ \A s \in Sender : post[s].msgs \in Seq(Message)
    BY DEF TranscriptTypeOK, Post
  <2> QED BY <2>1, RangeOfSeq
<1>2. Messages \subseteq Message
  BY <1>1 DEF Messages, TranscriptTypeOK
<1> QED BY <1>2 DEF Message, TranscriptTypeOK

LEMMA FirstLine ==
    ASSUME NEW s \in Seq(Nat), s # <<>>
    PROVE  s[1] \in Range(s)
<1>1. 1 \in DOMAIN s
  BY LenProperties, EmptySeq
<1> QED BY <1>1 DEF Range

\* The session goes on.
LEMMA SpeakingKeeps ==
    ASSUME TranscriptTypeOK, TranscriptInv, UNCHANGED <<drain, post, stored>>,
           DOMAIN said \subseteq DOMAIN said', DOMAIN said = 1..Len(said), Len(said) \in Nat,
           \A n \in DOMAIN said : said'[n] = said[n],
           \A n \in Coming' : n \in Nat /\ (n \in Coming \/ n = 0 \/ n > Len(said))
    PROVE  TranscriptInv'
<1>1. Messages' = Messages /\ Taken' = Taken
  BY DEF Messages, Taken
<1>2. ASSUME NEW m \in Messages
      PROVE  /\ m.lines[1] \in DOMAIN said /\ said'[m.lines[1]] = said[m.lines[1]]
             /\ \A n \in Range(m.lines) : n \in DOMAIN said /\ said'[n] = said[n]
  <2>1. Told(m) /\ m.lines \in Seq(Nat)
    BY MessagesAreTyped DEF TranscriptInv
  <2>2. m.lines[1] \in Range(m.lines)
    BY <2>1, FirstLine DEF Told
  <2> QED BY <2>1, <2>2 DEF Told
<1>3. \A m \in Messages' : Told(m)'
  BY <1>1, <1>2 DEF TranscriptInv, Told
<1>4. TranscriptIsTrue'
  BY <1>1, <1>2 DEF TranscriptInv, TranscriptIsTrue
<1>5. TextIsHeld'
  BY <1>1, <1>2 DEF TranscriptInv, TextIsHeld
<1>6. \A n \in Taken : n \in DOMAIN said
  BY <1>2 DEF TranscriptInv, TextIsHeld, Taken
<1>7. ASSUME NEW n \in Taken', NEW x \in Coming', x # 0  PROVE n < x
  <2>1. CASE x \in Coming
    BY <1>1, <1>7, <2>1 DEF TranscriptInv
  <2>2. CASE x > Len(said)
    <3>1. n \in 1..Len(said)
      BY <1>1, <1>6
    <3>2. x \in Nat
      OBVIOUS
    <3> QED BY <2>2, <3>1, <3>2
  <2> QED BY <1>7, <2>1, <2>2
<1> QED BY <1>3, <1>4, <1>5, <1>7 DEF TranscriptInv

\* A message more, or some less.
LEMMA TellingKeeps ==
    ASSUME TranscriptTypeOK, TranscriptInv, said' = said, Coming' \subseteq Coming,
           NEW new, new.seq = drain.seq + 1, new.lines \in Seq(Nat), new.lines # <<>>,
           Increasing(new.lines),
           \A n \in Range(new.lines) : n \in DOMAIN said /\ said[n] = said[new.lines[1]],
           \A n \in Range(new.lines), x \in Coming' : x # 0 => n < x,
           \A o \in Messages : said[o.lines[1]] = said[new.lines[1]]
             => \A x \in Range(o.lines), n \in Range(new.lines) : x < n,
           Messages' \subseteq Messages \union {new}, drain'.seq = drain.seq + 1,
           \/ drain'.text = <<>>
           \/ drain'.text = drain.text /\ said[new.lines[1]] # "text"
    PROVE  TranscriptInv'
<1>1. /\ drain.seq \in Nat /\ Told(new)'
      /\ \A m \in Messages : Told(m) /\ m.seq < new.seq /\ m.lines \in Seq(Nat) /\ m.seq \in Nat
  BY MessagesAreTyped DEF TranscriptInv, Told
<1>2. \A m \in Messages' : Told(m)'
  BY <1>1 DEF Told
<1>3. ASSUME NEW m \in Messages  PROVE Apart(m, new) /\ Apart(new, m)
  <2>1. m.seq < new.seq /\ ~(new.seq < m.seq)
    BY <1>1
  <2>2. ASSUME NEW n \in Range(m.lines), n \in Range(new.lines)  PROVE FALSE
    <3>1. said[m.lines[1]] = said[new.lines[1]]
      BY <1>1, <2>2 DEF Told
    <3>2. n < n /\ n \in Nat
      BY <1>1, <2>2, <3>1, RangeOfSeq
    <3> QED BY <3>2
  <2> QED BY <2>1, <2>2 DEF Apart
<1>4. \A m, o \in Messages : m # o => Apart(m, o)
  BY DEF TranscriptInv, TranscriptIsTrue, Apart
<1>5. \A m, o \in Messages' : m # o => Apart(m, o)
  BY <1>3, <1>4
<1>6. TranscriptIsTrue'
  <2>1. \A m \in Messages' : Increasing(m.lines)
    BY <1>1 DEF Told
  <2>2. \A m, o \in Messages' : m # o => Apart(m, o)'
    BY <1>5 DEF Apart
  <2> QED BY <2>1, <2>2 DEF TranscriptIsTrue, Apart
<1>7. TextIsHeld'
  <2>1. CASE drain'.text = <<>>
    <3>1. Range(drain'.text) = {}
      BY <2>1 DEF Range
    <3>2. Increasing(drain'.text)
      BY <2>1 DEF Increasing
    <3> QED BY <3>1, <3>2 DEF TextIsHeld
  <2>2. CASE drain'.text = drain.text /\ said[new.lines[1]] # "text"
    BY <2>2 DEF TranscriptInv, TextIsHeld
  <2> QED BY <2>1, <2>2
<1>8. \A n \in Taken', x \in Coming' : x # 0 => n < x
  <2>1. \A n \in Taken' : n \in Taken \/ n \in Range(new.lines)
    <3>1. Range(drain'.text) \subseteq Range(drain.text)
      BY DEF Range
    <3> QED BY <3>1 DEF Taken
  <2> QED BY <2>1 DEF TranscriptInv
<1> QED BY <1>2, <1>6, <1>7, <1>8 DEF TranscriptInv

LEMMA ServingKeeps ==
    ASSUME TranscriptInv, said' = said, Coming' \subseteq Coming,
           Messages' \subseteq Messages, drain'.seq = drain.seq, drain'.text = drain.text
    PROVE  TranscriptInv'
<1>1. \A m \in Messages' : Told(m)'
  BY DEF TranscriptInv, Told
<1>2. TranscriptIsTrue' /\ TextIsHeld'
  BY DEF TranscriptInv, TranscriptIsTrue, TextIsHeld
<1>3. Taken' \subseteq Taken
  BY DEF Taken
<1> QED BY <1>1, <1>2, <1>3 DEF TranscriptInv

LEMMA ComingAreNumbers ==
    ASSUME SessionTypeOK'
    PROVE  Coming' \subseteq Nat
<1>1. wire' \in Seq(WireLine') /\ chan'.buf \in Seq(Nat)
  BY DEF SessionTypeOK
<1>2. ASSUME NEW i \in DOMAIN wire'  PROVE wire'[i].n \in Nat
  <2>1. wire'[i] \in WireLine'
    BY <1>1, LenProperties, ElementOfSeq
  <2> QED BY <2>1 DEF WireLine
<1>3. Range(chan'.buf) \subseteq Nat
  BY <1>1, RangeOfSeq
<1> QED BY <1>2, <1>3 DEF Coming

\* The receiver takes the next line.
LEMMA ReceivingKeepsOrder ==
    ASSUME SessionTypeOK, InOrder, NEW lines, Receives(lines)
    PROVE  /\ SessionTypeOK' /\ InOrder' /\ said' = said
           /\ Line \in Nat /\ Line \in Coming /\ Line \in lines
           /\ Coming' \subseteq Coming
           /\ Line # 0 => \A x \in Coming' : x # 0 => Line < x
<1>1. /\ chan.buf \in Seq(Nat) /\ chan.buf # <<>> /\ chan' = [chan EXCEPT !.buf = Tail(chan.buf)]
      /\ chan \in [buf : Seq(Nat), closed : BOOLEAN]
      /\ UNCHANGED <<backend, resume, proc, said, wire, reader, rpc, ctx, ending, verdict, output,
                     outcome, crashed>>
      /\ Line = Head(chan.buf) /\ Line \in lines
  BY DEF SessionTypeOK, Receives, Line
<1>2. /\ Head(chan.buf) \in Nat /\ Head(chan.buf) = chan.buf[1] /\ 1 \in DOMAIN chan.buf
      /\ Tail(chan.buf) \in Seq(Nat) /\ Len(Tail(chan.buf)) = Len(chan.buf) - 1
      /\ \A i \in DOMAIN Tail(chan.buf) :
            i + 1 \in DOMAIN chan.buf /\ Tail(chan.buf)[i] = chan.buf[i + 1]
  BY ONLY <1>1, TailOfSeq
<1>3. chan' \in [buf : Seq(Nat), closed : BOOLEAN] /\ chan'.buf = Tail(chan.buf)
  BY <1>1, <1>2
<1>4. /\ Len(chan.buf) \in Nat /\ DOMAIN chan.buf = 1..Len(chan.buf)
      /\ Len(chan'.buf) \in Nat /\ DOMAIN chan'.buf = 1..Len(chan'.buf)
      /\ \A i \in DOMAIN chan.buf : chan.buf[i] \in Nat
  BY <1>1, <1>3, LenProperties, ElementOfSeq
<1>5. SessionTypeOK'
  <2>1. Kinds' = Kinds /\ WireLine' = WireLine
    BY <1>1 DEF Kinds, WireLine
  <2>2. Len(chan'.buf) <= Capacity
    BY <1>2, <1>3, <1>4, SessionAssumption DEF SessionTypeOK
  <2> QED BY <1>1, <1>3, <2>1, <2>2 DEF SessionTypeOK
<1>6. Rising(chan'.buf, Len(chan'.buf))
  <2> SUFFICES ASSUME NEW i \in 1..Len(chan'.buf), NEW j \in 1..Len(chan'.buf), i < j,
                      chan'.buf[i] # 0, chan'.buf[j] # 0
               PROVE  chan'.buf[i] < chan'.buf[j]
    BY DEF Rising
  <2>1. /\ i + 1 \in 1..Len(chan.buf) /\ j + 1 \in 1..Len(chan.buf) /\ i + 1 < j + 1
        /\ chan'.buf[i] = chan.buf[i + 1] /\ chan'.buf[j] = chan.buf[j + 1]
    <3>1. i \in DOMAIN Tail(chan.buf) /\ j \in DOMAIN Tail(chan.buf)
      BY <1>3, <1>4
    <3>2. i + 1 \in DOMAIN chan.buf /\ j + 1 \in DOMAIN chan.buf
          /\ chan'.buf[i] = chan.buf[i + 1] /\ chan'.buf[j] = chan.buf[j + 1]
      BY ONLY <1>2, <1>3, <3>1
    <3> QED BY <1>4, <3>2
  <2> QED BY <2>1 DEF InOrder, ChannelInOrder, Rising
<1>7. InOrder'
  <2>1. WireInOrder'
    BY <1>1 DEF InOrder, WireInOrder, WireNo
  <2>2. \A i \in DOMAIN chan'.buf : \E j \in DOMAIN chan.buf : chan'.buf[i] = chan.buf[j]
    BY <1>2, <1>3
  <2>3. ChannelInOrder'
    BY <1>1, <1>6, <2>2, SMTT(60) DEF InOrder, ChannelInOrder
  <2> QED BY <2>1, <2>3 DEF InOrder
<1>8. Line \in Coming
  BY <1>1, <1>2 DEF Coming, Range
<1>9. Coming' \subseteq Coming
  BY <1>1, <1>2, <1>3 DEF Coming, Range
<1>10. ASSUME Line # 0, NEW x \in Coming', x # 0  PROVE Line < x
  <2>1. CASE x \in Range(chan'.buf)
    <3>1. PICK i \in DOMAIN chan'.buf : x = chan'.buf[i]
      BY <2>1 DEF Range
    <3>2. x = chan.buf[i + 1] /\ i + 1 \in 1..Len(chan.buf) /\ 1 < i + 1 /\ 1 \in 1..Len(chan.buf)
      BY <1>2, <1>3, <1>4, <3>1, SMTT(60)
    <3> QED BY <1>1, <1>2, <1>10, <3>2 DEF InOrder, ChannelInOrder, Rising
  <2>2. CASE \E j \in DOMAIN wire : x = wire[j].n
    BY <1>1, <1>2, <1>10, <2>2 DEF InOrder, ChannelInOrder
  <2> QED BY <1>1, <1>10, <2>1, <2>2 DEF Coming
<1> QED BY <1>1, <1>2, <1>5, <1>7, <1>8, <1>9, <1>10

\* A flush.
LEMMA FlushTypes ==
    ASSUME TranscriptTypeOK
    PROVE  /\ Flushed.at = drain.at /\ Flushed.held = drain.held /\ Flushed.batch = <<>>
           /\ Flushed.text = <<>>
           /\ Flushed.seq = IF drain.text = <<>> THEN drain.seq ELSE drain.seq + 1
           /\ Flushed \in [at : {"receiving", "holding", "closed", "over"}, seq : Nat,
                           text : Seq(Nat), batch : Seq(Message), held : Seq(Message)]
           /\ ToSend \in Seq(Message)
           /\ Range(ToSend) = Range(drain.batch) \union
                (IF drain.text = <<>> THEN {} ELSE {Numbered(drain.seq + 1, drain.text)})
<1>1. /\ drain \in [at : {"receiving", "holding", "closed", "over"}, seq : Nat,
                    text : Seq(Nat), batch : Seq(Message), held : Seq(Message)]
      /\ drain.seq \in Nat /\ drain.text \in Seq(Nat) /\ drain.batch \in Seq(Message)
      /\ drain.seq + 1 \in Nat
  BY DEF TranscriptTypeOK
<1>2. Numbered(drain.seq + 1, drain.text) \in Message
  BY <1>1 DEF Numbered, Message
<1>3. <<>> \in Seq(Nat) /\ <<>> \in Seq(Message)
  OBVIOUS
<1>4. CASE drain.text = <<>>
  <2>1. Flushed = [drain EXCEPT !.batch = <<>>] /\ ToSend = drain.batch \o <<>>
    BY <1>4 DEF Flushed, ToSend
  <2>2. ToSend = drain.batch
    BY <1>1, <2>1, ConcatEmptySeq
  <2> QED BY <1>1, <1>3, <1>4, <2>1, <2>2
<1>5. CASE drain.text # <<>>
  <2> DEFINE new == Numbered(drain.seq + 1, drain.text)
  <2>1. Flushed = [drain EXCEPT !.seq = drain.seq + 1, !.text = <<>>, !.batch = <<>>]
        /\ ToSend = drain.batch \o <<new>>
    BY <1>5 DEF Flushed, ToSend
  <2>2. new \in Message
    BY <1>2
  <2> HIDE DEF new
  <2>3. <<new>> \in Seq(Message) /\ Range(<<new>>) = {new}
    BY <2>2 DEF Range
  <2>4. ToSend \in Seq(Message) /\ Range(ToSend) = Range(drain.batch) \union {new}
    <3>1. drain.batch \in Seq(Message)
      BY <1>1
    <3>2. /\ drain.batch \o <<new>> \in Seq(Message)
          /\ Range(drain.batch \o <<new>>) = Range(drain.batch) \union Range(<<new>>)
      <4>1. drain.batch \o <<new>> \in Seq(Message)
        BY ONLY <2>3, <3>1
      <4>2. Range(drain.batch \o <<new>>) = Range(drain.batch) \union Range(<<new>>)
        BY ONLY <2>3, <3>1, RangeConcatenation, ZenonT(60)
      <4> QED BY <4>1, <4>2
    <3> QED BY <2>1, <2>3, <3>2
  <2>5. Flushed \in [at : {"receiving", "holding", "closed", "over"}, seq : Nat,
                     text : Seq(Nat), batch : Seq(Message), held : Seq(Message)]
    BY <1>1, <1>3, <2>1
  <2> QED BY <1>1, <1>5, <2>1, <2>4, <2>5 DEF new
<1> QED BY <1>4, <1>5

LEMMA PostsAreTyped ==
    ASSUME TranscriptTypeOK, NEW s \in Sender
    PROVE  /\ NoPost \in Post
           /\ post[s] \in Post /\ post[s].msgs \in Seq(Message)
           /\ post[s].at # "none" =>
                /\ NextOf(s) \in Range(post[s].msgs) /\ NextOf(s) \in Message
                /\ Rest(s) \in Post /\ Range(Rest(s).msgs) \subseteq Range(post[s].msgs)
<1>1. NoPost \in Post
  BY DEF NoPost, Post
<1>2. post[s] \in Post /\ post[s].msgs \in Seq(Message)
  BY DEF TranscriptTypeOK, Post
<1>3. ASSUME post[s].at # "none"
      PROVE  /\ NextOf(s) \in Range(post[s].msgs) /\ NextOf(s) \in Message
             /\ Rest(s) \in Post /\ Range(Rest(s).msgs) \subseteq Range(post[s].msgs)
  <2> DEFINE msgs == post[s].msgs
  <2>1. msgs \in Seq(Message) /\ msgs # <<>>
    BY <1>2, <1>3 DEF Post
  <2>2. /\ Head(msgs) \in Message /\ Head(msgs) = msgs[1] /\ 1 \in DOMAIN msgs
        /\ Tail(msgs) \in Seq(Message) /\ Len(Tail(msgs)) = Len(msgs) - 1
        /\ \A i \in DOMAIN Tail(msgs) : i + 1 \in DOMAIN msgs /\ Tail(msgs)[i] = msgs[i + 1]
    BY ONLY <2>1, TailOfSeq
  <2>3. NextOf(s) \in Range(msgs) /\ NextOf(s) \in Message
    BY <2>2 DEF NextOf, Range
  <2>4. CASE Len(msgs) = 1
    BY <1>1, <2>3, <2>4 DEF Rest, NoPost, Range
  <2>5. CASE Len(msgs) # 1
    <3>1. Tail(msgs) # <<>>
      <4>1. Len(msgs) \in Nat \ {0}
        BY ONLY <2>1, EmptySeq
      <4>2. Len(Tail(msgs)) # 0
        BY <2>2, <2>5, <4>1
      <4>3. Len(<<>>) = 0
        OBVIOUS
      <4> HIDE DEF msgs
      <4> QED BY ONLY <4>2, <4>3
    <3>2. Rest(s) = [post[s] EXCEPT !.msgs = Tail(msgs)]
      BY <2>5 DEF Rest
    <3>3. /\ Rest(s).msgs = Tail(msgs) /\ Rest(s).at = post[s].at
          /\ Rest(s) \in [at : {"none", "sent", "checked"}, msgs : Seq(Message)]
      BY <1>2, <2>2, <3>2 DEF Post
    <3>4. Range(Tail(msgs)) \subseteq Range(msgs)
      BY <2>2 DEF Range
    <3> QED BY <1>3, <2>3, <3>1, <3>3, <3>4 DEF Post
  <2> QED BY <2>3, <2>4, <2>5
<1> QED BY <1>1, <1>2, <1>3

LEMMA TranscriptTypesKept ==
    ASSUME TranscriptTypeOK, TranscriptNext
    PROVE  TranscriptTypeOK'
<1> DEFINE Drain == [at : {"receiving", "holding", "closed", "over"}, seq : Nat,
                     text : Seq(Nat), batch : Seq(Message), held : Seq(Message)]
<1>1. /\ SessionTypeOK /\ drain \in Drain /\ post \in [Sender -> Post] /\ stored \subseteq Message
      /\ run \in {"running", "ended"} /\ failures \in 0..MaxFailures /\ MaxFailures \in Nat
  BY TranscriptAssumption DEF TranscriptTypeOK
<1>2. /\ drain.seq \in Nat /\ drain.text \in Seq(Nat) /\ drain.batch \in Seq(Message)
      /\ drain.held \in Seq(Message) /\ drain.seq + 1 \in Nat
  BY <1>1
<1>3. ASSUME NEW seq \in Nat, NEW n \in Nat
      PROVE  Numbered(seq, <<n>>) \in Message
  BY DEF Numbered, Message
<1>4. UNCHANGED sessionVars => SessionTypeOK'
  <2> SUFFICES ASSUME UNCHANGED sessionVars  PROVE SessionTypeOK'
    OBVIOUS
  <2>1. Kinds' = Kinds /\ WireLine' = WireLine
    BY DEF sessionVars, Kinds, WireLine
  <2> QED BY <1>1, <2>1 DEF sessionVars, SessionTypeOK
<1>5. ASSUME SessionTypeOK', drain' \in Drain, UNCHANGED <<post, stored, run, failures>>
      PROVE  TranscriptTypeOK'
  BY <1>1, <1>5 DEF TranscriptTypeOK
<1>6. ASSUME SessionTypeOK', UNCHANGED <<drain, run>>, stored' \subseteq Message,
             failures' \in 0..MaxFailures, NEW s \in Sender, NEW p \in Post,
             post' = [post EXCEPT ![s] = p]
      PROVE  TranscriptTypeOK'
  BY <1>1, <1>6 DEF TranscriptTypeOK
<1>7. ASSUME SessionNext, UNCHANGED deliveryVars  PROVE TranscriptTypeOK'
  BY <1>1, <1>5, <1>7, SessionTypesKept DEF deliveryVars
<1>8. ASSUME NEW lines, Receives(lines)
      PROVE  /\ SessionTypeOK' /\ Line \in Nat
             /\ UNCHANGED <<post, stored, run, failures>>
  <2>1. /\ chan.buf \in Seq(Nat) /\ chan.buf # <<>> /\ chan' = [chan EXCEPT !.buf = Tail(chan.buf)]
        /\ chan \in [buf : Seq(Nat), closed : BOOLEAN]
        /\ UNCHANGED <<backend, resume, proc, said, wire, reader, rpc, ctx, ending, verdict,
                       output, outcome, crashed>>
    BY <1>1, <1>8 DEF SessionTypeOK, Receives
  <2>2. Line \in Nat /\ Tail(chan.buf) \in Seq(Nat) /\ Len(Tail(chan.buf)) = Len(chan.buf) - 1
    BY ONLY <2>1, TailOfSeq DEF Line
  <2>3. Kinds' = Kinds /\ WireLine' = WireLine
    BY <2>1 DEF Kinds, WireLine
  <2>4. /\ chan' \in [buf : Seq(Nat), closed : BOOLEAN] /\ chan'.buf = Tail(chan.buf)
        /\ Len(chan.buf) \in Nat
    BY <2>1, <2>2, LenProperties
  <2>5. Len(chan'.buf) <= Capacity
    BY <1>1, <2>2, <2>4, SessionAssumption DEF SessionTypeOK
  <2> QED BY <1>1, <1>8, <2>1, <2>2, <2>3, <2>4, <2>5 DEF SessionTypeOK, Receives
<1>9. ASSUME ReceivesSession  PROVE TranscriptTypeOK'
  BY <1>1, <1>5, <1>8, <1>9 DEF ReceivesSession
<1>10. ASSUME ReceivesText  PROVE TranscriptTypeOK'
  <2>1. Line \in Nat /\ SessionTypeOK' /\ UNCHANGED <<post, stored, run, failures>>
        /\ drain' = [drain EXCEPT !.text = Append(drain.text, Line)]
    BY <1>8, <1>10 DEF ReceivesText
  <2>2. Append(drain.text, Line) \in Seq(Nat)
    BY <1>2, <2>1
  <2>3. drain' \in Drain
    BY <1>1, <2>1, <2>2
  <2> QED BY <1>5, <2>1, <2>3
<1>11. ASSUME ReceivesTool  PROVE TranscriptTypeOK'
  <2> DEFINE new == Numbered(drain.seq + 1, <<Line>>)
  <2>1. Line \in Nat /\ SessionTypeOK' /\ UNCHANGED <<post, stored, run, failures>>
        /\ drain' = [drain EXCEPT !.at = "holding", !.seq = drain.seq + 1, !.held = <<new>>]
    BY <1>8, <1>11 DEF ReceivesTool
  <2>2. <<new>> \in Seq(Message)
    BY <1>2, <1>3, <2>1
  <2> HIDE DEF new
  <2>3. drain' \in Drain
    BY <1>1, <1>2, <2>1, <2>2
  <2> QED BY <1>5, <2>1, <2>3
<1>12. ASSUME ReceivesError  PROVE TranscriptTypeOK'
  <2> DEFINE new == Numbered(drain.seq + 1, <<Line>>)
  <2>1. Line \in Nat /\ SessionTypeOK' /\ UNCHANGED <<post, stored, run, failures>>
        /\ drain' = [drain EXCEPT !.seq = drain.seq + 1, !.batch = Append(drain.batch, new)]
    BY <1>8, <1>12 DEF ReceivesError
  <2>2. new \in Message
    BY <1>2, <1>3, <2>1
  <2> HIDE DEF new
  <2>3. Append(drain.batch, new) \in Seq(Message)
    BY <1>2, <2>2
  <2>4. drain' \in Drain
    BY <1>1, <1>2, <2>1, <2>3
  <2> QED BY <1>5, <2>1, <2>4
<1>13. ASSUME Batches  PROVE TranscriptTypeOK'
  <2>1. UNCHANGED <<sessionVars, post, stored, run, failures>>
        /\ drain' = [drain EXCEPT !.at = "receiving", !.batch = drain.batch \o drain.held,
                                  !.held = <<>>]
    BY <1>13 DEF Batches
  <2>2. drain.batch \o drain.held \in Seq(Message) /\ <<>> \in Seq(Message)
    BY <1>2
  <2>3. drain' \in Drain
    BY <1>1, <2>1, <2>2
  <2> QED BY <1>4, <1>5, <2>1, <2>3
<1>14. ASSUME ChannelCloses  PROVE TranscriptTypeOK'
  BY <1>1, <1>4, <1>5, <1>14 DEF ChannelCloses
<1>15. \A s \in Sender : Sends(s) => \E p \in Post : post' = [post EXCEPT ![s] = p]
  <2>1. /\ NoPost \in Post
        /\ ToSend # <<>> => [at |-> "sent", msgs |-> ToSend] \in Post
    BY FlushTypes DEF Post, NoPost
  <2> QED BY <2>1 DEF Sends
<1>16. ASSUME Ticks \/ LastFlush  PROVE TranscriptTypeOK'
  <2>1. /\ UNCHANGED <<sessionVars, stored, run, failures>>
        /\ \E s \in Sender : Sends(s)
        /\ drain' = Flushed \/ drain' = [Flushed EXCEPT !.at = "over"]
    BY <1>16 DEF Ticks, LastFlush, Sender
  <2>2. drain' \in Drain
    BY <2>1, FlushTypes
  <2>3. post' \in [Sender -> Post]
    <3>1. PICK s \in Sender : Sends(s)
      BY <2>1
    <3>2. PICK p \in Post : post' = [post EXCEPT ![s] = p]
      BY <1>15, <3>1
    <3> QED BY <1>1, <3>2
  <2> QED BY <1>1, <1>4, <2>1, <2>2, <2>3 DEF TranscriptTypeOK
<1>17. ASSUME NEW s \in Sender, CallFails(s)  PROVE TranscriptTypeOK'
  <2>1. /\ UNCHANGED <<sessionVars, drain, stored, run>>
        /\ post' = [post EXCEPT ![s] = NoPost] /\ failures' \in 0..MaxFailures
    BY <1>1, <1>17 DEF CallFails
  <2> QED BY <1>1, <1>4, <1>6, <2>1, PostsAreTyped
<1>18. ASSUME NEW s \in Sender, Checks(s)  PROVE TranscriptTypeOK'
  <2>1. [post[s] EXCEPT !.at = "checked"] \in Post
    BY <1>18, PostsAreTyped DEF Post, Checks
  <2>2. \E p \in Post : post' = [post EXCEPT ![s] = p]
    BY <1>18, <2>1, PostsAreTyped DEF Checks
  <2> QED BY <1>1, <1>4, <1>6, <1>18, <2>2 DEF Checks
<1>19. ASSUME NEW s \in Sender, Stores(s)  PROVE TranscriptTypeOK'
  <2>1. post[s].at # "none"
    BY <1>19 DEF Stores
  <2>2. \E p \in Post : post' = [post EXCEPT ![s] = p]
    BY <1>19, <2>1, PostsAreTyped DEF Stores
  <2>3. stored' \subseteq Message
    BY <1>1, <1>19, <2>1, PostsAreTyped DEF Stores, Stored
  <2> QED BY <1>1, <1>4, <1>6, <1>19, <2>2, <2>3 DEF Stores
<1>20. ASSUME RunEnds  PROVE TranscriptTypeOK'
  BY <1>1, <1>4, <1>20 DEF RunEnds, TranscriptTypeOK
<1> QED BY <1>7, <1>9, <1>10, <1>11, <1>12, <1>13, <1>14, <1>16, <1>17, <1>18, <1>19, <1>20
        DEF TranscriptNext, Drains, Serves

\* Lines and messages stay true through every step.
LEMMA TranscriptKept ==
    ASSUME TranscriptTypeOK, TranscriptTypeOK', InOrder, TranscriptInv, TranscriptNext
    PROVE  InOrder' /\ TranscriptInv'
<1>1. /\ SessionTypeOK /\ SessionTypeOK' /\ said \in Seq(Kinds) /\ said' \in Seq(Kinds')
      /\ DOMAIN said = 1..Len(said) /\ Len(said) \in Nat
      /\ DOMAIN said' = 1..Len(said') /\ Len(said') \in Nat
  BY LenProperties DEF TranscriptTypeOK, SessionTypeOK
<1>2. UNCHANGED sessionVars => UNCHANGED said /\ Coming' \subseteq Coming /\ InOrder'
  BY DEF sessionVars, Coming, InOrder, WireInOrder, ChannelInOrder, WireNo
<1>3. ASSUME SessionNext, UNCHANGED deliveryVars  PROVE InOrder' /\ TranscriptInv'
  <2>1. /\ InOrder'
        /\ \A n \in Coming' : n \in Coming \/ n = 0 \/ n > Len(said)
        /\ Len(said) <= Len(said') /\ \A n \in DOMAIN said : said'[n] = said[n]
    BY <1>1, <1>3, OrderIsKept
  <2>2. Coming' \subseteq Nat
    BY <1>1, ComingAreNumbers
  <2>3. DOMAIN said \subseteq DOMAIN said'
    BY <1>1, <2>1
  <2>4. UNCHANGED <<drain, post, stored>>
    BY <1>3 DEF deliveryVars
  <2> QED BY <1>1, <2>1, <2>2, <2>3, <2>4, SpeakingKeeps
<1>4. ASSUME NEW lines, Receives(lines)
      PROVE  /\ InOrder' /\ said' = said /\ UNCHANGED <<post, stored>>
             /\ Line \in Nat /\ Line \in Coming /\ Line \in lines
             /\ Coming' \subseteq Coming
             /\ Line # 0 => /\ \A x \in Coming' : x # 0 => Line < x
                            /\ \A n \in Taken : n < Line
  BY <1>1, <1>4, ReceivingKeepsOrder DEF TranscriptInv, Receives
<1>5. ASSUME ReceivesSession  PROVE InOrder' /\ TranscriptInv'
  <2>1. Messages' = Messages
    BY <1>4, <1>5 DEF ReceivesSession, Messages
  <2> QED BY <1>4, <1>5, <2>1, ServingKeeps DEF ReceivesSession
<1>6. ASSUME NEW kind, NEW n \in Of(kind)  PROVE n \in DOMAIN said /\ said[n] = kind /\ n # 0
  BY <1>1 DEF Of
<1>7. ASSUME ReceivesText  PROVE InOrder' /\ TranscriptInv'
  <2>1. /\ Receives(Of("text")) /\ drain' = [drain EXCEPT !.text = Append(drain.text, Line)]
        /\ drain.text \in Seq(Nat) /\ drain.batch \in Seq(Message)
    BY <1>7 DEF ReceivesText, TranscriptTypeOK
  <2>2. /\ InOrder' /\ said' = said /\ UNCHANGED <<post, stored>> /\ Line \in Nat
        /\ Line \in DOMAIN said /\ said[Line] = "text" /\ Line # 0
        /\ Coming' \subseteq Coming
        /\ \A x \in Coming' : x # 0 => Line < x
        /\ \A n \in Taken : n < Line
    BY <1>4, <1>6, <2>1
  <2>3. /\ drain'.text = Append(drain.text, Line) /\ drain'.seq = drain.seq
        /\ drain'.batch = drain.batch /\ drain'.held = drain.held
    BY <2>1 DEF TranscriptTypeOK
  <2>4. Messages' = Messages
    BY <2>2, <2>3 DEF Messages
  <2>5. /\ Len(drain'.text) = Len(drain.text) + 1 /\ drain'.text[Len(drain.text) + 1] = Line
        /\ \A i \in 1..Len(drain.text) : drain'.text[i] = drain.text[i]
        /\ DOMAIN drain'.text = 1..(Len(drain.text) + 1)
        /\ DOMAIN drain.text = 1..Len(drain.text) /\ Len(drain.text) \in Nat
    <3>1. Append(drain.text, Line) \in Seq(Nat)
      BY <2>1, <2>2
    <3> QED BY <2>1, <2>2, <2>3, <3>1, AppendProperties, LenProperties
  <2>6. \A n \in Range(drain'.text) : n \in Range(drain.text) \/ n = Line
    <3> SUFFICES ASSUME NEW i \in DOMAIN drain'.text
                 PROVE  drain'.text[i] \in Range(drain.text) \/ drain'.text[i] = Line
      BY DEF Range
    <3>1. CASE i = Len(drain.text) + 1
      BY <2>5, <3>1
    <3>2. CASE i # Len(drain.text) + 1
      BY <2>5, <3>2 DEF Range
    <3> QED BY <3>1, <3>2
  <2>7. Increasing(drain'.text)
    <3> SUFFICES ASSUME NEW i \in DOMAIN drain'.text, NEW j \in DOMAIN drain'.text, i < j
                 PROVE  drain'.text[i] < drain'.text[j]
      BY DEF Increasing
    <3>1. i \in DOMAIN drain.text /\ drain'.text[i] = drain.text[i]
      BY <2>5
    <3>2. CASE j = Len(drain.text) + 1
      <4>1. drain.text[i] \in Taken
        BY <3>1 DEF Taken, Range
      <4> QED BY <2>2, <2>5, <3>1, <3>2, <4>1
    <3>3. CASE j # Len(drain.text) + 1
      BY <2>5, <3>1, <3>3 DEF TranscriptInv, TextIsHeld, Increasing
    <3> QED BY <3>2, <3>3
  <2>8. \A n \in Taken' : n \in Taken \/ n = Line
    BY <2>4, <2>6 DEF Taken
  <2>9. \A m \in Messages : \A x \in Range(m.lines) : x < Line
    BY <2>2 DEF Taken
  <2>10. TextIsHeld'
    BY <2>2, <2>4, <2>6, <2>7, <2>9 DEF TranscriptInv, TextIsHeld
  <2>11. (\A m \in Messages' : Told(m)') /\ TranscriptIsTrue'
    BY <2>2, <2>3, <2>4 DEF TranscriptInv, Told, TranscriptIsTrue
  <2>12. \A n \in Taken', x \in Coming' : x # 0 => n < x
    BY <2>2, <2>8 DEF TranscriptInv
  <2> QED BY <2>2, <2>10, <2>11, <2>12 DEF TranscriptInv
\* What is told on its own.
<1>8. ASSUME NEW kind \in {"tool", "error"}, Receives(Of(kind)),
             Messages' \subseteq Messages \union {Numbered(drain.seq + 1, <<Line>>)},
             drain'.seq = drain.seq + 1, drain'.text = drain.text
      PROVE  InOrder' /\ TranscriptInv'
  <2> DEFINE new == Numbered(drain.seq + 1, <<Line>>)
  <2>1. /\ InOrder' /\ said' = said /\ Line \in Nat
        /\ Line \in DOMAIN said /\ said[Line] = kind /\ Line # 0
        /\ Coming' \subseteq Coming
        /\ \A x \in Coming' : x # 0 => Line < x
        /\ \A n \in Taken : n < Line
    BY <1>4, <1>6, <1>8
  <2>2. /\ new.seq = drain.seq + 1 /\ new.lines = <<Line>> /\ new.lines[1] = Line
        /\ new.lines \in Seq(Nat) /\ new.lines # <<>> /\ Range(new.lines) = {Line}
    BY <2>1 DEF Numbered, Range
  <2>3. Increasing(<<Line>>)
    BY DEF Increasing
  <2> HIDE DEF new
  <2>4. \A o \in Messages : \A x \in Range(o.lines) : x < Line
    BY <2>1 DEF Taken
  <2>5. Messages' \subseteq Messages \union {new}
    BY <1>8 DEF new
  <2>6. Increasing(new.lines)
    BY <2>2, <2>3
  <2>7. \A n \in Range(new.lines) : n \in DOMAIN said /\ said[n] = said[new.lines[1]]
    BY <2>1, <2>2
  <2>8. \A n \in Range(new.lines), x \in Coming' : x # 0 => n < x
    BY <2>1, <2>2
  <2>9. \A o \in Messages : said[o.lines[1]] = said[new.lines[1]]
             => \A x \in Range(o.lines), n \in Range(new.lines) : x < n
    BY <2>2, <2>4
  <2>10. said[new.lines[1]] # "text"
    BY <2>1, <2>2
  <2>11. TranscriptInv'
    BY ONLY <1>8, <2>1, <2>2, <2>5, <2>6, <2>7, <2>8, <2>9, <2>10, TellingKeeps,
            TranscriptTypeOK, TranscriptInv
  <2> QED BY <2>1, <2>11
<1>9. ASSUME ReceivesTool  PROVE InOrder' /\ TranscriptInv'
  <2> DEFINE new == Numbered(drain.seq + 1, <<Line>>)
  <2>1. /\ Receives(Of("tool"))
        /\ drain' = [drain EXCEPT !.at = "holding", !.seq = drain.seq + 1, !.held = <<new>>]
    BY <1>9 DEF ReceivesTool
  <2> HIDE DEF new
  <2>2. /\ drain'.seq = drain.seq + 1 /\ drain'.text = drain.text /\ drain'.batch = drain.batch
        /\ drain'.held = <<new>> /\ UNCHANGED <<post, stored>>
    BY <2>1 DEF TranscriptTypeOK, Receives
  <2>3. Range(<<new>>) = {new}
    BY DEF Range
  <2>4. Messages' \subseteq Messages \union {new}
    BY <2>2, <2>3 DEF Messages
  <2> QED BY <1>8, <2>1, <2>2, <2>4 DEF new
<1>10. ASSUME ReceivesError  PROVE InOrder' /\ TranscriptInv'
  <2> DEFINE new == Numbered(drain.seq + 1, <<Line>>)
  <2>1. /\ Receives(Of("error"))
        /\ drain' = [drain EXCEPT !.seq = drain.seq + 1, !.batch = Append(drain.batch, new)]
    BY <1>10 DEF ReceivesError
  <2>5. Line \in Nat /\ drain.seq + 1 \in Nat /\ drain.batch \in Seq(Message)
    BY <1>4, <2>1 DEF TranscriptTypeOK
  <2>6. new \in Message
    BY <2>5 DEF Message, Numbered
  <2> HIDE DEF new
  <2>2. /\ drain'.seq = drain.seq + 1 /\ drain'.text = drain.text /\ drain'.held = drain.held
        /\ drain'.batch = Append(drain.batch, new) /\ UNCHANGED <<post, stored>>
    BY <2>1 DEF TranscriptTypeOK, Receives
  <2>3. Range(drain'.batch) \subseteq Range(drain.batch) \union {new}
    <3>1. drain'.batch = drain.batch \o <<new>> /\ <<new>> \in Seq(Message)
      BY <2>2, <2>5, <2>6, AppendIsConcat
    <3>2. Range(drain.batch \o <<new>>) = Range(drain.batch) \union Range(<<new>>)
      BY ONLY <2>5, <3>1, RangeConcatenation, ZenonT(60)
    <3> QED BY <3>1, <3>2 DEF Range
  <2>4. Messages' \subseteq Messages \union {new}
    BY <2>2, <2>3 DEF Messages
  <2> QED BY <1>8, <2>1, <2>2, <2>4 DEF new
<1>11. ASSUME Batches  PROVE InOrder' /\ TranscriptInv'
  <2>1. /\ UNCHANGED <<sessionVars, post, stored>>
        /\ drain' = [drain EXCEPT !.at = "receiving", !.batch = drain.batch \o drain.held,
                                  !.held = <<>>]
        /\ drain.batch \in Seq(Message) /\ drain.held \in Seq(Message)
    BY <1>11 DEF Batches, TranscriptTypeOK
  <2>2. /\ drain'.seq = drain.seq /\ drain'.text = drain.text /\ drain'.held = <<>>
        /\ drain'.batch = drain.batch \o drain.held
    BY <2>1 DEF TranscriptTypeOK
  <2>3. Range(drain.batch \o drain.held) = Range(drain.batch) \union Range(drain.held)
    BY ONLY <2>1, RangeConcatenation
  <2>4. Range(drain'.held) = {} /\ Range(drain'.batch) = Range(drain.batch) \union Range(drain.held)
    <3>1. Range(<<>>) = {}
      BY DEF Range
    <3> QED BY <2>2, <2>3, <3>1
  <2>5. Messages' \subseteq Messages
    BY <2>1, <2>4 DEF Messages
  <2> QED BY <1>2, <2>1, <2>2, <2>5, ServingKeeps
<1>12. ASSUME ChannelCloses  PROVE InOrder' /\ TranscriptInv'
  <2>1. /\ UNCHANGED <<sessionVars, post, stored>> /\ drain' = [drain EXCEPT !.at = "closed"]
    BY <1>12 DEF ChannelCloses
  <2>2. /\ drain'.seq = drain.seq /\ drain'.text = drain.text /\ drain'.held = drain.held
        /\ drain'.batch = drain.batch
    BY <2>1 DEF TranscriptTypeOK
  <2>3. Messages' \subseteq Messages
    BY <2>1, <2>2 DEF Messages
  <2> QED BY <1>2, <2>1, <2>2, <2>3, ServingKeeps
<1>13. ASSUME Ticks \/ LastFlush  PROVE InOrder' /\ TranscriptInv'
  <2> DEFINE new == Numbered(drain.seq + 1, drain.text)
  <2>1. /\ UNCHANGED <<sessionVars, stored>>
        /\ drain' = Flushed \/ drain' = [Flushed EXCEPT !.at = "over"]
    BY <1>13 DEF Ticks, LastFlush
  <2>2. PICK s \in Sender : Sends(s)
    BY <1>13 DEF Ticks, LastFlush, Sender
  <2>3. /\ drain'.batch = <<>> /\ drain'.text = <<>> /\ drain'.held = drain.held
        /\ drain'.seq = IF drain.text = <<>> THEN drain.seq ELSE drain.seq + 1
    BY <2>1, FlushTypes
  <2>4. \A q \in Sender : Range(post'[q].msgs) \subseteq Range(post[q].msgs) \union Range(ToSend)
    <3>1. post \in [Sender -> Post] /\ Range(NoPost.msgs) = {}
      BY DEF TranscriptTypeOK, NoPost, Range
    <3>2. post'[s].msgs = NoPost.msgs \/ post'[s].msgs = ToSend
      BY <2>2, <3>1 DEF Sends
    <3>3. \A q \in Sender : q # s => post'[q] = post[q]
      BY <2>2, <3>1 DEF Sends
    <3> QED BY <3>1, <3>2, <3>3
  <2>5. Range(drain'.batch) = {}
    BY <2>3 DEF Range
  <2>6. Messages' \subseteq Messages \union (IF drain.text = <<>> THEN {} ELSE {new})
    BY <2>1, <2>3, <2>4, <2>5, FlushTypes DEF Messages
  <2>7. CASE drain.text = <<>>
    BY <1>2, <2>1, <2>3, <2>6, <2>7, ServingKeeps
  <2>8. CASE drain.text # <<>>
    <3>1. drain.text \in Seq(Nat) /\ drain.text[1] \in Range(drain.text)
      BY <2>8, FirstLine DEF TranscriptTypeOK
    <3>2. new.seq = drain.seq + 1 /\ new.lines = drain.text
      BY DEF Numbered
    <3> HIDE DEF new
    <3>3. \A n \in Range(drain.text) : n \in DOMAIN said /\ said[n] = "text"
      BY DEF TranscriptInv, TextIsHeld
    <3>4. \A n \in Range(new.lines) : n \in DOMAIN said /\ said[n] = said[new.lines[1]]
      BY <3>1, <3>2, <3>3
    <3>5. \A n \in Range(new.lines), x \in Coming' : x # 0 => n < x
      BY <1>2, <2>1, <3>2 DEF TranscriptInv, Taken
    <3>6. \A o \in Messages : said[o.lines[1]] = said[new.lines[1]]
             => \A x \in Range(o.lines), n \in Range(new.lines) : x < n
      BY <3>1, <3>2, <3>3 DEF TranscriptInv, TextIsHeld
    <3>7. Increasing(new.lines) /\ new.lines \in Seq(Nat) /\ new.lines # <<>>
      BY <2>8, <3>1, <3>2 DEF TranscriptInv, TextIsHeld
    <3>8. Messages' \subseteq Messages \union {new} /\ drain'.seq = drain.seq + 1
      BY <2>3, <2>6, <2>8
    <3>9. said' = said /\ Coming' \subseteq Coming /\ InOrder' /\ drain'.text = <<>>
      BY <1>2, <2>1, <2>3
    <3>10. TranscriptInv'
      BY ONLY <3>2, <3>4, <3>5, <3>6, <3>7, <3>8, <3>9, TellingKeeps, TranscriptTypeOK,
              TranscriptInv
    <3> QED BY <3>9, <3>10
  <2> QED BY <2>7, <2>8
<1>14. ASSUME NEW s \in Sender, Checks(s) \/ Stores(s) \/ CallFails(s)
       PROVE  InOrder' /\ TranscriptInv'
  <2>1. UNCHANGED <<sessionVars, drain>> /\ post[s].at # "none"
    BY <1>14 DEF Checks, Stores, CallFails
  <2>2. stored' = stored \/ stored' = stored \union {NextOf(s)}
    BY <1>14 DEF Checks, Stores, CallFails, Stored
  <2>3. post \in [Sender -> Post] /\ Range(NoPost.msgs) = {}
    BY DEF TranscriptTypeOK, NoPost, Range
  <2>4. \E p : post' = [post EXCEPT ![s] = p] /\ Range(p.msgs) \subseteq Range(post[s].msgs)
    <3>1. CASE CallFails(s)
      BY <2>3, <3>1 DEF CallFails
    <3>2. CASE Checks(s)
      <4>1. [post[s] EXCEPT !.at = "checked"].msgs = post[s].msgs
        BY <2>3 DEF Post
      <4> QED BY <2>3, <3>2, <4>1 DEF Checks
    <3>3. CASE Stores(s)
      BY <2>1, <2>3, <3>3, PostsAreTyped DEF Stores
    <3> QED BY <1>14, <3>1, <3>2, <3>3
  <2>5. \A q \in Sender : Range(post'[q].msgs) \subseteq Range(post[q].msgs)
    BY <2>3, <2>4
  <2>6. Messages' \subseteq Messages
    BY <2>1, <2>2, <2>5, PostsAreTyped DEF Messages
  <2> QED BY <1>2, <2>1, <2>6, ServingKeeps
<1>15. ASSUME RunEnds  PROVE InOrder' /\ TranscriptInv'
  <2>1. UNCHANGED <<sessionVars, drain, post, stored>>
    BY <1>15 DEF RunEnds
  <2>2. Messages' \subseteq Messages
    BY <2>1 DEF Messages
  <2> QED BY <1>2, <2>1, <2>2, ServingKeeps
<1> QED BY <1>3, <1>5, <1>7, <1>9, <1>10, <1>11, <1>12, <1>13, <1>14, <1>15
        DEF TranscriptNext, Drains, Serves

-----------------------------------------------------------------------------
(* The result.                                                             *)

\* The first r lines were read; the rest is on the wire, or was lost with a line
\* too long.
Halfway(r) ==
    /\ \A i \in DOMAIN wire : wire[i].n = 0 \/ wire[i].n > r
    /\ reader = "reading" => \A n \in (r + 1)..Len(said) : \E i \in DOMAIN wire : wire[i].n = n
    /\ reader = "done" => \/ r = Len(said)
                          \/ /\ r < Len(said) /\ said[r + 1] = "long"
                             /\ backend = "opencode" => verdict = "failed"
    /\ Increasing(output) /\ Range(output) = Counted(r)
    /\ rpc.turn # "none" => \E k \in 1..r : said[k] \in {"done", "aborted"}

SessionInv ==
    /\ ending.at \in {"asking", "awaiting", "turn", "closing"} => backend = "codex"
    /\ ending.at = "reading" => backend # "codex"
    /\ ending.at \notin {"deferred", "over"}
         => outcome.status = "none" /\ \E r \in 0..Len(said) : Halfway(r)
    /\ ending.at = "closing" /\ verdict = "completed" => rpc.turn # "none"
    /\ outcome.status \notin {"none", "failed"} => reader = "done"
    /\ ResultIsWhole

LEMMA CountedOn ==
    ASSUME NEW r \in Nat
    PROVE  /\ \A n \in Counted(r) : n \in Nat /\ n <= r
           /\ said[r + 1] = "text" => Counted(r + 1) = Counted(r) \union {r + 1}
           /\ said[r + 1] \in {"result", "isError"} => Counted(r + 1) = {r + 1}
           /\ said[r + 1] \notin {"text", "result", "isError"} => Counted(r + 1) = Counted(r)
<1> USE DEF Counted
<1>1. \A n \in Counted(r) : n \in Nat /\ n <= r
  OBVIOUS
<1>2. ASSUME NEW n \in 1..r
      PROVE  n \in Counted(r + 1) <=> n \in Counted(r) /\ said[r + 1] \notin {"result", "isError"}
  <2>1. \A k : k \in (n + 1)..(r + 1) <=> k \in (n + 1)..r \/ k = r + 1
    OBVIOUS
  <2> QED BY <2>1
<1>3. r + 1 \in Counted(r + 1) <=> said[r + 1] \in {"text", "result", "isError"}
  OBVIOUS
<1>4. \A n : n \in Counted(r + 1) \/ n \in Counted(r) => n \in 1..r \/ n = r + 1
  OBVIOUS
<1>5. r + 1 \notin Counted(r)
  OBVIOUS
<1> HIDE DEF Counted
<1> QED BY <1>1, <1>2, <1>3, <1>4, <1>5

\* The next line of the wire is the next that was written.
LEMMA NextLine ==
    ASSUME SessionTypeOK, InOrder, NEW r \in 0..Len(said), Halfway(r),
           reader = "reading", wire # <<>>, wire' = Tail(wire), said' = said
    PROVE  /\ Head(wire).n = 0 => /\ Head(wire).kind \in {"ok", "refused"}
                                  /\ \A i \in DOMAIN wire' : wire'[i].n = 0 \/ wire'[i].n > r
                                  /\ \A n \in (r + 1)..Len(said) : \E i \in DOMAIN wire' : wire'[i].n = n
           /\ Head(wire).n # 0 =>
                /\ Head(wire).n = r + 1 /\ r + 1 \in 1..Len(said)
                /\ Head(wire).kind = said[r + 1]
                /\ \A i \in DOMAIN wire' : wire'[i].n = 0 \/ wire'[i].n > r + 1
                /\ \A n \in (r + 2)..Len(said) : \E i \in DOMAIN wire' : wire'[i].n = n
<1>1. wire \in Seq(WireLine) /\ Len(said) \in Nat
  BY LenProperties DEF SessionTypeOK
<1>2. /\ Head(wire) = wire[1] /\ 1 \in DOMAIN wire
      /\ Tail(wire) \in Seq(WireLine) /\ Len(Tail(wire)) = Len(wire) - 1
      /\ \A i \in DOMAIN Tail(wire) : i + 1 \in DOMAIN wire /\ Tail(wire)[i] = wire[i + 1]
  BY <1>1, TailOfSeq
<1>3. /\ DOMAIN wire = 1..Len(wire) /\ Len(wire) \in Nat
      /\ DOMAIN wire' = 1..Len(wire') /\ Len(wire') = Len(wire) - 1
  BY <1>1, <1>2, LenProperties
<1>4. ASSUME NEW i \in DOMAIN wire, i # 1
      PROVE  \E j \in DOMAIN wire' : wire'[j] = wire[i]
  <2>1. i - 1 \in DOMAIN wire' /\ (i - 1) + 1 = i
    BY <1>3, <1>4
  <2> QED BY <1>2, <2>1
<1>5. \A i \in DOMAIN wire : wire[i].n \in Nat /\ WireNo[i] = wire[i].n
  BY DEF InOrder, WireInOrder, WireNo
<1>6. \A i \in DOMAIN wire : i # 1 /\ wire[1].n # 0 /\ wire[i].n # 0 => wire[1].n < wire[i].n
  BY <1>3, <1>5 DEF InOrder, WireInOrder, Rising
<1>7. \A i \in DOMAIN wire' : \E j \in DOMAIN wire : j # 1 /\ wire'[i] = wire[j]
  <2>1. ASSUME NEW i \in DOMAIN wire'  PROVE i + 1 # 1
    BY <1>3
  <2> QED BY <1>2, <2>1
<1>8. ASSUME Head(wire).n = 0
      PROVE  /\ Head(wire).kind \in {"ok", "refused"}
             /\ \A i \in DOMAIN wire' : wire'[i].n = 0 \/ wire'[i].n > r
             /\ \A n \in (r + 1)..Len(said) : \E i \in DOMAIN wire' : wire'[i].n = n
  <2>1. Head(wire).kind \in {"ok", "refused"}
    BY <1>2, <1>8 DEF InOrder, WireInOrder
  <2>2. \A i \in DOMAIN wire' : wire'[i].n = 0 \/ wire'[i].n > r
    BY <1>7 DEF Halfway
  <2>3. ASSUME NEW n \in (r + 1)..Len(said)
        PROVE  \E i \in DOMAIN wire' : wire'[i].n = n
    <3>1. PICK i \in DOMAIN wire : wire[i].n = n
      BY DEF Halfway
    <3>2. i # 1
      BY <1>2, <1>8, <3>1
    <3> QED BY <1>4, <3>1, <3>2
  <2> QED BY <2>1, <2>2, <2>3
<1>9. ASSUME Head(wire).n # 0
      PROVE  /\ Head(wire).n = r + 1 /\ r + 1 \in 1..Len(said)
             /\ Head(wire).kind = said[r + 1]
             /\ \A i \in DOMAIN wire' : wire'[i].n = 0 \/ wire'[i].n > r + 1
             /\ \A n \in (r + 2)..Len(said) : \E i \in DOMAIN wire' : wire'[i].n = n
  <2>1. wire[1].n # 0 /\ wire[1].n > r /\ wire[1].n \in 0..Len(said)
        /\ wire[1].kind = said[wire[1].n]
    BY <1>2, <1>9 DEF InOrder, WireInOrder, Halfway
  <2>2. PICK i \in DOMAIN wire : wire[i].n = r + 1
    <3>1. r + 1 \in (r + 1)..Len(said)
      BY <1>1, <2>1
    <3> QED BY <3>1 DEF Halfway
  <2>3. i = 1
    BY <1>5, <1>6, <2>1, <2>2
  <2>4. Head(wire).n = r + 1 /\ r + 1 \in 1..Len(said) /\ Head(wire).kind = said[r + 1]
    BY <1>1, <1>2, <2>1, <2>2, <2>3
  <2>5. \A j \in DOMAIN wire' : wire'[j].n = 0 \/ wire'[j].n > r + 1
    BY <1>2, <1>6, <1>7, <2>1, <2>4
  <2>6. ASSUME NEW n \in (r + 2)..Len(said)
        PROVE  \E j \in DOMAIN wire' : wire'[j].n = n
    <3>1. PICK j \in DOMAIN wire : wire[j].n = n
      BY DEF Halfway
    <3>2. j # 1
      BY <1>2, <2>4, <3>1
    <3> QED BY <1>4, <3>1, <3>2
  <2> QED BY <2>4, <2>5, <2>6
<1> QED BY <1>8, <1>9

\* What leaves the reader and what it read as they are.
LEMMA HalfwayStays ==
    ASSUME NEW r, Halfway(r), UNCHANGED <<backend, said, wire, reader, output>>,
           rpc'.turn = rpc.turn, backend = "opencode" => verdict' = verdict
    PROVE  Halfway(r)'
  BY DEF Halfway, Counted

\* The result is taken.
LEMMA WholeWhenTaken ==
    ASSUME SessionTypeOK, NEW r \in 0..Len(said), Halfway(r), reader = "done",
           UNCHANGED <<backend, said, output>>,
           outcome'.output = output,
           outcome'.status = "completed" =>
             verdict = "completed" /\ (backend = "codex" => rpc.turn # "none")
    PROVE  ResultIsWhole'
<1> SUFFICES ASSUME outcome'.status = "completed",
                    ~(backend = "claude" /\ "long" \in Range(said))
             PROVE  Counted(r) \intersect InTime = Counted(Len(said)) \intersect InTime
  BY DEF ResultIsWhole, Halfway, Counted, InTime
<1>1. said \in Seq(Kinds) /\ Len(said) \in Nat /\ DOMAIN said = 1..Len(said)
      /\ backend \in {"codex", "claude", "opencode"}
  BY LenProperties, SessionAssumption DEF SessionTypeOK
<1>2. CASE r = Len(said)
  BY <1>2
<1>3. CASE r < Len(said) /\ said[r + 1] = "long" /\ (backend = "opencode" => verdict = "failed")
  <2>1. "long" \in Range(said)
    BY <1>1, <1>3 DEF Range
  <2>2. backend = "codex"
    BY <1>1, <1>3, <2>1
  <2>3. PICK k \in 1..r : said[k] \in {"done", "aborted"}
    BY <2>2 DEF Halfway
  <2>4. \A n \in InTime : n \in 1..r
    BY <1>1, <1>3, <2>3 DEF InTime
  <2>5. Kinds = {"text", "tool", "long"} \union {"done", "aborted"}
    BY <2>2 DEF Kinds
  <2>6. \A n \in DOMAIN said : said[n] \notin {"result", "isError"}
    BY <1>1, <2>5, ElementOfSeq
  <2>7. \A n \in 1..r : n \in Counted(r) <=> n \in Counted(Len(said))
    BY <1>1, <1>3, <2>6 DEF Counted
  <2> QED BY <2>4, <2>7
<1> QED BY <1>2, <1>3 DEF Halfway

\* A step that hears a line takes the reader one line further.
LEMMA HearingKeeps ==
    ASSUME SessionTypeOK, InOrder, NEW r \in 0..Len(said), Halfway(r),
           reader = "reading", wire # <<>>, wire' = Tail(wire), said' = said,
           UNCHANGED <<backend, reader>>,
           \/ /\ output' = output /\ rpc'.turn = rpc.turn
              /\ Head(wire).kind \notin {"text", "result", "isError"}
           \/ /\ output' = output /\ Head(wire).kind \in {"done", "aborted"}
           \/ /\ output' = Append(output, Head(wire).n) /\ rpc'.turn = rpc.turn
              /\ Head(wire).kind = "text"
           \/ /\ output' = <<Head(wire).n>> /\ rpc'.turn = rpc.turn
              /\ Head(wire).kind \in {"result", "isError"}
    PROVE  \E q \in 0..Len(said') : Halfway(q)'
<1>1. r \in Nat /\ Len(said) \in Nat /\ output \in Seq(Nat)
  BY LenProperties DEF SessionTypeOK
<1>2. Counted(r)' = Counted(r) /\ Counted(r + 1)' = Counted(r + 1)
  BY DEF Counted
<1>3. CASE Head(wire).n = 0
  <2>1. Head(wire).kind \in {"ok", "refused"}
        /\ (\A i \in DOMAIN wire' : wire'[i].n = 0 \/ wire'[i].n > r)
        /\ \A n \in (r + 1)..Len(said) : \E i \in DOMAIN wire' : wire'[i].n = n
    BY <1>3, NextLine
  <2>2. output' = output /\ rpc'.turn = rpc.turn
    BY <2>1
  <2>3. Halfway(r)'
    BY <1>2, <2>1, <2>2 DEF Halfway
  <2> QED BY <2>3
<1>4. CASE Head(wire).n # 0
  <2> DEFINE kind == Head(wire).kind
  <2>1. /\ Head(wire).n = r + 1 /\ r + 1 \in 1..Len(said)
        /\ kind = said[r + 1]
        /\ \A i \in DOMAIN wire' : wire'[i].n = 0 \/ wire'[i].n > r + 1
        /\ \A n \in (r + 2)..Len(said) : \E i \in DOMAIN wire' : wire'[i].n = n
    BY <1>4, NextLine
  <2>2. /\ \A n \in Counted(r) : n \in Nat /\ n <= r
        /\ kind = "text" => Counted(r + 1) = Counted(r) \union {r + 1}
        /\ kind \in {"result", "isError"} => Counted(r + 1) = {r + 1}
        /\ kind \notin {"text", "result", "isError"} => Counted(r + 1) = Counted(r)
    BY <1>1, <2>1, CountedOn
  <2>3. rpc'.turn # "none" => \E k \in 1..(r + 1) : said[k] \in {"done", "aborted"}
    <3>1. CASE rpc'.turn = rpc.turn
      BY <1>1, <3>1 DEF Halfway
    <3>2. CASE kind \in {"done", "aborted"}
      BY <1>1, <2>1, <3>2
    <3> QED BY <3>1, <3>2
  <2>4. Increasing(output') /\ Range(output') = Counted(r + 1)
    <3>1. CASE output' = output
      <4>1. kind \notin {"text", "result", "isError"}
        <5>1. output # Append(output, Head(wire).n)
          BY <1>1, <2>1, AppendProperties
        <5>2. output = <<Head(wire).n>> => FALSE
          <6>1. ASSUME output = <<Head(wire).n>>  PROVE FALSE
            <7>1. r + 1 \in Range(output)
              BY <2>1, <6>1 DEF Range
            <7> QED BY <1>1, <2>2, <7>1 DEF Halfway
          <6> QED BY <6>1
        <5> QED BY <3>1, <5>1, <5>2
      <4> QED BY <2>2, <3>1, <4>1 DEF Halfway
    <3>2. CASE output' = Append(output, r + 1) /\ kind = "text"
      <4>1. /\ Len(output') = Len(output) + 1 /\ output'[Len(output) + 1] = r + 1
            /\ \A i \in 1..Len(output) : output'[i] = output[i]
        BY <1>1, <3>2, AppendProperties
      <4>2. /\ DOMAIN output' = 1..(Len(output) + 1) /\ DOMAIN output = 1..Len(output)
            /\ Len(output) \in Nat
        <5>1. Append(output, r + 1) \in Seq(Nat)
          BY <1>1
        <5> QED BY <1>1, <3>2, <4>1, <5>1, LenProperties
      <4>3. Range(output') = Range(output) \union {r + 1}
        <5>1. ASSUME NEW i \in DOMAIN output'
              PROVE  output'[i] \in Range(output) \/ output'[i] = r + 1
          <6>1. CASE i = Len(output) + 1
            BY <4>1, <6>1
          <6>2. CASE i # Len(output) + 1
            BY <4>1, <4>2, <6>2 DEF Range
          <6> QED BY <6>1, <6>2
        <5>2. r + 1 \in Range(output')
          BY <4>1, <4>2 DEF Range
        <5>3. \A i \in DOMAIN output : output[i] \in Range(output')
          BY <4>1, <4>2 DEF Range
        <5> QED BY <5>1, <5>2, <5>3 DEF Range
      <4>4. ASSUME NEW i \in DOMAIN output', NEW j \in DOMAIN output', i < j
            PROVE  output'[i] < output'[j]
        <5>1. i \in DOMAIN output /\ output'[i] = output[i]
          BY <4>1, <4>2, <4>4
        <5>2. CASE j = Len(output) + 1
          <6>1. output[i] \in Counted(r)
            BY <5>1 DEF Range, Halfway
          <6> QED BY <1>1, <2>2, <4>1, <5>1, <5>2, <6>1
        <5>3. CASE j # Len(output) + 1
          BY <4>1, <4>2, <4>4, <5>1, <5>3 DEF Halfway, Increasing
        <5> QED BY <5>2, <5>3
      <4>5. Increasing(output')
        BY <4>4 DEF Increasing
      <4> QED BY <2>2, <3>2, <4>3, <4>5 DEF Halfway
    <3>3. CASE output' = <<r + 1>> /\ kind \in {"result", "isError"}
      <4>1. Increasing(<<r + 1>>) /\ Range(<<r + 1>>) = {r + 1}
        BY DEF Increasing, Range
      <4> QED BY <2>2, <3>3, <4>1
    <3> QED BY <2>1, <3>1, <3>2, <3>3
  <2>5. Halfway(r + 1)'
    <3>1. (r + 1) + 1 = r + 2
      BY <1>1
    <3> QED BY <1>2, <2>1, <2>3, <2>4, <3>1 DEF Halfway
  <2> QED BY <2>1, <2>5
<1> QED BY <1>3, <1>4

LEMMA ResultKept ==
    ASSUME TranscriptTypeOK, InOrder, SessionInv, SessionNext
    PROVE  SessionInv'
<1>1. SessionTypeOK /\ said \in Seq(Kinds) /\ Len(said) \in Nat /\ DOMAIN said = 1..Len(said)
  BY LenProperties DEF TranscriptTypeOK, SessionTypeOK
<1> DEFINE Going == ending.at \notin {"deferred", "over"}
\* While the reader reads, there is no result to be whole.
<1>2. ASSUME reader = "reading", UNCHANGED <<backend, ending, outcome>>,
             ending.at = "closing" /\ verdict' = "completed" => rpc'.turn # "none",
             Going => \E r \in 0..Len(said') : Halfway(r)'
      PROVE  SessionInv'
  BY <1>2 DEF SessionInv, ResultIsWhole
<1>3. ASSUME NEW kind \in Kinds, Writes(kind)  PROVE SessionInv'
  <2>1. /\ said' = Append(said, kind) /\ wire' = Append(wire, [kind |-> kind, n |-> Len(said) + 1])
        /\ reader = "reading" /\ reader' = reader
        /\ UNCHANGED <<backend, rpc, ending, verdict, output, outcome>>
    BY <1>3 DEF Writes
  <2>2. /\ Len(said') = Len(said) + 1
        /\ \A n \in 1..Len(said) : said'[n] = said[n]
    BY <1>1, <2>1, AppendProperties
  <2>3. wire \in Seq(WireLine) /\ Len(wire) \in Nat /\ DOMAIN wire = 1..Len(wire)
    BY <1>1, LenProperties DEF SessionTypeOK
  <2> DEFINE last == [kind |-> kind, n |-> Len(said) + 1]
  <2>4. last \in WireLine /\ last.n = Len(said) + 1
    BY <1>1 DEF WireLine
  <2> HIDE DEF last
  <2>5. /\ Len(wire') = Len(wire) + 1 /\ wire'[Len(wire) + 1] = last
        /\ \A i \in 1..Len(wire) : wire'[i] = wire[i]
        /\ DOMAIN wire' = 1..(Len(wire) + 1)
    <3>1. wire' = Append(wire, last)
      BY <2>1 DEF last
    <3> QED BY <2>3, <2>4, <3>1, AppendProperties, LenProperties
  <2>6. ASSUME NEW r \in 0..Len(said), Halfway(r)  PROVE Halfway(r)'
    <3>1. ASSUME NEW i \in DOMAIN wire'  PROVE wire'[i].n = 0 \/ wire'[i].n > r
      <4>1. CASE i = Len(wire) + 1
        BY <1>1, <2>4, <2>5, <4>1
      <4>2. CASE i # Len(wire) + 1
        BY <2>3, <2>5, <2>6, <4>2 DEF Halfway
      <4> QED BY <4>1, <4>2
    <3>2. ASSUME NEW n \in (r + 1)..Len(said')  PROVE \E i \in DOMAIN wire' : wire'[i].n = n
      <4>1. CASE n = Len(said) + 1
        BY <2>3, <2>4, <2>5, <4>1
      <4>2. CASE n # Len(said) + 1
        <5>1. n \in (r + 1)..Len(said)
          BY <1>1, <2>2, <4>2
        <5>2. PICK i \in DOMAIN wire : wire[i].n = n
          BY <2>1, <2>6, <5>1 DEF Halfway
        <5> QED BY <2>3, <2>5, <5>2
      <4> QED BY <4>1, <4>2
    <3>3. \A k \in 1..r : said'[k] = said[k]
      BY <1>1, <2>2
    <3>4. Counted(r)' = Counted(r)
      BY <3>3 DEF Counted
    <3> QED BY <2>1, <2>6, <3>1, <3>2, <3>3, <3>4 DEF Halfway
  <2>7. Going => \E r \in 0..Len(said') : Halfway(r)'
    BY <1>1, <2>2, <2>6 DEF SessionInv
  <2> QED BY <1>2, <2>1, <2>7 DEF SessionInv
<1>4. ASSUME NEW kind \in {"ok", "refused"}, Replies(kind)  PROVE SessionInv'
  <2>1. /\ wire' = Append(wire, [kind |-> kind, n |-> 0])
        /\ reader = "reading" /\ reader' = reader
        /\ UNCHANGED <<backend, said, rpc, ending, verdict, output, outcome>>
    BY <1>4 DEF Replies
  <2> DEFINE last == [kind |-> kind, n |-> 0]
  <2>3. wire \in Seq(WireLine) /\ Len(wire) \in Nat /\ DOMAIN wire = 1..Len(wire)
    BY <1>1, LenProperties DEF SessionTypeOK
  <2>4. last \in WireLine /\ last.n = 0
    BY DEF WireLine
  <2> HIDE DEF last
  <2>5. /\ Len(wire') = Len(wire) + 1 /\ wire'[Len(wire) + 1] = last
        /\ \A i \in 1..Len(wire) : wire'[i] = wire[i]
        /\ DOMAIN wire' = 1..(Len(wire) + 1)
    <3>1. wire' = Append(wire, last)
      BY <2>1 DEF last
    <3> QED BY <2>3, <2>4, <3>1, AppendProperties, LenProperties
  <2>6. ASSUME NEW r \in 0..Len(said), Halfway(r)  PROVE Halfway(r)'
    <3>1. ASSUME NEW i \in DOMAIN wire'  PROVE wire'[i].n = 0 \/ wire'[i].n > r
      <4>1. CASE i = Len(wire) + 1
        BY <2>4, <2>5, <4>1
      <4>2. CASE i # Len(wire) + 1
        BY <2>3, <2>5, <2>6, <4>2 DEF Halfway
      <4> QED BY <4>1, <4>2
    <3>2. ASSUME NEW n \in (r + 1)..Len(said)  PROVE \E i \in DOMAIN wire' : wire'[i].n = n
      <4>1. PICK i \in DOMAIN wire : wire[i].n = n
        BY <2>1, <2>6 DEF Halfway
      <4> QED BY <2>3, <2>5, <4>1
    <3>3. Counted(r)' = Counted(r)
      BY <2>1 DEF Counted
    <3> QED BY <2>1, <2>6, <3>1, <3>2, <3>3 DEF Halfway
  <2>7. Going => \E r \in 0..Len(said') : Halfway(r)'
    BY <2>1, <2>6 DEF SessionInv
  <2> QED BY <1>2, <2>1, <2>7 DEF SessionInv
\* Lines that are heard.
<1>5. ASSUME NEW kinds, Reads(kinds), UNCHANGED <<backend, said, reader, ending, outcome>>,
             ending.at = "closing" /\ verdict' = "completed" => rpc'.turn # "none",
             \/ /\ output' = output /\ rpc'.turn = rpc.turn
                /\ Head(wire).kind \notin {"text", "result", "isError"}
             \/ /\ output' = output /\ Head(wire).kind \in {"done", "aborted"}
             \/ /\ output' = Append(output, Head(wire).n) /\ rpc'.turn = rpc.turn
                /\ Head(wire).kind = "text"
             \/ /\ output' = <<Head(wire).n>> /\ rpc'.turn = rpc.turn
                /\ Head(wire).kind \in {"result", "isError"}
      PROVE  SessionInv'
  <2>1. reader = "reading" /\ wire # <<>> /\ wire' = Tail(wire)
    BY <1>5 DEF Reads
  <2>2. ASSUME Going  PROVE \E r \in 0..Len(said') : Halfway(r)'
    <3>1. PICK r \in 0..Len(said) : Halfway(r)
      BY <2>2 DEF SessionInv
    <3> HIDE DEF Going
    <3> QED BY <1>1, <1>5, <2>1, <3>1, HearingKeeps
  <2> QED BY <1>2, <1>5, <2>1, <2>2
<1>6. ASSUME HandleText  PROVE SessionInv'
  BY <1>5, <1>6 DEF HandleText, Reads, procVars, SessionInv
<1>7. ASSUME HandleTool  PROVE SessionInv'
  BY <1>5, <1>7 DEF HandleTool, Reads, procVars, SessionInv
<1>8. ASSUME HandleError  PROVE SessionInv'
  BY <1>5, <1>8 DEF HandleError, Reads, procVars
<1>9. ASSUME HandleResult  PROVE SessionInv'
  BY <1>5, <1>9 DEF HandleResult, Reads, procVars, SessionInv
<1>10. ASSUME HandleTurnEnd  PROVE SessionInv'
  <2>1. rpc'.turn # "none"
    BY <1>1, <1>10 DEF HandleTurnEnd, Reads, SessionTypeOK, Rpc
  <2> QED BY <1>5, <1>10, <2>1 DEF HandleTurnEnd, Reads, procVars
<1>11. ASSUME HandleResponse  PROVE SessionInv'
  <2>1. rpc'.turn = rpc.turn
    BY <1>1, <1>11 DEF HandleResponse, SessionTypeOK, Rpc
  <2> QED BY <1>5, <1>11, <2>1 DEF HandleResponse, Reads, procVars, SessionInv
<1>12. ASSUME ScanEnds  PROVE SessionInv'
  <2>1. /\ reader = "reading" /\ reader' = "done" /\ wire' = <<>>
        /\ UNCHANGED <<backend, said, ending, output, outcome>>
        /\ verdict' \in {verdict, "failed"}
    BY <1>12 DEF ScanEnds, procVars
  <2>2. rpc'.turn = rpc.turn
    BY <1>1, <1>12 DEF ScanEnds, PendingClosed, SessionTypeOK, Rpc
  <2>3. ASSUME NEW r \in 0..Len(said), Halfway(r)  PROVE Halfway(r)'
    <3>1. \/ r = Len(said)
          \/ r < Len(said) /\ said[r + 1] = "long" /\ (backend = "opencode" => verdict' = "failed")
      <4>1. CASE wire = <<>>
        <5>1. DOMAIN wire = {}
          BY <4>1
        <5>2. ASSUME r < Len(said)  PROVE FALSE
          <6>1. r + 1 \in (r + 1)..Len(said)
            BY <1>1, <5>2
          <6> QED BY <2>1, <2>3, <5>1, <6>1 DEF Halfway
        <5>3. r \in Nat /\ r <= Len(said) /\ Len(said) \in Nat
          BY <1>1
        <5>4. ~(r < Len(said))
          BY <5>2
        <5>5. r = Len(said)
          BY ONLY <5>3, <5>4
        <5> QED BY <5>5
      <4>2. CASE wire # <<>>
        <5>1. Head(wire).kind = "long" /\ (backend = "opencode" => verdict' = "failed")
          BY <1>12, <4>2 DEF ScanEnds
        <5>2. /\ Head(wire) = wire[1] /\ 1 \in DOMAIN wire
          BY <1>1, <4>2, TailOfSeq DEF SessionTypeOK
        <5>3. /\ wire[1].n # 0 /\ wire[1].n \in 0..Len(said) /\ said[wire[1].n] = "long"
          BY <5>1, <5>2 DEF InOrder, WireInOrder
        <5>4. wire[1].n > r
          BY <2>3, <5>2, <5>3 DEF Halfway
        <5>5. PICK i \in DOMAIN wire : wire[i].n = r + 1
          <6>1. r + 1 \in (r + 1)..Len(said)
            BY <1>1, <5>3, <5>4
          <6> QED BY <2>1, <2>3, <6>1 DEF Halfway
        <5>6. i = 1
          <6>1. DOMAIN wire = 1..Len(wire) /\ Len(wire) \in Nat
            BY <1>1, LenProperties DEF SessionTypeOK
          <6>2. WireNo[1] = wire[1].n /\ WireNo[i] = r + 1
            BY <5>2, <5>5 DEF WireNo
          <6>3. i # 1 => WireNo[1] < WireNo[i]
            BY <1>1, <5>2, <5>3, <5>5, <6>1, <6>2 DEF InOrder, WireInOrder, Rising
          <6> QED BY <1>1, <5>3, <5>4, <6>2, <6>3
        <5>7. said[r + 1] = "long" /\ r + 1 \in 0..Len(said)
          BY <5>3, <5>5, <5>6
        <5>8. r < Len(said)
          BY <1>1, <5>7
        <5> QED BY <5>1, <5>7, <5>8
      <4> QED BY <4>1, <4>2
    <3>2. Counted(r)' = Counted(r) /\ DOMAIN wire' = {}
      BY <2>1 DEF Counted
    <3> QED BY <2>1, <2>2, <2>3, <3>1, <3>2 DEF Halfway
  <2> QED BY <2>1, <2>2, <2>3 DEF SessionInv, ResultIsWhole
\* Steps that touch neither what was said nor what was read of it.
<1>13. ASSUME UNCHANGED <<backend, said, wire, reader, output, outcome>>, rpc'.turn = rpc.turn,
              ending'.at \in {"deferred", "over"} \/ Going,
              ending'.at \notin {"deferred", "over"} =>
                 /\ ending'.at = "reading" => ending.at = "reading"
                 /\ backend = "codex" \/ ending'.at = ending.at
                 /\ verdict' = verdict \/ backend = "codex"
                 /\ ending'.at = "closing" /\ verdict' = "completed" => rpc.turn # "none"
       PROVE  SessionInv'
  <2>1. Going => \E r \in 0..Len(said) : Halfway(r)
    BY DEF SessionInv
  <2>2. ASSUME ending'.at \notin {"deferred", "over"}
        PROVE  \E r \in 0..Len(said') : Halfway(r)'
    BY <1>13, <2>1, <2>2, HalfwayStays
  <2>3. ResultIsWhole'
    BY <1>13 DEF SessionInv, ResultIsWhole, Counted, InTime, Increasing
  <2> QED BY <1>13, <2>2, <2>3 DEF SessionInv
<1>14. ASSUME NEW how \in {"ok", "bad"}, Exits(how)  PROVE SessionInv'
  BY <1>13, <1>14 DEF Exits, SessionInv
<1>15. ASSUME NEW why \in {"deadline", "cancelled"}, ContextEnds(why)  PROVE SessionInv'
  BY <1>13, <1>15 DEF ContextEnds, SessionInv
<1>16. ASSUME NEW place, MovesOn(place)  PROVE ending'.at = place
  BY <1>1, <1>16 DEF MovesOn, SessionTypeOK
<1>17. ASSUME Asks  PROVE SessionInv'
  <2>1. rpc'.turn = rpc.turn
    BY <1>1, <1>17 DEF Asks, SessionTypeOK, Rpc
  <2>2. ending'.at = "awaiting" /\ ending.at = "asking" /\ backend = "codex"
    BY <1>16, <1>17 DEF Asks, At, SessionInv
  <2> QED BY <1>13, <1>17, <2>1, <2>2 DEF Asks, procVars
<1>18. ASSUME GetsAnswer  PROVE SessionInv'
  <2>1. ending'.at \in {"asking", "turn"} /\ ending.at = "awaiting" /\ backend = "codex"
    BY <1>16, <1>18 DEF GetsAnswer, At, SessionInv
  <2> QED BY <1>13, <1>18, <2>1 DEF GetsAnswer, procVars
<1>19. ASSUME WriteFails \/ Refused \/ RequestInterrupted  PROVE SessionInv'
  <2>1. ending'.at = "deferred" /\ outcome'.status = "failed"
    BY <1>16, <1>19 DEF WriteFails, Refused, RequestInterrupted, Fails
  <2> QED BY <2>1 DEF SessionInv, ResultIsWhole
<1>20. ASSUME TurnEnds  PROVE SessionInv'
  <2>1. ending'.at = "closing" /\ ending.at = "turn" /\ backend = "codex"
    BY <1>16, <1>20 DEF TurnEnds, At, SessionInv
  <2>2. verdict' = "completed" => rpc.turn # "none"
    BY <1>20 DEF TurnEnds, Interruption
  <2> QED BY <1>13, <1>20, <2>1, <2>2 DEF TurnEnds, procVars
<1>21. ASSUME Collects \/ Finishes  PROVE SessionInv'
  <2>1. /\ reader = "done" /\ reader' = reader /\ UNCHANGED <<backend, said, output>>
        /\ ending'.at = "deferred" /\ outcome'.output = output
        /\ ending.at \notin {"deferred", "over"}
    BY <1>16, <1>21 DEF Collects, Finishes, At, procVars
  <2>2. PICK r \in 0..Len(said) : Halfway(r)
    BY <2>1 DEF SessionInv
  <2>3. outcome'.status = "completed" =>
             verdict = "completed" /\ (backend = "codex" => rpc.turn # "none")
    BY <1>21 DEF Collects, Finishes, FinalStatus, Interruption, At, SessionInv
  <2>4. ResultIsWhole'
    BY <1>1, <2>1, <2>2, <2>3, WholeWhenTaken
  <2> QED BY <2>1, <2>4 DEF SessionInv
<1>22. ASSUME Leaves  PROVE SessionInv'
  <2>1. /\ ending'.at = "over" /\ UNCHANGED <<backend, said, reader, output, outcome>>
    BY <1>16, <1>22 DEF Leaves, procVars
  <2>2. ResultIsWhole'
    BY <2>1 DEF SessionInv, ResultIsWhole, Counted, InTime, Increasing
  <2> QED BY <2>1, <2>2 DEF SessionInv
<1> QED BY <1>3, <1>4, <1>6, <1>7, <1>8, <1>9, <1>10, <1>11, <1>12, <1>14, <1>15, <1>17, <1>18,
           <1>19, <1>20, <1>21, <1>22
        DEF SessionNext, Process, Scans, HandleNotification, Concludes, Kill

-----------------------------------------------------------------------------
SessionInvariant == TranscriptTypeOK /\ InOrder /\ TranscriptInv /\ SessionInv

LEMMA SessionStarts == TranscriptInit => SessionInvariant
<1> SUFFICES ASSUME TranscriptInit  PROVE SessionInvariant
  OBVIOUS
<1> USE DEF TranscriptInit, SessionInit
<1>1. <<>> \in Seq(Kinds) /\ <<>> \in Seq(WireLine) /\ <<>> \in Seq(Nat) /\ <<>> \in Seq(Message)
      /\ Len(<<>>) = 0 /\ DOMAIN <<>> = {} /\ Range(<<>>) = {}
  BY DEF Range
<1>2. SessionTypeOK
  <2>1. MaxLines[backend] \in Nat /\ Capacity \in Nat
    BY SessionAssumption
  <2>2. outcome \in [status : Verdict \union {"none"}, output : Seq(Nat)]
    BY <1>1 DEF NoResult
  <2>3. rpc \in Rpc /\ verdict \in Verdict
    BY DEF Rpc, Verdict
  <2>4. /\ chan \in [buf : Seq(Nat), closed : BOOLEAN] /\ Len(chan.buf) <= Capacity
        /\ Len(said) <= MaxLines[backend]
    BY <1>1, <2>1
  <2>5. ending \in [at : {"asking", "awaiting", "turn", "closing", "reading", "deferred", "over"},
                    no : 1..3]
    OBVIOUS
  <2> QED BY <1>1, <2>2, <2>3, <2>4, <2>5 DEF SessionTypeOK
<1>3. TranscriptTypeOK
  BY <1>1, <1>2, TranscriptAssumption DEF TranscriptTypeOK, Post, NoPost
<1>4. InOrder
  BY <1>1 DEF InOrder, WireInOrder, ChannelInOrder, Rising
<1>5. Messages = {} /\ Taken = {}
  BY <1>1 DEF Messages, Taken, NoPost
<1>6. TranscriptInv
  BY <1>1, <1>5 DEF TranscriptInv, TranscriptIsTrue, TextIsHeld, Increasing
<1>7. Halfway(0)
  BY <1>1 DEF Halfway, Counted, Increasing
<1>8. SessionInv
  BY <1>1, <1>7 DEF SessionInv, ResultIsWhole, NoResult
<1> QED BY <1>3, <1>4, <1>6, <1>8 DEF SessionInvariant

LEMMA SessionGoesOn == SessionInvariant /\ [TranscriptNext]_transcriptVars => SessionInvariant'
<1> SUFFICES ASSUME SessionInvariant, [TranscriptNext]_transcriptVars  PROVE SessionInvariant'
  OBVIOUS
<1>1. TranscriptTypeOK /\ InOrder /\ TranscriptInv /\ SessionInv
  BY DEF SessionInvariant
<1>2. CASE TranscriptNext
  <2>1. TranscriptTypeOK'
    BY <1>1, <1>2, TranscriptTypesKept
  <2>2. InOrder' /\ TranscriptInv'
    BY <1>1, <1>2, <2>1, TranscriptKept
  <2>3. SessionInv'
    <3>1. CASE SessionNext
      BY <1>1, <3>1, ResultKept
    <3>2. CASE \E lines : Receives(lines)
      BY <1>1, <3>2 DEF Receives, SessionInv, Halfway, Counted, ResultIsWhole, InTime, Increasing
    <3>3. CASE UNCHANGED sessionVars
      BY <1>1, <3>3 DEF sessionVars, SessionInv, Halfway, Counted, ResultIsWhole, InTime,
                        Increasing
    <3>4. SessionNext \/ (\E lines : Receives(lines)) \/ UNCHANGED sessionVars
      BY <1>2 DEF TranscriptNext, Drains, ReceivesSession, ReceivesText, ReceivesTool,
                  ReceivesError, Batches, ChannelCloses, LastFlush, Ticks, Serves, Checks,
                  Stores, CallFails, RunEnds
    <3> QED BY <3>1, <3>2, <3>3, <3>4
  <2> QED BY <2>1, <2>2, <2>3 DEF SessionInvariant
<1>3. CASE UNCHANGED transcriptVars
  <2>1. UNCHANGED sessionVars /\ UNCHANGED deliveryVars
    BY <1>3 DEF transcriptVars
  <2>2. SessionTypeOK' /\ TranscriptTypeOK'
    <3>1. Kinds' = Kinds /\ WireLine' = WireLine
      BY <2>1 DEF sessionVars, Kinds, WireLine
    <3>2. SessionTypeOK'
      BY <1>1, <2>1, <3>1 DEF sessionVars, TranscriptTypeOK, SessionTypeOK
    <3> QED BY <1>1, <2>1, <3>2 DEF deliveryVars, TranscriptTypeOK
  <2>3. InOrder'
    BY <1>1, <2>1 DEF sessionVars, InOrder, WireInOrder, ChannelInOrder, WireNo
  <2>4. SessionInv'
    BY <1>1, <2>1 DEF sessionVars, SessionInv, Halfway, Counted, ResultIsWhole, InTime, Increasing
  <2>5. Messages' = Messages /\ Taken' = Taken /\ Coming' = Coming
    BY <2>1 DEF sessionVars, deliveryVars, Messages, Taken, Coming
  <2>6. TranscriptInv'
    BY <1>1, <2>1, <2>5 DEF sessionVars, deliveryVars, TranscriptInv, Told, TextIsHeld,
                            TranscriptIsTrue, Increasing
  <2> QED BY <2>2, <2>3, <2>4, <2>6 DEF SessionInvariant
<1> QED BY <1>2, <1>3

\* For any backend, buffer, number of lines and of failed calls: the transcript
\* is true and a result that says "completed" is whole.
THEOREM ASessionIsTold == TranscriptSpec => []SessionIsTold
<1>1. TranscriptInit => SessionInvariant
  BY SessionStarts
<1>2. SessionInvariant /\ [TranscriptNext]_transcriptVars => SessionInvariant'
  BY SessionGoesOn
<1>3. SessionInvariant => SessionIsTold
  BY DEF SessionInvariant, SessionIsTold, SessionInv, TranscriptInv
<1> QED BY <1>1, <1>2, <1>3, PTL DEF TranscriptSpec

\* Nothing is stored for a Run that has ended.
THEOREM EndedRunsStayClosed == TranscriptSpec => EndedRunsAreClosed
<1>1. [TranscriptNext]_transcriptVars => [run = "ended" => stored' = stored]_transcriptVars
  <2> SUFFICES ASSUME TranscriptNext, run = "ended"  PROVE stored' = stored
    OBVIOUS
  <2> QED BY DEF TranscriptNext, deliveryVars, Drains, Receives, ReceivesSession, ReceivesText,
                 ReceivesTool, ReceivesError, Batches, ChannelCloses, LastFlush, Ticks, Serves,
                 Checks, Stores, CallFails, RunEnds
<1> QED BY <1>1, PTL DEF TranscriptSpec, EndedRunsAreClosed
=============================================================================
