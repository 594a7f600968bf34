---------------------------- MODULE EngineeringLoop ----------------------------
(***************************************************************************)
(* One Engineering Loop: the row in table loops, the Work Items of its     *)
(* stages and the terminal facts about them.  Models                       *)
(* internal/loop/coordinator.go (StartLoop, decideNextStage, applyDecision,*)
(* RestoreOnStartup), internal/loop/lifecycle_projector.go (the durable    *)
(* consumer) and internal/handler/loop.go (create, pause, resume, cancel). *)
(*                                                                         *)
(* What happens to an item is that of module RunLifecycle with its Runs    *)
(* left out.  UpdateStatus (store.go) writes status, stage and iteration   *)
(* whole: a caller that leaves one out writes NULL or 0.                   *)
(*                                                                         *)
(* A server restarts in three steps: it drains the terminal facts, restores*)
(* the running loops and only then serves requests.                        *)
(***************************************************************************)
EXTENDS Naturals, Sequences

CONSTANTS
    MaxIterations,   \* max_iterations of the loop; 5 unless the request says otherwise
    MaxTries,        \* failed deliveries before a fact is dead-lettered; 20 in the code
    Projector,       \* concurrent consumers of the facts
    User,            \* users whose requests to pause, resume or cancel may overlap
    NoEnd,
    NoRequest,
    MaxAsks,         \* bound: requests by users
    MaxMishaps,      \* bound: items lost or withdrawn, slots taken, agents gone
    MaxRestarts      \* bound: restarts of the server

Stage == {"plan", "develop", "review", "fix"}
NoStage == "none"
LoopStatus == {"pending", "running", "paused", "done", "failed", "cancelled"}
\* "waiting" is queued or dispatched; "offline" is failed by the sweep, for a
\* recovery to find; "over" is completed, failed for good or cancelled.
ItemStatus == {"waiting", "running", "offline", "over"}
LoopRow == [status : LoopStatus, stage : Stage \union {NoStage}, iteration : 0..MaxIterations]
EndType == {"run.completed", "run.failed", "work_item.rejected"}

ASSUME LoopAssumption ==
    /\ MaxIterations \in Nat
    /\ MaxTries \in Nat \ {0}
    /\ NoRequest \notin LoopRow

VARIABLES
    loop,            \* status, stage and iteration of the row in loops
    items,           \* the stage items of the loop, in the order of their creation:
                     \* stage, status, whether a sweep took them for lost, and how
                     \* often their facts moved the loop or were passed over
    ends,            \* the terminal facts about them in lifecycle_outbox without a
                     \* receipt of the consumer engineering-loop
    looking,         \* the fact each consumer has claimed and not yet settled
    request,         \* the row that each user's request, which has read the loop, will
                     \* write
    override,        \* whether such a write put the loop at a stage it was not at:
                     \* "standing" until the coordinator next moves the loop, then "past"
    creating,        \* the handler that inserted the loop has not yet started it
    side,            \* the issue has a pending item that is not the loop's
    agentOK,         \* the configured agent exists, is not archived, has a runtime
    server,          \* "starting" until the restore is done, then "up"
    mishaps,         \* counts towards MaxMishaps
    asks, restarts   \* count towards MaxAsks and MaxRestarts

envVars == <<side, agentOK, mishaps>>
userVars == <<request, override, asks>>
serverVars == <<looking, creating, server, restarts>>
vars == <<loop, items, ends, envVars, userVars, serverVars>>

-----------------------------------------------------------------------------
InFlight(i) == items[i].status \in {"waiting", "running"}

\* idx_one_pending_task_per_issue admits another pending item of the issue.
SlotFree == ~side /\ \A i \in 1..Len(items) : items[i].status # "waiting"

Row(status, stage, iteration) ==
    [status |-> status, stage |-> stage, iteration |-> iteration]

NewItem(stage) ==
    [stage |-> stage, status |-> "waiting", lost |-> FALSE, moved |-> 0, ignored |-> FALSE]

\* parseTaskResult: a reviewer's result that cannot be parsed does not approve.
Verdicts(stage) == IF stage = "review" THEN BOOLEAN ELSE {FALSE}

SetItem(i, status) == items' = [items EXCEPT ![i].status = status]

\* The terminal fact of item i, in the transaction that ends it.  At most one is
\* told before the item is first taken for lost, and one after.
Tell(i, type, approved) ==
    ends' = ends \union {[item |-> i, late |-> items[i].lost, type |-> type,
                          approved |-> approved, tries |-> 0]}

SameEnd(e, f) == e.item = f.item /\ e.late = f.late

Dead(e) == e.tries >= MaxTries

\* Timing assumption: a consumer that claimed a fact on a snapshot older than its
\* receipt locks the loop before another item, which takes an agent minutes, ends.
StaleClaimsSettle ==
    \A p \in Projector : looking[p] # NoEnd => \E e \in ends : SameEnd(e, looking[p])

\* createTaskForStageWithAgent and the status write that follows it, where the
\* unique index lets the item in; seq is the items as the caller leaves them.
CreateTask(seq, stage, iteration) ==
    /\ SlotFree
    /\ items' = Append(seq, NewItem(stage))
    /\ loop' = Row("running", stage, iteration)

Shown == loop.status \in {"running", "paused"}

\* The coordinator moves the loop on: what users overwrote is past.
Overtaken == override' = IF override = "standing" THEN "past" ELSE override

-----------------------------------------------------------------------------
Init ==
    /\ loop = Row("pending", NoStage, 0)
    /\ items = <<>>
    /\ ends = {}
    /\ looking = [p \in Projector |-> NoEnd]
    /\ request = [u \in User |-> NoRequest]
    /\ override = "none"
    /\ creating = TRUE
    /\ side = FALSE
    /\ agentOK = TRUE
    /\ mishaps = 0
    /\ server = "up"
    /\ asks = 0
    /\ restarts = 0

\* StartLoop, called once by the handler that created the loop: one transaction that
\* locks the row.
StartLoop ==
    /\ creating
    /\ loop.status = "pending" /\ agentOK
    /\ CreateTask(items, "plan", 0)
    /\ creating' = FALSE
    /\ UNCHANGED <<ends, envVars, userVars, looking, server, restarts>>

\* StartLoop fails or refuses: the handler only logs it.
StartFails ==
    /\ creating
    /\ creating' = FALSE
    /\ UNCHANGED <<loop, items, ends, envVars, userVars, looking, server, restarts>>

-----------------------------------------------------------------------------
(* The stage items: claims and callbacks of the daemon reach a server that *)
(* is up; the sweeper also works while it starts.                          *)

Claim(i) ==
    /\ server = "up"
    /\ items[i].status = "waiting"
    /\ SetItem(i, "running")
    /\ UNCHANGED <<loop, ends, envVars, userVars, serverVars>>

\* Only a review has a verdict; an output without one counts as a rejection.
Complete(i, approved) ==
    /\ server = "up"
    /\ StaleClaimsSettle
    /\ items[i].status = "running"
    /\ approved \in Verdicts(items[i].stage)
    /\ SetItem(i, "over")
    /\ Tell(i, "run.completed", approved)
    /\ UNCHANGED <<loop, envVars, userVars, serverVars>>

Fail(i) ==
    /\ StaleClaimsSettle
    /\ InFlight(i)
    /\ SetItem(i, "over")
    /\ Tell(i, "run.failed", FALSE)
    /\ UNCHANGED <<loop, envVars, userVars, serverVars>>

\* The claim finds that the runtime cannot do the item.
Reject(i) ==
    /\ server = "up"
    /\ StaleClaimsSettle
    /\ items[i].status = "waiting"
    /\ SetItem(i, "over")
    /\ Tell(i, "work_item.rejected", FALSE)
    /\ UNCHANGED <<loop, envVars, userVars, serverVars>>

\* A retry by the daemon, or a recovery of a running item, within its budget.
Requeue(i) ==
    /\ server = "up"
    /\ items[i].status = "running"
    /\ SlotFree
    /\ SetItem(i, "waiting")
    /\ UNCHANGED <<loop, ends, envVars, userVars, serverVars>>

Mishap ==
    /\ mishaps < MaxMishaps
    /\ mishaps' = mishaps + 1

\* The sweeper fails the item of a silent runtime.
FailOffline(i) ==
    /\ Mishap
    /\ StaleClaimsSettle
    /\ InFlight(i)
    /\ items' = [items EXCEPT ![i].status = IF items[i].lost THEN "over" ELSE "offline",
                             ![i].lost = TRUE]
    /\ Tell(i, "run.failed", FALSE)
    /\ UNCHANGED <<loop, side, agentOK, userVars, serverVars>>

\* The runtime registers again and its failed item returns to the queue.  Bound:
\* once for each item.
Recover(i) ==
    /\ server = "up"
    /\ items[i].status = "offline"
    /\ SlotFree
    /\ SetItem(i, "waiting")
    /\ UNCHANGED <<loop, ends, envVars, userVars, serverVars>>

\* The item is cancelled on its own, with its issue or with its agent.  The loop
\* is not told of run.cancelled.
Withdraw(i) ==
    /\ server = "up"
    /\ InFlight(i)
    /\ Mishap
    /\ SetItem(i, "over")
    /\ UNCHANGED <<loop, ends, side, agentOK, userVars, serverVars>>

\* Another trigger of the issue takes the pending slot, and leaves it.
SideItem ==
    /\ \/ ~side /\ SlotFree /\ Mishap
       \/ side /\ UNCHANGED mishaps
    /\ side' = ~side
    /\ UNCHANGED <<loop, items, ends, agentOK, userVars, serverVars>>

AgentGoes ==
    /\ agentOK
    /\ Mishap
    /\ agentOK' = FALSE
    /\ UNCHANGED <<loop, items, ends, side, userVars, serverVars>>

-----------------------------------------------------------------------------
(* The durable consumer. *)

\* Mutant: a fact whose delivery failed is not offered again.
ClaimableOnce(e) == e.tries = 0

\* The WHERE of ClaimEngineeringLoopLifecycleEvent; available_at only delays.
Claimable(e) == ~Dead(e)

\* The claim reads a snapshot and then locks the fact's row, which the receipt of
\* another consumer does not change: both may hold the same fact in turn.
LoopClaim(p, e) ==
    /\ looking[p] = NoEnd
    /\ Claimable(e)
    /\ looking' = [looking EXCEPT ![p] = e]
    /\ UNCHANGED <<loop, items, ends, envVars, userVars, creating, server, restarts>>

\* Mutants: the stage of the item is not compared; the end of a fix is overlooked.
AwaitsAnything(stage) == loop.status = "running"

AwaitsButFix(stage) == loop.status = "running" /\ loop.stage = stage /\ stage # "fix"

\* apply: the loop is running and waits for an item of this stage.
Awaits(stage) == loop.status = "running" /\ loop.stage = stage

\* Mutant: one iteration too many.
DecideOffByOne(approved) ==
    CASE loop.stage = "plan" -> "develop"
      [] loop.stage \in {"develop", "fix"} -> "review"
      [] loop.stage = "review" /\ approved -> "done"
      [] loop.stage = "review" /\ ~approved /\ loop.iteration > MaxIterations -> "failed"
      [] OTHER -> "fix"

\* decideNextStage for a completed item of the current stage.
Decide(approved) ==
    CASE loop.stage = "plan" -> "develop"
      [] loop.stage \in {"develop", "fix"} -> "review"
      [] loop.stage = "review" /\ approved -> "done"
      [] loop.stage = "review" /\ ~approved /\ loop.iteration >= MaxIterations -> "failed"
      [] OTHER -> "fix"

Decision(e) ==
    IF e.type = "run.completed" THEN Decide(e.approved) ELSE "failed"

MarkItem(e, seq, moved) ==
    [seq EXCEPT ![e.item].moved = IF moved THEN @ + 1 ELSE @,
                ![e.item].ignored = @ \/ ~moved]

\* applyDecision.  SetPR and the reason of a failure are not modelled.
ApplyDecision(e, d) ==
    \/ /\ d \in {"done", "failed"}
       /\ loop' = Row(d, NoStage, 0)
       /\ items' = MarkItem(e, items, TRUE)
    \/ /\ d \in Stage /\ ~agentOK
       /\ loop' = Row("failed", loop.stage, loop.iteration)
       /\ items' = MarkItem(e, items, TRUE)
    \/ /\ d \in Stage /\ agentOK
       /\ CreateTask(MarkItem(e, items, TRUE), d,
                     IF d = "fix" THEN loop.iteration + 1 ELSE loop.iteration)

\* apply, the receipt and the commit.
LoopApply(p) ==
    LET e == looking[p]
    IN  /\ e # NoEnd
        /\ IF Awaits(items[e.item].stage)
           THEN ApplyDecision(e, Decision(e)) /\ Overtaken
           ELSE items' = MarkItem(e, items, FALSE) /\ UNCHANGED <<loop, override>>
        /\ ends' = {f \in ends : ~SameEnd(e, f)}
        /\ looking' = [looking EXCEPT ![p] = NoEnd]
        /\ UNCHANGED <<envVars, request, asks, creating, server, restarts>>

\* Any statement may fail, and the insert does when the slot is taken: all is
\* rolled back and the failure recorded on its own.
LoopApplyFails(p) ==
    LET e == looking[p]
    IN  /\ e # NoEnd
        /\ ends' = {IF SameEnd(e, f) THEN [f EXCEPT !.tries = @ + 1] ELSE f : f \in ends}
        /\ looking' = [looking EXCEPT ![p] = NoEnd]
        /\ UNCHANGED <<loop, items, envVars, userVars, creating, server, restarts>>

-----------------------------------------------------------------------------
(* Restart of the server. *)

Restart ==
    /\ restarts < MaxRestarts
    /\ restarts' = restarts + 1
    /\ server' = "starting"
    /\ looking' = [p \in Projector |-> NoEnd]
    /\ request' = [u \in User |-> NoRequest]
    /\ creating' = FALSE
    /\ UNCHANGED <<loop, items, ends, envVars, override, asks>>

HasInFlightTask(stage) == \E i \in 1..Len(items) : items[i].stage = stage /\ InFlight(i)

\* Mutant: undelivered facts are not looked for.
NoPendingEvent(stage) == FALSE

\* HasPendingEngineeringLoopLifecycleEvent: dead-lettered facts count too.
HasPendingEvent(stage) ==
    \E e \in ends : items[e.item].stage = stage

\* Of the loops that LoadActiveLoops returns, those that are not paused.
Restored == loop.status = "running"

\* A resume can leave a running loop without a stage.
Stageless == Restored /\ loop.stage = NoStage

\* restoreOne finds that nothing works on the current stage.
Abandoned ==
    /\ Restored
    /\ loop.stage # NoStage
    /\ ~HasInFlightTask(loop.stage)
    /\ ~HasPendingEvent(loop.stage)

FailInvalid ==
    /\ loop' = Row("failed", loop.stage, loop.iteration)
    /\ UNCHANGED items

TimeOut ==
    /\ loop' = Row("failed", NoStage, 0)
    /\ UNCHANGED items

\* restoreOne; an error is logged and the loop left as it is.
RestoreOne ==
    \/ /\ \/ Stageless /\ FailInvalid
          \/ Abandoned /\ ~agentOK /\ FailInvalid
          \/ Abandoned /\ agentOK /\ TimeOut
          \/ Abandoned /\ agentOK /\ CreateTask(items, loop.stage, loop.iteration)
       /\ Overtaken
    \/ UNCHANGED <<loop, items, override>>

\* runLoopCoordinator: RestoreOnStartup, after a drain that leaves behind what is
\* in backoff or follows an error.
Restore ==
    /\ server = "starting"
    /\ \A p \in Projector : looking[p] = NoEnd
    /\ server' = "up"
    /\ RestoreOne
    /\ UNCHANGED <<ends, envVars, looking, request, asks, creating, restarts>>

-----------------------------------------------------------------------------
(* Users. *)

\* transitionLoopStatus, its GetLoop: whatever the status is, the row will be written
\* with the stage and the iteration it has now.
AskRead(u, target) ==
    /\ server = "up" /\ asks < MaxAsks
    /\ request[u] = NoRequest
    /\ request' = [request EXCEPT ![u] = [loop EXCEPT !.status = target]]
    /\ asks' = asks + 1
    /\ UNCHANGED <<loop, items, ends, envVars, override, serverVars>>

\* The write puts the loop at a stage it is not at, or in motion again.
Overrides(u) ==
    /\ request[u].status # "cancelled"
    /\ Shown => request[u].stage # loop.stage

\* transitionLoopStatus, its UpdateStatus: neither lock nor condition.
AskWrite(u) ==
    /\ request[u] # NoRequest
    /\ loop' = request[u]
    /\ request' = [request EXCEPT ![u] = NoRequest]
    /\ override' = IF Overrides(u) THEN "standing" ELSE override
    /\ UNCHANGED <<items, ends, envVars, asks, serverVars>>

-----------------------------------------------------------------------------
Finish(i) ==
    \/ \E approved \in BOOLEAN : Complete(i, approved)
    \/ Fail(i)
    \/ Reject(i)

Consume(p) == LoopApply(p) \/ LoopApplyFails(p)

Next ==
    \/ StartLoop
    \/ StartFails
    \/ \E i \in 1..Len(items) : Claim(i)
    \/ \E i \in 1..Len(items) : Finish(i)
    \/ \E i \in 1..Len(items) : Requeue(i)
    \/ \E i \in 1..Len(items) : FailOffline(i)
    \/ \E i \in 1..Len(items) : Recover(i)
    \/ \E i \in 1..Len(items) : Withdraw(i)
    \/ SideItem
    \/ AgentGoes
    \/ \E p \in Projector, e \in ends : LoopClaim(p, e)
    \/ \E p \in Projector : Consume(p)
    \/ Restart
    \/ Restore
    \/ \E u \in User, target \in {"paused", "running", "cancelled"} : AskRead(u, target)
    \/ \E u \in User : AskWrite(u)

Spec == Init /\ [][Next]_vars

\* A daemon polls; an item is requeued finitely often (RetryBudget of RunLifecycle),
\* so its agent ends; the consumers poll for ever and their statements return; a
\* server that starts comes up.
Fairness ==
    /\ WF_vars(\E i \in 1..Len(items) : Claim(i))
    /\ SF_vars(\E i \in 1..Len(items) : Finish(i))
    /\ \A p \in Projector : WF_vars(\E e \in ends : LoopClaim(p, e)) /\ WF_vars(Consume(p))
    /\ WF_vars(Restore)
    /\ \A u \in User : WF_vars(AskWrite(u))

FairSpec == Spec /\ Fairness

-----------------------------------------------------------------------------
(* What a loop promises. *)

Item == [stage : Stage, status : ItemStatus, lost : BOOLEAN, moved : Nat, ignored : BOOLEAN]

End == [item : 1..Len(items), late : BOOLEAN, type : EndType, approved : BOOLEAN,
        tries : Nat]

TypeOK ==
    /\ loop \in LoopRow
    /\ items \in Seq(Item)
    /\ ends \subseteq End
    /\ looking \in [Projector -> End \union {NoEnd}]
    /\ request \in [User -> LoopRow \union {NoRequest}]
    /\ override \in {"none", "standing", "past"}
    /\ creating \in BOOLEAN /\ side \in BOOLEAN /\ agentOK \in BOOLEAN
    /\ server \in {"starting", "up"}
    /\ mishaps \in Nat /\ asks \in Nat /\ restarts \in Nat

\* An item taken for lost came back and its end, told a second time, moved the loop: the
\* restore may have given its stage to another item meanwhile.
LostMoved == \E i \in 1..Len(items) : items[i].lost /\ items[i].moved > 0

\* lifecycle_projector.go:74 "concurrent workers use SKIP LOCKED and cannot create
\* a duplicate stage Work Item": whatever is claimed twice or delivered again, and
\* however users pause, resume and cancel, an item moves the loop at most once, unless
\* an item taken for lost moved it or a request put it back at a stage it had left.
AppliedOnce ==
    ~LostMoved /\ override = "none" => \A i \in 1..Len(items) : items[i].moved <= 1

\* The newest item of the current stage.
StageItem(i) ==
    /\ items[i].stage = loop.stage
    /\ \A j \in i + 1..Len(items) : items[j].stage # loop.stage

\* A running loop still waits for its newest item: no fact of that item has been
\* used up, except while a user had the loop paused.  Where a request put the loop
\* back at a stage it had left, that holds again once the coordinator moves it.
AwaitsItsItem ==
    loop.status = "running" /\ override # "standing" =>
        \E i \in 1..Len(items) :
            /\ StageItem(i)
            /\ items[i].moved = 0
            /\ items[i].ignored => asks > 0

\* Neither the consumer nor the restore gives work to two agents at once: of the
\* items that no sweep has taken for lost at most one is in flight, unless an item
\* taken for lost came back and moved the loop, or a request put it back at a stage
\* it had left.
OneStageAtATime ==
    ~LostMoved /\ override = "none" =>
        \A i, j \in 1..Len(items) :
            InFlight(i) /\ InFlight(j) /\ i # j => items[i].lost \/ items[j].lost

\* Something will move the loop on: an item of its stage in flight, or the end of
\* one that has still to be delivered.
HasWork ==
    \/ HasInFlightTask(loop.stage)
    \/ \E e \in ends : items[e.item].stage = loop.stage /\ ~Dead(e)

\* A loop does not run for ever on the work it has.
LoopMovesOn ==
    loop.status = "running" ~> loop.status # "running" \/ ~HasWork

\* A loop that is done, failed or cancelled stays so.
TerminalStays ==
    [][loop.status \in {"done", "failed", "cancelled"} => loop'.status = loop.status]_vars

Cycle == INSTANCE LoopCycle WITH
    status <- loop.status,
    stage <- loop.stage,
    iteration <- loop.iteration,
    asked <- request

\* The loop goes through the cycle of LoopCycle, users' requests included.
ImplementsLoopCycle == Cycle!Spec
=============================================================================
