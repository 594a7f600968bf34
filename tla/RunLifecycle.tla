---------------------------- MODULE RunLifecycle ----------------------------
(***************************************************************************)
(* The lifecycle of Work Items (rows of agent_task_queue) and of their     *)
(* Runs (rows of task_runs): internal/service/run_lifecycle.go and the SQL *)
(* statements it drives in pkg/db/queries/{agent,runtime,traces}.sql.      *)
(*                                                                         *)
(* Every action is one database transaction.  withLockedRun takes the row  *)
(* locks of the Work Item and of the Run before it looks at them, and each *)
(* bulk operation is a single statement that locks its targets, so a       *)
(* transaction is one atomic step here.  A transaction that rolls back     *)
(* (stale Run, no row returned, unique index raised) changes nothing and   *)
(* is no step at all.                                                      *)
(*                                                                         *)
(* A Work Item's issue, agent and runtime are written by the insert and by *)
(* no later statement, so they are constants of the item.  The Runs of an  *)
(* item are numbered 1, 2, ... in the order they were claimed; a RunRef    *)
(* (work item, run id) is a pair <<t, n>>.  Daemons are not trusted: they  *)
(* may call back with any RunRef ever handed out.                          *)
(***************************************************************************)
EXTENDS Naturals, Sequences, FiniteSets

CONSTANTS
    Task,            \* Work Items that may be inserted
    Issue, Agent, Runtime,
    IssueOf,         \* Task -> Issue, agent_task_queue.issue_id
    AgentOf,         \* Task -> Agent, agent_task_queue.agent_id
    RuntimeOf,       \* Task -> Runtime, agent_task_queue.runtime_id
    MaxRetries,      \* agent_task_queue.max_retries
    MaxCheckpoints   \* bound: session checkpoints each Run of an item may report

ASSUME OwnersAssumption ==
    /\ IssueOf \in [Task -> Issue]
    /\ AgentOf \in [Task -> Agent]
    /\ RuntimeOf \in [Task -> Runtime]

ASSUME RetriesAssumption == MaxRetries \in Nat

VARIABLES
    status,          \* agent_task_queue.status; "absent" before the insert
    active,          \* agent_task_queue.active_run_id; NoRun is NULL
    retries,         \* agent_task_queue.retry_count
    wentOffline,     \* agent_task_queue.error = 'runtime went offline'
    session,         \* the Run whose session_id the item holds; NoRun is NULL
    runs,            \* task_runs.status of the item's Runs, oldest first
    facts            \* the item's rows of lifecycle_outbox, in append order

vars == <<status, active, retries, wentOffline, session, runs, facts>>

NoRun == 0

ActiveStatus  == {"dispatched", "running"}
PendingStatus == {"queued", "dispatched"}
OpenStatus    == {"queued", "dispatched", "running"}
RunStatus     == {"dispatched", "running", "completed", "failed", "cancelled"}
TaskStatus    == {"absent", "queued"} \union RunStatus

ClosingFact == {"run.completed", "run.failed", "run.cancelled", "run.retry_scheduled"}
FactType    == ClosingFact \union
                 {"run.started", "run.checkpointed", "work_item.rejected"}

-----------------------------------------------------------------------------
(* Building blocks of the transactions. *)

\* appendEvent: one fact about Run n of item t.
Tell(t, n, type) ==
    facts' = [facts EXCEPT ![t] = Append(@, [type |-> type, run |-> n])]

\* The emitted_events part of a bulk statement: one fact for each item of S,
\* about the Run that the item points to.
TellAll(S, type) ==
    facts' = [t \in Task |->
                IF t \in S THEN Append(facts[t], [type |-> type, run |-> active[t]])
                ELSE facts[t]]

\* Mutant: a Run that was dispatched and never started is left as it is.
ClosedIfRunning(t, n, outcome) ==
    IF n \in 1..Len(runs[t]) /\ runs[t][n] = "running"
    THEN [runs[t] EXCEPT ![n] = outcome]
    ELSE runs[t]

\* The closed_runs part of a bulk statement: Run n of item t ends, if there is
\* one and it is still open.
Closed(t, n, outcome) ==
    IF n \in 1..Len(runs[t]) /\ runs[t][n] \in ActiveStatus
    THEN [runs[t] EXCEPT ![n] = outcome]
    ELSE runs[t]

SetAll(f, S, value) == [t \in Task |-> IF t \in S THEN value ELSE f[t]]

\* A bulk statement ends S with `outcome`: the Run is closed, the item follows
\* it and lets go of the Run, and the fact is appended, all or nothing.
FinishAll(S, outcome, type) ==
    /\ runs' = [t \in Task |-> IF t \in S THEN Closed(t, active[t], outcome) ELSE runs[t]]
    /\ status' = SetAll(status, S, outcome)
    /\ active' = SetAll(active, S, NoRun)
    /\ TellAll(S, type)

\* CompleteTaskRun writes the Run whatever its status; then the item leaves it
\* for `next`, and the fact is appended.
LeaveRun(t, n, outcome, next, type) ==
    /\ runs' = [runs EXCEPT ![t][n] = outcome]
    /\ status' = [status EXCEPT ![t] = next]
    /\ active' = [active EXCEPT ![t] = NoRun]
    /\ Tell(t, n, type)

\* withLockedRun: under the two row locks, the Run must be the one the item
\* points to, with the item's own status, one of those allowed.
Owns(t, n, allowed) ==
    /\ active[t] = n
    /\ n \in 1..Len(runs[t])
    /\ status[t] = runs[t][n]
    /\ status[t] \in allowed

\* idx_one_pending_task_per_issue, asked of the statuses a statement writes.
UniquePending(st) ==
    \A t, u \in Task :
        t # u /\ IssueOf[t] = IssueOf[u] =>
            ~(st[t] \in PendingStatus /\ st[u] \in PendingStatus)

-----------------------------------------------------------------------------
Init ==
    /\ status = [t \in Task |-> "absent"]
    /\ active = [t \in Task |-> NoRun]
    /\ retries = [t \in Task |-> 0]
    /\ wentOffline = [t \in Task |-> FALSE]
    /\ session = [t \in Task |-> NoRun]
    /\ runs = [t \in Task |-> <<>>]
    /\ facts = [t \in Task |-> <<>>]

\* CreateAgentTask: the unique index refuses a second pending item of an issue.
Enqueue(t) ==
    /\ status[t] = "absent"
    /\ status' = [status EXCEPT ![t] = "queued"]
    /\ UniquePending(status')
    /\ UNCHANGED <<active, retries, wentOffline, session, runs, facts>>

\* Mutant: the claim does not ask whether the issue has an active item.
ClaimAnyQueued(t) ==
    /\ status[t] = "queued"
    /\ runs' = [runs EXCEPT ![t] = Append(@, "dispatched")]
    /\ active' = [active EXCEPT ![t] = Len(runs[t]) + 1]
    /\ status' = [status EXCEPT ![t] = "dispatched"]
    /\ UNCHANGED <<retries, wentOffline, session, facts>>

\* ClaimAgentTaskRunByID: a queued item of an issue with no active item gets
\* a new Run.  Dispatch appends no fact.
Claim(t) ==
    /\ status[t] = "queued"
    /\ \A u \in Task : IssueOf[u] = IssueOf[t] => status[u] \notin ActiveStatus
    /\ runs' = [runs EXCEPT ![t] = Append(@, "dispatched")]
    /\ active' = [active EXCEPT ![t] = Len(runs[t]) + 1]
    /\ status' = [status EXCEPT ![t] = "dispatched"]
    /\ UNCHANGED <<retries, wentOffline, session, facts>>

\* RejectQueuedAgentTaskLifecycle: the runtime cannot execute this task type.
Reject(t) ==
    /\ status[t] = "queued"
    /\ status' = [status EXCEPT ![t] = "failed"]
    /\ wentOffline' = [wentOffline EXCEPT ![t] = FALSE]
    /\ Tell(t, NoRun, "work_item.rejected")
    /\ UNCHANGED <<active, retries, session, runs>>

\* RunLifecycle.Start
Start(t, n) ==
    /\ Owns(t, n, {"dispatched"})
    /\ runs' = [runs EXCEPT ![t][n] = "running"]
    /\ status' = [status EXCEPT ![t] = "running"]
    /\ Tell(t, n, "run.started")
    /\ UNCHANGED <<active, retries, wentOffline, session>>

Checkpoints(t, n) ==
    {k \in DOMAIN facts[t] :
        facts[t][k] = [type |-> "run.checkpointed", run |-> n]}

\* RunLifecycle.Checkpoint: the provider session becomes resumable.
Checkpoint(t, n) ==
    /\ Owns(t, n, {"running"})
    /\ Cardinality(Checkpoints(t, n)) < MaxCheckpoints[t]
    /\ session' = [session EXCEPT ![t] = n]
    /\ Tell(t, n, "run.checkpointed")
    /\ UNCHANGED <<status, active, retries, wentOffline, runs>>

\* RunLifecycle.Complete: the session the daemon reports may be empty (NULL).
Complete(t, n) ==
    /\ Owns(t, n, {"running"})
    /\ LeaveRun(t, n, "completed", "completed", "run.completed")
    /\ \E s \in {NoRun, n} : session' = [session EXCEPT ![t] = s]
    /\ UNCHANGED <<retries, wentOffline>>

\* RunLifecycle.Fail
Fail(t, n) ==
    /\ Owns(t, n, ActiveStatus)
    /\ LeaveRun(t, n, "failed", "failed", "run.failed")
    /\ wentOffline' = [wentOffline EXCEPT ![t] = FALSE]
    /\ UNCHANGED <<retries, session>>

\* Mutants of RetryActive: the retry is free; the item's session is reset with
\* its other columns; the Run that reports need not be the item's.
RetryUnpaid(t, n) ==
    /\ Owns(t, n, ActiveStatus)
    /\ retries[t] < MaxRetries
    /\ LeaveRun(t, n, "failed", "queued", "run.retry_scheduled")
    /\ UniquePending(status')
    /\ wentOffline' = [wentOffline EXCEPT ![t] = FALSE]
    /\ UNCHANGED <<retries, session>>

RetryWithoutSession(t, n) ==
    /\ Owns(t, n, ActiveStatus)
    /\ retries[t] < MaxRetries
    /\ LeaveRun(t, n, "failed", "queued", "run.retry_scheduled")
    /\ UniquePending(status')
    /\ retries' = [retries EXCEPT ![t] = @ + 1]
    /\ wentOffline' = [wentOffline EXCEPT ![t] = FALSE]
    /\ session' = [session EXCEPT ![t] = NoRun]

RetryByAnyRun(t, n) ==
    /\ status[t] \in ActiveStatus
    /\ retries[t] < MaxRetries
    /\ LeaveRun(t, n, "failed", "queued", "run.retry_scheduled")
    /\ UniquePending(status')
    /\ retries' = [retries EXCEPT ![t] = @ + 1]
    /\ wentOffline' = [wentOffline EXCEPT ![t] = FALSE]
    /\ UNCHANGED session

\* RunLifecycle.RetryActive: close the Run and requeue its item.  Out of
\* budget, or with another item of the issue pending, all of it rolls back.
RetryActive(t, n) ==
    /\ Owns(t, n, ActiveStatus)
    /\ retries[t] < MaxRetries
    /\ LeaveRun(t, n, "failed", "queued", "run.retry_scheduled")
    /\ UniquePending(status')
    /\ retries' = [retries EXCEPT ![t] = @ + 1]
    /\ wentOffline' = [wentOffline EXCEPT ![t] = FALSE]
    /\ UNCHANGED session

Open(S) == {t \in S : status[t] \in OpenStatus}

\* The three cancellations differ only in the items they take.
CancelAll(S) ==
    /\ S # {}
    /\ FinishAll(S, "cancelled", "run.cancelled")
    /\ UNCHANGED <<retries, wentOffline, session>>

\* RunLifecycle.Cancel, which also demands that item and Run agree.
Cancel(t) ==
    /\ active[t] = NoRun => status[t] \notin ActiveStatus
    /\ active[t] # NoRun => Owns(t, active[t], ActiveStatus)
    /\ CancelAll(Open({t}))

\* CancelAgentTasksByIssueLifecycle: reassignment or deletion of the issue.
CancelForIssue(i) == CancelAll(Open({t \in Task : IssueOf[t] = i}))

\* CancelAgentTasksByAgentLifecycle: the agent is archived.
CancelForAgent(a) == CancelAll(Open({t \in Task : AgentOf[t] = a}))

\* Mutant: only the dispatch timeout is enforced.
FailStaleDispatched(S) ==
    /\ S # {}
    /\ \A t \in S : status[t] = "dispatched"
    /\ FinishAll(S, "failed", "run.failed")
    /\ wentOffline' = SetAll(wentOffline, S, FALSE)
    /\ UNCHANGED <<retries, session>>

\* FailStaleTasksLifecycle: S is whatever is past its dispatch or running
\* timeout; there is no clock here, so any active items may be.
FailStale(S) ==
    /\ S # {}
    /\ \A t \in S : status[t] \in ActiveStatus
    /\ FinishAll(S, "failed", "run.failed")
    /\ wentOffline' = SetAll(wentOffline, S, FALSE)
    /\ UNCHANGED <<retries, session>>

\* FailTasksForOfflineRuntimesLifecycle, R the runtimes marked offline.
FailOffline(R) ==
    LET S == {t \in Task : status[t] \in ActiveStatus /\ RuntimeOf[t] \in R}
    IN  /\ S # {}
        /\ FinishAll(S, "failed", "run.failed")
        /\ wentOffline' = SetAll(wentOffline, S, TRUE)
        /\ UNCHANGED <<retries, session>>

\* Mutant: every failed item of the runtime is taken for an orphan.
OrphansOrFailed(r) ==
    {t \in Task : RuntimeOf[t] = r /\ status[t] \in ActiveStatus \union {"failed"}}

\* The targets of a recovery: what the runtime's last process left unfinished,
\* and what was failed because that process stopped sending heartbeats.
Orphans(r) ==
    {t \in Task : /\ RuntimeOf[t] = r
                  /\ \/ status[t] \in ActiveStatus
                     \/ status[t] = "failed" /\ wentOffline[t]}

\* COALESCE(active_run_id, <latest Run of the item>)
InterruptedRun(t) == IF active[t] # NoRun THEN active[t] ELSE Len(runs[t])

\* Mutants: a second failure is told of an item that the offline sweep failed;
\* only the items that were still active are told of.
RecoveryFactsTwice(S) ==
    [t \in Task |->
        IF t \in S
        THEN Append(facts[t],
                    [type |-> IF retries[t] < MaxRetries
                              THEN "run.retry_scheduled" ELSE "run.failed",
                     run |-> InterruptedRun(t)])
        ELSE facts[t]]

RecoveryFactsIfActive(S) ==
    [t \in Task |->
        IF t \in S /\ status[t] \in ActiveStatus
        THEN Append(facts[t],
                    [type |-> IF retries[t] < MaxRetries
                              THEN "run.retry_scheduled" ELSE "run.failed",
                     run |-> InterruptedRun(t)])
        ELSE facts[t]]

\* The fact of a recovered item; one already failed by the offline sweep says
\* nothing more when its budget is gone.
RecoveryFacts(S) ==
    [t \in Task |->
        IF t \in S /\ retries[t] < MaxRetries
        THEN Append(facts[t], [type |-> "run.retry_scheduled", run |-> InterruptedRun(t)])
        ELSE IF t \in S /\ status[t] \in ActiveStatus
        THEN Append(facts[t], [type |-> "run.failed", run |-> InterruptedRun(t)])
        ELSE facts[t]]

\* Mutant: recovery requeues whatever the budget says.
RequeuedAlways(r) == Orphans(r)

Requeued(r) == {t \in Orphans(r) : retries[t] < MaxRetries}

RecoveredStatus(r) ==
    [t \in Task |-> IF t \in Requeued(r) THEN "queued"
                    ELSE IF t \in Orphans(r) THEN "failed" ELSE status[t]]

\* RecoverTasksForRuntimeLifecycle: a new daemon process takes over runtime r.
\* One statement for all its orphans: if requeueing one of them breaks the
\* unique index, none is recovered.
Recover(r) ==
    LET S == Orphans(r)
    IN  /\ S # {}
        /\ UniquePending(RecoveredStatus(r))
        /\ status' = RecoveredStatus(r)
        /\ runs' = [t \in Task |-> IF t \in S THEN Closed(t, InterruptedRun(t), "failed")
                                   ELSE runs[t]]
        /\ active' = SetAll(active, S, NoRun)
        /\ retries' = [t \in Task |-> IF t \in Requeued(r) THEN retries[t] + 1
                                      ELSE retries[t]]
        /\ wentOffline' = SetAll(wentOffline, S, FALSE)
        /\ facts' = RecoveryFacts(S)
        /\ UNCHANGED session

-----------------------------------------------------------------------------
\* A callback carries a RunRef that some claim once returned.
Callback(t) ==
    \E n \in 1..Len(runs[t]) :
        \/ Start(t, n)
        \/ Checkpoint(t, n)
        \/ Complete(t, n)
        \/ Fail(t, n)
        \/ RetryActive(t, n)

Next ==
    \/ \E t \in Task : Enqueue(t)
    \/ \E t \in Task : Claim(t)
    \/ \E t \in Task : Reject(t)
    \/ \E t \in Task : Callback(t)
    \/ \E t \in Task : Cancel(t)
    \/ \E i \in Issue : CancelForIssue(i)
    \/ \E a \in Agent : CancelForAgent(a)
    \/ \E S \in SUBSET Task : FailStale(S)
    \/ \E R \in SUBSET Runtime : FailOffline(R)
    \/ \E r \in Runtime : Recover(r)

Spec == Init /\ [][Next]_vars

\* The daemon of each runtime polls for claimable items every few seconds, and
\* the server's sweeper fails, every 30 s, an item that stays active past its
\* timeout.  No callback is assumed: daemons and agents may be silent for ever.
Fairness ==
    \A t \in Task :
        /\ WF_vars(Claim(t))
        /\ WF_vars(\E S \in SUBSET Task : t \in S /\ FailStale(S))

FairSpec == Spec /\ Fairness

-----------------------------------------------------------------------------
(* What the lifecycle promises. *)

Fact == [type : FactType, run : Nat]

TypeOK ==
    /\ status \in [Task -> TaskStatus]
    /\ active \in [Task -> Nat]
    /\ retries \in [Task -> 0..MaxRetries]
    /\ wentOffline \in [Task -> BOOLEAN]
    /\ session \in [Task -> Nat]
    /\ runs \in [Task -> Seq(RunStatus)]
    /\ facts \in [Task -> Seq(Fact)]

\* An item is dispatched or running exactly while it points to a Run; that Run
\* is its newest and has the item's status; every other Run of the item is
\* closed.  So no path through claims, callbacks, sweeps and recoveries leaves
\* a Run open behind an item that has moved on.
ActiveRunConsistent ==
    \A t \in Task :
        /\ active[t] # NoRun <=> status[t] \in ActiveStatus
        /\ active[t] # NoRun => /\ active[t] = Len(runs[t])
                               /\ runs[t][active[t]] = status[t]
        /\ \A n \in 1..Len(runs[t]) :
              runs[t][n] \in ActiveStatus => n = active[t]

\* agent.sql:149 "guarantees serial execution within an issue": never two
\* dispatched or running items of one issue, although items of the issue are
\* requeued by callbacks and recoveries while another one runs.
SerialWithinIssue ==
    \A t, u \in Task :
        t # u /\ IssueOf[t] = IssueOf[u] =>
            ~(status[t] \in ActiveStatus /\ status[u] \in ActiveStatus)

\* The retry budget is what bounds the Runs of an item: each requeue is paid
\* for, a queued item has used up exactly its paid attempts, and an item that
\* the offline sweep failed still owes the last one.
RetryBudget ==
    \A t \in Task :
        /\ Len(runs[t]) <= retries[t] + 1
        /\ retries[t] <= Len(runs[t])
        /\ status[t] = "queued" => Len(runs[t]) = retries[t]
        /\ status[t] \in ActiveStatus \union {"completed"} => Len(runs[t]) = retries[t] + 1
        /\ wentOffline[t] => status[t] = "failed" /\ Len(runs[t]) = retries[t] + 1
        /\ status[t] = "absent" => runs[t] = <<>> /\ facts[t] = <<>>

\* The closing facts about Run n of item t, and Run n closed by one of them.
Closing(t, n) ==
    {k \in DOMAIN facts[t] : facts[t][k].run = n /\ facts[t][k].type \in ClosingFact}

ClosedBy(t, n, types) ==
    \E k \in DOMAIN facts[t] : Closing(t, n) = {k} /\ facts[t][k].type \in types

Reopened(t, n) ==
    \E j, k \in DOMAIN facts[t] :
        /\ j < k /\ Closing(t, n) = {j, k}
        /\ facts[t][j].type = "run.failed" /\ facts[t][k].type = "run.retry_scheduled"

\* The outbox tells the end of each Run once, and tells what happened; only a
\* failure may be followed by the news that the item was requeued after all.
\* run_lifecycle.go:367: an item already failed by the offline sweep "does not
\* manufacture a second Run failure".
OneStory(t) ==
    \A n \in 1..Len(runs[t]) :
        /\ runs[t][n] \in ActiveStatus => Closing(t, n) = {}
        /\ runs[t][n] = "completed" => ClosedBy(t, n, {"run.completed"})
        /\ runs[t][n] = "cancelled" => ClosedBy(t, n, {"run.cancelled"})
        /\ runs[t][n] = "failed" =>
              ClosedBy(t, n, {"run.failed", "run.retry_scheduled"}) \/ Reopened(t, n)

OneStoryPerRun == \A t \in Task : OneStory(t)

\* Facts come in the order of the attempts, and once a Run's end is told
\* nothing more is told of it but a requeue after a failure: a late callback of
\* an old attempt leaves no trace.
InOrder(t) ==
    \A j, k \in DOMAIN facts[t] :
        j < k /\ facts[t][j].run # NoRun /\ facts[t][k].run # NoRun =>
            /\ facts[t][j].run <= facts[t][k].run
            /\ facts[t][j].run = facts[t][k].run /\ facts[t][j].type \in ClosingFact =>
                  /\ facts[t][j].type = "run.failed"
                  /\ facts[t][k].type = "run.retry_scheduled"

FactsInAttemptOrder == \A t \in Task : InOrder(t)

\* What a reader of the whole outbox believes: dispatch is the one transition
\* that is not told, so a queued item may be dispatched.
StatusAfter(type) ==
    CASE type \in {"run.started", "run.checkpointed"} -> {"running"}
      [] type = "run.retry_scheduled" -> {"queued", "dispatched"}
      [] type = "run.completed" -> {"completed"}
      [] type \in {"run.failed", "work_item.rejected"} -> {"failed"}
      [] type = "run.cancelled" -> {"cancelled"}

Believed(t) ==
    IF facts[t] = <<>> THEN {"absent", "queued", "dispatched"}
    ELSE StatusAfter(facts[t][Len(facts[t])].type)

\* The projectors see only the outbox: the last fact of an item is its status.
OutboxTellsStatus == \A t \in Task : status[t] \in Believed(t)

\* Taken together, the outbox of an item tells its story: each Run opens once and
\* closes once, attempts follow each other, and the end of it is where the item is.
FactsTellTheStory == OneStoryPerRun /\ FactsInAttemptOrder /\ OutboxTellsStatus

CheckpointFacts(t) == {k \in DOMAIN facts[t] : facts[t][k].type = "run.checkpointed"}

\* Until it completes, an item resumes from its newest checkpoint, whichever
\* attempt made it: no failure, retry, recovery or late callback loses it.
Resumes(t) ==
    status[t] # "completed" =>
        IF CheckpointFacts(t) = {} THEN session[t] = NoRun
        ELSE \E k \in CheckpointFacts(t) :
                /\ \A j \in CheckpointFacts(t) : j <= k
                /\ session[t] = facts[t][k].run

ResumesFromNewestCheckpoint == \A t \in Task : Resumes(t)

\* No step touches a Run that is closed, forgets one, or changes an item that
\* completed, was cancelled, or failed for a reason other than its runtime
\* going offline.
EndsAreFinal ==
    [][\A t \in Task :
         /\ Len(runs'[t]) >= Len(runs[t])
         /\ \A n \in 1..Len(runs[t]) :
               runs[t][n] \notin ActiveStatus => runs'[t][n] = runs[t][n]
         /\ \/ status[t] \in {"completed", "cancelled"}
            \/ status[t] = "failed" /\ ~wentOffline[t]
            => status'[t] = status[t]]_vars

\* task.go:338-341 "Retryable tasks return to the queue with their session
\* checkpoint intact": the unique index never refuses the recovery statement.
RecoveryNotRefused ==
    \A r \in Runtime : UniquePending(RecoveredStatus(r))

\* A queued item never waits forever: whoever holds its issue is swept in the
\* end, and no newcomer can take its turn.
EveryItemSettles ==
    \A t \in Task :
        status[t] = "queued" ~> status[t] \in {"completed", "failed", "cancelled"}

-----------------------------------------------------------------------------
(* Seen from outside, the lifecycle is the abstract WorkItem machine. *)

PhaseOf(st) ==
    CASE st = "absent" -> "unknown"
      [] st = "queued" -> "waiting"
      [] st \in ActiveStatus -> "working"
      [] st = "completed" -> "succeeded"
      [] st = "failed" -> "failed"
      [] st = "cancelled" -> "cancelled"

WI == INSTANCE WorkItem WITH
        Item <- Task,
        MaxAttempts <- MaxRetries + 1,
        phase <- [t \in Task |-> PhaseOf(status[t])],
        attempts <- [t \in Task |-> Len(runs[t])]

\* Every transaction is one step of WorkItem or leaves it unchanged.
ImplementsWorkItem == WI!ItemSpec
=============================================================================
