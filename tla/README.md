# Formal models of Agentra

Agentra lets people assign issues to coding agents. A Go server (`src/server`, with
PostgreSQL) keeps issues, comments and a queue of Work Items; a daemon on each user's
machine (`src/server/internal/daemon`) registers its runtimes, polls for items, runs an
agent CLI for each and calls back; a web application (`src/apps/web`) shows it. This
directory holds TLA+ models of the task lifecycle and of what surrounds it, the TLC
configurations that check them on small instances, and TLAPS proofs of their central
properties for any number of items, issues, runtimes, agents, workers and processes. Source
paths below are relative to `src/server/` unless they start with `src/`.

Contents: 1 the system, 2 the modules and their correspondence to the code, 3 the runs, 4
the proofs, 5 what the models show of the code, 6 abstractions and what is not modelled, 7
the plan.

## 1. The system

| Component | State | Operations | Modelled by |
|---|---|---|---|
| Work Item and Run lifecycle (`internal/service/run_lifecycle.go`, `lifecycle_event.go`, `pkg/db/queries/agent.sql`, `runtime.sql`, `traces.sql`) | `agent_task_queue`, `task_runs`, rows appended to `lifecycle_outbox` | insert, claim, reject, start, checkpoint, complete, fail, retry, cancel, fail stale, fail offline, recover a runtime | `RunLifecycle`, abstractly `WorkItem` |
| Lifecycle outbox (`internal/service/lifecycle_outbox.go`, `task_derived_projector.go`, `lifecycle_outbox.sql`, `pkg/traces/service.go`) | `lifecycle_outbox` (lease, attempts, settlement), receipts, deliveries, traces, comments, metrics, activity, inbox | claim with a lease, project statement by statement, acknowledge, release with backoff, dead-letter; derive activity and inbox | `LifecycleOutbox`, abstractly `FactDelivery` |
| Engineering loop (`internal/loop/*.go`, `internal/handler/loop.go`, `loops.sql`) | `loops`, the stage items, receipts of its consumer | create, start, apply the end of a stage, restore after a restart, pause, resume, cancel | `EngineeringLoop`, abstractly `LoopCycle` |
| Runtime registry (`internal/handler/daemon.go`, `cmd/server/runtime_sweeper.go`, `runtime.sql`) | `agent_runtime`, the process of the daemon and the runtimes it knows | register, deregister, heartbeat, mark stale runtimes, fail their items | `RuntimeRegistry` |
| Task service and pool of agents (`internal/service/task.go`, `internal/handler/agent.go`) | `agent` (runtime, limit, status), items waiting and handed out | claim for a runtime with the capacity check, candidate order, status after claims, facts and registrations, settings of the owner | `AgentPool` |
| Triggers (`internal/handler/issue.go`, `comment.go`, `agent.go`) | none of their own; the queue of an issue | enqueue on assignment, comment and mention, cancel on change | `TaskTriggers` |
| Task graph and planner (`internal/service/planner.go`, `pkg/taskgraph/store.go`) | nodes and edges of an issue's graph | ask a model for a plan, write nodes and edges one by one, edit, delete | `TaskPlanning` |
| Repository cache (`internal/daemon/repocache/cache.go`) | bare clones, worktrees, branches | sync, check out, reuse | `RepoCache` |
| Daemon control (`cmd/agentra/cmd_daemon.go`, `internal/daemon/health.go`) | processes of a profile, health port, PID file | start, stop, update with restart | `DaemonControl` |
| Local daemon (`internal/daemon/daemon.go`) | slots, goroutines, runtimes | poll, run an item, watch for cancellation, stop | `LocalDaemon` |
| Agent adapters (`pkg/agent/*.go`) and transcripts (`executeAndDrain`) | a process, its output, pending JSON-RPC calls; batches of messages | handshake, scan, end, kill; drain, flush, store | `AgentSession`, `TaskTranscript` |
| Pings and updates (`internal/handler/runtime_ping.go`, `runtime_update.go`) | requests in memory | create, pop on heartbeat, report, time out | `RuntimeRequests` |
| Realtime hub (`internal/realtime/hub.go`) | clients, rooms, channels | register, publish, evict slow clients | `RealtimeHub` |
| Inbox, subscribers, activities (`cmd/server/*_listeners.go`) | subscribers, inbox items, activities of an issue | what each event tells to whom | `IssueInbox` |
| Inbox of the web application (`src/apps/web/features`) | the store of a tab, its requests | fetch, events, optimistic changes, reconnect | `WebInbox` |
| Workspaces, members, sign-in (`internal/handler/workspace.go`, `auth.go`) | members, roles, policy | invite, change, remove, leave, delete, first sign-in | `WorkspaceAccess` |
| Skills (`internal/handler/skill.go`), projects (`pkg/projects`) | skills with files, assignments; projects, milestones, issues | create, replace, import, assign; assign, remove, delete | `SkillLibrary`, `ProjectBoard` |
| One-time codes, tokens, uploads, GitHub links, memory search, traces listing, metrics, doctor, CLI commands, migrations, the rest of the web application | | | no (section 6) |

How they interact. Only transactions of the lifecycle change an item or a Run, and each of
them appends its facts to the outbox in the same transaction. Three consumers read the
facts: the core worker (trace, comment, metric, and the agent's status), the derived
projector (activity, inbox; after the core worker has acknowledged) and the loop's consumer
(next stage). The loop inserts stage items into the same queue. Triggers insert and cancel
items; the task service hands them to the runtimes that ask. The registry decides when items
of a runtime are recovered or failed. The daemon is never trusted by the server: it can call
back with any Run it was ever given.

What is hard here: many actors close the same Run; a callback of an old attempt can arrive
after a new one started; facts are projected by workers that can lose their lease between
any two statements; registration is several transactions with a crash possible after each;
capacity, owners, plans and statuses are read in one statement and acted on in another; the
daemon is many goroutines around channels of bounded size. `PROJECT.json` lists these
hazards at their lines with the properties that cover them.

## 2. Modules

Each module names its code in its header, has one action per transaction, statement, handler
or step of a goroutine (whatever the code makes indivisible), and its properties at the end.
Operators marked *Mutant* stand before the definition they alter, each a plausible slip;
they are used by nothing else, and every property is violated by at least one of them.

`RunLifecycle` has one action per transaction: `withLockedRun` locks the item and the Run
before it looks at them, each bulk operation is one SQL statement, a transaction that rolls
back changes nothing. `status`, `active`, `retries`, `session`, `wentOffline` are columns of
the item, `runs[t]` the statuses of its Runs in claim order, `facts[t]` its outbox rows. The
unique indexes are guards, as a violation rolls back. `WorkItem` is what the rest of the
system may rely on: an item is queued, worked on, requeued within its budget, and ends.

`LifecycleOutbox` models the core worker statement by statement: claim, trace, comment and
metric in statements of their own, then `Ack` or `Release`, both conditional on the token.
Between two statements the process may stop, the lease may end, another worker may claim.
There is no clock: a lease or a backoff may end at any moment. `created_at` is the start of
the appending transaction (`stamp`), `rank` the commit order. `FactDelivery` is what readers
of the rows may rely on, without workers, leases or retries: a fact is told, delivered or
abandoned, and owes certain rows, which are written once each.

`EngineeringLoop` has the loop's row, its stage items and the terminal facts without a
receipt. `UpdateStatus` writes status, stage and iteration whole, and so does the model. The
consumer claims a fact, decides and writes the loop, the next item and the receipt in one
transaction. A request to pause, resume or cancel is two steps, as in
`transitionLoopStatus`: `AskRead` takes the row, whatever its status is, `AskWrite` writes
it back with the status asked for, without lock or test, so it may meet the consumer, the
restore and other users. The history variable `override` says whether such a write put the
loop at a stage it was not at, or in motion again: "standing" until the coordinator next
moves the loop, then "past". `LoopCycle` is the cycle as the user sees it, with requests in
two steps: the loop may be put back to where a request found it, and nowhere else.

`RuntimeRegistry`: registration is `Lookup`, `Upsert`, `RecoverTasks` for each runtime in
turn, then `Answer`; it can fail or crash after each. The sweep is two statements. What a
killed process had sent is over before the next one sends its own registration.

`AgentPool`: a claim request is `Lists`, `Counts`, `ClaimTaskCandidate`, `Answers` with
`Rejects` for an item the adapter cannot enforce, and `GivenUp` when the daemon stops
waiting. The status is reconciled by the outbox worker (`Projects`) and by the registration
(`Surveys`), each listing, counting and writing in separate steps. `unsure` and `strained`
are history: the agents whose status two writers wrote at once, and those whose limit was
lowered or whose items wait at two runtimes.

`TaskTriggers`: requests about an issue check and enqueue in separate steps; an explicit
null unassigns the issue and, as `assigneeChanged` is false for it (`issue.go:413`), cancels
nothing. `lastAssigned` is history: who the issue was last assigned to. `TaskPlanning`:
nodes and edges written one statement at a time while the graph is edited; each request may
force, each dependency is a row as often as the answer names it. `together` is history: the
requests that were at work at once. `RepoCache`: git is external, `GitFetch` and
`WorktreeAdd` say what it does with the arguments it gets. `DaemonControl`: processes, the
port they race for, farewells and heirs. `LocalDaemon`, `AgentSession` and `TaskTranscript`:
goroutines and channels; a step is what happens between two channel operations or calls.
`TaskTranscript` extends `AgentSession`. `RuntimeRequests`, `RealtimeHub`: maps under a
lock. `IssueInbox`: the synchronous listeners in their order, for updates sent singly or in
a batch. `WebInbox`: a tab, its fetches, its socket. `WorkspaceAccess`, `SkillLibrary`,
`ProjectBoard`: the statements of their handlers.

Three modules set components side by side that share no state: `AgentServices` (triggers,
pool, planning, repositories, daemon control), `PeopleServices` (access, skills, projects,
inbox, web inbox) and `ServerMemory` (requests, hub). A property of one of them speaks of
its variables only, so a behaviour of all is, for that property, a behaviour of the one;
they are checked with one at work while the others are in a first state. A first state is
also where each would start, so every behaviour of a component alone is a behaviour of the
composition.

## 3. The runs

| Run | Instance | Shows |
|---|---|---|
| `run_lifecycle` | 2 items of one issue on 2 runtimes, 2 retries, the first item's Runs with 1 checkpoint each | item, Runs, session and outbox agree, one active item per issue, ends are final, refinement of `WorkItem`, every queued item settles |
| `outbox_delivery` | 2 facts of one item, 2 core workers, 2 projectors, 1 crash, 2 claims of the first fact that may lose their lease | each effect once, order of delivery, refinement of `FactDelivery`, every fact arrives |
| `engineering_loop` | 1 loop, 2 consumers, 1 request of a user, 1 mishap, 1 restart, no fix | an item moves the loop once, one stage at a time |
| `engineering_loop_live` | 1 consumer, failing deliveries, 2 requests of a user, 1 mishap, 1 fix | a running loop waits for its newest item; refinement of `LoopCycle`; a running loop moves on |
| `runtime_registry` | 2 runtimes, 1 item, 2 processes, 2 failures | orphans adopted, live work never taken back, a dead daemon is noticed |
| `local_daemon` | 1 slot, 2 runtimes, 2 items, 2 processes, 2 lost calls | slots hold the work, an idle pass asks every runtime, stops and cancellations arrive |
| `agent_session` | 3 CLIs, up to 2 lines, 1 failed call, channel of 1 | result whole, transcript true, ended Runs closed, everything ends |
| `server_memory` | 1 ping, 2 updates, 2 processes, 1 fault; 2 connections, 1 sender beside the hub's loop, channel of 1 | a request is handed out once, one update works; no channel closed twice, no gap kept, the slow removed |
| `agent_services` | 2 agents and 2 requests at a time of 3 about an issue; 1 agent with items of 2 issues at 2 runtimes; 2 planners, each may force; 1 repository, 2 items; 3 processes, the first an old one, 2 commands | comments are heard, limits and statuses hold, what was written is a plan or its beginning and two plans meet only by force or overlap, checkouts serve, one daemon polls |
| `people_services` | 2 users, 3 workspaces, 2 calls at a time of 4; 2 skills; 2 projects, 2 issues; an issue with 3 events, of which updates assign, unassign, and set status or description, singly or in a batch; a tab with 1 notice, 2 drops | an owner remains, replacements are whole, issues stay, followers are told, sign-ins are served, tabs catch up |
| `recovery_refused`, `loop_overwritten` | | each violates one stated promise, section 5 |

Why the bounds are enough. Two items of one issue meet every conflict of the serial rule and
of the pending index; two retries give three attempts, so that a callback can come from one
that is neither the newest nor the one before. Two facts and two workers of each kind give
every overtaking, and leases lost before and after each statement of the first fact;
attempts are only compared with their bound. In the loop one fix iteration reaches each
stage, the refused one included; `engineering_loop` does without it, for two consumers
beside a restart and a request are what it is about. Requests of several users that overlap
are in the theorems, not in the runs. In the registry and the daemon two processes are a
predecessor and a successor; in daemon control the third is one that starts while the first
drains and the second serves. Two requests at a time give every pair of a read and a foreign
write; those that are alike (requests about the issue, edits of a skill) are a symmetry of
`people_services`, which checks no liveness. One slot makes items wait for it, one sender
meets the loop of the hub. Channels of one fill at once, which 256 does after more of the
same. Bounds on counters (`MaxCheckpoints`, `MaxSlow`, `MaxCrashes`, `MaxAsks`,
`MaxMishaps`, `MaxRestarts`, `MaxProcesses`, `MaxFaults`, `MaxFailures`, `MaxEdits`,
`MaxTouches`, `MaxCommits`, `MaxCheckouts`, `MaxCommands`, `MaxCalls`, `MaxEvents`,
`MaxDrops`, ...) end behaviours early, so the runs do not check for deadlock; the liveness
properties are what shows that nothing waits for ever. Every safety property, action
property and refinement of a passing run has its theorem (section 4), for which the bounds
do not matter: the instances are as large as finds slips quickly, and the smallest that show
liveness.

Fairness and its reasons.

- `RunLifecycle`: a polling daemon claims an item that stays claimable, and the sweeper,
  whose ticker never stops (`cmd/server/runtime_sweeper.go:38`), fails an item that stays
  active. Nothing is assumed of callbacks.
- `LifecycleOutbox`: both consumers poll for ever and their statements return, time passes,
  open transactions end. Statements may fail as often as they like.
- `EngineeringLoop`: a daemon polls; an item is requeued finitely often and ends, so
  finishing is strongly fair; consumers poll; a starting server comes up.
- `RuntimeRegistry`: the sweeper, the handling of a request that was received, and the 45 s
  that pass without heartbeats once the process is gone. No daemon is assumed to start.
- `LocalDaemon`: its own goroutines run; an interrupted agent ends (it is killed).
- `AgentSession`, `TaskTranscript`: goroutines run, the deadline of the context comes, a
  killed process ends. The CLI itself is assumed to do nothing.
- `RealtimeHub`: the goroutine of the hub gets the lock again and again (strong fairness, as
  Go's mutex does not starve), a publisher goes on.

## 4. The proofs

TLAPS checks eight modules of proofs, for all values of the constants that satisfy the named
assumptions.

`RunLifecycleProofs` (`OwnersAssumption`, `RetriesAssumption`): `TypeSafety`,
`RunInvariant`, `ActiveRunConsistency`, `SerialExecution`, `BoundedAttempts`, `Finality`,
`OutboxFaithful`, `LifecycleImplementsWorkItem`. Lemma `LifecycleMoves` says that every step
moves each single item in one of ten ways, so each invariant is shown item by item for ten
moves. None of the invariants is inductive alone: closing a Run keeps the budget equation
only because the active Run is the newest, hence `RunInv` is their conjunction with the
types. The refinement follows from the same ten moves.

The same module holds `OutboxTellsTheStory` and `ResumePointKept`. `StoryInv` adds to the
story that no fact is about a Run to come, and that an item failed by the offline sweep has
one closing fact of its newest Run. `OneStoryPerRun` is stated with positions in the
sequence of facts, so that appending one is reasoned about without induction.

`RuntimeRegistryProofs` (`RegistryAssumption`): `TypeSafety`, `RegistryInvariant`,
`LiveWorkStays`, `FirstTryAdopts`. `IInv` adds the shape of a request under way, that no row
names a process to come, that a process which holds its answer is named by every row, and
two facts that carry the argument: while the present process holds an item its runtime's row
names that process and no request will recover it (`Held`), and without failures a row that
names the present process has no orphan unless its recovery is the next statement
(`AdoptedRows`).

`LifecycleOutboxProofs` (`EventAssumption`): `OutboxInvariant`, `EachEffectOnce`,
`DeliveryInOrder`, `OutboxImplementsDelivery`. The invariant has five parts: what a worker
has written already is in the rows (`RowsInv`), who holds an event has its token
(`LeaseInv`), attempts are paid from `MaxAttempts + MaxSlow` (`AttemptInv`), what a
projector may see (`DerivedInv`), and that committed facts of an item settle by rank
(`OrderInv`). Rows only grow (`RowsGrow`), which is why a second worker that repeats a
projection is harmless. The refinement maps `state` to the status of a fact, its type to
what it owes, and the pairs that `rank` and `stamp` order alike to `before`. Three facts
carry it. A worker that has lost its lease finds the rows of a delivered fact written, so
its statements are stutters; about an abandoned fact it may still write, which
`FactDelivery` allows. An acknowledgement that counts is made under the worker's own lease
(`OneHolder`) with all rows written (`Reached`), behind settled facts only (`OrderInv`). A
projector looks only at delivered ends of Runs (`LookingInv`), and the second of two that
took the same one repeats what is there.

`ServerMemoryProofs` (`RequestsAssumption`, `HubAssumption`; `MemorySpec`):

- `RequestsInvariant`, `EachRequestOnce`. A request the store may still give away was never
  given away (`HandedInv`); who works on an update holds the flag (`FlagInv`).
- `HubInvariant`, `FanOutIsSafe`. That nobody is told twice needs to know who else may tell:
  the goroutines at work have different events (`Unshared`), an event is still to go only to
  clients that have not heard of it, and while `member:added` goes to its user no connection
  of the room has (`Untold`), so the second pass, over the room, repeats nothing. That no
  closed channel is written to under the lock rests on `LockInv`: no client is removed while
  a fan-out holds it, so its recipients stay registered. A client that missed a message
  stays on some list of the slow until it is removed (`GapInv`).

`LocalDaemonProofs` (`DaemonAssumption`, `SessionAssumption`, `TranscriptAssumption`): of
the daemon (`Spec`), `SlotsAreKept` and `EveryRuntimeIsAsked`. `WorkInv` adds to the
property that a daemon waiting for a slot holds none, that only a cancelled item interrupts
its agent, and that a process that is down runs nothing. `PollInv` says that at the i-th
runtime of a pass the i runtimes from the offset on were asked; that these are all of them
after N steps is arithmetic of remainders (`Remainders`) and the fact that a listing of the
map holds every runtime.

Of one run of a CLI (`TranscriptSpec`), `ASessionIsTold` and `EndedRunsStayClosed`.
`SessionInvariant` has three parts besides the types. `InOrder`: the lines in the pipe and
in the channel come in the order they were written in; a step of the session only speaks,
replies, hears, announces or cuts the pipe off (`SessionShape`), and each keeps the order.
`TranscriptInv`: every message made so far has a number of its own, lines of one kind, and
only lines that come before those on their way, so a flush that takes the text and a batch
at any moment keeps both orders. `SessionInv`: until the result is taken there is a line r
up to which everything was heard and the text of the result is what those lines count for
(`Halfway`); beyond r are the lines still in the pipe, or those lost with a line that was
too long, which opencode turns into a failure. The result is taken only when the reader is
done, and an end of codex's turn was heard by then, so nothing it wrote in time is missing.

`EngineeringLoopProofs`: `LoopInvariant`, `LoopGoesThroughItsCycle`, `ItemsMoveTheLoopOnce`,
`LoopWaitsForItsItem`, `OneAgentAtATime`, for any number of users whose requests come
between any two steps. `LoopInv` is the types, what a request has read (`RowInv`), that the
loop waits for its newest item (`WaitInv`), that an item which ended has not moved the loop
while its end is undelivered (`EndInv`), and, until an item taken for lost moves the loop or
a request overrides it, that one item is at work, for the current stage, and a stale claim
finds the loop elsewhere (`OneInv`). The parts of `OneInv` need each other: a stale claim is
harmless only because the item it is about has moved the loop. A request that puts the loop
back at a stage it had left takes exactly that away: the stale claim finds the loop where
its item had it, and the item moves it a second time. So `AppliedOnce` and `OneStageAtATime`
end with the first override, and say that nothing else breaks them; a write that does not
move the stage (a pause or a resume in time, any cancel) is no override and breaks nothing.
`AwaitsItsItem` is only suspended: the stage item the coordinator creates next is again the
newest.

`AgentServicesProofs` (`ControlAssumption`, `PoolAssumption`; `ServicesSpec`):

- `OneDaemonWorks`. `ControlInv`: the health port belongs to a process that loads or serves
  until it is told to stop, only processes told to stop drain, and none drains while one
  serves that nobody overlapped.
- `LimitIsKept`. Between the count of one request and its claim another request may claim.
  It does no harm because the items of an unstrained agent all wait at its runtime
  (`OneQueue`), so the other request, which is of another runtime, has no candidate of that
  agent, and what was counted still holds at the claim (`CountHolds`).
- `StatusIsRight`. For an agent that is not unsure: one writer at a time (`OneWriter`), a
  claimed item is active or a fact tells of its end (`ClaimIsTrue`), what a reconciliation
  has counted is true unless a fact came since (`RefreshIsTrue`). Lemma `ElsewhereKeeps`
  covers the steps that concern another agent or tell a fact.
- `GraphIsMade`. `PlanInv` says what a request has written when it is at its i-th node or
  edge (`Progress`), and that the rows of nodes and edges agree with each other and with
  what users deleted (`RowsAgree`); what another request writes bears its own name. What an
  unanswered request leaves is read off `Progress`; that two plans meet only by force or
  overlap follows from what a request saw when it began, kept in `together`.
- `CheckoutsAreServed`. `CacheInv`: every clone is whole for its place in the sync
  (`GoodClone`); what lies on disk is registered in a clone; what a request has asked for is
  in the clone once it fetched, unless a worktree cuts the clone off from its origin
  (`Met`); and the number that makes a second branch name was never used before
  (`NamesInv`), so a second attempt cannot find its name taken.
- `EveryCommentIsHeard`. `TriggersInv` adds to the property what a request may rely on
  between its statements while it is alone (`Course`: the assignee it read is still the
  assignee, the agent it is about to insert an item of is not archived, and so on), and that
  a pending item which is nobody's to work on, nor the last assignee's, is about to be
  cancelled (`PendingInv`). With requests in flight together only `CommentsAreHeard` is
  left, and it needs none of that.

`PeopleServicesProofs` (`AccessAssumption`, `LibraryAssumption`, `BoardAssumption`,
`InboxAssumption`; `ServicesSpec`):

- `WorkspacesKeepAnOwner`, `FirstSignInIsServed`. `AccessInv`: a request that has judged and
  that nobody overtook leaves another owner when it writes (`Judged`), which the count of
  owners gives it and every other write of a membership keeps or records; whoever has a
  workspace of their own that is there belongs to it or was taken out of it (`HomeKept`), so
  a sign-in that finds its address taken finds a membership too.
- `ReplacedAsAWhole`. `LibraryInv`: the transaction that replaces a skill is the only one
  that holds its row, and has seen every file of it but those written singly since
  (`ReplacesAll`); a request for an agent that nobody overlapped has removed all the agent
  has (`AssignsAll`).
- `IssuesLeaveForAReason`. `BoardInv`: a request that has found an issue in a project finds
  it there or in none when it writes, unless the history tells of a move.
- `ATabCatchesUp`. `TabsInv`: rows only go on, and neither the store nor an answer on its
  way is ahead of what the row was (`RowsGoOn`); an item that a tab does not show is owed to
  it by an event, an answer or a reconnect to come (`ItemsArrive`); where a tab is ahead of
  an unread row, a request of the user's is underway that will change the row, or the list
  is being asked for (`NotAhead`).
- `AnIssueIsTold`. `InboxInv` says of a request that publishes: its event is what the rows
  say (`EventIsTrue`); whom it involves is subscribed, or still to be (`Subscribing`); once
  the subscribers are listed, its followers are told or still to be (`Telling`); the items
  and activities its event has so far are those its place in the listeners calls for
  (`Mentioning`, `Logging`). `OthersCourse` carries this over the steps of other requests,
  `OnwardCourses` from one listener to the next.

Only model-checked, and why.

- Liveness (`EveryItemSettles`, `FactsArrive`, `LoopMovesOn`, `OfflineIsNoticed`,
  `StopsReachTheWork`, `SessionsEndWhole`, `SlowAreRemoved`): fairness and ENABLED are out
  of the prover's reach.

## 5. What the models show of the code

Two promises are violated by runs:

- `recovery_refused` (`runtime.sql:126`): recovery requeues every orphan of a runtime in one
  UPDATE; if one orphan's issue got another queued item meanwhile, the unique index raises
  and no orphan of the runtime is recovered.
- `loop_overwritten` (`internal/handler/loop.go:310`): a request to resume writes a loop
  that has failed as running. If it read the loop after the failure, the handler, which
  tests no status, leaves a running loop without stage and work; if it read before, it
  undoes the failure, for it takes no lock.

Others are excused in the properties, which therefore say where the code keeps its promises,
or were seen while reading:

Lifecycle and outbox. Events are ordered by `created_at`, the start of the appending
transaction; of two of one item that are open together the first to start may commit last
and is delivered first (`DeliveredInOrder` excuses it). A core event whose projection kills
the process is claimed again without end, as only `Release` dead-letters. A dead-lettered
event never reaches activity and inbox.

Loop. A request that read the loop before the coordinator moved it puts it back at the stage
it had left; that stage's item is then waited for a second time, and two stages may be at
work (`AppliedOnce` and `OneStageAtATime` excuse behaviours after it). A loop set running
without a stage stays so until a restart fails it (`coordinator.go:253`). The end of a stage
consumed while the loop is paused is gone; after resume nothing happens until a restart. The
consumer compares stages, not items; so when a paused review's failure was passed over, a
restart re-armed the review and the lost review item is recovered later, its late end moves
the loop once more, and a stale claim of the other review's end applies again. `AppliedOnce`
and `OneStageAtATime` exclude behaviours after such an item moved the loop (`LostMoved`). A
failed or finished loop shows iteration 0.

Registry. The new `instance_id` is stored before the orphans are recovered; a registration
that fails in between is repeated with the same id and skips recovery
(`AnsweredMeansAdopted` holds without failures).

Pool. Two runtimes with items of one agent can exceed its limit together. A status is lost
when the daemon gives its request up between claim and write. Items removed with their issue
tell no fact, and `run.started` does not reconcile.

Triggers. An update pre-fills from a row read before it (lost update). Racing reassignments
leave a pending item with the wrong agent; an enqueue that checked before an agent was
archived inserts after its items were cancelled. A mention is skipped while another agent's
item is pending, and the item of a second agent mentioned in one comment is refused by the
unique index; nobody asks again, and `CommentsAreHeard`, which is about the assignee, does
not cover it. Two agents that mention each other trigger each other without end. An issue
that is unassigned (an explicit null, `agentra issue assign --unassign`) keeps its pending
item, although the comment over the cancellation says "Reconcile task queue when assignee
changes" (`issue.go:445`): `SettledQueue` allows an item of the agent last assigned.

Planning. The graph is looked for before the long call of the model, so two requests make
two graphs; `?force=true` adds a second graph where its message says "overwrite"
(`auto_decompose.go:101`), and `PlansAreNotMixed` excuses both; a request that stops halfway
leaves the first nodes of its plan, which block a retry without force (`LeftIsABeginning`
says no more can be left); `validateDAG` detects neither cycles nor a dependency named
twice, which becomes two edges. `execute.go` imports another version of the router than the
server, so `POST /execute` always answers 400.

Repositories. Git refuses every fetch of a clone once a checked-out branch exists on the
origin, so later checkouts start from an old main. A reused directory always fails to check
out the same repository again and leaves a branch behind. A daemon killed between clone and
configuration leaves a clone that is never updated; a partial clone is visible to checkouts;
two URLs with the same last part share a clone. `Cleanup` is called by nobody.

Daemon control. A deferred `os.Remove` deletes the PID file the restarted child wrote, and a
failed bind removes the running daemon's. `daemon stop` says stopped while the daemon drains
for up to 30 s, after which its farewell shows the successor offline until a heartbeat.

Requests. An update popped and then dropped by the compare-and-swap stays "running" until it
times out; a ping that is "running" never times out; a late report overwrites "timeout".

Daemon and sessions. A claim whose answer is lost is dispatched to nobody until the sweep. A
codex that dies in mid-turn is noticed at its timeout only; a request registered after the
reader ended waits for its context; messages beyond 256 are dropped; text that is held back
gets a later number than the tool use after it; the last flush is not awaited; a send on a
closed channel is possible (`codex.go:208`).

Hub and inbox. An answer to a ping can be sent on a closed channel, as can a message to a
user, which is sent after the lock is released. A subscriber who is mentioned gets two
items; re-adding a reaction notifies again; failures to create an item are only logged. A
status change that was under way while the assignee was replaced writes back the assignee it
had read, and tells and subscribes nobody, for it compares with the same stale row: who had
unsubscribed is assigned again without a notice. `Involved` excuses this; it takes four
events, one more than the run has, and came up when the invariant was made inductive. An
unassignment is no change (`issue.go:413`): it is in no activity and the member it takes the
issue from is not told, although the listener has an "unassigned" notice. The event of
`BatchUpdateIssues` (`issue.go:717`) carries neither previous values nor whether the
description changed: mentions in it subscribe and tell nobody, activities do not say what
was there before, and a previous assignee is not told; `LogReplays`, `MentionsToldOnce` and
`Involved` state these gaps. A late fetch overwrites an item the tab was told of meanwhile;
a tab skips its user's own events and so leaves a second tab stale; sweeping actions take
unseen items with them.

People. Owners are counted and the membership written in separate statements with a role
read before (`OwnerRemains` excuses overtaken requests). A user who has left his default
workspace and belongs nowhere cannot sign in again. A verification code is used up before
the user is provisioned. Two assignments of skills to an agent at once unite. Removal from a
project clears whichever project is set by then; `ListIssuesByProject` does not filter by
workspace.

## 6. Abstractions, and what is not modelled

- Statements are atomic in `RunLifecycle`. Under READ COMMITTED a statement that waited for
  a row lock re-reads that row but not the others in its CTEs (hazard at `agent.sql:83`). A
  deadlock of two bulk statements aborts one, a transaction that does not happen.
- Error texts, outputs, token usage, timestamps and priorities are left out unless a
  property is about them, except `'runtime went offline'`.
- Deletion of issues, agents and workspaces is modelled where it meets the component
  (`TaskTriggers`, `TaskPlanning`, `WorkspaceAccess`), not in `RunLifecycle`.
- `RuntimeRegistry` has one daemon and one workspace; items there have no Runs.
- `EngineeringLoop` assumes that a consumer which claimed a fact on an older snapshot gets
  to the loop's row before another item of the loop ends (`StaleClaimsSettle`).
- In `SkillLibrary` an update of a skill sends content and files together; one that sends
  only one of them (`skill.go:312`, `skill.go:350`) leaves the other as it was, on purpose.
- In `AgentPool` an item between its claim and its end does what `RunLifecycle` says in
  detail; candidates come by priority and age (`Rank`).
- All core workers or projectors of a server stop with it; the model lets one stop alone,
  which is more.
- Not modelled: one-time codes, personal tokens, uploads, e-mail (short sequential look-ups
  and calls of other services); memory search, GitHub links, listing of traces, metrics,
  usage scanners (reads and single writes); doctor, the other CLI commands, migrations
  (sequential tools); the web application apart from its inbox (presentation).
  `handler/members.go` is registered nowhere.

## 7. Plan

Done: the core and its proofs, the components around it, their composition, and the proofs
listed in section 4: every safety property, action property and refinement that a passing
run checks has its theorem. What is left is finer detail of the parts that section 6 leaves
out.
