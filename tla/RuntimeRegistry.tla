----------------------------- MODULE RuntimeRegistry -----------------------------
(***************************************************************************)
(* The runtimes of one daemon in one workspace: the rows of agent_runtime, *)
(* the processes of the daemon that come and go, the registration of       *)
(* internal/handler/daemon.go statement by statement, the heartbeats and   *)
(* the two statements of cmd/server/runtime_sweeper.go.                    *)
(*                                                                         *)
(* What happens to an item is that of module RunLifecycle with its Runs    *)
(* left out.  A process that is replaced is dead: the health port of the   *)
(* daemon admits one at a time.                                            *)
(***************************************************************************)
EXTENDS Naturals

CONSTANTS
    Runtime,         \* the runtimes the daemon registers, one for each provider
    Item,            \* work items
    RuntimeOf,       \* the runtime of each item
    MaxRetries,      \* max_retries of each item
    NoRuntime,
    NoRequest,
    LookupsFail,     \* a lookup of a registration may fail
    MaxProcesses,    \* bound: processes of the daemon
    MaxFaults        \* bound: failing statements, lost answers, crashes of the server

Request == [instance : 0..MaxProcesses, todo : SUBSET Runtime,
            at : Runtime \union {NoRuntime}, step : {"lookup", "upsert", "recover"},
            recover : BOOLEAN]

ASSUME RegistryAssumption ==
    /\ RuntimeOf \in [Item -> Runtime]
    /\ MaxRetries \in [Item -> Nat]
    /\ NoRuntime \notin Runtime
    /\ NoRequest \notin Request
    /\ MaxProcesses \in Nat /\ MaxFaults \in Nat

\* "none" is not yet created, "active" is dispatched or running, "offline" is failed
\* with 'runtime went offline', "over" is every other end.
ItemStatus == {"none", "queued", "active", "offline", "over"}

VARIABLES
    row,             \* agent_runtime: the instance_id in metadata (0: no row), whether
                     \* status is online, whether last_seen_at is within 45 seconds
    items,           \* status, the process that claimed it last, retry_count
    process,         \* the newest process of the daemon, its number is its instance_id
    alive,           \* that process is running
    known,           \* it holds the answer to its registration: it heartbeats and polls
    request,         \* DaemonRegister under way: its instance_id, the runtimes still to
                     \* do, the one in hand, its next statement and shouldRecover
    sweep,           \* the sweeper: the rows of MarkStaleRuntimesOffline in this pass
    faults

daemonVars == <<process, alive, known>>
vars == <<row, items, daemonVars, request, sweep, faults>>

Sweep == [at : {"idle", "marked"}, stale : SUBSET Runtime]

-----------------------------------------------------------------------------
Init ==
    /\ row = [r \in Runtime |-> [instance |-> 0, online |-> FALSE, fresh |-> FALSE]]
    /\ items = [i \in Item |-> [status |-> "none", worker |-> 0, retries |-> 0]]
    /\ process = 0
    /\ alive = FALSE
    /\ known = FALSE
    /\ request = NoRequest
    /\ sweep = [at |-> "idle", stale |-> {}]
    /\ faults = 0

-----------------------------------------------------------------------------
(* The daemon. *)

StartProcess ==
    /\ ~alive
    /\ process < MaxProcesses
    /\ process' = process + 1
    /\ alive' = TRUE
    /\ UNCHANGED <<row, items, known, request, sweep, faults>>

\* The process is killed; the server may go on with its registration.
Die ==
    /\ alive
    /\ alive' = FALSE
    /\ known' = FALSE
    /\ UNCHANGED <<row, items, process, request, sweep, faults>>

\* A graceful stop: DaemonDeregister gets through for some of the runtimes.
Stop(gone) ==
    /\ alive /\ known
    /\ alive' = FALSE
    /\ known' = FALSE
    /\ row' = [r \in Runtime |-> IF r \in gone THEN [row[r] EXCEPT !.online = FALSE]
                                             ELSE row[r]]
    /\ UNCHANGED <<items, process, request, sweep, faults>>

\* The workspace is taken out of the configuration; the agents work on.
Unwatch ==
    /\ alive /\ known
    /\ known' = FALSE
    /\ UNCHANGED <<row, items, process, alive, request, sweep, faults>>

Heartbeat(r) ==
    /\ alive /\ known
    /\ row' = [row EXCEPT ![r].online = TRUE, ![r].fresh = TRUE]
    /\ UNCHANGED <<items, daemonVars, request, sweep, faults>>

-----------------------------------------------------------------------------
(* Registration.  The daemon sends it when it starts and again, with the   *)
(* same instance_id, when a failed or removed workspace is watched again.  *)
(* Timing assumption: what a killed process had sent is over before the    *)
(* next process sends its own.  Every agent of the configuration answers   *)
(* when the daemon asks its version, so each registration names them all.  *)

\* reloadWorkspaces: the workspace is watched and not among those it knows.
Unregistered == alive /\ ~known

Register ==
    /\ Unregistered
    /\ request = NoRequest
    /\ request' = [instance |-> process, todo |-> Runtime, at |-> NoRuntime,
                   step |-> "lookup", recover |-> FALSE]
    /\ UNCHANGED <<row, items, daemonVars, sweep, faults>>

Fault ==
    /\ faults < MaxFaults
    /\ faults' = faults + 1

\* Mutants: every registration recovers; only a runtime shown offline is recovered.
NewInstanceAlways(r) == row[r].instance # 0

NewInstanceOffline(r) == row[r].instance \notin {0, request.instance} /\ ~row[r].online

\* shouldRecover.
NewInstance(r) == row[r].instance # 0 /\ row[r].instance # request.instance

Lookup(r) ==
    /\ request # NoRequest
    /\ request.step = "lookup" /\ r \in request.todo
    /\ request' = [request EXCEPT !.at = r, !.step = "upsert", !.recover = NewInstance(r)]
    /\ UNCHANGED <<row, items, daemonVars, sweep, faults>>

\* A failing lookup is taken for a runtime that is not there yet.
LookupFails(r) ==
    /\ LookupsFail
    /\ Fault
    /\ request # NoRequest
    /\ request.step = "lookup" /\ r \in request.todo
    /\ request' = [request EXCEPT !.at = r, !.step = "upsert", !.recover = FALSE]
    /\ UNCHANGED <<row, items, daemonVars, sweep>>

Upsert(r) ==
    /\ request # NoRequest
    /\ request.step = "upsert" /\ r = request.at
    /\ row' = [row EXCEPT ![r] = [instance |-> request.instance, online |-> TRUE, fresh |-> TRUE]]
    /\ request' = [request EXCEPT !.step = "recover"]
    /\ UNCHANGED <<items, daemonVars, sweep, faults>>

\* Mutant: what the sweep has failed is not taken back.
OrphansActive(r) == {i \in Item : RuntimeOf[i] = r /\ items[i].status = "active"}

\* The targets of RecoverTasksForRuntimeLifecycle.
Orphans(r) ==
    {i \in Item : RuntimeOf[i] = r /\ items[i].status \in {"active", "offline"}}

\* Mutant: the budget is not looked at.
RequeuedAlways(i) == [items[i] EXCEPT !.status = "queued", !.retries = @ + 1]

Requeued(i) ==
    IF items[i].retries < MaxRetries[i]
    THEN [items[i] EXCEPT !.status = "queued", !.retries = @ + 1]
    ELSE [items[i] EXCEPT !.status = "over"]

RecoverTasks(r) ==
    /\ request # NoRequest
    /\ request.step = "recover" /\ r = request.at
    /\ items' = [i \in Item |->
                    IF request.recover /\ i \in Orphans(r) THEN Requeued(i)
                                                           ELSE items[i]]
    /\ request' = [request EXCEPT !.todo = @ \ {r}, !.at = NoRuntime, !.step = "lookup"]
    /\ UNCHANGED <<row, daemonVars, sweep, faults>>

Answer ==
    /\ request # NoRequest
    /\ request.todo = {}
    /\ known' = (alive /\ request.instance = process)
    /\ request' = NoRequest
    /\ UNCHANGED <<row, items, process, alive, sweep, faults>>

\* A statement fails, recovery is refused, the answer is lost; or the caller is dead
\* and the request is cancelled.
RequestFails ==
    /\ request # NoRequest
    /\ \/ Fault
       \/ (~alive \/ request.instance # process) /\ UNCHANGED faults
    /\ request' = NoRequest
    /\ UNCHANGED <<row, items, daemonVars, sweep>>

-----------------------------------------------------------------------------
(* The sweeper: two statements in each pass. *)

\* 45 seconds have passed since last_seen_at.
Silence(r) ==
    /\ row[r].fresh
    /\ row' = [row EXCEPT ![r].fresh = FALSE]
    /\ UNCHANGED <<items, daemonVars, request, sweep, faults>>

\* Mutant: only runtimes with work are looked at.
StaleAtWork(r) ==
    /\ row[r].online /\ ~row[r].fresh
    /\ \E i \in Item : RuntimeOf[i] = r /\ items[i].status = "active"

Stale(r) == row[r].online /\ ~row[r].fresh

MarkStale ==
    /\ sweep.at = "idle"
    /\ LET stale == {r \in Runtime : Stale(r)}
       IN  /\ row' = [r \in Runtime |->
                        IF r \in stale THEN [row[r] EXCEPT !.online = FALSE] ELSE row[r]]
           /\ sweep' = [at |-> "marked", stale |-> stale]
    /\ UNCHANGED <<items, daemonVars, request, faults>>

\* Mutant: only what this very pass has marked.
LostJustMarked(i) == items[i].status = "active" /\ RuntimeOf[i] \in sweep.stale

\* The targets of FailTasksForOfflineRuntimesLifecycle.
Lost(i) ==
    /\ items[i].status = "active"
    /\ row[RuntimeOf[i]].instance # 0 /\ ~row[RuntimeOf[i]].online

FailTasks ==
    /\ sweep.at = "marked"
    /\ items' = [i \in Item |-> IF Lost(i) THEN [items[i] EXCEPT !.status = "offline"]
                                           ELSE items[i]]
    /\ sweep' = [at |-> "idle", stale |-> {}]
    /\ UNCHANGED <<row, daemonVars, request, faults>>

\* A failing statement of the sweep is logged; the pass goes on.
SweepFails ==
    /\ Fault
    /\ sweep' = [at |-> IF sweep.at = "idle" THEN "marked" ELSE "idle", stale |-> {}]
    /\ UNCHANGED <<row, items, daemonVars, request>>

\* The server stops and starts again.
ServerCrash ==
    /\ Fault
    /\ sweep' = [at |-> "idle", stale |-> {}]
    /\ request' = NoRequest
    /\ UNCHANGED <<row, items, daemonVars>>

-----------------------------------------------------------------------------
(* The items. *)

Enqueue(i) ==
    /\ items[i].status = "none"
    /\ row[RuntimeOf[i]].instance # 0
    /\ items' = [items EXCEPT ![i].status = "queued"]
    /\ UNCHANGED <<row, daemonVars, request, sweep, faults>>

\* ClaimTaskForRuntime: it does not ask whether the runtime is online.
Claim(i) ==
    /\ alive /\ known
    /\ items[i].status = "queued"
    /\ items' = [items EXCEPT ![i].status = "active", ![i].worker = process]
    /\ UNCHANGED <<row, daemonVars, request, sweep, faults>>

\* Reported by its process, failed by the sweep of items that take too long, or
\* cancelled; module RunLifecycle says who may and when.  A queued item that is
\* withdrawn is left out: no statement of this module looks at it.
End(i) ==
    /\ items[i].status = "active"
    /\ items' = [items EXCEPT ![i].status = "over"]
    /\ UNCHANGED <<row, daemonVars, request, sweep, faults>>

-----------------------------------------------------------------------------
Next ==
    \/ StartProcess
    \/ Die
    \/ \E gone \in SUBSET Runtime : Stop(gone)
    \/ Unwatch
    \/ Register
    \/ \E r \in Runtime : Heartbeat(r)
    \/ \E r \in Runtime : Lookup(r)
    \/ \E r \in Runtime : LookupFails(r)
    \/ \E r \in Runtime : Upsert(r)
    \/ \E r \in Runtime : RecoverTasks(r)
    \/ Answer
    \/ RequestFails
    \/ \E r \in Runtime : Silence(r)
    \/ MarkStale
    \/ FailTasks
    \/ SweepFails
    \/ ServerCrash
    \/ \E i \in Item : Enqueue(i)
    \/ \E i \in Item : Claim(i)
    \/ \E i \in Item : End(i)

Spec == Init /\ [][Next]_vars

\* The sweeper's ticker never stops; without heartbeats the 45 seconds pass; a
\* request that is being handled comes to its end.
Fairness ==
    /\ WF_vars(MarkStale)
    /\ WF_vars(FailTasks)
    /\ \A r \in Runtime : SF_vars(~alive /\ Silence(r))
    /\ WF_vars(Answer \/ \E r \in Runtime : Lookup(r) \/ Upsert(r) \/ RecoverTasks(r))

FairSpec == Spec /\ Fairness

-----------------------------------------------------------------------------
(* What registration and sweep promise. *)

TypeOK ==
    /\ row \in [Runtime -> [instance : 0..MaxProcesses, online : BOOLEAN, fresh : BOOLEAN]]
    /\ items \in [Item -> [status : ItemStatus, worker : 0..MaxProcesses, retries : Nat]]
    /\ \A i \in Item : items[i].retries <= MaxRetries[i]
    /\ process \in 0..MaxProcesses
    /\ alive \in BOOLEAN /\ known \in BOOLEAN
    /\ request \in Request \union {NoRequest}
    /\ sweep \in Sweep
    /\ faults \in 0..MaxFaults

\* handler/daemon.go:140: registration is retry-safe, only a new process recovers
\* orphans.  An item is never put back in the queue while the process that claimed
\* it works on it, whatever is registered again and whenever.
WorkIsNotTakenBack ==
    [][\A i \in Item :
        items[i].status \in {"active", "offline"} /\ items[i].worker = process /\ alive
            => items'[i].status # "queued"]_vars

\* An item that an earlier process left behind, active or failed by the sweep.
Orphan(i) == items[i].status \in {"active", "offline"} /\ items[i].worker # process

\* A process whose registration is answered finds no orphan of an earlier one, if
\* nothing failed on the way: all were requeued, or failed for good, before the answer.
AnsweredMeansAdopted == known /\ faults = 0 => \A i \in Item : ~Orphan(i)

\* runtime_sweeper.go:58: an active item of an offline runtime is failed, although the
\* server may crash between the two statements of a pass, unless the runtime returns.
OfflineTasksFail ==
    \A i \in Item : Lost(i) ~> items[i].status # "active" \/ row[RuntimeOf[i]].online

\* A daemon that is gone is shown offline in the end, however it went and whatever it
\* left half done.
GoneIsShownOffline == ~alive ~> alive \/ \A r \in Runtime : ~row[r].online

\* Whatever dies half way, in the end a silent daemon is shown offline and no item is
\* left active on its runtimes.
OfflineIsNoticed == OfflineTasksFail /\ GoneIsShownOffline
=============================================================================
