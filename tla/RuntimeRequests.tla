---------------------------- MODULE RuntimeRequests ----------------------------
(***************************************************************************)
(* The pings and CLI updates a user asks of a runtime.  They live in the   *)
(* server's memory (internal/handler/runtime_ping.go, runtime_update.go),  *)
(* are taken by the heartbeats of the daemon, carried out by goroutines of *)
(* its process, and answered by calls of their own.  Either process may    *)
(* restart and every call may be lost on its way out or back.              *)
(*                                                                         *)
(* The age of a request counts the limits it has passed: 1 is the 60       *)
(* seconds of a ping or the 120 of an update, 2 the 2 or 5 minutes after   *)
(* which the next Create deletes it.                                       *)
(***************************************************************************)
EXTENDS Naturals, FiniteSets

CONSTANTS
    Runtime,         \* the runtimes of one daemon
    Ping, Update,    \* requests
    RuntimeOf,       \* the runtime of each request
    MaxProcesses,    \* bound: processes of the daemon
    MaxFaults        \* bound: lost calls and restarts of the server

Request == Ping \union Update

ASSUME RequestsAssumption ==
    /\ Ping \intersect Update = {}
    /\ IsFiniteSet(Update)
    /\ RuntimeOf \in [Request -> Runtime]
    /\ MaxProcesses \in Nat \ {0} /\ MaxFaults \in Nat

VARIABLES
    req,             \* PingStore and UpdateStore: status and age
    life,            \* the daemon: "up", "stopping" (its context is cancelled), "down"
    process,         \* processes of the daemon so far
    work,            \* the goroutine of a request: handlePing or handleUpdate
    updating,        \* Daemon.updating
    handed,          \* history: how often a heartbeat's answer brought it to the daemon
    faults

daemonVars == <<life, process, work, updating, handed>>
requestsVars == <<req, daemonVars, faults>>

InProgress(q) == req[q].status \in {"pending", "running"}
Known(q)      == req[q].status \notin {"absent", "gone"}
Kind(q)       == IF q \in Ping THEN Ping ELSE Update

RequestsInit ==
    /\ req = [q \in Request |-> [status |-> "absent", age |-> 0]]
    /\ life = "up" /\ process = 1
    /\ work = [q \in Request |-> "none"]
    /\ updating = FALSE
    /\ handed = [q \in Request |-> 0]
    /\ faults = 0

Fault == faults < MaxFaults /\ faults' = faults + 1

-----------------------------------------------------------------------------
(* The server.                                                             *)

\* Once settled a request's age only decides when it is deleted: let it stand.
TimePasses(q) ==
    /\ InProgress(q) /\ req[q].age < 2
    /\ req' = [req EXCEPT ![q].age = @ + 1]
    /\ UNCHANGED <<daemonVars, faults>>

\* What Create leaves of the store before it looks for a rival.
Swept(q) == [p \in Request |-> IF p \in Kind(q) /\ Known(p) /\ req[p].age = 2
                               THEN [req[p] EXCEPT !.status = "gone"] ELSE req[p]]

\* An update of the runtime that is pending or running.
Rival(q) == \E p \in Update : /\ RuntimeOf[p] = RuntimeOf[q]
                              /\ Swept(q)[p].status \in {"pending", "running"}

Stored(q) == [Swept(q) EXCEPT ![q].status = "pending"]

InitiatePing(q) ==
    /\ q \in Ping /\ req[q].status = "absent"
    /\ req' = Stored(q)
    /\ UNCHANGED <<daemonVars, faults>>

InitiateUpdate(q) ==
    /\ q \in Update /\ req[q].status = "absent"
    /\ req' = IF Rival(q) THEN Swept(q) ELSE Stored(q)
    /\ UNCHANGED <<daemonVars, faults>>

\* A request times out when somebody asks for it: a ping only while nobody took
\* it, an update until it is answered.
TimesOut(q) ==
    /\ req[q].age > 0
    /\ req' = [req EXCEPT ![q].status = "timeout"]
    /\ UNCHANGED <<daemonVars, faults>>

GetPing(q) == q \in Ping /\ req[q].status = "pending" /\ TimesOut(q)

GetUpdate(q) == q \in Update /\ InProgress(q) /\ TimesOut(q)

\* Mutant: the pop leaves the request in the store as it is.
PoppedPending(S) == [q \in Request |-> IF q \in S THEN req[q] ELSE req[q]]

\* PopPending of both stores: the requests it takes become running.
Popped(S) == [q \in Request |-> IF q \in S THEN [req[q] EXCEPT !.status = "running"]
                                ELSE req[q]]

\* What one heartbeat takes: the oldest pending ping of its runtime and the
\* pending update, which Create keeps the only one.
Waiting(r, kind) == {q \in kind : req[q].status = "pending" /\ RuntimeOf[q] = r}
Oldest(S) == {q \in S : \A p \in S : req[p].age <= req[q].age}
Takes(S, r, kind) ==
    IF Waiting(r, kind) = {} THEN S \intersect kind = {}
    ELSE \E q \in Oldest(Waiting(r, kind)) : S \intersect kind = {q}

\* DaemonHeartbeat.  With its answer the requests are lost: they stay running.
Heartbeat(r) ==
    /\ life = "up"
    /\ \E S \in SUBSET Request \ {{}} :
         /\ Takes(S, r, Ping) /\ Takes(S, r, Update)
         /\ req' = Popped(S)
         /\ \/ /\ work' = [q \in Request |-> IF q \in S THEN "received" ELSE work[q]]
               /\ handed' = [q \in Request |-> IF q \in S THEN handed[q] + 1 ELSE handed[q]]
               /\ UNCHANGED faults
            \/ Fault /\ UNCHANGED <<work, handed>>
    /\ UNCHANGED <<life, process, updating>>

\* Both stores are in memory.
ServerRestarts ==
    /\ Fault
    /\ \E q \in Request : Known(q)
    /\ req' = [q \in Request |-> IF Known(q) THEN [req[q] EXCEPT !.status = "gone"]
                                 ELSE req[q]]
    /\ UNCHANGED daemonVars

-----------------------------------------------------------------------------
(* The daemon.                                                             *)

\* Complete and Fail overwrite whatever the status is by now; an id the store
\* does not hold is no error.
Settled(q, status) == IF Known(q) THEN [req EXCEPT ![q].status = status] ELSE req

\* ReportPingResult, ReportUpdateResult, of which nothing is sent once the
\* daemon's context is cancelled.
Reports(q, status) ==
    \/ life = "up" /\ req' = Settled(q, status) /\ UNCHANGED faults
    \/ life = "up" /\ Fault /\ UNCHANGED req
    \/ life = "stopping" /\ UNCHANGED <<req, faults>>

Step(q, stage) == work' = [work EXCEPT ![q] = stage] /\ UNCHANGED <<process, handed>>

HandlePing(q, status) ==
    /\ q \in Ping /\ work[q] = "received"
    /\ Reports(q, status)
    /\ Step(q, "none")
    /\ UNCHANGED <<life, updating>>

\* Mutant: the flag is stored without looking at it.
TakeUpdateUnguarded(q) ==
    /\ q \in Update /\ work[q] = "received"
    /\ Step(q, "downloading")
    /\ updating' = TRUE
    /\ UNCHANGED <<req, life, faults>>

\* updating.CompareAndSwap: another update under way, this one is dropped and
\* nobody is told.
TakeUpdate(q) ==
    /\ q \in Update /\ work[q] = "received"
    /\ Step(q, IF updating THEN "none" ELSE "downloading")
    /\ updating' = TRUE
    /\ UNCHANGED <<req, life, faults>>

UpdateFails(q) ==
    /\ work[q] = "downloading"
    /\ Reports(q, "failed")
    /\ Step(q, "none")
    /\ updating' = FALSE
    /\ UNCHANGED life

UpdateSucceeds(q) ==
    /\ work[q] = "downloading"
    /\ Reports(q, "completed")
    /\ Step(q, "installed")
    /\ UNCHANGED <<life, updating>>

\* triggerRestart cancels the daemon's context; the flag is cleared after it.
TriggerRestart(q) ==
    /\ work[q] = "installed"
    /\ Step(q, "none")
    /\ life' = "stopping"
    /\ updating' = FALSE
    /\ UNCHANGED <<req, faults>>

StopSignal ==
    /\ life = "up"
    /\ life' = "stopping"
    /\ UNCHANGED <<req, process, work, updating, handed, faults>>

\* The process ends, or is killed; its goroutines end with it.
Exit ==
    /\ life # "down"
    /\ life' = "down"
    /\ work' = [q \in Request |-> "none"]
    /\ updating' = FALSE
    /\ UNCHANGED <<req, process, handed, faults>>

Restart ==
    /\ life = "down" /\ process < MaxProcesses
    /\ life' = "up"
    /\ process' = process + 1
    /\ UNCHANGED <<req, work, updating, handed, faults>>

-----------------------------------------------------------------------------
Handles(q) ==
    \/ \E status \in {"completed", "failed"} : HandlePing(q, status)
    \/ TakeUpdate(q) \/ UpdateFails(q) \/ UpdateSucceeds(q) \/ TriggerRestart(q)

RequestsNext ==
    \/ \E q \in Request : \/ TimePasses(q)
                         \/ InitiatePing(q) \/ GetPing(q)
                         \/ InitiateUpdate(q) \/ GetUpdate(q)
                         \/ Handles(q)
    \/ \E r \in Runtime : Heartbeat(r)
    \/ ServerRestarts
    \/ StopSignal \/ Exit \/ Restart

RequestsSpec == RequestsInit /\ [][RequestsNext]_requestsVars

-----------------------------------------------------------------------------
RequestsTypeOK ==
    /\ req \in [Request -> [status : {"absent", "pending", "running", "completed",
                                      "failed", "timeout", "gone"}, age : 0..2]]
    /\ life \in {"up", "stopping", "down"}
    /\ process \in 1..MaxProcesses
    /\ work \in [Request -> {"none", "received", "downloading", "installed"}]
    /\ updating \in BOOLEAN
    /\ handed \in [Request -> Nat]
    /\ faults \in 0..MaxFaults

\* A request reaches the daemon at most once, whatever heartbeats, restarts and
\* lost answers come between.
HandedOutOnce == \A q \in Request : handed[q] <= 1

\* The binary is replaced by one update at a time, although each runtime of the
\* daemon may be sent its own.
OneUpdateAtWork == Cardinality({q \in Update : work[q] \in {"downloading", "installed"}}) <= 1

\* A request is carried out at most once, and one update of the daemon at a time.
RequestsAreExclusive == HandedOutOnce /\ OneUpdateAtWork
=============================================================================
