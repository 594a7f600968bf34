----------------------------- MODULE DaemonControl -----------------------------
(***************************************************************************)
(* Starting, stopping and restarting the local daemon                      *)
(* (cmd/agentra/cmd_daemon.go, the health port of                          *)
(* internal/daemon/health.go, Run and the restart after an update of       *)
(* internal/daemon/daemon.go, internal/cli/update.go).                     *)
(*                                                                         *)
(* The processes of one profile share a health port, a PID file and, as    *)
(* they register under the same daemon id, the runtimes the server shows.  *)
(* A command that starts or stops a daemon looks at the health port only.  *)
(***************************************************************************)
EXTENDS Naturals, FiniteSets

CONSTANTS
    Daemons,         \* bound: the processes, in the order they are started
    Legacy,          \* a process of Daemons that is serving an old server URL, or 0
    MaxCommands      \* bound: start and stop commands

ASSUME ControlAssumption == Daemons \in Nat \ {0} /\ Legacy \in 0 .. 1 /\ MaxCommands \in Nat

Process == 1 .. Daemons

VARIABLES
    at,              \* [Process -> where the process is]
    cancelled,       \* the processes whose context is cancelled
    restarts,        \* those that start the new binary when Run has returned
    heir,            \* [Process -> the process it started for that, or 0]
    port,            \* who listens on the health port, or 0
    pidfile,         \* what the PID file names, or 0 when there is none
    shown,           \* whether the server shows the runtimes online
    start, stop,     \* the command of a user that starts, and the one that stops
    overlapped,      \* history: who registered while an older process was still draining
    commands

controlVars == <<at, cancelled, restarts, heir, port, pidfile, shown, start, stop, overlapped, commands>>

NoCommand == [at |-> "none"]

ControlInit ==
    /\ at = [p \in Process |-> IF p = Legacy THEN "serving" ELSE "unborn"]
    /\ cancelled = {} /\ restarts = {} /\ heir = [p \in Process |-> 0]
    /\ port = Legacy /\ pidfile = Legacy /\ shown = (Legacy # 0)
    /\ start = NoCommand /\ stop = NoCommand
    /\ overlapped = {} /\ commands = 0

Unborn == {p \in Process : at[p] = "unborn"}
NextProcess(p) == p \in Unborn /\ \A q \in Unborn : p <= q

\* The health endpoint answers once Run serves it, until the server is closed.
Answering == {p \in Process : port = p /\ at[p] \in {"serving", "leaving", "left"}}

-----------------------------------------------------------------------------
(* daemon start --foreground: runDaemonForeground and Run.                 *)

WritesPidFile(p) ==
    /\ at[p] = "new"
    /\ pidfile' = p /\ at' = [at EXCEPT ![p] = "listening"]
    /\ UNCHANGED <<heir, cancelled, restarts, port, shown, start, stop, overlapped, commands>>

\* The process ends and what it deferred is done: the PID file goes, whoever it names.
ProcessEnds(p) ==
    /\ at' = [at EXCEPT ![p] = "gone"]
    /\ port' = IF port = p THEN 0 ELSE port
    /\ pidfile' = 0

\* Mutant: a port that is taken is only logged.
ListensAnyway(p) ==
    /\ at[p] = "listening"
    /\ port' = (IF port = 0 THEN p ELSE port) /\ at' = [at EXCEPT ![p] = "loading"]
    /\ UNCHANGED <<heir, cancelled, restarts, pidfile, shown, start, stop, overlapped, commands>>

ListenHealth(p) ==
    /\ at[p] = "listening"
    /\ IF port = 0
       THEN port' = p /\ at' = [at EXCEPT ![p] = "loading"] /\ UNCHANGED pidfile
       ELSE ProcessEnds(p)                                  \* another daemon is already running
    /\ UNCHANGED <<heir, cancelled, restarts, shown, start, stop, overlapped, commands>>

Draining(p) == at[p] \in {"serving", "leaving"} /\ p \in cancelled

\* loadWatchedWorkspaces; without a runtime the daemon ends.
Loads(p, ok) ==
    /\ at[p] = "loading"
    /\ IF ok
       THEN /\ at' = [at EXCEPT ![p] = "serving"]
            /\ shown' = TRUE
            /\ overlapped' = IF \E q \in Process \ {p} : Draining(q) /\ heir[q] # p
                             THEN overlapped \union {p} ELSE overlapped
            /\ UNCHANGED <<port, pidfile>>
       ELSE ProcessEnds(p) /\ UNCHANGED <<shown, overlapped>>
    /\ UNCHANGED <<heir, cancelled, restarts, start, stop, commands>>

SendHeartbeat(p) ==
    /\ at[p] = "serving" /\ p \notin cancelled
    /\ shown' = TRUE
    /\ UNCHANGED <<heir, at, cancelled, restarts, port, pidfile, start, stop, overlapped, commands>>

\* The server of the health port is closed by a goroutine when the context is cancelled.
ClosesHealth(p) ==
    /\ p \in cancelled /\ port = p /\ at[p] \in {"serving", "leaving", "left"}
    /\ port' = 0
    /\ UNCHANGED <<heir, at, cancelled, restarts, pidfile, shown, start, stop, overlapped, commands>>

\* handleUpdate replaced the binary; triggerRestart.
HandleUpdate(p) ==
    /\ at[p] = "serving" /\ p \notin cancelled
    /\ restarts' = restarts \union {p} /\ cancelled' = cancelled \union {p}
    /\ UNCHANGED <<heir, at, port, pidfile, shown, start, stop, overlapped, commands>>

\* pollLoop returns when its Runs have ended, or after 30 s.
PollLoopReturns(p) ==
    /\ at[p] = "serving" /\ p \in cancelled
    /\ at' = [at EXCEPT ![p] = "leaving"]
    /\ UNCHANGED <<heir, cancelled, restarts, port, pidfile, shown, start, stop, overlapped, commands>>

\* Mutant: the new process is started before the runtimes are given up.
SpawnsFirst(p, c) ==
    /\ at[p] = "leaving" /\ p \in restarts /\ heir[p] = 0 /\ NextProcess(c)
    /\ at' = [at EXCEPT ![c] = "new"]
    /\ pidfile' = c /\ heir' = [heir EXCEPT ![p] = c]
    /\ UNCHANGED <<cancelled, restarts, port, shown, start, stop, overlapped, commands>>

\* deregisterRuntimes, deferred by Run.
Deregisters(p) ==
    /\ at[p] = "leaving"
    /\ shown' = FALSE
    /\ at' = [at EXCEPT ![p] = "left"]
    /\ UNCHANGED <<heir, cancelled, restarts, port, pidfile, start, stop, overlapped, commands>>

\* After Run, the new binary is started in the background and its PID written.
Spawns(p, c) ==
    /\ at[p] = "left" /\ p \in restarts /\ heir[p] = 0 /\ NextProcess(c)
    /\ at' = [at EXCEPT ![c] = "new"]
    /\ pidfile' = c /\ heir' = [heir EXCEPT ![p] = c]
    /\ UNCHANGED <<cancelled, restarts, port, shown, start, stop, overlapped, commands>>

Leaves(p) ==
    /\ at[p] = "left" /\ (p \notin restarts \/ heir[p] # 0 \/ Unborn = {})
    /\ ProcessEnds(p)
    /\ UNCHANGED <<heir, cancelled, restarts, shown, start, stop, overlapped, commands>>

\* A process is killed: nothing deferred is done.
Dies(p) ==
    /\ at[p] \notin {"unborn", "gone"}
    /\ at' = [at EXCEPT ![p] = "gone"]
    /\ port' = IF port = p THEN 0 ELSE port
    /\ UNCHANGED <<heir, cancelled, restarts, pidfile, shown, start, stop, overlapped, commands>>

-----------------------------------------------------------------------------
(* The commands.                                                           *)

\* SIGTERM: cancels the context of Run; earlier the process just ends.
Terminated(p) ==
    IF at[p] = "new"
    THEN at' = [at EXCEPT ![p] = "gone"] /\ UNCHANGED cancelled
    ELSE cancelled' = cancelled \union {p} /\ UNCHANGED at

\* runDaemonBackground: what answers on the port is left alone, unless it is legacy.
StartDaemon ==
    /\ start = NoCommand /\ commands < MaxCommands
    /\ commands' = commands + 1
    /\ \/ /\ Answering = {}
          /\ start' = [at |-> "spawning"] /\ UNCHANGED <<at, cancelled>>
       \/ \E p \in Answering :
             IF p = Legacy
             THEN Terminated(p) /\ start' = [at |-> "replacing", pid |-> p]
             ELSE UNCHANGED <<at, cancelled, start>>
    /\ UNCHANGED <<heir, restarts, port, pidfile, shown, stop, overlapped>>

\* stopRunningDaemon: until the port is silent or another answers, or it gives up.
LegacyIsGone ==
    /\ start.at = "replacing"
    /\ start' = IF start.pid \in Answering THEN NoCommand ELSE [at |-> "spawning"]
    /\ UNCHANGED <<heir, at, cancelled, restarts, port, pidfile, shown, stop, overlapped, commands>>

StartsChild(c) ==
    /\ start.at = "spawning" /\ NextProcess(c)
    /\ at' = [at EXCEPT ![c] = "new"]
    /\ start' = [at |-> "recording", pid |-> c]
    /\ UNCHANGED <<heir, cancelled, restarts, port, pidfile, shown, stop, overlapped, commands>>

RecordsChild ==
    /\ start.at = "recording"
    /\ pidfile' = start.pid
    /\ start' = [start EXCEPT !.at = "waiting"]
    /\ UNCHANGED <<heir, at, cancelled, restarts, port, shown, stop, overlapped, commands>>

\* waitForDaemonHealth, for 20 s.
SeesDaemon ==
    /\ start.at = "waiting"
    /\ \/ \E p \in Answering : pidfile' = IF p # start.pid THEN p ELSE pidfile
       \/ Answering = {} /\ UNCHANGED pidfile
    /\ start' = NoCommand
    /\ UNCHANGED <<heir, at, cancelled, restarts, port, shown, stop, overlapped, commands>>

StopDaemon ==
    /\ stop = NoCommand /\ commands < MaxCommands
    /\ commands' = commands + 1
    /\ \/ \E p \in Answering : Terminated(p) /\ stop' = [at |-> "polling", pid |-> p]
       \/ Answering = {} /\ UNCHANGED <<at, cancelled, stop>>
    /\ UNCHANGED <<heir, restarts, port, pidfile, shown, start, overlapped>>

\* Ten looks at the port: when it is silent the daemon is said to have stopped.
SeesStopped ==
    /\ stop.at = "polling"
    /\ pidfile' = IF Answering = {} THEN 0 ELSE pidfile
    /\ stop' = NoCommand
    /\ UNCHANGED <<heir, at, cancelled, restarts, port, shown, start, overlapped, commands>>

\* A user can start a daemon in the foreground without any look at the port.
StartForeground(c) ==
    /\ commands < MaxCommands /\ NextProcess(c)
    /\ commands' = commands + 1
    /\ at' = [at EXCEPT ![c] = "new"]
    /\ UNCHANGED <<heir, cancelled, restarts, port, pidfile, shown, start, stop, overlapped>>

ControlNext ==
    \/ \E p \in Process :
          \/ WritesPidFile(p) \/ ListenHealth(p) \/ SendHeartbeat(p) \/ ClosesHealth(p)
          \/ \E ok \in BOOLEAN : Loads(p, ok)
          \/ HandleUpdate(p) \/ PollLoopReturns(p) \/ Deregisters(p)
          \/ \E c \in Process : Spawns(p, c)
          \/ Leaves(p) \/ Dies(p) \/ StartsChild(p) \/ StartForeground(p)
    \/ StartDaemon \/ LegacyIsGone \/ RecordsChild \/ SeesDaemon
    \/ StopDaemon \/ SeesStopped

ControlSpec == ControlInit /\ [][ControlNext]_controlVars

-----------------------------------------------------------------------------
\* health.go:33 "an error if another daemon is already running": of the processes of a
\* profile at most one polls for work at a time, whatever is started, stopped, updated
\* and killed, though the port is free again while an older one still drains its Runs.
OneDaemonPolls ==
    \A p, q \in Process :
        at[p] = "serving" /\ at[q] = "serving" /\ {p, q} \cap cancelled = {} => p = q

\* daemon.go:100 and cmd_daemon.go:311: a daemon that serves is shown online, also when it
\* took over from the process that was updated; only a daemon that was started while a
\* stopped one was still draining can be shown offline by the other's farewell, until its
\* next heartbeat.
ServingIsShown ==
    \A p \in Process :
        at[p] = "serving" /\ p \notin cancelled /\ p \notin overlapped => shown

\* One daemon works for a profile, and is known to.
DaemonIsOne == OneDaemonPolls /\ ServingIsShown
=============================================================================
