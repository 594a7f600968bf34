-------------------------- MODULE ServerMemoryProofs --------------------------
(***************************************************************************)
(* The two parts of the server's memory, each from an invariant of its     *)
(* own, for every number of processes, restarts, clients, senders and      *)
(* events: a ping or an update is carried out at most once, and one update *)
(* at a time; a fan-out meets no channel that is closed, tells no client   *)
(* twice, and leaves none that missed a message with the gap.              *)
(***************************************************************************)
EXTENDS ServerMemory, FiniteSetTheorems, TLAPS

(* A step of the server's memory is a step of one part, or of none.        *)
LEMMA MemorySteps == [MemoryNext]_memoryVars => [RequestsNext]_requestsVars /\ [HubNext]_hubVars
  BY DEF MemoryNext, memoryVars

-----------------------------------------------------------------------------
(* The requests of runtimes.                                               *)

AtWork(q) == work[q] \in {"downloading", "installed"}

\* A request the store may still give away was never given away; who works on an
\* update holds the flag, and nobody else works on one.
HandedInv ==
    \A q \in Request :
        /\ handed[q] <= 1
        /\ req[q].status \in {"absent", "pending"} => handed[q] = 0

FlagInv ==
    /\ \A q \in Request : AtWork(q) => updating
    /\ \A p, q \in Request : AtWork(p) /\ AtWork(q) => p = q

RequestsInv == RequestsTypeOK /\ HandedInv /\ FlagInv

-----------------------------------------------------------------------------
(* What a step does to the store.                                          *)

Status == {"absent", "pending", "running", "completed", "failed", "timeout", "gone"}
Entry  == [status : Status, age : 0..2]

\* Only a request that was absent becomes pending, and none becomes absent.
NoneComesBack ==
    \A q \in Request : req'[q].status \in {"absent", "pending"} =>
                           req[q].status \in {"absent", "pending"}

LEMMA StoreSwept ==
    ASSUME RequestsTypeOK, NEW q \in Request
    PROVE  /\ Swept(q) \in [Request -> Entry]
           /\ Stored(q) \in [Request -> Entry]
           /\ \A p \in Request : Swept(q)[p].status \in {"absent", "pending"} =>
                                     req[p].status \in {"absent", "pending"}
           /\ \A p \in Request : p # q => Stored(q)[p] = Swept(q)[p]
<1>1. req \in [Request -> Entry]
  BY DEF RequestsTypeOK, Entry, Status
<1>2. ASSUME NEW p \in Request
      PROVE  /\ Swept(q)[p] \in Entry
             /\ Swept(q)[p].status \in {"absent", "pending"} =>
                    req[p].status \in {"absent", "pending"}
  <2>1. req[p] \in Entry
    BY <1>1
  <2>2. Swept(q)[p] = IF p \in Kind(q) /\ Known(p) /\ req[p].age = 2
                      THEN [req[p] EXCEPT !.status = "gone"] ELSE req[p]
    BY DEF Swept
  <2> QED BY <2>1, <2>2 DEF Entry, Status
<1>3. Swept(q) \in [Request -> Entry]
  <2>1. Swept(q) = [p \in Request |-> Swept(q)[p]]
    BY DEF Swept
  <2> QED BY <1>2, <2>1
<1>4. [Swept(q)[q] EXCEPT !.status = "pending"] \in Entry
  BY <1>2 DEF Entry, Status
<1>5. Stored(q) \in [Request -> Entry] /\ \A p \in Request : p # q => Stored(q)[p] = Swept(q)[p]
  BY <1>3, <1>4 DEF Stored
<1> QED BY <1>2, <1>3, <1>5

\* A step of one goroutine settles a request or leaves the store alone.
LEMMA StoreReported ==
    ASSUME RequestsTypeOK, NEW q \in Request, NEW s \in {"completed", "failed"}, Reports(q, s)
    PROVE  /\ req' \in [Request -> Entry] /\ faults' \in 0..MaxFaults
           /\ NoneComesBack
<1>1. req \in [Request -> Entry] /\ faults \in 0..MaxFaults
  BY DEF RequestsTypeOK, Entry, Status
<1>2. faults' \in 0..MaxFaults
  BY <1>1, RequestsAssumption DEF Reports, Fault
<1>3. req' = req \/ req' = [req EXCEPT ![q].status = s]
  BY DEF Reports, Settled
<1>4. CASE req' = req
  BY <1>1, <1>2, <1>4 DEF NoneComesBack
<1>5. CASE req' = [req EXCEPT ![q].status = s]
  <2>1. [req[q] EXCEPT !.status = s] \in Entry
    BY <1>1 DEF Entry, Status
  <2>2. req' \in [Request -> Entry]
    BY <1>1, <1>5, <2>1
  <2>3. ASSUME NEW p \in Request, req'[p].status \in {"absent", "pending"}
        PROVE  req[p].status \in {"absent", "pending"}
    <3>1. p = q => req'[p].status = s
      BY <1>1, <1>5 DEF Entry
    <3>2. p # q => req'[p] = req[p]
      BY <1>1, <1>5
    <3> QED BY <2>3, <3>1, <3>2
  <2> QED BY <1>2, <2>2, <2>3 DEF NoneComesBack
<1> QED BY <1>3, <1>4, <1>5

-----------------------------------------------------------------------------
LEMMA TypeStep ==
    ASSUME RequestsTypeOK, RequestsNext
    PROVE  RequestsTypeOK'
<1> DEFINE Work == {"none", "received", "downloading", "installed"}
<1>0. /\ req \in [Request -> Entry] /\ work \in [Request -> Work]
      /\ handed \in [Request -> Nat] /\ faults \in 0..MaxFaults
      /\ life \in {"up", "stopping", "down"} /\ process \in 1..MaxProcesses
      /\ updating \in BOOLEAN
  BY DEF RequestsTypeOK, Entry, Status
<1> USE RequestsAssumption
<1>1. ASSUME NEW q \in Request, TimePasses(q) PROVE RequestsTypeOK'
  <2>1. [req[q] EXCEPT !.age = @ + 1] \in Entry
    BY <1>0, <1>1 DEF TimePasses, Entry
  <2> QED BY <1>0, <1>1, <2>1 DEF TimePasses, RequestsTypeOK, daemonVars, Entry, Status
<1>2. ASSUME NEW q \in Request, InitiatePing(q) \/ InitiateUpdate(q) PROVE RequestsTypeOK'
  BY <1>0, <1>2, StoreSwept
     DEF InitiatePing, InitiateUpdate, RequestsTypeOK, daemonVars, Entry, Status
<1>3. ASSUME NEW q \in Request, GetPing(q) \/ GetUpdate(q) PROVE RequestsTypeOK'
  <2>1. [req[q] EXCEPT !.status = "timeout"] \in Entry
    BY <1>0 DEF Entry, Status
  <2> QED BY <1>0, <1>3, <2>1
          DEF GetPing, GetUpdate, TimesOut, RequestsTypeOK, daemonVars, Entry, Status
<1>4. ASSUME NEW q \in Request, Handles(q) PROVE RequestsTypeOK'
  <2>1. ASSUME NEW s \in {"completed", "failed"}, HandlePing(q, s) PROVE RequestsTypeOK'
    BY <1>0, <2>1, StoreReported DEF HandlePing, Step, RequestsTypeOK, Entry, Status
  <2>2. CASE TakeUpdate(q)
    BY <1>0, <2>2 DEF TakeUpdate, Step, RequestsTypeOK, Entry, Status
  <2>3. CASE UpdateFails(q)
    BY <1>0, <2>3, StoreReported DEF UpdateFails, Step, RequestsTypeOK, Entry, Status
  <2>4. CASE UpdateSucceeds(q)
    BY <1>0, <2>4, StoreReported DEF UpdateSucceeds, Step, RequestsTypeOK, Entry, Status
  <2>5. CASE TriggerRestart(q)
    BY <1>0, <2>5 DEF TriggerRestart, Step, RequestsTypeOK, Entry, Status
  <2> QED BY <1>4, <2>1, <2>2, <2>3, <2>4, <2>5 DEF Handles
<1>5. ASSUME NEW r \in Runtime, Heartbeat(r) PROVE RequestsTypeOK'
  <2>1. PICK S \in SUBSET Request \ {{}} :
            /\ req' = Popped(S)
            /\ \/ /\ work' = [q \in Request |-> IF q \in S THEN "received" ELSE work[q]]
                  /\ handed' = [q \in Request |-> IF q \in S THEN handed[q] + 1 ELSE handed[q]]
                  /\ UNCHANGED faults
               \/ Fault /\ UNCHANGED <<work, handed>>
    BY <1>5 DEF Heartbeat
  <2>2. \A q \in Request : [req[q] EXCEPT !.status = "running"] \in Entry
    BY <1>0 DEF Entry, Status
  <2>3. req' \in [Request -> Entry]
    BY <1>0, <2>1, <2>2 DEF Popped
  <2>4. work' \in [Request -> Work]
    BY <1>0, <2>1
  <2>5. handed' \in [Request -> Nat]
    BY <1>0, <2>1
  <2>6. faults' \in 0..MaxFaults
    BY <1>0, <2>1 DEF Fault
  <2> QED BY <1>0, <1>5, <2>3, <2>4, <2>5, <2>6
          DEF Heartbeat, RequestsTypeOK, Entry, Status
<1>6. CASE ServerRestarts
  <2>1. \A q \in Request : [req[q] EXCEPT !.status = "gone"] \in Entry
    BY <1>0 DEF Entry, Status
  <2>2. req' \in [Request -> Entry]
    BY <1>0, <1>6, <2>1 DEF ServerRestarts
  <2> QED BY <1>0, <1>6, <2>2
          DEF ServerRestarts, Fault, RequestsTypeOK, daemonVars, Entry, Status
<1>7. CASE StopSignal \/ Restart
  BY <1>0, <1>7 DEF StopSignal, Restart, RequestsTypeOK, Entry, Status
<1>8. CASE Exit
  <2>1. work' \in [Request -> Work] /\ updating' \in BOOLEAN /\ life' = "down"
    BY <1>8 DEF Exit
  <2> QED BY <1>0, <1>8, <2>1 DEF Exit, RequestsTypeOK, Entry, Status
<1> QED BY <1>1, <1>2, <1>3, <1>4, <1>5, <1>6, <1>7, <1>8 DEF RequestsNext

\* A heartbeat gives away requests that are pending, and only a heartbeat does.
LEMMA HandedStep ==
    ASSUME RequestsTypeOK, HandedInv, RequestsNext
    PROVE  HandedInv'
<1>0. req \in [Request -> Entry] /\ handed \in [Request -> Nat]
  BY DEF RequestsTypeOK, Entry, Status
<1>1. SUFFICES (NoneComesBack /\ handed' = handed) \/ \E r \in Runtime : Heartbeat(r)
  <2>1. ASSUME NoneComesBack, handed' = handed PROVE HandedInv'
    BY <2>1 DEF HandedInv, NoneComesBack
  <2>2. ASSUME NEW r \in Runtime, Heartbeat(r) PROVE HandedInv'
    <3>1. PICK S \in SUBSET Request \ {{}} :
              /\ Takes(S, r, Ping) /\ Takes(S, r, Update)
              /\ req' = Popped(S)
              /\ \/ handed' = [q \in Request |-> IF q \in S THEN handed[q] + 1 ELSE handed[q]]
                 \/ handed' = handed
      BY <2>2 DEF Heartbeat
    <3>2. ASSUME NEW q \in S PROVE req[q].status = "pending"
      <4>1. CASE q \in Ping
        BY <3>1, <4>1 DEF Takes, Oldest, Waiting
      <4>2. CASE q \in Update
        BY <3>1, <4>2 DEF Takes, Oldest, Waiting
      <4> QED BY <3>1, <4>1, <4>2 DEF Request
    <3>3. ASSUME NEW q \in Request
          PROVE  /\ handed'[q] <= 1
                 /\ req'[q].status \in {"absent", "pending"} => handed'[q] = 0
      <4>1. CASE q \in S
        <5>1. req'[q].status = "running"
          BY <1>0, <3>1, <4>1 DEF Popped, Entry
        <5>2. handed[q] = 0
          BY <3>2, <4>1 DEF HandedInv
        <5>3. handed'[q] \in {handed[q], handed[q] + 1}
          BY <3>1, <4>1
        <5> QED BY <5>1, <5>2, <5>3
      <4>2. CASE q \notin S
        BY <1>0, <3>1, <4>2 DEF Popped, HandedInv
      <4> QED BY <4>1, <4>2
    <3> QED BY <3>3 DEF HandedInv
  <2> QED BY <1>1, <2>1, <2>2
<1>2. ASSUME NEW q \in Request, TimePasses(q) PROVE NoneComesBack /\ handed' = handed
  <2>1. \A p \in Request : req'[p].status = req[p].status
    BY <1>0, <1>2 DEF TimePasses, Entry
  <2> QED BY <1>2, <2>1 DEF TimePasses, daemonVars, NoneComesBack
<1>3. ASSUME NEW q \in Request, InitiatePing(q) \/ InitiateUpdate(q)
      PROVE  NoneComesBack /\ handed' = handed
  <2>1. req[q].status = "absent" /\ (req' = Stored(q) \/ req' = Swept(q))
    BY <1>3 DEF InitiatePing, InitiateUpdate
  <2>2. ASSUME NEW p \in Request, req'[p].status \in {"absent", "pending"}
        PROVE  req[p].status \in {"absent", "pending"}
    BY <2>1, <2>2, StoreSwept
  <2> QED BY <1>3, <2>2 DEF InitiatePing, InitiateUpdate, daemonVars, NoneComesBack
<1>4. ASSUME NEW q \in Request, GetPing(q) \/ GetUpdate(q) PROVE NoneComesBack /\ handed' = handed
  <2>1. req' = [req EXCEPT ![q].status = "timeout"] /\ handed' = handed
    BY <1>4 DEF GetPing, GetUpdate, TimesOut, daemonVars
  <2>2. ASSUME NEW p \in Request, req'[p].status \in {"absent", "pending"}
        PROVE  req[p].status \in {"absent", "pending"}
    <3>1. p = q => req'[p].status = "timeout"
      BY <1>0, <2>1 DEF Entry
    <3>2. p # q => req'[p] = req[p]
      BY <1>0, <2>1
    <3> QED BY <2>2, <3>1, <3>2
  <2> QED BY <2>1, <2>2 DEF NoneComesBack
<1>5. ASSUME NEW q \in Request, Handles(q) PROVE NoneComesBack /\ handed' = handed
  <2>1. ASSUME NEW s \in {"completed", "failed"}, HandlePing(q, s)
        PROVE  NoneComesBack /\ handed' = handed
    BY <2>1, StoreReported DEF HandlePing, Step
  <2>2. CASE UpdateFails(q)
    BY <2>2, StoreReported DEF UpdateFails, Step
  <2>3. CASE UpdateSucceeds(q)
    BY <2>3, StoreReported DEF UpdateSucceeds, Step
  <2>4. CASE TakeUpdate(q) \/ TriggerRestart(q)
    BY <2>4 DEF TakeUpdate, TriggerRestart, Step, NoneComesBack
  <2> QED BY <1>5, <2>1, <2>2, <2>3, <2>4 DEF Handles
<1>6. CASE ServerRestarts
  <2>1. \A q \in Request : req'[q].status \in {"absent", "pending"} => req'[q] = req[q]
    BY <1>0, <1>6 DEF ServerRestarts, Known, Entry
  <2> QED BY <1>6, <2>1 DEF ServerRestarts, daemonVars, NoneComesBack
<1>7. CASE StopSignal \/ Exit \/ Restart
  BY <1>7 DEF StopSignal, Exit, Restart, NoneComesBack
<1> QED BY <1>2, <1>3, <1>4, <1>5, <1>6, <1>7 DEF RequestsNext

\* Only TakeUpdate begins to work, and it asks the flag; who clears it stops.
LEMMA FlagStep ==
    ASSUME RequestsTypeOK, FlagInv, RequestsNext
    PROVE  FlagInv'
<1>0. work \in [Request -> {"none", "received", "downloading", "installed"}]
  BY DEF RequestsTypeOK
<1>1. ASSUME NEW q \in Request, TakeUpdate(q) PROVE FlagInv'
  BY <1>0, <1>1 DEF TakeUpdate, Step, FlagInv, AtWork
<1>2. ASSUME NEW q \in Request, UpdateFails(q) \/ TriggerRestart(q) PROVE FlagInv'
  BY <1>0, <1>2 DEF UpdateFails, TriggerRestart, Step, FlagInv, AtWork
<1>3. ASSUME NEW q \in Request, UpdateSucceeds(q) PROVE FlagInv'
  BY <1>0, <1>3 DEF UpdateSucceeds, Step, FlagInv, AtWork
<1>4. ASSUME NEW q \in Request, NEW s \in {"completed", "failed"}, HandlePing(q, s)
      PROVE  FlagInv'
  BY <1>0, <1>4 DEF HandlePing, Step, FlagInv, AtWork
<1>5. ASSUME NEW r \in Runtime, Heartbeat(r) PROVE FlagInv'
  <2>1. ASSUME NEW q \in Request PROVE AtWork(q)' => AtWork(q)
    BY <1>0, <1>5 DEF Heartbeat, AtWork
  <2> QED BY <1>5, <2>1 DEF Heartbeat, FlagInv
<1>6. CASE Exit
  BY <1>6 DEF Exit, FlagInv, AtWork
<1>7. ASSUME UNCHANGED <<work, updating>> PROVE FlagInv'
  BY <1>7 DEF FlagInv, AtWork
<1>8. ASSUME NEW q \in Request,
             TimePasses(q) \/ InitiatePing(q) \/ GetPing(q) \/ InitiateUpdate(q) \/ GetUpdate(q)
      PROVE  UNCHANGED <<work, updating>>
  BY <1>8 DEF TimePasses, InitiatePing, InitiateUpdate, GetPing, GetUpdate, TimesOut, daemonVars
<1>9. ASSUME ServerRestarts \/ StopSignal \/ Restart PROVE UNCHANGED <<work, updating>>
  BY <1>9 DEF ServerRestarts, StopSignal, Restart, daemonVars
<1> QED BY <1>1, <1>2, <1>3, <1>4, <1>5, <1>6, <1>7, <1>8, <1>9 DEF RequestsNext, Handles

-----------------------------------------------------------------------------
\* The invariant: types, what was given away, and who holds the flag.
THEOREM RequestsInvariant == MemorySpec => []RequestsInv
<1>1. RequestsInit => RequestsInv
  <2> SUFFICES ASSUME RequestsInit PROVE RequestsInv
    OBVIOUS
  <2> USE RequestsAssumption DEF RequestsInit
  <2>1. req \in [Request -> [status : Status, age : 0..2]]
    BY DEF Status
  <2>2. /\ work \in [Request -> {"none", "received", "downloading", "installed"}]
        /\ handed \in [Request -> Nat]
    OBVIOUS
  <2>3. life = "up" /\ process \in 1..MaxProcesses /\ updating = FALSE /\ faults \in 0..MaxFaults
    OBVIOUS
  <2>4. RequestsTypeOK
    BY ONLY <2>1, <2>2, <2>3 DEF RequestsTypeOK, Status
  <2>5. \A q \in Request : work[q] = "none" /\ handed[q] = 0
    OBVIOUS
  <2>6. HandedInv
    BY <2>5 DEF HandedInv
  <2>7. FlagInv
    BY ONLY <2>5 DEF FlagInv, AtWork
  <2> QED BY <2>4, <2>6, <2>7 DEF RequestsInv
<1>2. RequestsInv /\ [RequestsNext]_requestsVars => RequestsInv'
  <2>1. ASSUME RequestsInv, RequestsNext PROVE RequestsInv'
    BY <2>1, TypeStep, HandedStep, FlagStep DEF RequestsInv
  <2>2. ASSUME RequestsInv, UNCHANGED requestsVars PROVE RequestsInv'
    BY <2>2 DEF RequestsInv, RequestsTypeOK, HandedInv, FlagInv, AtWork, requestsVars, daemonVars
  <2> QED BY <2>1, <2>2
<1> QED BY <1>1, <1>2, MemorySteps, PTL DEF MemorySpec, MemoryInit

\* runtime_ping.go PopPending, runtime_update.go and Daemon.updating: whatever
\* heartbeats, restarts and lost answers come between, a request is carried out at
\* most once, and one update of the daemon at a time.
THEOREM EachRequestOnce == MemorySpec => []RequestsAreExclusive
<1>1. RequestsInv => RequestsAreExclusive
  <2> SUFFICES ASSUME RequestsInv PROVE RequestsAreExclusive
    OBVIOUS
  <2> DEFINE S == {q \in Update : AtWork(q)}
  <2>1. HandedOutOnce
    BY DEF RequestsInv, HandedInv, HandedOutOnce
  <2>2. \A p, q \in S : p = q
    BY DEF RequestsInv, FlagInv, Request
  <2>3. Cardinality(S) <= 1
    <3>1. S = {} => Cardinality(S) = 0
      BY FS_EmptySet
    <3>2. S # {} => Cardinality(S) = 1
      <4>1. ASSUME NEW p \in S PROVE S = {p}
        BY <2>2, <4>1
      <4> QED BY <4>1, FS_Singleton
    <3> QED BY <3>1, <3>2
  <2>4. OneUpdateAtWork
    BY <2>3 DEF OneUpdateAtWork, AtWork
  <2> QED BY <2>1, <2>4 DEF RequestsAreExclusive
<1> QED BY <1>1, RequestsInvariant, PTL

-----------------------------------------------------------------------------
(* The hub.                                                                *)

Ids == {e.id : e \in Event}

HubType ==
    /\ registered \subseteq Client /\ closed \subseteq Client /\ missed \subseteq Client
    /\ published \subseteq Event
    /\ channel \in [Client -> Seq(Ids \union {Pong})]
    /\ got \in [Client -> SUBSET Ids]
    /\ socket \in [Client -> {"none", "open", "gone"}]
    /\ hub \in CallStates /\ call \in [Sender -> CallStates]
    /\ evictions \subseteq SUBSET Client

\* Who was never connected is nowhere.
SocketInv ==
    /\ \A c \in registered \union closed \union missed \union hub.todo : socket[c] # "none"
    /\ \A s \in Sender : \A c \in call[s].todo : socket[c] # "none"

\* A fan-out under the lock goes to registered clients.
LockInv ==
    /\ ChannelsClosedOnce
    /\ \A s \in Sender : call[s].at = "room" => call[s].todo \subseteq registered
    /\ hub.at = "global" => hub.todo \subseteq registered

\* The hub's loop has a list of slow clients only while it is at work.
GapInv == GapsEndTheClient /\ (hub.at = "idle" => hub.slow = {})

\* An event is on its way to a client that was not told of it, by one goroutine only.
Heard(c) == got[c] \union {channel[c][i] : i \in 1 .. Len(channel[c])}
Sends(s) == call[s].at \in {"user", "room"}

Unshared ==
    /\ \A s \in Sender : Sends(s) => call[s].event \in published /\ call[s].event.kind # "daemon"
    /\ \A s, u \in Sender : Sends(s) /\ Sends(u) /\ s # u => call[s].event # call[u].event
    /\ hub.at = "global" => hub.event \in published /\ hub.event.kind = "daemon"

Untold ==
    /\ \A c \in Client, e \in Event : e.id \in Heard(c) => e \in published
    /\ \A s \in Sender : Sends(s) => \A c \in call[s].todo : call[s].event.id \notin Heard(c)
    /\ \A s \in Sender : call[s].at = "user" /\ call[s].event.kind = "added" =>
          \A c \in Client : HomeOf[c] = call[s].event.room =>
                                c \notin call[s].todo /\ call[s].event.id \notin Heard(c)
    /\ hub.at = "global" => \A c \in hub.todo : hub.event.id \notin Heard(c)

ToldInv == DeliveredOnce /\ Unshared /\ Untold

HubInv == HubType /\ SocketInv /\ LockInv /\ GapInv /\ ToldInv

-----------------------------------------------------------------------------
\* What a client was told only grows when an event is offered to it.
LEMMA ToldByOffer ==
    ASSUME HubType, DeliveredOnce, NEW c \in Client, NEW e \in Event, e.id \notin Heard(c),
           channel' = [channel EXCEPT ![c] = Append(@, e.id)], UNCHANGED got
    PROVE  /\ \A d \in Client, f \in Event : f.id \in Heard(d)' => f.id \in Heard(d) \/ (d = c /\ f = e)
           /\ DeliveredOnce'
<1>1. channel[c] \in Seq(Ids \union {Pong}) /\ e.id \in Ids /\ e.id # Pong
  BY HubAssumption DEF HubType, Ids
<1>2. PICK new : new = Append(channel[c], e.id)
  OBVIOUS
<1>3. /\ Len(new) = Len(channel[c]) + 1 /\ new[Len(channel[c]) + 1] = e.id
      /\ \A i \in 1 .. Len(channel[c]) : new[i] = channel[c][i]
      /\ Len(channel[c]) \in Nat
  BY <1>1, <1>2
<1>4. \A d \in Client : channel'[d] = IF d = c THEN new ELSE channel[d]
  BY <1>2 DEF HubType
<1>5. ASSUME NEW d \in Client, NEW f \in Event, f.id \in Heard(d)'
      PROVE  f.id \in Heard(d) \/ (d = c /\ f = e)
  <2>1. CASE d # c
    BY <1>4, <1>5, <2>1 DEF Heard
  <2>2. CASE d = c
    <3>1. CASE f.id \in got[c]
      BY <2>2, <3>1 DEF Heard
    <3>2. CASE f.id \notin got[c]
      <4>1. PICK i \in 1 .. Len(new) : new[i] = f.id
        BY <1>4, <1>5, <2>2, <3>2, ZenonT(60) DEF Heard
      <4>2. CASE i = Len(channel[c]) + 1
        BY <1>3, <2>2, <4>1, <4>2, HubAssumption
      <4>3. CASE i \in 1 .. Len(channel[c])
        BY <1>3, <2>2, <4>1, <4>3 DEF Heard
      <4> QED BY <1>3, <4>1, <4>2, <4>3
    <3> QED BY <3>1, <3>2
  <2> QED BY <2>1, <2>2
<1>6. ASSUME NEW d \in Client, NEW i \in 1 .. Len(channel'[d])
      PROVE  /\ channel'[d][i] \notin got[d]
             /\ \A j \in 1 .. i - 1 : channel'[d][j] # channel'[d][i] \/ channel'[d][i] = Pong
  <2>1. CASE d # c
    BY <1>4, <1>6, <2>1 DEF DeliveredOnce
  <2>2. CASE d = c
    <3>1. i \in 1 .. Len(new) /\ channel'[d] = new
      BY <1>4, <2>2
    <3>2. CASE i = Len(channel[c]) + 1
      <4>1. \A j \in 1 .. i - 1 : j \in 1 .. Len(channel[c]) /\ new[j] = channel[c][j]
        BY <1>3, <3>2
      <4> QED BY <1>3, <2>2, <3>1, <3>2, <4>1 DEF Heard
    <3>3. CASE i \in 1 .. Len(channel[c])
      <4>1. \A j \in 1 .. i - 1 : j \in 1 .. Len(channel[c]) /\ new[j] = channel[c][j]
        BY <1>3, <3>3
      <4> QED BY <1>3, <2>2, <3>1, <3>3, <4>1 DEF DeliveredOnce
    <3> QED BY <1>3, <3>1, <3>2, <3>3
  <2> QED BY <2>1, <2>2
<1> QED BY <1>5, <1>6 DEF DeliveredOnce

LEMMA ToldByPong ==
    ASSUME HubType, DeliveredOnce, NEW c \in Client,
           channel' = [channel EXCEPT ![c] = Append(@, Pong)], UNCHANGED got
    PROVE  /\ \A d \in Client, f \in Event : f.id \in Heard(d)' => f.id \in Heard(d)
           /\ DeliveredOnce'
<1>1. channel[c] \in Seq(Ids \union {Pong}) /\ Pong \notin got[c]
  BY HubAssumption DEF HubType, Ids
<1>2. PICK new : new = Append(channel[c], Pong)
  OBVIOUS
<1>3. /\ Len(new) = Len(channel[c]) + 1 /\ new[Len(channel[c]) + 1] = Pong
      /\ \A i \in 1 .. Len(channel[c]) : new[i] = channel[c][i]
      /\ Len(channel[c]) \in Nat
  BY <1>1, <1>2
<1>4. \A d \in Client : channel'[d] = IF d = c THEN new ELSE channel[d]
  BY <1>2 DEF HubType
<1>5. ASSUME NEW d \in Client, NEW f \in Event, f.id \in Heard(d)'
      PROVE  f.id \in Heard(d)
  <2>1. CASE d # c
    BY <1>4, <1>5, <2>1 DEF Heard
  <2>2. CASE d = c
    <3>1. CASE f.id \in got[c]
      BY <2>2, <3>1 DEF Heard
    <3>2. CASE f.id \notin got[c]
      <4>1. PICK i \in 1 .. Len(new) : new[i] = f.id
        BY <1>4, <1>5, <2>2, <3>2 DEF Heard
      <4>2. i # Len(channel[c]) + 1
        BY <1>3, <4>1, HubAssumption
      <4>3. i \in 1 .. Len(channel[c])
        BY <1>3, <4>2
      <4> QED BY <1>3, <2>2, <4>1, <4>3 DEF Heard
    <3> QED BY <3>1, <3>2
  <2> QED BY <2>1, <2>2
<1>6. ASSUME NEW d \in Client, NEW i \in 1 .. Len(channel'[d])
      PROVE  /\ channel'[d][i] \notin got[d]
             /\ \A j \in 1 .. i - 1 : channel'[d][j] # channel'[d][i] \/ channel'[d][i] = Pong
  <2>1. CASE d # c
    BY <1>4, <1>6, <2>1 DEF DeliveredOnce
  <2>2. CASE d = c
    <3>1. i \in 1 .. Len(new) /\ channel'[d] = new
      BY <1>4, <2>2
    <3>2. CASE i = Len(channel[c]) + 1
      BY <1>1, <1>3, <2>2, <3>1, <3>2
    <3>3. CASE i \in 1 .. Len(channel[c])
      <4>1. \A j \in 1 .. i - 1 : j \in 1 .. Len(channel[c]) /\ new[j] = channel[c][j]
        BY <1>3, <3>3
      <4> QED BY <1>3, <2>2, <3>1, <3>3, <4>1 DEF DeliveredOnce
    <3> QED BY <1>3, <3>1, <3>2, <3>3
  <2> QED BY <2>1, <2>2
<1> QED BY <1>5, <1>6 DEF DeliveredOnce

\* The writer takes the first from the channel, and may write it.
LEMMA ToldByWriter ==
    ASSUME HubType, DeliveredOnce, NEW c \in Client, channel[c] # <<>>,
           channel' = [channel EXCEPT ![c] = Tail(@)],
           \/ got' = [got EXCEPT ![c] = @ \cup ({Head(channel[c])} \ {Pong})]
           \/ got' = got
    PROVE  /\ \A d \in Client, f \in Event : f.id \in Heard(d)' => f.id \in Heard(d)
           /\ DeliveredOnce'
<1>1. channel[c] \in Seq(Ids \union {Pong})
  BY DEF HubType
<1>2. PICK new : new = Tail(channel[c])
  OBVIOUS
<1>3. /\ Len(channel[c]) \in Nat \ {0} /\ Len(new) = Len(channel[c]) - 1
      /\ \A i \in 1 .. Len(new) : new[i] = channel[c][i + 1]
      /\ Head(channel[c]) = channel[c][1]
  BY <1>1, <1>2
<1>4. \A d \in Client : channel'[d] = IF d = c THEN new ELSE channel[d]
  BY <1>2 DEF HubType
<1>5. \A d \in Client : d # c => got'[d] = got[d]
  BY DEF HubType
<1>6. \A x : x \in got'[c] => x \in got[c] \/ (x = channel[c][1] /\ x # Pong)
  BY <1>3 DEF HubType
<1>7. ASSUME NEW d \in Client, NEW f \in Event, f.id \in Heard(d)'
      PROVE  f.id \in Heard(d)
  <2>1. CASE d # c
    BY <1>4, <1>5, <1>7, <2>1 DEF Heard
  <2>2. CASE d = c
    <3>1. CASE f.id \in got'[c]
      <4>1. 1 \in 1 .. Len(channel[c])
        BY <1>3
      <4> QED BY <1>6, <2>2, <3>1, <4>1 DEF Heard
    <3>2. CASE f.id \notin got'[c]
      <4>1. PICK i \in 1 .. Len(new) : new[i] = f.id
        BY <1>4, <1>7, <2>2, <3>2 DEF Heard
      <4>2. i + 1 \in 1 .. Len(channel[c]) /\ channel[c][i + 1] = f.id
        BY <1>3, <4>1
      <4> QED BY <2>2, <4>2 DEF Heard
    <3> QED BY <3>1, <3>2
  <2> QED BY <2>1, <2>2
<1>8. ASSUME NEW d \in Client, NEW i \in 1 .. Len(channel'[d])
      PROVE  /\ channel'[d][i] \notin got'[d]
             /\ \A j \in 1 .. i - 1 : channel'[d][j] # channel'[d][i] \/ channel'[d][i] = Pong
  <2>1. CASE d # c
    BY <1>4, <1>5, <1>8, <2>1 DEF DeliveredOnce
  <2>2. CASE d = c
    <3>1. /\ i \in 1 .. Len(new) /\ channel'[d] = new
          /\ new[i] = channel[c][i + 1] /\ i + 1 \in 1 .. Len(channel[c])
      <4>1. channel'[d] = new
        BY <1>4, <2>2
      <4>2. i \in 1 .. Len(new)
        BY <4>1
      <4> QED BY <1>3, <4>1, <4>2
    <3>2. /\ channel[c][i + 1] \notin got[c]
          /\ \A j \in 1 .. i : channel[c][j] # channel[c][i + 1] \/ channel[c][i + 1] = Pong
      <4>1. (i + 1) - 1 = i
        BY <3>1
      <4> QED BY <3>1, <4>1 DEF DeliveredOnce
    <3>3. 1 \in 1 .. i
      BY <3>1
    <3>4. new[i] \notin got'[c]
      BY <1>6, <3>1, <3>2, <3>3
    <3>5. ASSUME NEW j \in 1 .. i - 1 PROVE new[j] # new[i] \/ new[i] = Pong
      <4>1. j + 1 \in 1 .. i /\ new[j] = channel[c][j + 1]
        BY <1>3, <3>1
      <4> QED BY <3>1, <3>2, <4>1
    <3> QED BY <2>2, <3>1, <3>4, <3>5
  <2> QED BY <2>1, <2>2
<1> QED BY <1>7, <1>8 DEF DeliveredOnce

LEMMA ToldByNobody ==
    ASSUME UNCHANGED <<channel, got>>
    PROVE  /\ \A d : Heard(d)' = Heard(d)
           /\ (DeliveredOnce' <=> DeliveredOnce)
  BY DEF Heard, DeliveredOnce

-----------------------------------------------------------------------------
\* A step in which nobody publishes, offers or closes anything.
LEMMA Quiet ==
    ASSUME HubInv, UNCHANGED <<registered, closed, missed, published, hub, call, evictions>>,
           \A c \in Client : socket[c] # "none" => socket'[c] # "none",
           panic' \in {panic, "pong"},
           socket' \in [Client -> {"none", "open", "gone"}],
           channel' \in [Client -> Seq(Ids \union {Pong})],
           got' \in [Client -> SUBSET Ids],
           DeliveredOnce',
           \A d \in Client, f \in Event : f.id \in Heard(d)' => f.id \in Heard(d)
    PROVE  HubInv'
<1>0. registered \union closed \union missed \union hub.todo \subseteq Client
      /\ \A s \in Sender : call[s].todo \subseteq Client
  BY DEF HubInv, HubType, CallStates
<1>1. HubType'
  BY DEF HubInv, HubType, CallStates
<1>2. SocketInv'
  BY <1>0 DEF HubInv, SocketInv
<1>3. LockInv'
  BY DEF HubInv, LockInv, ChannelsClosedOnce
<1>4. GapInv'
  <2>1. panic' = None => panic = None
    BY HubAssumption
  <2> QED BY <2>1 DEF HubInv, GapInv, GapsEndTheClient, HandledAsSlow
<1>5. Unshared'
  BY DEF HubInv, ToldInv, Unshared, Sends
<1>6. Untold'
  <2>1. \A s \in Sender : Sends(s) => call[s].event \in Event
    BY DEF HubInv, HubType, ToldInv, Unshared
  <2>2. hub.at = "global" => hub.event \in Event
    BY DEF HubInv, HubType, ToldInv, Unshared
  <2>3. \A s \in Sender : \A c \in call[s].todo : c \in Client
    BY <1>0
  <2>4. \A c \in Client : \A e \in Event : e.id \in Heard(c)' => e \in published'
    BY DEF HubInv, ToldInv, Untold
  <2>5. \A s \in Sender : Sends(s) => \A c \in call[s].todo : call[s].event.id \notin Heard(c)'
    BY <2>1, <2>3 DEF HubInv, ToldInv, Untold
  <2>6. \A s \in Sender : call[s].at = "user" /\ call[s].event.kind = "added" =>
           \A c \in Client : HomeOf[c] = call[s].event.room =>
                                 c \notin call[s].todo /\ call[s].event.id \notin Heard(c)'
    BY <2>1 DEF HubInv, ToldInv, Untold, Sends
  <2>7. hub.at = "global" => \A c \in hub.todo : hub.event.id \notin Heard(c)'
    BY <1>0, <2>2 DEF HubInv, ToldInv, Untold
  <2> QED BY <2>4, <2>5, <2>6, <2>7 DEF Untold, Sends
<1> QED BY <1>1, <1>2, <1>3, <1>4, <1>5, <1>6 DEF HubInv, ToldInv

\* The four of a client's own steps.
LEMMA PumpsKeep ==
    ASSUME HubInv, NEW c \in Client, Disconnects(c) \/ Pumps(c)
    PROVE  HubInv'
<1>0. HubType /\ DeliveredOnce
  BY DEF HubInv, ToldInv
<1>1. CASE Disconnects(c) \/ ReadPump(c)
  <2>1. /\ UNCHANGED <<registered, closed, missed, published, hub, call, evictions, panic, channel, got>>
        /\ socket' = socket \/ (socket[c] = "open" /\ socket' = [socket EXCEPT ![c] = "gone"])
    BY <1>1 DEF Disconnects, ReadPump
  <2>2. DeliveredOnce' /\ \A d \in Client, f \in Event : f.id \in Heard(d)' => f.id \in Heard(d)
    BY <1>0, <2>1, ToldByNobody
  <2> QED BY <1>0, <2>1, <2>2, Quiet DEF HubType
<1>2. CASE HandleInboundEvent(c)
  <2>1. /\ UNCHANGED <<registered, closed, missed, published, hub, call, evictions, socket, got>>
        /\ panic' \in {panic, "pong"}
        /\ channel' = channel \/ channel' = [channel EXCEPT ![c] = Append(@, Pong)]
    BY <1>2 DEF HandleInboundEvent
  <2>2. DeliveredOnce' /\ \A d \in Client, f \in Event : f.id \in Heard(d)' => f.id \in Heard(d)
    BY <1>0, <2>1, ToldByNobody, ToldByPong
  <2>3. channel' \in [Client -> Seq(Ids \union {Pong})]
    <3>1. Append(channel[c], Pong) \in Seq(Ids \union {Pong})
      BY <1>0 DEF HubType
    <3> QED BY <1>0, <2>1, <3>1 DEF HubType
  <2> QED BY <1>0, <2>1, <2>2, <2>3, Quiet DEF HubType
<1>3. CASE WritePump(c)
  <2>1. UNCHANGED <<registered, closed, missed, published, hub, call, evictions, panic>>
    BY <1>3 DEF WritePump
  <2>2. CASE channel[c] # <<>> /\ channel' = [channel EXCEPT ![c] = Tail(@)]
    <3>1. /\ UNCHANGED socket
          /\ \/ got' = [got EXCEPT ![c] = @ \cup ({Head(channel[c])} \ {Pong})]
             \/ got' = got
      BY <1>3, <2>2 DEF WritePump
    <3>2. DeliveredOnce' /\ \A d \in Client, f \in Event : f.id \in Heard(d)' => f.id \in Heard(d)
      BY <1>0, <2>2, <3>1, ToldByWriter
    <3>3. channel[c] \in Seq(Ids \union {Pong})
      BY <1>0 DEF HubType
    <3>4. Tail(channel[c]) \in Seq(Ids \union {Pong}) /\ Head(channel[c]) \in Ids \union {Pong}
      BY <2>2, <3>3
    <3>5. channel' \in [Client -> Seq(Ids \union {Pong})]
      BY <1>0, <2>2, <3>4 DEF HubType
    <3>6. got' \in [Client -> SUBSET Ids]
      BY <1>0, <3>1, <3>4 DEF HubType
    <3> QED BY <1>0, <2>1, <3>1, <3>2, <3>5, <3>6, Quiet DEF HubType
  <2>3. CASE socket' = [socket EXCEPT ![c] = "gone"] /\ UNCHANGED <<channel, got>>
    <3>1. DeliveredOnce' /\ \A d \in Client, f \in Event : f.id \in Heard(d)' => f.id \in Heard(d)
      BY <1>0, <2>3, ToldByNobody
    <3> QED BY <1>0, <2>1, <2>3, <3>1, Quiet DEF HubType
  <2> QED BY <1>3, <2>2, <2>3 DEF WritePump
<1> QED BY <1>1, <1>2, <1>3 DEF Pumps

\* A client that connects was nowhere before.
LEMMA ConnectKeeps ==
    ASSUME HubInv, NEW c \in Client, HandleWebSocket(c)
    PROVE  HubInv'
<1>1. /\ socket[c] = "none" /\ socket' = [socket EXCEPT ![c] = "open"]
      /\ registered' = registered \cup {c}
      /\ UNCHANGED <<channel, closed, hub, call, evictions, published, panic, missed, got>>
  BY DEF HandleWebSocket
<1>2. c \notin closed /\ c \notin missed
  BY <1>1 DEF HubInv, SocketInv
<1>3. HubType'
  BY <1>1 DEF HubInv, HubType, CallStates
<1>4. \A d \in Client : socket[d] # "none" => socket'[d] # "none"
  BY <1>1 DEF HubInv, HubType
<1>5. SocketInv'
  <2>1. registered \union closed \union missed \union hub.todo \subseteq Client
        /\ \A s \in Sender : call[s].todo \subseteq Client
    BY DEF HubInv, HubType, CallStates
  <2>2. socket'[c] # "none"
    BY <1>1 DEF HubInv, HubType
  <2> QED BY <1>1, <1>4, <2>1, <2>2 DEF HubInv, SocketInv
<1>6. LockInv'
  BY <1>1, <1>2 DEF HubInv, LockInv, ChannelsClosedOnce
<1>7. GapInv'
  BY <1>1, <1>2 DEF HubInv, GapInv, GapsEndTheClient, HandledAsSlow
<1>8. ToldInv'
  BY <1>1 DEF HubInv, ToldInv, DeliveredOnce, Unshared, Untold, Sends, Heard
<1> QED BY <1>3, <1>5, <1>6, <1>7, <1>8 DEF HubInv

\* Whoever removes clients holds the lock.
LEMMA RemoveKeeps ==
    ASSUME HubInv, NEW S \in SUBSET Client, Unlocked, Drop(S \cap registered),
           UNCHANGED <<channel, got, published, missed, call>>,
           socket' \in [Client -> {"none", "open", "gone"}],
           \A c \in Client : socket[c] # "none" => socket'[c] # "none",
           hub' = hub \/ (hub' = Resting /\ S = hub.slow),
           evictions' = evictions \/ evictions' = evictions \ {S}
    PROVE  HubInv'
<1>1. /\ registered' = registered \ S /\ closed' = closed \cup (S \cap registered) /\ panic' = panic
  BY DEF HubInv, LockInv, ChannelsClosedOnce, Drop
<1>2. Resting.at = "idle" /\ Resting.todo = {} /\ Resting.slow = {}
  BY DEF Resting
<1>3. Resting \in CallStates
  BY DEF Resting, CallStates
<1>4. HubType'
  BY <1>1, <1>3 DEF HubInv, HubType, CallStates
<1>5. SocketInv'
  <2>1. registered \union closed \union missed \union hub.todo \subseteq Client
        /\ \A s \in Sender : call[s].todo \subseteq Client
    BY DEF HubInv, HubType, CallStates
  <2>2. hub'.todo \subseteq hub.todo
    BY <1>2
  <2> QED BY <1>1, <2>1, <2>2 DEF HubInv, SocketInv
<1>6. LockInv'
  BY <1>1, <1>2 DEF HubInv, LockInv, ChannelsClosedOnce, Unlocked
<1>7. GapInv'
  <2>1. ASSUME panic' = None, NEW c \in missed', c \in registered' PROVE HandledAsSlow(c)'
    <3>1. c \in missed /\ c \in registered /\ c \notin S
      BY <1>1, <2>1
    <3>2. HandledAsSlow(c)
      BY <1>1, <2>1, <3>1 DEF HubInv, GapInv, GapsEndTheClient
    <3> QED BY <3>1, <3>2 DEF HandledAsSlow
  <2>2. hub'.at = "idle" => hub'.slow = {}
    BY <1>2 DEF HubInv, GapInv
  <2> QED BY <2>1, <2>2 DEF GapInv, GapsEndTheClient
<1>8. ToldInv'
  BY <1>2 DEF HubInv, ToldInv, DeliveredOnce, Unshared, Untold, Sends, Heard
<1> QED BY <1>4, <1>5, <1>6, <1>7, <1>8 DEF HubInv

LEMMA RemovalsKeep ==
    ASSUME HubInv, (\E c \in Client : Unregister(c)) \/ RunEvicts \/ Evicting
    PROVE  HubInv'
<1>1. ASSUME NEW c \in Client, Unregister(c) PROVE HubInv'
  <2>1. /\ socket' = [socket EXCEPT ![c] = "gone"] /\ Unlocked /\ Drop({c} \cap registered)
        /\ UNCHANGED <<channel, got, published, missed, call, hub, evictions>>
    BY <1>1 DEF Unregister
  <2>2. /\ socket' \in [Client -> {"none", "open", "gone"}]
        /\ \A d \in Client : socket[d] # "none" => socket'[d] # "none"
    BY <2>1 DEF HubInv, HubType
  <2> QED BY <2>1, <2>2, RemoveKeeps
<1>2. CASE RunEvicts
  <2>1. hub.slow \in SUBSET Client /\ socket \in [Client -> {"none", "open", "gone"}]
    BY DEF HubInv, HubType, CallStates
  <2> QED BY <1>2, <2>1, RemoveKeeps DEF RunEvicts, pumps
<1>3. ASSUME NEW slow \in evictions, Evict(slow) PROVE HubInv'
  <2>1. slow \in SUBSET Client /\ socket \in [Client -> {"none", "open", "gone"}]
    BY DEF HubInv, HubType
  <2> QED BY <1>3, <2>1, RemoveKeeps DEF Evict, pumps
<1> QED BY <1>1, <1>2, <1>3 DEF Evicting

-----------------------------------------------------------------------------
(* Fan-outs.                                                               *)

LEMMA OfferedRow ==
    ASSUME NEW x \in CallStates, NEW c \in Client
    PROVE  /\ Offered(x, c) \in CallStates
           /\ Offered(x, c).at = x.at /\ Offered(x, c).event = x.event
           /\ Offered(x, c).todo = x.todo \ {c}
           /\ Offered(x, c).slow = IF Full(c) THEN x.slow \cup {c} ELSE x.slow
<1> DEFINE rest == x.todo \ {c}
           late == IF Full(c) THEN x.slow \cup {c} ELSE x.slow
<1>1. Offered(x, c) = [x EXCEPT !.todo = rest, !.slow = late]
  BY DEF Offered
<1>2. rest \in SUBSET Client /\ late \in SUBSET Client
  BY DEF CallStates
<1> HIDE DEF rest, late
<1>3. Offered(x, c) \in CallStates /\ Offered(x, c).at = x.at /\ Offered(x, c).event = x.event
      /\ Offered(x, c).todo = rest /\ Offered(x, c).slow = late
  BY <1>1, <1>2 DEF CallStates
<1> QED BY <1>3 DEF rest, late

LEMMA CallRow ==
    ASSUME HubType, NEW s \in Sender, NEW row \in CallStates, call' = [call EXCEPT ![s] = row]
    PROVE  call' \in [Sender -> CallStates] /\ call'[s] = row
           /\ \A u \in Sender : u # s => call'[u] = call[u]
  BY DEF HubType

\* What an offer does to the client, whoever makes it.
LEMMA OfferTells ==
    ASSUME HubType, DeliveredOnce, NEW c \in Client, NEW e \in Event, e.id \notin Heard(c),
           Offer(c, e), UNCHANGED got
    PROVE  /\ channel' \in [Client -> Seq(Ids \union {Pong})]
           /\ missed' \subseteq Client /\ DeliveredOnce'
           /\ missed' = IF Full(c) THEN missed \cup {c} ELSE missed
           /\ \A d \in Client, f \in Event : f.id \in Heard(d)' => f.id \in Heard(d) \/ (d = c /\ f = e)
<1>1. CASE Full(c)
  BY <1>1, ToldByNobody DEF Offer, HubType
<1>2. CASE ~Full(c)
  <2>1. channel' = [channel EXCEPT ![c] = Append(@, e.id)] /\ UNCHANGED missed
    BY <1>2 DEF Offer
  <2>2. Append(channel[c], e.id) \in Seq(Ids \union {Pong})
    <3>1. channel[c] \in Seq(Ids \union {Pong}) /\ e.id \in Ids
      BY DEF HubType, Ids
    <3> QED BY <3>1
  <2>3. channel' \in [Client -> Seq(Ids \union {Pong})]
    BY <2>1, <2>2 DEF HubType
  <2> QED BY <1>2, <2>1, <2>3, ToldByOffer DEF HubType
<1> QED BY <1>1, <1>2

\* A sender offers its event to the next client.
LEMMA CallOffers ==
    ASSUME HubInv, NEW s \in Sender, NEW c \in Client, c \in call[s].todo, Sends(s),
           Offer(c, call[s].event), call' = [call EXCEPT ![s] = Offered(@, c)],
           UNCHANGED <<registered, closed, socket, got, hub, evictions, published, panic>>
    PROVE  HubInv'
<1> DEFINE e == call[s].event
           row == Offered(call[s], c)
<1>1. call[s] \in CallStates /\ HubType /\ DeliveredOnce
  BY DEF HubInv, HubType, ToldInv
<1>2. e \in Event /\ e \in published /\ e.id \notin Heard(c) /\ e.kind # "daemon"
  BY DEF HubInv, HubType, ToldInv, Unshared, Untold
<1>3. /\ row \in CallStates /\ row.at = call[s].at /\ row.event = e
      /\ row.todo = call[s].todo \ {c}
      /\ row.slow = IF Full(c) THEN call[s].slow \cup {c} ELSE call[s].slow
  BY <1>1, OfferedRow
<1>4. /\ call' \in [Sender -> CallStates] /\ call'[s] = row
      /\ \A u \in Sender : u # s => call'[u] = call[u]
  BY <1>1, <1>3, CallRow
<1>5. /\ channel' \in [Client -> Seq(Ids \union {Pong})]
      /\ missed' \subseteq Client /\ DeliveredOnce'
      /\ missed' = IF Full(c) THEN missed \cup {c} ELSE missed
      /\ \A d \in Client, f \in Event : f.id \in Heard(d)' => f.id \in Heard(d) \/ (d = c /\ f = e)
  BY <1>1, <1>2, OfferTells
<1> HIDE DEF row, e
<1>6. HubType'
  BY <1>1, <1>4, <1>5 DEF HubType
<1>7. SocketInv'
  BY <1>3, <1>4, <1>5 DEF HubInv, SocketInv
<1>8. LockInv'
  BY <1>3, <1>4 DEF HubInv, LockInv, ChannelsClosedOnce
<1>9. GapInv'
  <2>1. ASSUME panic' = None, NEW d \in missed', d \in registered' PROVE HandledAsSlow(d)'
    <3>1. CASE d = c /\ Full(c)
      BY <1>3, <1>4, <3>1 DEF HandledAsSlow
    <3>2. CASE d \in missed
      <4>1. HandledAsSlow(d)
        BY <2>1, <3>2 DEF HubInv, GapInv, GapsEndTheClient
      <4>2. call[s].slow \subseteq call'[s].slow
        BY <1>3, <1>4
      <4> QED BY <1>4, <4>1, <4>2 DEF HandledAsSlow
    <3> QED BY <1>5, <2>1, <3>1, <3>2
  <2> QED BY <2>1 DEF HubInv, GapInv, GapsEndTheClient
<1>10. \A u \in Sender : call'[u].at = call[u].at /\ call'[u].event = call[u].event
                       /\ call'[u].todo \subseteq call[u].todo
  BY <1>3, <1>4 DEF e
<1>11. Unshared'
  BY <1>10 DEF HubInv, ToldInv, Unshared, Sends
<1>12. Untold'
  <2>1. \A d \in Client : \A f \in Event : f.id \in Heard(d)' => f \in published'
    BY <1>2, <1>5 DEF HubInv, ToldInv, Untold
  <2>2. ASSUME NEW u \in Sender, Sends(u), NEW d \in call'[u].todo
        PROVE  call[u].event.id \notin Heard(d)'
    <3>1. d \in Client /\ d \in call[u].todo /\ call[u].event \in Event
      BY <1>10, <2>2 DEF HubInv, HubType, CallStates, ToldInv, Unshared
    <3>2. call[u].event.id \notin Heard(d)
      BY <2>2, <3>1 DEF HubInv, ToldInv, Untold
    <3>3. CASE u = s
      <4>1. d # c
        BY <1>3, <1>4, <2>2, <3>3
      <4> QED BY <1>5, <3>1, <3>2, <4>1
    <3>4. CASE u # s
      <4>1. call[u].event # e
        BY <2>2, <3>4 DEF HubInv, ToldInv, Unshared, e
      <4> QED BY <1>5, <3>1, <3>2, <4>1
    <3> QED BY <3>3, <3>4
  <2>3. ASSUME NEW u \in Sender, call[u].at = "user", call[u].event.kind = "added",
               NEW d \in Client, HomeOf[d] = call[u].event.room
        PROVE  d \notin call'[u].todo /\ call[u].event.id \notin Heard(d)'
    <3>1. d \notin call[u].todo /\ call[u].event.id \notin Heard(d) /\ call[u].event \in Event
      BY <2>3 DEF HubInv, HubType, ToldInv, Untold, Unshared, Sends
    <3>2. ~(d = c /\ call[u].event = e)
      <4>1. u = s => d # c
        BY <3>1
      <4>2. u # s => call[u].event # e
        BY <2>3 DEF HubInv, ToldInv, Unshared, Sends, e
      <4> QED BY <4>1, <4>2
    <3> QED BY <1>5, <1>10, <3>1, <3>2
  <2>4. hub.at = "global" => \A d \in hub.todo : hub.event.id \notin Heard(d)'
    <3> SUFFICES ASSUME hub.at = "global", NEW d \in hub.todo PROVE hub.event.id \notin Heard(d)'
      OBVIOUS
    <3>1. d \in Client /\ hub.event \in Event /\ hub.event # e /\ hub.event.id \notin Heard(d)
      BY <1>2 DEF HubInv, HubType, CallStates, ToldInv, Unshared, Untold
    <3> QED BY <1>5, <3>1
  <2>5. \A u \in Sender : Sends(u)' <=> Sends(u)
    BY <1>10 DEF Sends
  <2> QED BY <1>10, <2>1, <2>2, <2>3, <2>4, <2>5 DEF Untold
<1> QED BY <1>5, <1>6, <1>7, <1>8, <1>9, <1>11, <1>12 DEF HubInv, ToldInv

\* The hub's loop offers its event to the next client, whose channel is open.
LEMMA HubOffers ==
    ASSUME HubInv, NEW c \in Client, RunOffers(c)
    PROVE  HubInv'
<1> DEFINE e == hub.event
           row == Offered(hub, c)
<1>0. /\ hub.at = "global" /\ c \in hub.todo /\ Offer(c, e) /\ hub' = row
      /\ UNCHANGED <<registered, closed, socket, got, call, evictions, published, panic>>
  BY DEF RunOffers, HubInv, LockInv, ChannelsClosedOnce, pumps
<1>1. hub \in CallStates /\ HubType /\ DeliveredOnce
  BY DEF HubInv, HubType, ToldInv
<1>2. e \in Event /\ e \in published /\ e.id \notin Heard(c) /\ e.kind = "daemon"
  BY <1>0 DEF HubInv, HubType, ToldInv, Unshared, Untold
<1>3. /\ row \in CallStates /\ row.at = "global" /\ row.event = e
      /\ row.todo = hub.todo \ {c}
      /\ row.slow = IF Full(c) THEN hub.slow \cup {c} ELSE hub.slow
  BY <1>0, <1>1, OfferedRow
<1>5. /\ channel' \in [Client -> Seq(Ids \union {Pong})]
      /\ missed' \subseteq Client /\ DeliveredOnce'
      /\ missed' = IF Full(c) THEN missed \cup {c} ELSE missed
      /\ \A d \in Client, f \in Event : f.id \in Heard(d)' => f.id \in Heard(d) \/ (d = c /\ f = e)
  BY <1>0, <1>1, <1>2, OfferTells
<1> HIDE DEF row, e
<1>6. HubType'
  BY <1>0, <1>1, <1>3, <1>5 DEF HubType
<1>7. SocketInv'
  BY <1>0, <1>3, <1>5 DEF HubInv, SocketInv
<1>8. LockInv'
  BY <1>0, <1>3 DEF HubInv, LockInv, ChannelsClosedOnce
<1>9. GapInv'
  <2>1. ASSUME panic' = None, NEW d \in missed', d \in registered' PROVE HandledAsSlow(d)'
    <3>1. CASE d = c /\ Full(c)
      BY <1>0, <1>3, <3>1 DEF HandledAsSlow
    <3>2. CASE d \in missed
      <4>1. HandledAsSlow(d)
        BY <1>0, <2>1, <3>2 DEF HubInv, GapInv, GapsEndTheClient
      <4> QED BY <1>0, <1>3, <4>1 DEF HandledAsSlow
    <3> QED BY <1>5, <2>1, <3>1, <3>2
  <2> QED BY <1>0, <1>3, <2>1 DEF GapInv, GapsEndTheClient
<1>11. Unshared'
  BY <1>0, <1>3 DEF HubInv, ToldInv, Unshared, Sends, e
<1>12. Untold'
  <2>1. \A d \in Client : \A f \in Event : f.id \in Heard(d)' => f \in published'
    BY <1>0, <1>2, <1>5 DEF HubInv, ToldInv, Untold
  <2>2. \A u \in Sender : Sends(u) => call[u].event \in Event /\ call[u].event # e
    BY <1>2 DEF HubInv, HubType, ToldInv, Unshared
  <2>3. \A u \in Sender : call[u].todo \subseteq Client
    BY DEF HubInv, HubType, CallStates
  <2>4. ASSUME NEW u \in Sender, Sends(u), NEW d \in call[u].todo
        PROVE  call[u].event.id \notin Heard(d)'
    BY <1>5, <2>2, <2>3, <2>4 DEF HubInv, ToldInv, Untold
  <2>5. ASSUME NEW u \in Sender, call[u].at = "user", call[u].event.kind = "added",
               NEW d \in Client, HomeOf[d] = call[u].event.room
        PROVE  d \notin call[u].todo /\ call[u].event.id \notin Heard(d)'
    BY <1>5, <2>2, <2>5 DEF HubInv, ToldInv, Untold, Sends
  <2>6. \A d \in hub'.todo : e.id \notin Heard(d)'
    <3> SUFFICES ASSUME NEW d \in hub'.todo PROVE e.id \notin Heard(d)'
      OBVIOUS
    <3>1. d \in Client /\ d # c /\ e.id \notin Heard(d)
      BY <1>0, <1>3 DEF HubInv, HubType, CallStates, ToldInv, Untold, e
    <3> QED BY <1>2, <1>5, <3>1
  <2> QED BY <1>0, <1>3, <2>1, <2>4, <2>5, <2>6 DEF Untold, Sends
<1> QED BY <1>5, <1>6, <1>7, <1>8, <1>9, <1>11, <1>12 DEF HubInv, ToldInv

\* A sender goes on without an offer: what it had found slow it keeps, hands to a
\* goroutine, or loses in a panic.
LEMMA CallGoes ==
    ASSUME HubInv, NEW s \in Sender, NEW row \in CallStates, call' = [call EXCEPT ![s] = row],
           row.todo \subseteq registered \union call[s].todo,
           row.at = "room" => row.todo \subseteq registered,
           panic' \in {panic, "listener"},
           row.slow = call[s].slow \/ evictions' = evictions \union {call[s].slow}
               \/ (call[s].slow = {} /\ row.slow = {}) \/ panic' = "listener",
           evictions \subseteq evictions', evictions' \subseteq SUBSET Client,
           published \subseteq published', published' \subseteq Event,
           row.at \in {"user", "room"} =>
               /\ row.event \in published' /\ row.event.kind # "daemon"
               /\ \A u \in Sender \ {s} : Sends(u) => call[u].event # row.event
               /\ \A c \in row.todo : row.event.id \notin Heard(c)
               /\ row.at = "user" /\ row.event.kind = "added" =>
                     \A c \in Client : HomeOf[c] = row.event.room =>
                                           c \notin row.todo /\ row.event.id \notin Heard(c),
           UNCHANGED <<registered, channel, closed, socket, got, hub, missed>>
    PROVE  HubInv'
<1>1. /\ call' \in [Sender -> CallStates] /\ call'[s] = row
      /\ \A u \in Sender : u # s => call'[u] = call[u]
  BY CallRow DEF HubInv
<1>2. HubType'
  BY <1>1 DEF HubInv, HubType
<1>3. SocketInv'
  BY <1>1 DEF HubInv, SocketInv
<1>4. LockInv'
  BY <1>1 DEF HubInv, LockInv, ChannelsClosedOnce
<1>5. GapInv'
  <2>1. ASSUME panic' = None, NEW d \in missed, d \in registered PROVE HandledAsSlow(d)'
    <3>1. panic = None /\ panic' # "listener"
      BY <2>1, HubAssumption
    <3>2. HandledAsSlow(d)
      BY <2>1, <3>1 DEF HubInv, GapInv, GapsEndTheClient
    <3>3. CASE d \in hub.slow \/ \E slow \in evictions : d \in slow
      BY <3>3 DEF HandledAsSlow
    <3>4. ASSUME NEW u \in Sender, d \in call[u].slow PROVE HandledAsSlow(d)'
      <4>1. CASE u # s
        BY <1>1, <3>4, <4>1 DEF HandledAsSlow
      <4>2. CASE u = s
        BY <1>1, <3>1, <3>4, <4>2 DEF HandledAsSlow
      <4> QED BY <4>1, <4>2
    <3> QED BY <3>2, <3>3, <3>4 DEF HandledAsSlow
  <2> QED BY <2>1 DEF HubInv, GapInv, GapsEndTheClient
<1>6. \A u \in Sender : Sends(u)' <=> IF u = s THEN row.at \in {"user", "room"} ELSE Sends(u)
  BY <1>1 DEF Sends
<1>7. Unshared'
  BY <1>1, <1>6 DEF HubInv, ToldInv, Unshared
<1>8. DeliveredOnce' /\ \A d : Heard(d)' = Heard(d)
  BY ToldByNobody DEF HubInv, ToldInv
<1>9. Untold'
  <2>1. \A d \in Client : \A f \in Event : f.id \in Heard(d)' => f \in published'
    BY <1>8 DEF HubInv, ToldInv, Untold
  <2>2. ASSUME NEW u \in Sender, Sends(u)' PROVE \A d \in call'[u].todo : call'[u].event.id \notin Heard(d)'
    BY <1>1, <1>6, <1>8, <2>2 DEF HubInv, ToldInv, Untold
  <2>3. ASSUME NEW u \in Sender, call'[u].at = "user", call'[u].event.kind = "added",
               NEW d \in Client, HomeOf[d] = call'[u].event.room
        PROVE  d \notin call'[u].todo /\ call'[u].event.id \notin Heard(d)'
    BY <1>1, <1>8, <2>3 DEF HubInv, ToldInv, Untold
  <2>4. hub.at = "global" => \A d \in hub.todo : hub.event.id \notin Heard(d)'
    BY <1>8 DEF HubInv, ToldInv, Untold
  <2> QED BY <2>1, <2>2, <2>3, <2>4 DEF Untold
<1> QED BY <1>2, <1>3, <1>4, <1>5, <1>7, <1>8, <1>9 DEF HubInv, ToldInv

LEMMA RestingRow ==
    Resting.at = "idle" /\ Resting.todo = {} /\ Resting.slow = {} /\ Resting \in CallStates
  BY DEF Resting, CallStates

\* A call that begins sends an event nobody was told of.
LEMMA CallBegins ==
    ASSUME HubInv, NEW s \in Sender, NEW e \in Event, SendToUser(s, e) \/ BroadcastToWorkspace(s, e)
    PROVE  HubInv'
<1>1. /\ call[s] = Resting /\ e \notin published /\ published' = published \cup {e}
      /\ UNCHANGED <<registered, channel, closed, socket, got, hub, evictions, panic, missed>>
      /\ e.kind # "daemon"
  BY DEF SendToUser, BroadcastToWorkspace, ToUser, pumps
<1>2. \A c \in Client : e.id \notin Heard(c)
  BY <1>1 DEF HubInv, ToldInv, Untold
<1>3. \A u \in Sender \ {s} : Sends(u) => call[u].event # e
  BY <1>1 DEF HubInv, ToldInv, Unshared
<1>4. \E at \in {"user", "room"} : \E T \in SUBSET registered :
          /\ call' = [call EXCEPT ![s] = [Resting EXCEPT !.at = at, !.event = e, !.todo = T]]
          /\ at = "user" /\ e.kind = "added" => \A c \in T : HomeOf[c] # e.room
  <2>1. CASE SendToUser(s, e)
    <3>1. Recipients(e) \in SUBSET registered
          /\ (e.kind = "added" => \A c \in Recipients(e) : HomeOf[c] # e.room)
      BY DEF Recipients
    <3> QED BY <2>1, <3>1 DEF SendToUser
  <2>2. CASE BroadcastToWorkspace(s, e)
    <3>1. RoomMembers(e) \in SUBSET registered
      BY DEF RoomMembers
    <3> QED BY <2>2, <3>1 DEF BroadcastToWorkspace
  <2> QED BY <2>1, <2>2
<1>5. PICK at \in {"user", "room"}, T \in SUBSET registered :
          /\ call' = [call EXCEPT ![s] = [Resting EXCEPT !.at = at, !.event = e, !.todo = T]]
          /\ at = "user" /\ e.kind = "added" => \A c \in T : HomeOf[c] # e.room
  BY <1>4
<1> DEFINE row == [Resting EXCEPT !.at = at, !.event = e, !.todo = T]
<1>6. T \in SUBSET Client /\ evictions \subseteq SUBSET Client /\ published \subseteq Event
  BY DEF HubInv, HubType
<1>7. row \in CallStates /\ row.at = at /\ row.event = e /\ row.todo = T /\ row.slow = {}
  BY <1>6 DEF Resting, CallStates
<1>8. call' = [call EXCEPT ![s] = row] /\ call[s].slow = {}
  BY <1>1, <1>5, RestingRow
<1> HIDE DEF row
<1>9. \A c \in row.todo : row.event.id \notin Heard(c)
  BY <1>2, <1>6, <1>7
<1>10. row.at = "user" /\ row.event.kind = "added" =>
           \A c \in Client : HomeOf[c] = row.event.room =>
                                 c \notin row.todo /\ row.event.id \notin Heard(c)
  BY <1>2, <1>5, <1>7
<1> QED BY <1>1, <1>3, <1>6, <1>7, <1>8, <1>9, <1>10, CallGoes

\* The next client of a call, or its end.
LEMMA CallProceeds ==
    ASSUME HubInv, NEW s \in Sender, Publishing(s)
    PROVE  HubInv'
<1>0. /\ HubType /\ call[s] \in CallStates /\ evictions \subseteq SUBSET Client
      /\ published \subseteq Event
  BY DEF HubInv, HubType
<1>1. Sends(s) =>
          /\ call[s].event \in published /\ call[s].event.kind # "daemon"
          /\ \A u \in Sender \ {s} : Sends(u) => call[u].event # call[s].event
          /\ \A c \in call[s].todo : call[s].event.id \notin Heard(c)
          /\ call[s].at = "user" /\ call[s].event.kind = "added" =>
                \A c \in Client : HomeOf[c] = call[s].event.room =>
                                      c \notin call[s].todo /\ call[s].event.id \notin Heard(c)
  BY DEF HubInv, ToldInv, Unshared, Untold
\* Somebody is left out, or the listener panics.
<1>2. ASSUME NEW T \in SUBSET call[s].todo, NEW L \in SUBSET Client, Sends(s),
             call' = [call EXCEPT ![s] = [call[s] EXCEPT !.todo = T, !.slow = L]],
             panic' \in {panic, "listener"}, L = call[s].slow \/ panic' = "listener",
             UNCHANGED <<registered, channel, closed, socket, got, hub, missed, evictions, published>>
      PROVE  HubInv'
  <2> DEFINE row == [call[s] EXCEPT !.todo = T, !.slow = L]
  <2>1. T \in SUBSET Client
    BY <1>0 DEF CallStates
  <2>2. row \in CallStates /\ row.at = call[s].at /\ row.event = call[s].event /\ row.todo = T /\ row.slow = L
    BY <1>0, <2>1 DEF CallStates
  <2>3. call' = [call EXCEPT ![s] = row]
    BY <1>2
  <2>4. row.at = "room" => row.todo \subseteq registered
    BY <2>2 DEF HubInv, LockInv
  <2> HIDE DEF row
  <2>5. row.todo \subseteq registered \union call[s].todo
    BY <2>2
  <2>6. row.at \in {"user", "room"} =>
               /\ row.event \in published' /\ row.event.kind # "daemon"
               /\ \A u \in Sender \ {s} : Sends(u) => call[u].event # row.event
               /\ \A c \in row.todo : row.event.id \notin Heard(c)
               /\ row.at = "user" /\ row.event.kind = "added" =>
                     \A c \in Client : HomeOf[c] = row.event.room =>
                                           c \notin row.todo /\ row.event.id \notin Heard(c)
    BY <1>1, <1>2, <2>2
  <2>7. row.slow = call[s].slow \/ panic' = "listener"
    BY <1>2, <2>2
  <2> QED BY <1>0, <1>2, <2>2, <2>3, <2>4, <2>5, <2>6, <2>7, CallGoes
<1>3. ASSUME NEW c \in Client, SendToOne(s, c) PROVE HubInv'
  <2>1. /\ Sends(s) /\ c \in call[s].todo
        /\ UNCHANGED <<registered, closed, socket, got, hub, evictions, published>>
    BY <1>3 DEF SendToOne, Sends, pumps
  <2>2. CASE c \in closed
    <3>1. panic' = "listener" /\ UNCHANGED <<channel, missed>>
          /\ call' = [call EXCEPT ![s] = [call[s] EXCEPT !.todo = {}, !.slow = {}]]
      BY <1>0, <1>3, <2>2 DEF SendToOne, HubType
    <3> QED BY <1>2, <2>1, <3>1
  <2>3. CASE c \notin closed
    BY <1>3, <2>1, <2>3, CallOffers DEF SendToOne
  <2> QED BY <2>2, <2>3
<1>4. ASSUME NEW c \in Client, BroadcastToOne(s, c) PROVE HubInv'
  <2>1. /\ Sends(s) /\ c \in call[s].todo
        /\ UNCHANGED <<registered, closed, socket, got, hub, evictions, published>>
    BY <1>4 DEF BroadcastToOne, Sends, pumps
  <2>2. UNCHANGED panic
    BY <1>4 DEF BroadcastToOne, HubInv, LockInv, ChannelsClosedOnce
  <2>3. CASE c \in joined
    BY <1>4, <2>1, <2>2, <2>3, CallOffers DEF BroadcastToOne
  <2>4. CASE c \notin joined
    <3> DEFINE T == call[s].todo \ {c}
               L == call[s].slow
    <3>1. call' = [call EXCEPT ![s].todo = T] /\ UNCHANGED <<channel, missed>>
      BY <1>4, <2>4 DEF BroadcastToOne
    <3>2. [call[s] EXCEPT !.todo = T] = [call[s] EXCEPT !.todo = T, !.slow = L]
      BY <1>0 DEF CallStates
    <3>3. call' = [call EXCEPT ![s] = [call[s] EXCEPT !.todo = T]]
      BY <3>1
    <3>4. T \in SUBSET call[s].todo /\ L \in SUBSET Client
      BY <1>0 DEF CallStates
    <3> HIDE DEF T
    <3>5. call' = [call EXCEPT ![s] = [call[s] EXCEPT !.todo = T, !.slow = L]]
      BY <3>2, <3>3
    <3> QED BY <1>2, <2>1, <2>2, <3>1, <3>4, <3>5
  <2> QED BY <2>3, <2>4
\* The call is over, or goes on with the room; its slow clients get their goroutine.
<1>5. ASSUME NEW row \in CallStates, Evicts(call[s].slow), call' = [call EXCEPT ![s] = row],
             row.slow = {}, Sends(s),
             row = Resting \/ (/\ row.at = "room" /\ row.event = call[s].event
                              /\ row.todo \subseteq registered
                              /\ \A c \in row.todo : row.event.id \notin Heard(c)),
             UNCHANGED <<registered, channel, closed, socket, got, hub, missed, panic, published>>
      PROVE  HubInv'
  <2>1. call[s].slow \in SUBSET Client
    BY <1>0 DEF CallStates
  <2>2. /\ evictions \subseteq evictions' /\ evictions' \subseteq SUBSET Client
        /\ (evictions' = evictions \union {call[s].slow} \/ (call[s].slow = {} /\ row.slow = {}))
    BY <1>0, <1>5, <2>1 DEF Evicts
  <2>3. CASE row = Resting
    <3>1. row.at = "idle" /\ row.todo = {}
      BY <2>3, RestingRow
    <3> QED BY <1>0, <1>5, <2>2, <3>1, CallGoes
  <2>4. CASE row # Resting
    BY <1>0, <1>1, <1>5, <2>2, <2>4, CallGoes
  <2> QED BY <2>3, <2>4
<1>6. CASE SentToUser(s)
  <2>1. /\ Sends(s) /\ Evicts(call[s].slow) /\ call[s].at = "user"
        /\ UNCHANGED <<registered, channel, closed, socket, got, hub, missed, panic, published>>
    BY <1>6 DEF SentToUser, Sends, pumps
  <2>2. CASE call[s].event.kind # "added"
    BY <1>0, <1>5, <1>6, <2>1, <2>2, RestingRow DEF SentToUser, HubType
  <2>3. CASE call[s].event.kind = "added"
    <3> DEFINE R == RoomMembers(call[s].event)
               row == [call[s] EXCEPT !.at = "room", !.todo = R, !.slow = {}]
    <3>1. call' = [call EXCEPT ![s] = row]
      BY <1>0, <1>6, <2>3 DEF SentToUser, HubType
    <3>2. R \subseteq registered /\ \A c \in R : c \in Client /\ HomeOf[c] = call[s].event.room
      BY <1>0 DEF RoomMembers, HubType
    <3>3. \A c \in R : call[s].event.id \notin Heard(c)
      BY <1>1, <2>1, <2>3, <3>2
    <3>4. R \in SUBSET Client
      BY <3>2
    <3> HIDE DEF R
    <3>5. row \in CallStates /\ row.at = "room" /\ row.event = call[s].event /\ row.todo = R /\ row.slow = {}
      BY <1>0, <3>4 DEF CallStates
    <3> HIDE DEF row
    <3> QED BY <1>5, <2>1, <3>1, <3>2, <3>3, <3>5
  <2> QED BY <2>2, <2>3
<1>7. CASE BroadcastDone(s)
  <2>1. /\ Sends(s) /\ Evicts(call[s].slow) /\ call' = [call EXCEPT ![s] = Resting]
        /\ UNCHANGED <<registered, channel, closed, socket, got, hub, missed, panic, published>>
    BY <1>7 DEF BroadcastDone, Sends, pumps
  <2> QED BY <1>5, <2>1, RestingRow
<1> QED BY <1>3, <1>4, <1>6, <1>7 DEF Publishing

\* The hub's loop takes an event, and is done with it.
LEMMA HubTakes ==
    ASSUME HubInv, NEW s \in Sender, NEW e \in Event, Broadcast(s, e)
    PROVE  HubInv'
<1> DEFINE row == [Resting EXCEPT !.at = "global", !.event = e, !.todo = registered]
<1>1. /\ e \notin published /\ published' = published \cup {e} /\ e.kind = "daemon" /\ hub.at = "idle"
      /\ UNCHANGED <<registered, channel, closed, socket, got, call, evictions, panic, missed>>
      /\ hub' = row
  BY DEF Broadcast, Free, pumps
<1>2. registered \in SUBSET Client
  BY DEF HubInv, HubType
<1>3. row \in CallStates /\ row.at = "global" /\ row.event = e /\ row.todo = registered /\ row.slow = {}
  BY <1>2 DEF Resting, CallStates
<1> HIDE DEF row
<1>4. HubType'
  BY <1>1, <1>3 DEF HubInv, HubType
<1>5. SocketInv'
  BY <1>1, <1>3 DEF HubInv, SocketInv
<1>6. LockInv'
  BY <1>1, <1>3 DEF HubInv, LockInv, ChannelsClosedOnce
<1>7. GapInv'
  BY <1>1, <1>3 DEF HubInv, GapInv, GapsEndTheClient, HandledAsSlow
<1>8. DeliveredOnce' /\ \A d : Heard(d)' = Heard(d)
  BY <1>1, ToldByNobody DEF HubInv, ToldInv
<1>9. Unshared'
  BY <1>1, <1>3 DEF HubInv, ToldInv, Unshared, Sends
<1>10. Untold'
  <2>1. \A c \in registered : e.id \notin Heard(c)
    BY <1>1, <1>2 DEF HubInv, ToldInv, Untold
  <2> QED BY <1>1, <1>3, <1>8, <2>1 DEF HubInv, ToldInv, Untold, Sends
<1> QED BY <1>4, <1>5, <1>6, <1>7, <1>8, <1>9, <1>10 DEF HubInv, ToldInv

LEMMA HubUnlocks ==
    ASSUME HubInv, RunUnlocks
    PROVE  HubInv'
<1>1. /\ UNCHANGED <<registered, channel, closed, socket, got, call, evictions, panic, missed, published>>
      /\ hub' = IF hub.slow = {} THEN Resting ELSE [hub EXCEPT !.at = "evict"]
  BY DEF RunUnlocks, pumps
<1>2. /\ hub' \in CallStates /\ hub'.at \in {"idle", "evict"} /\ hub'.todo \subseteq hub.todo
      /\ hub'.slow = hub.slow /\ (hub'.at = "idle" => hub'.slow = {})
  <2>1. hub \in CallStates
    BY DEF HubInv, HubType
  <2> QED BY <1>1, <2>1, RestingRow DEF CallStates
<1>3. HubType'
  BY <1>1, <1>2 DEF HubInv, HubType
<1>4. SocketInv'
  BY <1>1, <1>2 DEF HubInv, SocketInv
<1>5. LockInv'
  BY <1>1, <1>2 DEF HubInv, LockInv, ChannelsClosedOnce
<1>6. GapInv'
  BY <1>1, <1>2 DEF HubInv, GapInv, GapsEndTheClient, HandledAsSlow
<1>7. ToldInv'
  BY <1>1, <1>2 DEF HubInv, ToldInv, DeliveredOnce, Unshared, Untold, Sends, Heard
<1> QED BY <1>3, <1>4, <1>5, <1>6, <1>7 DEF HubInv

LEMMA HubIsKept ==
    ASSUME HubInv, [HubNext]_hubVars
    PROVE  HubInv'
<1>1. CASE UNCHANGED hubVars
  <2>1. /\ UNCHANGED <<registered, closed, missed, published, hub, call, evictions, panic, socket,
                       channel, got>>
        /\ HubType /\ DeliveredOnce
    BY <1>1 DEF hubVars, HubInv, ToldInv
  <2>2. DeliveredOnce' /\ \A d \in Client, f \in Event : f.id \in Heard(d)' => f.id \in Heard(d)
    BY <2>1, ToldByNobody
  <2> QED BY <2>1, <2>2, Quiet DEF HubType
<1> QED BY <1>1, ConnectKeeps, PumpsKeep, RemovalsKeep, HubOffers, HubUnlocks, CallProceeds,
           CallBegins, HubTakes DEF HubNext, Run

LEMMA HubStarts ==
    ASSUME HubInit
    PROVE  HubInv
<1>1. HubType
  <2>1. <<>> \in Seq(Ids \union {Pong})
    OBVIOUS
  <2> QED BY <2>1, RestingRow DEF HubInit, HubType
<1>2. SocketInv /\ LockInv /\ GapInv
  BY RestingRow, HubAssumption
     DEF HubInit, SocketInv, LockInv, ChannelsClosedOnce, GapInv, GapsEndTheClient
<1>3. \A c \in Client : Heard(c) = {} /\ channel[c] = <<>>
  BY DEF HubInit, Heard
<1>4. hub.at = "idle" /\ \A s \in Sender : call[s].at = "idle"
  BY RestingRow DEF HubInit
<1>5. DeliveredOnce
  BY <1>3 DEF DeliveredOnce
<1>6. Unshared
  BY <1>4 DEF Unshared, Sends
<1>7. Untold
  BY <1>3, <1>4 DEF Untold, Sends
<1>8. ToldInv
  BY <1>5, <1>6, <1>7 DEF ToldInv
<1> QED BY <1>1, <1>2, <1>8 DEF HubInv

-----------------------------------------------------------------------------
\* The invariant: types, who is connected, what a fan-out under the lock goes to, who
\* missed a message, and who was told of which event.
THEOREM HubInvariant == MemorySpec => []HubInv
<1>1. HubInit => HubInv
  BY HubStarts
<1>2. HubInv /\ [HubNext]_hubVars => HubInv'
  BY HubIsKept
<1> QED BY <1>1, <1>2, MemorySteps, PTL DEF MemorySpec, MemoryInit

\* hub.go Run, BroadcastToWorkspace, SendToUser and listeners.go: whatever clients
\* come, go and fall behind while several goroutines publish, a send channel is closed
\* once and never written to under the lock afterwards, a client that missed a message
\* is gone or on a list of the slow, and no connection is told of an event twice.
THEOREM FanOutIsSafe == MemorySpec => []FanOutIsSound
<1>1. HubInv => FanOutIsSound
  BY DEF HubInv, LockInv, GapInv, ToldInv, FanOutIsSound
<1> QED BY <1>1, HubInvariant, PTL
=============================================================================
