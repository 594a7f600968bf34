----------------------------- MODULE RealtimeHub -----------------------------
(***************************************************************************)
(* The fan-out of events to WebSocket clients: the bus listeners of        *)
(* server/cmd/server/listeners.go and the hub of internal/realtime/hub.go. *)
(*                                                                         *)
(* Requests publish events from goroutines of their own; the hub's loop    *)
(* registers and unregisters clients and fans out daemon events; every     *)
(* client has a reader and a writer goroutine and a bounded send channel.  *)
(* A channel that is full drops the message and gets its client evicted    *)
(* later, by another goroutine.  Write-locked sections are single steps;   *)
(* a read-locked fan-out takes one step per client, during which no        *)
(* write-locked section runs.                                              *)
(***************************************************************************)
EXTENDS Naturals, Sequences, FiniteSets

CONSTANTS Client, UserOf, HomeOf,   \* a connection, its user and its workspace
          Sender,                   \* the goroutines that publish
          Event,                    \* events, as records [id, kind, user, room]
          Capacity,                 \* of a send channel (256 in the code)
          Lively,                   \* bound: the clients that send, or leave
          Pong, None

ASSUME HubAssumption ==
    /\ Capacity \in Nat \ {0}
    /\ \A e, f \in Event : e.id = f.id => e = f
    /\ \A e \in Event : e.id # Pong
    /\ None \notin {"listener", "pong", "room", "close"}

VARIABLES registered, \* Hub.rooms: the clients events are sent to
          joined,     \* the clients still in their own room
          channel,    \* per client, what its send channel buffers
          closed,     \* the clients whose send channel is closed
          socket,     \* per client: "none", "open", "gone"
          reader,     \* per client: "off", "reading", "pong", "leaving", "done"
          writer,     \* per client: "off", "writing", "done"
          hub,        \* the hub's loop: [at, event, todo, slow]
          call,       \* the senders, likewise
          evictions,  \* the sets of slow clients goroutines will evict
          published,  \* the events published so far
          panic,      \* what a goroutine panicked on, None at first
          missed,     \* the clients a message was dropped for
          got         \* per client, the events written to its socket
hubVars == <<registered, joined, channel, closed, socket, reader, writer, hub, call,
          evictions, published, panic, missed, got>>
pumps == <<socket, reader, writer, got>>

Resting == [at |-> "idle", event |-> None, todo |-> {}, slow |-> {}]

HubInit == /\ registered = {} /\ joined = {} /\ closed = {}
        /\ channel = [c \in Client |-> <<>>] /\ got = [c \in Client |-> {}]
        /\ socket = [c \in Client |-> "none"]
        /\ reader = [c \in Client |-> "off"] /\ writer = [c \in Client |-> "off"]
        /\ hub = Resting /\ call = [s \in Sender |-> Resting]
        /\ evictions = {} /\ published = {} /\ panic = None /\ missed = {}

(* A panic in the goroutine of a reader or of the hub ends the process; a  *)
(* panic in a bus listener is recovered by Bus.Publish.                    *)
Up == panic \in {None, "listener"}
(* Hub.mu: a fan-out to a room, or the hub's own, holds it for reading.    *)
Unlocked == hub.at # "global" /\ \A s \in Sender : call[s].at # "room"
Free == hub.at = "idle"

(***************************************************************************)
(* Connections.                                                            *)
(***************************************************************************)
HandleWebSocket(c) ==       \* the client joins its room; the hub registers it
    /\ socket[c] = "none" /\ Free /\ Unlocked
    /\ socket' = [socket EXCEPT ![c] = "open"]
    /\ registered' = registered \cup {c} /\ joined' = joined \cup {c}
    /\ reader' = [reader EXCEPT ![c] = "reading"]
    /\ writer' = [writer EXCEPT ![c] = "writing"]
    /\ UNCHANGED <<channel, closed, hub, call, evictions, published, panic,
                   missed, got>>

(* Closing a channel that is already closed panics. *)
Drop(S) ==
    /\ registered' = registered \ S /\ closed' = closed \cup S
    /\ panic' = IF S \cap closed = {} THEN panic ELSE "close"

UnregisterUnchecked(c) ==   \* mutant: whether or not the hub still has the client
    /\ reader[c] = "leaving" /\ Free /\ Unlocked
    /\ Drop({c})
    /\ reader' = [reader EXCEPT ![c] = "done"]
    /\ socket' = [socket EXCEPT ![c] = "gone"]
    /\ UNCHANGED <<joined, channel, writer, hub, call, evictions, published,
                   missed, got>>

Unregister(c) ==
    /\ reader[c] = "leaving" /\ Free /\ Unlocked
    /\ Drop({c} \cap registered)
    /\ reader' = [reader EXCEPT ![c] = "done"]
    /\ socket' = [socket EXCEPT ![c] = "gone"]
    /\ UNCHANGED <<joined, channel, writer, hub, call, evictions, published,
                   missed, got>>

Disconnects(c) ==
    /\ socket[c] = "open" /\ c \in Lively
    /\ socket' = [socket EXCEPT ![c] = "gone"]
    /\ UNCHANGED <<registered, joined, channel, closed, reader, writer, hub, call,
                   evictions, published, panic, missed, got>>

(***************************************************************************)
(* The pumps of a client.                                                  *)
(***************************************************************************)
ReadPump(c) ==
    /\ reader[c] = "reading"
    /\ \/ /\ socket[c] = "open" /\ c \in Lively         \* a ping
          /\ reader' = [reader EXCEPT ![c] = "pong"] /\ UNCHANGED joined
       \/ /\ socket[c] = "open" /\ c \in Lively         \* subscribe, unsubscribe
          /\ joined' \in {joined \cup {c}, joined \ {c}} /\ UNCHANGED reader
       \/ /\ socket[c] = "gone"
          /\ reader' = [reader EXCEPT ![c] = "leaving"] /\ UNCHANGED joined
    /\ UNCHANGED <<registered, channel, closed, socket, writer, hub, call,
                   evictions, published, panic, missed, got>>

(* The reply to a ping is sent on the same channel, and waits for room in it. *)
HandleInboundEvent(c) ==
    /\ reader[c] = "pong"
    /\ \/ /\ c \in closed /\ panic' = "pong" /\ UNCHANGED <<channel, reader>>
       \/ /\ c \notin closed /\ Len(channel[c]) < Capacity
          /\ channel' = [channel EXCEPT ![c] = Append(@, Pong)]
          /\ reader' = [reader EXCEPT ![c] = "reading"] /\ UNCHANGED panic
    /\ UNCHANGED <<registered, joined, closed, socket, writer, hub, call,
                   evictions, published, missed, got>>

WritePump(c) ==
    /\ writer[c] = "writing"
    /\ \/ /\ channel[c] # <<>>
          /\ channel' = [channel EXCEPT ![c] = Tail(@)]
          /\ IF socket[c] = "open"
             THEN got' = [got EXCEPT ![c] = @ \cup ({Head(channel[c])} \ {Pong})]
                  /\ UNCHANGED writer
             ELSE writer' = [writer EXCEPT ![c] = "done"] /\ UNCHANGED got
          /\ UNCHANGED socket
       \/ /\ channel[c] = <<>> /\ c \in closed
          /\ writer' = [writer EXCEPT ![c] = "done"]
          /\ socket' = [socket EXCEPT ![c] = "gone"]
          /\ UNCHANGED <<channel, got>>
    /\ UNCHANGED <<registered, joined, closed, reader, hub, call, evictions,
                   published, panic, missed>>

(***************************************************************************)
(* Offering an event to one client: a full channel makes the client slow.  *)
(***************************************************************************)
Full(c) == Len(channel[c]) >= Capacity
Offer(c, e) ==
    /\ channel' = IF Full(c) THEN channel
                  ELSE [channel EXCEPT ![c] = Append(@, e.id)]
    /\ missed' = IF Full(c) THEN missed \cup {c} ELSE missed
OfferedForgetting(state, c) == [state EXCEPT !.todo = @ \ {c}]   \* mutant
Offered(state, c) ==
    [state EXCEPT !.todo = @ \ {c}, !.slow = IF Full(c) THEN @ \cup {c} ELSE @]

(* Asynchronous removal, by a goroutine started when the fan-out is over. *)
EvictsNobody(slow) == UNCHANGED evictions                        \* mutant
Evicts(slow) == evictions' = IF slow = {} THEN evictions ELSE evictions \cup {slow}
Evict(slow) ==
    /\ slow \in evictions /\ Unlocked
    /\ Drop(slow \cap registered)
    /\ evictions' = evictions \ {slow}
    /\ UNCHANGED <<joined, channel, pumps, hub, call, published, missed>>

(***************************************************************************)
(* Publishing an event.  Personal events go to the connections of a user;  *)
(* member:added goes to the user first, except in the workspace, and then  *)
(* to the workspace; daemon events go through the hub's loop.              *)
(***************************************************************************)
ToUser(e) == e.kind \in {"personal", "added"}
RecipientsEverywhere(e) == {c \in registered : UserOf[c] = e.user}   \* mutant
Recipients(e) == {c \in registered : UserOf[c] = e.user
                                     /\ ~(e.kind = "added" /\ HomeOf[c] = e.room)}

RoomMembers(e) == {c \in registered : HomeOf[c] = e.room}

SendToUser(s, e) ==
    /\ call[s] = Resting /\ e \notin published /\ ToUser(e)
    /\ published' = published \cup {e}
    /\ call' = [call EXCEPT ![s] = [Resting EXCEPT !.at = "user", !.event = e,
                                                   !.todo = Recipients(e)]]
    /\ UNCHANGED <<registered, joined, channel, closed, pumps, hub, evictions,
                   panic, missed>>

(* The lock is not held here: a channel closed since makes the listener    *)
(* panic, and its other recipients get nothing.                            *)
SendToOne(s, c) ==
    /\ call[s].at = "user" /\ c \in call[s].todo
    /\ IF c \in closed
       THEN /\ panic' = "listener"
            /\ call' = [call EXCEPT ![s].todo = {}, ![s].slow = {}]
            /\ UNCHANGED <<channel, missed>>
       ELSE /\ Offer(c, call[s].event)
            /\ call' = [call EXCEPT ![s] = Offered(@, c)]
            /\ UNCHANGED panic
    /\ UNCHANGED <<registered, joined, closed, pumps, hub, evictions, published>>

SentToUser(s) ==
    /\ call[s].at = "user" /\ call[s].todo = {}
    /\ Evicts(call[s].slow)
    /\ call' = [call EXCEPT ![s] =
         IF @.event.kind = "added"
         THEN [@ EXCEPT !.at = "room", !.todo = RoomMembers(call[s].event), !.slow = {}]
         ELSE Resting]
    /\ UNCHANGED <<registered, joined, channel, closed, pumps, hub, published,
                   panic, missed>>

BroadcastToWorkspace(s, e) ==
    /\ call[s] = Resting /\ e \notin published /\ e.kind = "workspace"
    /\ published' = published \cup {e}
    /\ call' = [call EXCEPT ![s] = [Resting EXCEPT !.at = "room", !.event = e,
                                                   !.todo = RoomMembers(e)]]
    /\ UNCHANGED <<registered, joined, channel, closed, pumps, hub, evictions,
                   panic, missed>>

(* A client that left its own room is passed over.  The lock is held, so a *)
(* closed channel would be a flaw of the hub itself.                       *)
BroadcastToOne(s, c) ==
    /\ call[s].at = "room" /\ c \in call[s].todo
    /\ IF c \in closed THEN panic' = "room" ELSE UNCHANGED panic
    /\ IF c \in joined
       THEN Offer(c, call[s].event) /\ call' = [call EXCEPT ![s] = Offered(@, c)]
       ELSE call' = [call EXCEPT ![s].todo = @ \ {c}] /\ UNCHANGED <<channel, missed>>
    /\ UNCHANGED <<registered, joined, closed, pumps, hub, evictions, published>>

BroadcastDone(s) ==
    /\ call[s].at = "room" /\ call[s].todo = {}
    /\ Evicts(call[s].slow)
    /\ call' = [call EXCEPT ![s] = Resting]
    /\ UNCHANGED <<registered, joined, channel, closed, pumps, hub, published,
                   panic, missed>>

(* Broadcast hands a daemon event to the loop, which offers it to everyone *)
(* and evicts the slow clients itself.                                     *)
Broadcast(s, e) ==
    /\ call[s] = Resting /\ e \notin published /\ e.kind = "daemon" /\ Free
    /\ published' = published \cup {e}
    /\ hub' = [Resting EXCEPT !.at = "global", !.event = e, !.todo = registered]
    /\ UNCHANGED <<registered, joined, channel, closed, pumps, call, evictions,
                   panic, missed>>

RunOffers(c) ==
    /\ hub.at = "global" /\ c \in hub.todo
    /\ IF c \in closed THEN panic' = "room" ELSE UNCHANGED panic
    /\ Offer(c, hub.event)
    /\ hub' = Offered(hub, c)
    /\ UNCHANGED <<registered, joined, closed, pumps, call, evictions, published>>

RunUnlocks ==
    /\ hub.at = "global" /\ hub.todo = {}
    /\ hub' = IF hub.slow = {} THEN Resting ELSE [hub EXCEPT !.at = "evict"]
    /\ UNCHANGED <<registered, joined, channel, closed, pumps, call, evictions,
                   published, panic, missed>>

RunEvicts ==
    /\ hub.at = "evict" /\ Unlocked
    /\ Drop(hub.slow \cap registered)
    /\ hub' = Resting
    /\ UNCHANGED <<joined, channel, pumps, call, evictions, published, missed>>

-----------------------------------------------------------------------------
Pumps(c) == ReadPump(c) \/ HandleInboundEvent(c) \/ WritePump(c)
Run == \/ \E c \in Client : Unregister(c) \/ RunOffers(c)
       \/ RunUnlocks \/ RunEvicts
Publishing(s) ==
    \/ \E c \in Client : SendToOne(s, c) \/ BroadcastToOne(s, c)
    \/ SentToUser(s) \/ BroadcastDone(s)
Evicting == \E slow \in evictions : Evict(slow)
HubNext == /\ Up
        /\ \/ \E c \in Client : HandleWebSocket(c) \/ Disconnects(c) \/ Pumps(c)
           \/ Run
           \/ \E s \in Sender : Publishing(s)
           \/ \E s \in Sender, e \in Event :
                SendToUser(s, e) \/ BroadcastToWorkspace(s, e) \/ Broadcast(s, e)
           \/ Evicting

HubSpec == HubInit /\ [][HubNext]_hubVars
(* Runnable goroutines run, and one that waits for the lock gets it before *)
(* readers keep it from it for ever; nothing is assumed of the sockets, of *)
(* the writers or of the users.                                            *)
HubFairness == /\ SF_hubVars(Up /\ Run) /\ SF_hubVars(Up /\ Evicting)
            /\ \A s \in Sender : WF_hubVars(Up /\ Publishing(s))

-----------------------------------------------------------------------------
CallStates == [at : {"idle", "user", "room", "global", "evict"},
               event : Event \cup {None}, todo : SUBSET Client, slow : SUBSET Client]
HubTypeOK ==
    /\ registered \subseteq Client /\ joined \subseteq Client /\ closed \subseteq Client
    /\ missed \subseteq Client /\ published \subseteq Event
    /\ \A c \in Client : Len(channel[c]) <= Capacity
    /\ socket \in [Client -> {"none", "open", "gone"}]
    /\ reader \in [Client -> {"off", "reading", "pong", "leaving", "done"}]
    /\ writer \in [Client -> {"off", "writing", "done"}]
    /\ hub \in CallStates /\ call \in [Sender -> CallStates]
    /\ evictions \subseteq SUBSET Client
    /\ panic \in {None, "listener", "pong", "room", "close"}

(* The hub closes a channel once, when it forgets its client, and whoever  *)
(* fans out under the lock never meets a closed one, although a client may *)
(* be unregistered, found slow by several senders and by the loop at once. *)
ChannelsClosedOnce ==
    registered \cap closed = {} /\ panic \notin {"room", "close"}

(* A client that missed a message is not left with the gap: it is gone, or *)
(* is in the hands of a goroutine that will remove it.                     *)
HandledAsSlow(c) ==
    \/ c \in hub.slow \/ \E s \in Sender : c \in call[s].slow
    \/ \E slow \in evictions : c \in slow
GapsEndTheClient ==
    panic = None => \A c \in missed : c \notin registered \/ HandledAsSlow(c)

(* No connection is sent an event twice, although member:added goes to a   *)
(* user and to a room that may hold a connection of that user.             *)
DeliveredOnce ==
    \A c \in Client : \A i \in 1 .. Len(channel[c]) :
        /\ channel[c][i] \notin got[c]
        /\ \A j \in 1 .. i - 1 : channel[c][j] # channel[c][i] \/ channel[c][i] = Pong

(* What is sent under the lock reaches open channels, once, and leaves no  *)
(* client with a gap.                                                      *)
FanOutIsSound == ChannelsClosedOnce /\ GapsEndTheClient /\ DeliveredOnce

(* A client that missed a message is eventually removed, if nothing panics *)
(* meanwhile.                                                              *)
SlowAreRemoved ==
    \A c \in Client : c \in missed ~> (c \notin registered \/ panic # None)
=============================================================================
