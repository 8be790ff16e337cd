-------------------------------- MODULE WsHub --------------------------------
(***************************************************************************)
(* The WebSocket hub of one server process, the goroutines of each         *)
(* connection (the upgrade handler, the read pump, the write pump) and the *)
(* event bridge that the bus dispatcher runs.                              *)
(*                                                                         *)
(* Every hub method holds Hub.mu for its whole body and is one step.  A    *)
(* send on or a close of a closed channel panics: in the upgrade handler   *)
(* net/http recovers, in any other goroutine the process dies.             *)
(***************************************************************************)
EXTENDS Naturals, FiniteSets

CONSTANTS
    Clients,         \* connection ids
    Orgs, Apps,      \* organizations and applications
    scope,           \* client -> [org, app] that ValidateConnect let through
    Channels,        \* channel names clients subscribe to
    Default,         \* model.DefaultChannel
    Events,          \* domain events: [id, org, app, topic], app may be None
    Unrouted,        \* events extractRoutes finds no route for: the app is not
                     \* found, or the Kafka bus delivers an envelope
    MaxConnections,  \* Hub.maxConnections
    Buffer,          \* capacity of a send channel
    MaxDrops,        \* bound: connections the network may lose
    None

Scope == [org: Orgs, app: Apps]
Rooms == [org: Orgs, app: Apps, channel: Channels]

ASSUME WsHubConstants ==
    /\ scope \in [Clients -> Scope]
    /\ Default \in Channels
    /\ \A e \in Events : /\ e.org \in Orgs
                         /\ e.app \in Apps \cup {None}
                         /\ e.topic \in Channels
    /\ Unrouted \subseteq Events
    /\ {MaxConnections, Buffer} \subseteq Nat \ {0}
    /\ MaxDrops \in Nat
    /\ None \notin Events \cup Apps
    /\ IsFiniteSet(Clients)

VARIABLES
    clients,   \* Hub.clients
    members,   \* Hub.rooms: room -> the clients in it
    joined,    \* rooms of the client struct that Register made
    closes,    \* how often the send channel of a client was closed
    queued,    \* messages waiting in the send channel
    handler,   \* the upgrade handler: "none", "welcome", "done", "panicked"
    reader,    \* the read pump: "none", "reading", "unregister", "gone"
    drops,     \* connections the network lost so far
    pending,   \* events the bus has not delivered yet
    bridge,    \* the event being fanned out, and the channels left; or None
    got, lost, \* events each client was sent, and missed on a full channel
    crashed    \* a goroutine panicked: the process is gone

vars == <<clients, members, joined, closes, queued, handler, reader, drops,
          pending, bridge, got, lost, crashed>>

conn == <<handler, reader, drops>>
bus  == <<pending, bridge>>

Closed(c) == closes[c] > 0
RoomOf(c, ch) == [org |-> scope[c].org, app |-> scope[c].app, channel |-> ch]

-----------------------------------------------------------------------------
(* Hub methods. *)

LateHubFull == Cardinality(clients) > MaxConnections
HubFull == Cardinality(clients) >= MaxConnections

UnrecordedAdd(c, r) ==
    /\ members' = [members EXCEPT ![r] = @ \cup {c}]
    /\ UNCHANGED joined
AddToRoom(c, r) ==
    /\ members' = [members EXCEPT ![r] = @ \cup {c}]
    /\ joined' = [joined EXCEPT ![c] = @ \cup {r}]

(* Hub.Register, then Session.Start: a full hub closes the channel, and    *)
(* the pumps start all the same.                                           *)
Connect(c) ==
    /\ handler[c] = "none"
    /\ IF HubFull
       THEN /\ closes' = [closes EXCEPT ![c] = @ + 1]
            /\ UNCHANGED <<clients, members, joined>>
       ELSE /\ clients' = clients \cup {c}
            /\ AddToRoom(c, RoomOf(c, Default))
            /\ UNCHANGED closes
    /\ handler' = [handler EXCEPT ![c] = "welcome"]
    /\ reader' = [reader EXCEPT ![c] = "reading"]
    /\ UNCHANGED <<queued, drops, bus, got, lost, crashed>>

UncheckedRemove(c, rs) ==
    /\ clients' = clients \ {c}
    /\ members' = [r \in Rooms |-> IF r \in rs THEN members[r] \ {c} ELSE members[r]]
    /\ closes' = [closes EXCEPT ![c] = @ + 1]

KeepingRemove(c, rs) ==
    /\ closes' = [closes EXCEPT ![c] = IF c \in clients THEN 1 ELSE @]
    /\ members' = [r \in Rooms |-> IF r \in rs THEN members[r] \ {c} ELSE members[r]]
    /\ UNCHANGED clients
(* Hub.removeClient, given the rooms of the struct it is called with. *)
RemoveClient(c, rs) ==
    IF c \in clients
    THEN /\ clients' = clients \ {c}
         /\ members' = [r \in Rooms |-> IF r \in rs THEN members[r] \ {c} ELSE members[r]]
         /\ closes' = [closes EXCEPT ![c] = @ + 1]
    ELSE UNCHANGED <<clients, members, closes>>

LateHasRoom(c) == queued[c] <= Buffer
(* A channel takes one more message. *)
HasRoom(c) == queued[c] < Buffer

(* Hub.SendToClient answers the sender of an action. *)
SendToClient(c) ==
    IF c \in clients
    THEN /\ queued' = IF HasRoom(c) THEN [queued EXCEPT ![c] = @ + 1] ELSE queued
         /\ crashed' = (crashed \/ Closed(c))
    ELSE UNCHANGED <<queued, crashed>>

-----------------------------------------------------------------------------
(* The goroutines of a connection. *)

(* The handler's last statement, after the pumps have started. *)
Welcome(c) ==
    /\ handler[c] = "welcome"
    /\ handler' = [handler EXCEPT ![c] = IF Closed(c) THEN "panicked" ELSE "done"]
    /\ queued' = IF ~Closed(c) /\ HasRoom(c) THEN [queued EXCEPT ![c] = @ + 1] ELSE queued
    /\ UNCHANGED <<clients, members, joined, closes, reader, drops, bus, got, lost, crashed>>

Ping(c) ==
    /\ reader[c] = "reading"
    /\ SendToClient(c)
    /\ UNCHANGED <<clients, members, joined, closes, conn, bus, got, lost>>

(* Hub.Subscribe and the answer; an unknown client gets neither. *)
Subscribe(c, ch) ==
    /\ reader[c] = "reading"
    /\ c \in clients
    /\ AddToRoom(c, RoomOf(c, ch))
    /\ SendToClient(c)
    /\ UNCHANGED <<clients, closes, conn, bus, got, lost>>

Unsubscribe(c, ch) ==
    /\ reader[c] = "reading"
    /\ c \in clients
    /\ members' = [members EXCEPT ![RoomOf(c, ch)] = @ \ {c}]
    /\ joined' = [joined EXCEPT ![c] = @ \ {RoomOf(c, ch)}]
    /\ UNCHANGED <<clients, closes, queued, conn, bus, got, lost, crashed>>

(* The write pump takes a message out. *)
WriteOne(c) ==
    /\ queued[c] > 0
    /\ queued' = [queued EXCEPT ![c] = @ - 1]
    /\ UNCHANGED <<clients, members, joined, closes, conn, bus, got, lost, crashed>>

(* ReadMessage fails: the peer is gone, or the write pump closed the       *)
(* connection after it found the channel closed.  The deferred call passes *)
(* the struct Session.Start made, which has no rooms.                      *)
ReadFails(c) ==
    /\ reader[c] = "reading"
    /\ \/ Closed(c) /\ queued[c] = 0 /\ UNCHANGED drops
       \/ drops < MaxDrops /\ drops' = drops + 1
    /\ RemoveClient(c, {})
    /\ reader' = [reader EXCEPT ![c] = "unregister"]
    /\ UNCHANGED <<joined, queued, handler, bus, got, lost, crashed>>

(* The unregister function of Register, on the struct that has the rooms. *)
Unregister(c) ==
    /\ reader[c] = "unregister"
    /\ RemoveClient(c, joined[c])
    /\ reader' = [reader EXCEPT ![c] = "gone"]
    /\ UNCHANGED <<joined, queued, handler, drops, bus, got, lost, crashed>>

-----------------------------------------------------------------------------
(* The event bridge. *)

TopicOnlyTakeEvent(e) ==
    /\ bridge = None
    /\ e \in pending
    /\ pending' = pending \ {e}
    /\ bridge' = IF e \in Unrouted THEN None
                 ELSE [event |-> e, left |-> {e.topic}]
    /\ UNCHANGED <<clients, members, joined, closes, queued, conn, got, lost, crashed>>
(* extractRoutes knows the typed events of the in-process bus only, and    *)
(* looks up the organization of an endpoint's event by its app.  What has  *)
(* no route is discarded.                                                  *)
TakeEvent(e) ==
    /\ bridge = None
    /\ e \in pending
    /\ pending' = pending \ {e}
    /\ bridge' = IF e \in Unrouted THEN None
                 ELSE [event |-> e, left |-> {Default, e.topic}]
    /\ UNCHANGED <<clients, members, joined, closes, queued, conn, got, lost, crashed>>

AnyTenantHears(r, e, ch) == r.channel = ch /\ (e.app = None \/ r.app = e.app)

(* Hub.Broadcast to the room of an app, or BroadcastToOrganization to the  *)
(* rooms of every app of the organization.                                 *)
Hears(r, e, ch) == r.org = e.org /\ r.channel = ch /\ (e.app = None \/ r.app = e.app)

Audience(e, ch) == UNION {members[r] : r \in {r \in Rooms : Hears(r, e, ch)}}

(* The default channel first, then the channel of the topic.  A full       *)
(* channel drops the message; a closed one takes the process down.         *)
Broadcast(ch) ==
    /\ bridge # None
    /\ ch \in bridge.left
    /\ Default \in bridge.left => ch = Default
    /\ LET e == bridge.event  A == Audience(e, ch) IN
       IF \E c \in A : Closed(c)
       THEN crashed' = TRUE /\ UNCHANGED <<queued, got, lost, bridge>>
       ELSE /\ queued' = [c \in Clients |->
                            IF c \in A /\ HasRoom(c) THEN queued[c] + 1 ELSE queued[c]]
            /\ got' = [c \in Clients |->
                         IF c \in A /\ HasRoom(c) THEN got[c] \cup {e} ELSE got[c]]
            /\ lost' = [c \in Clients |->
                          IF c \in A /\ ~HasRoom(c) THEN lost[c] \cup {e} ELSE lost[c]]
            /\ bridge' = IF bridge.left = {ch} THEN None
                         ELSE [bridge EXCEPT !.left = @ \ {ch}]
            /\ UNCHANGED crashed
    /\ UNCHANGED <<clients, members, joined, closes, conn, pending>>

Init ==
    /\ clients = {}
    /\ members = [r \in Rooms |-> {}]
    /\ joined = [c \in Clients |-> {}]
    /\ closes = [c \in Clients |-> 0]
    /\ queued = [c \in Clients |-> 0]
    /\ handler = [c \in Clients |-> "none"]
    /\ reader = [c \in Clients |-> "none"]
    /\ drops = 0
    /\ pending = Events
    /\ bridge = None
    /\ got = [c \in Clients |-> {}]
    /\ lost = [c \in Clients |-> {}]
    /\ crashed = FALSE

Bridge == (\E e \in Events : TakeEvent(e)) \/ (\E ch \in Channels : Broadcast(ch))

Connection(c) ==
    \/ Connect(c) \/ Welcome(c) \/ Ping(c) \/ WriteOne(c)
    \/ \E ch \in Channels : Subscribe(c, ch) \/ Unsubscribe(c, ch)
    \/ ReadFails(c) \/ Unregister(c)

Next ==
    /\ ~crashed
    /\ Bridge \/ \E c \in Clients : Connection(c)

Spec == Init /\ [][Next]_vars

(* The dispatcher keeps delivering: no hub method blocks. *)
FairSpec == Spec /\ WF_vars(~crashed /\ Bridge)

-----------------------------------------------------------------------------
(* Properties. *)

(* The state of the hub, the goroutines and the bridge is well formed. *)
TypeOK ==
    /\ clients \subseteq Clients
    /\ members \in [Rooms -> SUBSET Clients]
    /\ joined \in [Clients -> SUBSET Rooms]
    /\ closes \in [Clients -> Nat]
    /\ queued \in [Clients -> 0..Buffer]
    /\ handler \in [Clients -> {"none", "welcome", "done", "panicked"}]
    /\ reader \in [Clients -> {"none", "reading", "unregister", "gone"}]
    /\ drops \in 0..MaxDrops
    /\ pending \subseteq Events
    /\ bridge \in [event: Events, left: SUBSET Channels] \cup {None}
    /\ got \in [Clients -> SUBSET Events]
    /\ lost \in [Clients -> SUBSET Events]
    /\ crashed \in BOOLEAN

(* A send channel is closed at most once, although the refusal in Register, *)
(* the read pump's deferred removeClient and the unregister function may   *)
(* all try, through two client structs whose closed flags are not shared:  *)
(* a second close would panic.                                             *)
ClosedOnce == \A c \in Clients : closes[c] <= 1

(* A client of the hub has an open channel, so that SendToClient never     *)
(* panics in the read pump.                                                *)
ConnectedIsOpen == \A c \in clients : ~Closed(c)

(* The per-process connection cap holds whatever the order in which        *)
(* clients come and go.                                                    *)
CapRespected == Cardinality(clients) <= MaxConnections

InScope(c, e) == e.org = scope[c].org /\ e.app \in {None, scope[c].app}

(* Tenant isolation: a client is sent (or misses) only events of its own   *)
(* organization, and of its own app when the event has one.                *)
ScopedDelivery ==
    \A c \in Clients : \A e \in got[c] \cup lost[c] :
        InScope(c, e)

(* The rooms a connected client is in are the rooms its struct records, so *)
(* that leaving removes it from all of them; a room it is in is of its own *)
(* scope.                                                                  *)
RoomsRecorded ==
    \A r \in Rooms : \A c \in members[r] \cap clients :
        r \in joined[c] /\ r = RoomOf(c, r.channel)

(* Every event the bus delivers is fanned out: a client in the default     *)
(* room of the event's scope is sent it, or misses it on a full channel,   *)
(* or leaves the room.                                                     *)
Listens(c) == c \in clients /\ c \in members[RoomOf(c, Default)]
FannedOut ==
    \A c \in Clients : \A e \in {e \in Events \ Unrouted : InScope(c, e)} :
        (e \in pending /\ Listens(c)) ~> (e \in got[c] \cup lost[c] \/ ~Listens(c))
=============================================================================
