----------------------------- MODULE WsHubProofs -----------------------------
(***************************************************************************)
(* Safety of the WebSocket hub for every number of connections, rooms and  *)
(* events, every cap, every buffer and every number of disconnections.     *)
(***************************************************************************)
EXTENDS WsHub, FiniteSetTheorems, TLAPS

(* A connection that has not been registered has left no trace. *)
FreshIsUnknown ==
    \A c \in Clients : handler[c] = "none" =>
        /\ c \notin clients
        /\ closes[c] = 0
        /\ \A r \in Rooms : c \notin members[r]

(* Also a room that outlives its client is of the client's scope. *)
OwnRooms == \A r \in Rooms : \A c \in members[r] : r = RoomOf(c, r.channel)

(* The handler starts the read pump before it does anything else. *)
StartedTogether == \A c \in Clients : (handler[c] = "none") <=> (reader[c] = "none")

ClientInv == ClosedOnce /\ ConnectedIsOpen /\ FreshIsUnknown
RoomInv   == OwnRooms /\ RoomsRecorded
Inv == TypeOK /\ ClientInv /\ RoomInv /\ CapRespected /\ ScopedDelivery /\ StartedTogether

-----------------------------------------------------------------------------
(* The room of a client and a channel is a room, of that channel. *)
LEMMA RoomOfType ==
    ASSUME NEW c \in Clients, NEW ch \in Channels
    PROVE  RoomOf(c, ch) \in Rooms /\ RoomOf(c, ch).channel = ch
  BY WsHubConstants DEF RoomOf, Rooms, Scope

(* Removing a client keeps the types, the cap and everything said of       *)
(* clients and rooms, whatever rooms the struct names: the cases are the   *)
(* read pump's removal and the one of unregister.                          *)
LEMMA RemoveClientSafe ==
    ASSUME Inv, NEW c \in Clients, handler[c] # "none", NEW rs,
           RemoveClient(c, rs), UNCHANGED <<handler, joined>>
    PROVE  /\ clients' \subseteq Clients
           /\ members' \in [Rooms -> SUBSET Clients]
           /\ closes' \in [Clients -> Nat]
           /\ ClientInv'
           /\ RoomInv'
           /\ CapRespected'
  <1>1. CASE c \notin clients
    <2>1. UNCHANGED <<clients, members, closes>>
      BY <1>1 DEF RemoveClient
    <2> QED
      BY <2>1 DEF Inv, TypeOK, ClientInv, RoomInv, CapRespected, ClosedOnce,
         ConnectedIsOpen, Closed, FreshIsUnknown, OwnRooms, RoomsRecorded
  <1>2. CASE c \in clients
    <2>1. /\ clients' = clients \ {c}
          /\ members' = [r \in Rooms |-> IF r \in rs THEN members[r] \ {c} ELSE members[r]]
          /\ closes' = [closes EXCEPT ![c] = @ + 1]
      BY <1>2 DEF RemoveClient
    <2>2. /\ clients' \subseteq Clients
          /\ members' \in [Rooms -> SUBSET Clients]
          /\ closes' \in [Clients -> Nat]
      BY <2>1 DEF Inv, TypeOK
    <2>3. closes[c] = 0
      BY <1>2 DEF Inv, ClientInv, ConnectedIsOpen, Closed, TypeOK
    <2>4. ClosedOnce' /\ ConnectedIsOpen'
      BY <2>1, <2>3 DEF Inv, TypeOK, ClientInv, ClosedOnce, ConnectedIsOpen, Closed
    <2>5. \A r \in Rooms : members'[r] \subseteq members[r]
      BY <2>1 DEF Inv, TypeOK
    <2>6. FreshIsUnknown'
      BY <2>1, <2>5 DEF Inv, TypeOK, ClientInv, FreshIsUnknown
    <2>7. RoomInv'
      BY <2>1, <2>5 DEF Inv, RoomInv, OwnRooms, RoomsRecorded
    <2>8. CapRespected'
      <3>1. IsFiniteSet(clients)
        BY WsHubConstants, FS_Subset DEF Inv, TypeOK
      <3>2. Cardinality(clients') = Cardinality(clients) - 1
        BY <2>1, <1>2, <3>1, FS_RemoveElement
      <3>3. Cardinality(clients) \in Nat
        BY <3>1, FS_CardinalityType
      <3> QED
        BY <3>2, <3>3, WsHubConstants DEF Inv, CapRespected
    <2> QED
      BY <2>2, <2>4, <2>6, <2>7, <2>8 DEF ClientInv
  <1> QED
    BY <1>1, <1>2

(* Putting a client of the hub, or one that just came, into a room of its  *)
(* scope keeps what is said of rooms.                                      *)
LEMMA AddToRoomSafe ==
    ASSUME Inv, NEW c \in Clients, NEW ch \in Channels, AddToRoom(c, RoomOf(c, ch)),
           clients' \in {clients, clients \cup {c}},
           c \in clients \/ handler[c] = "none"
    PROVE  /\ members' \in [Rooms -> SUBSET Clients]
           /\ joined' \in [Clients -> SUBSET Rooms]
           /\ RoomInv'
           /\ \A r \in Rooms : members'[r] \subseteq members[r] \cup {c}
  <1> DEFINE room == RoomOf(c, ch)
  <1>1. room \in Rooms /\ room.channel = ch
    BY RoomOfType
  <1>2. /\ members' = [members EXCEPT ![room] = @ \cup {c}]
        /\ joined' = [joined EXCEPT ![c] = @ \cup {room}]
    BY DEF AddToRoom
  <1>3. /\ members' \in [Rooms -> SUBSET Clients]
        /\ joined' \in [Clients -> SUBSET Rooms]
    BY <1>1, <1>2 DEF Inv, TypeOK
  <1>4. \A r \in Rooms : members'[r] = IF r = room THEN members[r] \cup {c} ELSE members[r]
    BY <1>1, <1>2 DEF Inv, TypeOK
  <1>5. \A d \in Clients : joined[d] \subseteq joined'[d]
    BY <1>1, <1>2 DEF Inv, TypeOK
  <1>6. room \in joined'[c]
    BY <1>1, <1>2 DEF Inv, TypeOK
  <1>7. OwnRooms'
    <2> SUFFICES ASSUME NEW r \in Rooms, NEW d \in members'[r]
                 PROVE  r = RoomOf(d, r.channel)
      BY DEF OwnRooms, RoomOf
    <2>1. CASE d \in members[r]
      BY <2>1 DEF Inv, RoomInv, OwnRooms
    <2>2. CASE d \notin members[r]
      BY <2>2, <1>1, <1>4
    <2> QED
      BY <2>1, <2>2
  <1>8. RoomsRecorded'
    <2> SUFFICES ASSUME NEW r \in Rooms, NEW d \in members'[r] \cap clients'
                 PROVE  r \in joined'[d]
      BY <1>7 DEF RoomsRecorded, OwnRooms
    <2>1. CASE d \in members[r]
      <3>1. d \in clients
        BY <2>1 DEF Inv, ClientInv, FreshIsUnknown
      <3> QED
        BY <2>1, <3>1, <1>5 DEF Inv, RoomInv, RoomsRecorded, TypeOK
    <2>2. CASE d \notin members[r]
      BY <2>2, <1>4, <1>6
    <2> QED
      BY <2>1, <2>2
  <1> QED
    BY <1>3, <1>4, <1>7, <1>8 DEF RoomInv

(* One more message in the channel of a client keeps it within its buffer. *)
LEMMA SendToClientType ==
    ASSUME Inv, NEW c \in Clients, SendToClient(c)
    PROVE  queued' \in [Clients -> 0..Buffer] /\ crashed' \in BOOLEAN
  <1>1. queued' \in [Clients -> 0..Buffer]
    BY WsHubConstants DEF SendToClient, HasRoom, Inv, TypeOK
  <1>2. crashed' \in BOOLEAN
    BY Zenon DEF SendToClient, Inv, TypeOK
  <1> QED
    BY <1>1, <1>2

(* A step of the read pump's goroutine that removes its client. *)
LEMMA RemovalStep ==
    ASSUME Inv, NEW c \in Clients, reader[c] # "none", NEW rs, RemoveClient(c, rs),
           drops' = drops \/ (drops < MaxDrops /\ drops' = drops + 1),
           NEW state \in {"unregister", "gone"},
           reader' = [reader EXCEPT ![c] = state],
           UNCHANGED <<joined, queued, handler, pending, bridge, got, lost, crashed>>
    PROVE  Inv'
  <1>1. handler[c] # "none"
    BY DEF Inv, StartedTogether
  <1>2. /\ clients' \subseteq Clients
        /\ members' \in [Rooms -> SUBSET Clients]
        /\ closes' \in [Clients -> Nat]
        /\ ClientInv'
        /\ RoomInv'
        /\ CapRespected'
    BY <1>1, RemoveClientSafe
  <1>3. TypeOK'
    <2>1. drops' \in 0..MaxDrops
      BY WsHubConstants DEF Inv, TypeOK
    <2>2. reader' \in [Clients -> {"none", "reading", "unregister", "gone"}]
      BY DEF Inv, TypeOK
    <2> QED
      BY <1>2, <2>1, <2>2 DEF Inv, TypeOK
  <1>4. ScopedDelivery' /\ StartedTogether'
    BY DEF Inv, TypeOK, ScopedDelivery, StartedTogether
  <1> QED
    BY <1>2, <1>3, <1>4 DEF Inv

-----------------------------------------------------------------------------
(* The invariant holds when the process starts. *)
LEMMA InitInv == Init => Inv
  <1> SUFFICES ASSUME Init PROVE Inv
    OBVIOUS
  <1>1. TypeOK
    <2>1. queued \in [Clients -> 0..Buffer] /\ drops \in 0..MaxDrops
      BY WsHubConstants DEF Init
    <2>2. crashed \in BOOLEAN
      BY Zenon DEF Init
    <2> QED
      BY <2>1, <2>2 DEF Init, TypeOK
  <1>2. ClientInv
    BY DEF Init, ClientInv, ClosedOnce, ConnectedIsOpen, FreshIsUnknown
  <1>3. RoomInv
    BY DEF Init, RoomInv, OwnRooms, RoomsRecorded
  <1>4. CapRespected
    BY FS_EmptySet, WsHubConstants DEF Init, CapRespected
  <1>5. ScopedDelivery /\ StartedTogether
    BY DEF Init, ScopedDelivery, StartedTogether
  <1> QED
    BY <1>1, <1>2, <1>3, <1>4, <1>5 DEF Inv

(* Every step of a connection or of the bridge keeps it. *)
LEMMA NextInv == Inv /\ [Next]_vars => Inv'
  <1> SUFFICES ASSUME Inv, [Next]_vars PROVE Inv'
    OBVIOUS
  <1> USE DEF ClientInv, RoomInv
  <1>1. ASSUME NEW c \in Clients, Connect(c) PROVE Inv'
    <2>1. CASE HubFull
      <3>1. /\ closes' = [closes EXCEPT ![c] = @ + 1]
            /\ handler' = [handler EXCEPT ![c] = "welcome"]
            /\ reader' = [reader EXCEPT ![c] = "reading"]
            /\ UNCHANGED <<clients, members, joined, queued, drops, bus, got, lost, crashed>>
        BY <1>1, <2>1 DEF Connect
      <3>2. handler[c] = "none" /\ c \notin clients /\ closes[c] = 0
        BY <1>1 DEF Connect, Inv, FreshIsUnknown
      <3>3. TypeOK'
        BY <3>1 DEF bus, Inv, TypeOK
      <3>4. ClientInv'
        BY <3>1, <3>2 DEF Inv, TypeOK, ClosedOnce, ConnectedIsOpen, Closed, FreshIsUnknown
      <3>5. RoomInv' /\ CapRespected' /\ ScopedDelivery' /\ StartedTogether'
        BY <3>1 DEF Inv, TypeOK, OwnRooms, RoomsRecorded, CapRespected, ScopedDelivery, StartedTogether
      <3> QED
        BY <3>3, <3>4, <3>5 DEF Inv
    <2>2. CASE ~HubFull
      <3>1. /\ clients' = clients \cup {c}
            /\ AddToRoom(c, RoomOf(c, Default))
            /\ handler' = [handler EXCEPT ![c] = "welcome"]
            /\ reader' = [reader EXCEPT ![c] = "reading"]
            /\ UNCHANGED <<closes, queued, drops, bus, got, lost, crashed>>
        BY <1>1, <2>2 DEF Connect
      <3>2. handler[c] = "none" /\ c \notin clients /\ closes[c] = 0
        BY <1>1 DEF Connect, Inv, FreshIsUnknown
      <3>3. /\ members' \in [Rooms -> SUBSET Clients]
            /\ joined' \in [Clients -> SUBSET Rooms]
            /\ RoomInv'
            /\ \A r \in Rooms : members'[r] \subseteq members[r] \cup {c}
        BY <3>1, <3>2, AddToRoomSafe, WsHubConstants
      <3>4. TypeOK'
        BY <3>1, <3>3 DEF bus, Inv, TypeOK
      <3>5. ClientInv'
        BY <3>1, <3>2, <3>3 DEF Inv, TypeOK, ClosedOnce, ConnectedIsOpen, Closed, FreshIsUnknown
      <3>6. CapRespected'
        <4>1. IsFiniteSet(clients)
          BY WsHubConstants, FS_Subset DEF Inv, TypeOK
        <4>2. Cardinality(clients') = Cardinality(clients) + 1
          BY <3>1, <3>2, <4>1, FS_AddElement
        <4>3. Cardinality(clients) \in Nat
          BY <4>1, FS_CardinalityType
        <4> QED
          BY <2>2, <4>2, <4>3, WsHubConstants DEF HubFull, CapRespected
      <3>7. ScopedDelivery' /\ StartedTogether'
        BY <3>1 DEF Inv, TypeOK, ScopedDelivery, StartedTogether
      <3> QED
        BY <3>3, <3>4, <3>5, <3>6, <3>7 DEF Inv
    <2> QED
      BY <2>1, <2>2
  <1>2. ASSUME NEW c \in Clients, Welcome(c) PROVE Inv'
    <2>1. /\ handler[c] = "welcome"
          /\ handler' = [handler EXCEPT ![c] = IF Closed(c) THEN "panicked" ELSE "done"]
          /\ queued' = IF ~Closed(c) /\ HasRoom(c) THEN [queued EXCEPT ![c] = @ + 1] ELSE queued
          /\ UNCHANGED <<clients, members, joined, closes, reader, drops, bus, got, lost, crashed>>
      BY <1>2 DEF Welcome
    <2>2. TypeOK'
      BY <2>1, WsHubConstants DEF HasRoom, bus, Inv, TypeOK
    <2>3. ClientInv' /\ StartedTogether'
      BY <2>1 DEF Inv, TypeOK, ClosedOnce, ConnectedIsOpen, Closed, FreshIsUnknown,
         StartedTogether
    <2> QED
      BY <2>1, <2>2, <2>3 DEF Inv, OwnRooms, RoomsRecorded, CapRespected, ScopedDelivery, StartedTogether
  <1>3. ASSUME NEW c \in Clients, Ping(c) PROVE Inv'
    <2>1. TypeOK'
      BY <1>3, SendToClientType DEF Ping, conn, bus, Inv, TypeOK
    <2> QED
      BY <1>3, <2>1 DEF Ping, conn, bus, Inv, ClosedOnce, ConnectedIsOpen, Closed,
         FreshIsUnknown, OwnRooms, RoomsRecorded, CapRespected, ScopedDelivery, StartedTogether
  <1>4. ASSUME NEW c \in Clients, NEW ch \in Channels, Subscribe(c, ch) PROVE Inv'
    <2>1. /\ c \in clients
          /\ AddToRoom(c, RoomOf(c, ch))
          /\ SendToClient(c)
          /\ UNCHANGED <<clients, closes, handler, reader, drops, pending, bridge, got, lost>>
      BY <1>4 DEF Subscribe, conn, bus
    <2>2. /\ members' \in [Rooms -> SUBSET Clients]
          /\ joined' \in [Clients -> SUBSET Rooms]
          /\ RoomInv'
          /\ \A r \in Rooms : members'[r] \subseteq members[r] \cup {c}
      BY <2>1, AddToRoomSafe
    <2>3. TypeOK'
      BY <2>1, <2>2, SendToClientType DEF Inv, TypeOK
    <2>4. ClientInv'
      BY <2>1, <2>2 DEF Inv, TypeOK, ClosedOnce, ConnectedIsOpen, Closed, FreshIsUnknown
    <2> QED
      BY <2>1, <2>2, <2>3, <2>4 DEF Inv, CapRespected, ScopedDelivery, StartedTogether
  <1>5. ASSUME NEW c \in Clients, NEW ch \in Channels, Unsubscribe(c, ch) PROVE Inv'
    <2> DEFINE room == RoomOf(c, ch)
    <2>1. /\ c \in clients
          /\ members' = [members EXCEPT ![room] = @ \ {c}]
          /\ joined' = [joined EXCEPT ![c] = @ \ {room}]
          /\ UNCHANGED <<clients, closes, queued, handler, reader, drops, pending, bridge,
                         got, lost, crashed>>
      BY <1>5 DEF Unsubscribe, conn, bus
    <2>2. room \in Rooms
      BY RoomOfType
    <2> HIDE DEF room
    <2>3. TypeOK'
      BY <2>1, <2>2 DEF Inv, TypeOK
    <2>4. \A r \in Rooms : members'[r] = IF r = room THEN members[r] \ {c} ELSE members[r]
      BY <2>1, <2>2 DEF Inv, TypeOK
    <2>5. ClientInv'
      BY <2>1, <2>4 DEF Inv, TypeOK, ClosedOnce, ConnectedIsOpen, Closed, FreshIsUnknown
    <2>6. OwnRooms'
      BY <2>4 DEF Inv, OwnRooms, RoomOf
    <2>7. RoomsRecorded'
      <3>1. \A d \in Clients : joined'[d] = IF d = c THEN joined[d] \ {room} ELSE joined[d]
        BY <2>1 DEF Inv, TypeOK
      <3>2. \A r \in Rooms : \A d \in members'[r] \cap clients' : r \in joined'[d]
        BY <2>1, <2>4, <3>1 DEF Inv, RoomsRecorded, TypeOK
      <3> QED
        BY <2>6, <3>2 DEF OwnRooms, RoomsRecorded
    <2> QED
      BY <2>1, <2>3, <2>5, <2>6, <2>7 DEF Inv, CapRespected, ScopedDelivery, StartedTogether
  <1>6. ASSUME NEW c \in Clients, WriteOne(c) PROVE Inv'
    <2>1. TypeOK'
      BY <1>6, WsHubConstants DEF WriteOne, conn, bus, Inv, TypeOK
    <2> QED
      BY <1>6, <2>1 DEF WriteOne, conn, bus, Inv, ClosedOnce, ConnectedIsOpen, Closed,
         FreshIsUnknown, OwnRooms, RoomsRecorded, CapRespected, ScopedDelivery, StartedTogether
  <1>7. ASSUME NEW c \in Clients, ReadFails(c) PROVE Inv'
    <2>1. /\ reader[c] = "reading"
          /\ drops' = drops \/ (drops < MaxDrops /\ drops' = drops + 1)
          /\ RemoveClient(c, {})
          /\ reader' = [reader EXCEPT ![c] = "unregister"]
          /\ UNCHANGED <<joined, queued, handler, pending, bridge, got, lost, crashed>>
      BY <1>7 DEF ReadFails, bus
    <2> QED
      BY <2>1, RemovalStep
  <1>8. ASSUME NEW c \in Clients, Unregister(c) PROVE Inv'
    <2>1. /\ reader[c] = "unregister"
          /\ RemoveClient(c, joined[c])
          /\ reader' = [reader EXCEPT ![c] = "gone"]
          /\ UNCHANGED <<joined, queued, handler, drops, pending, bridge, got, lost, crashed>>
      BY <1>8 DEF Unregister, bus
    <2> QED
      BY <2>1, RemovalStep
  <1>9. ASSUME NEW e \in Events, TakeEvent(e) PROVE Inv'
    <2>1. TypeOK'
      <3>1. {Default, e.topic} \subseteq Channels
        BY WsHubConstants
      <3>2. bridge' \in [event: Events, left: SUBSET Channels] \cup {None}
        BY <1>9, <3>1 DEF TakeEvent
      <3>3. /\ pending' \subseteq Events
            /\ UNCHANGED <<clients, members, joined, closes, queued, handler, reader, drops,
                           got, lost, crashed>>
        BY <1>9 DEF TakeEvent, conn, Inv, TypeOK
      <3> QED
        BY <3>2, <3>3 DEF Inv, TypeOK
    <2> QED
      BY <1>9, <2>1 DEF TakeEvent, conn, Inv, ClosedOnce, ConnectedIsOpen, Closed,
         FreshIsUnknown, OwnRooms, RoomsRecorded, CapRespected, ScopedDelivery, StartedTogether
  <1>10. ASSUME NEW ch \in Channels, Broadcast(ch) PROVE Inv'
    <2> DEFINE e == bridge.event  A == Audience(e, ch)
    <2>1. e \in Events /\ bridge.left \subseteq Channels
      BY <1>10 DEF Broadcast, Inv, TypeOK
    <2>2. \A c \in A : c \in Clients /\ InScope(c, e)
      <3> SUFFICES ASSUME NEW r \in Rooms, Hears(r, e, ch), NEW c \in members[r]
                   PROVE  c \in Clients /\ InScope(c, e)
        BY DEF Audience
      <3>1. c \in Clients
        BY DEF Inv, TypeOK
      <3>2. r = RoomOf(c, r.channel)
        BY DEF Inv, OwnRooms
      <3>3. r.org = scope[c].org /\ r.app = scope[c].app
        BY <3>2 DEF RoomOf
      <3> QED
        BY <3>1, <3>3 DEF Hears, InScope
    <2>3. UNCHANGED <<clients, members, joined, closes, handler, reader, drops, pending>>
      BY <1>10 DEF Broadcast, conn
    <2>4. ClientInv' /\ RoomInv' /\ CapRespected' /\ StartedTogether'
      BY <2>3 DEF Inv, ClosedOnce, ConnectedIsOpen, Closed, FreshIsUnknown, OwnRooms,
         RoomsRecorded, CapRespected, StartedTogether
    <2>5. CASE \E c \in A : Closed(c)
      <3>1. crashed' = TRUE /\ UNCHANGED <<queued, got, lost, bridge>>
        BY <1>10, <2>5 DEF Broadcast
      <3> QED
        BY <2>3, <2>4, <3>1 DEF Inv, TypeOK, ScopedDelivery, StartedTogether
    <2>6. CASE ~\E c \in A : Closed(c)
      <3>1. /\ queued' = [c \in Clients |->
                            IF c \in A /\ HasRoom(c) THEN queued[c] + 1 ELSE queued[c]]
            /\ got' = [c \in Clients |->
                         IF c \in A /\ HasRoom(c) THEN got[c] \cup {e} ELSE got[c]]
            /\ lost' = [c \in Clients |->
                          IF c \in A /\ ~HasRoom(c) THEN lost[c] \cup {e} ELSE lost[c]]
            /\ bridge' = IF bridge.left = {ch} THEN None
                         ELSE [bridge EXCEPT !.left = @ \ {ch}]
            /\ UNCHANGED crashed
        BY <1>10, <2>6 DEF Broadcast
      <3>2. bridge' \in [event: Events, left: SUBSET Channels] \cup {None}
        BY <1>10, <3>1 DEF Broadcast, Inv, TypeOK
      <3> HIDE DEF e, A
      <3>3. queued' \in [Clients -> 0..Buffer]
        BY <3>1, WsHubConstants DEF HasRoom, Inv, TypeOK
      <3>4. got' \in [Clients -> SUBSET Events] /\ lost' \in [Clients -> SUBSET Events]
        BY <3>1, <2>1 DEF Inv, TypeOK
      <3>5. ScopedDelivery'
        <4> SUFFICES ASSUME NEW c \in Clients, NEW d \in got'[c] \cup lost'[c]
                     PROVE  InScope(c, d)
          BY DEF ScopedDelivery, InScope
        <4>1. CASE d \in got[c] \cup lost[c]
          BY <4>1 DEF Inv, ScopedDelivery
        <4>2. CASE d \notin got[c] \cup lost[c]
          BY <4>2, <3>1, <2>2
        <4> QED
          BY <4>1, <4>2
      <3>6. TypeOK'
        BY <2>3, <3>1, <3>2, <3>3, <3>4 DEF Inv, TypeOK
      <3> QED
        BY <2>4, <3>5, <3>6 DEF Inv
    <2> QED
      BY <2>5, <2>6
  <1>11. CASE UNCHANGED vars
    BY <1>11 DEF vars, Inv, TypeOK, ClosedOnce, ConnectedIsOpen, Closed, FreshIsUnknown,
       OwnRooms, RoomsRecorded, CapRespected, ScopedDelivery, StartedTogether
  <1> QED
    BY <1>1, <1>2, <1>3, <1>4, <1>5, <1>6, <1>7, <1>8, <1>9, <1>10, <1>11
       DEF Next, Bridge, Connection

-----------------------------------------------------------------------------
(* The invariant of the hub: types, channels, rooms, cap and deliveries    *)
(* hold together in every reachable state.                                 *)
THEOREM HubInvariant == Spec => []Inv
  BY InitInv, NextInv, PTL DEF Spec

(* The state of hub.go, client.go and event_bridge.go stays well formed. *)
THEOREM HubTypeCorrect == Spec => []TypeOK
  BY HubInvariant, PTL DEF Inv

(* No interleaving of Register, readPump and unregister closes a send      *)
(* channel twice.                                                          *)
THEOREM ChannelsClosedOnce == Spec => []ClosedOnce
  BY HubInvariant, PTL DEF Inv, ClientInv

(* SendToClient never sends on a closed channel. *)
THEOREM ConnectedChannelsOpen == Spec => []ConnectedIsOpen
  BY HubInvariant, PTL DEF Inv, ClientInv

(* Register never lets more than maxConnections clients in. *)
THEOREM ConnectionCap == Spec => []CapRespected
  BY HubInvariant, PTL DEF Inv

(* Broadcast and BroadcastToOrganization reach only clients of the event's *)
(* organization and app, also through rooms that outlived a client.        *)
THEOREM TenantIsolation == Spec => []ScopedDelivery
  BY HubInvariant, PTL DEF Inv

(* The rooms of a connected client are those its struct records. *)
THEOREM ConnectedRoomsRecorded == Spec => []RoomsRecorded
  BY HubInvariant, PTL DEF Inv, RoomInv
=============================================================================
