----------------------------- MODULE Signaling -----------------------------
(***************************************************************************)
(* signal-svc: signaling.Hub and its Clients, room.Manager, and the gRPC    *)
(* calls they make to the media server, with the part of the web client     *)
(* that answers them.                                                       *)
(*                                                                          *)
(* Every WebSocket connection has a readPump goroutine that handles its      *)
(* messages one after the other; pc[c] is where that goroutine is.  A step   *)
(* is one critical section of Hub.mu, Manager.mu or Room.mu, one gRPC call   *)
(* or one channel operation.  A connection joins once, as the page room.html *)
(* does, so the participant and SFU peer it becomes have its name.           *)
(***************************************************************************)
EXTENDS Naturals, Sequences, FiniteSets

CONSTANTS
    Clients,        \* WebSocket connections
    Rooms,          \* rooms; random room numbers are assumed distinct
    Kinds,          \* media kinds subscribed for each pair of participants
    QueueCap,       \* capacity of Client.send (32 in the code)
    MaxFailures,    \* bound: gRPC calls that fail
    NoRoom          \* the empty roomID

ASSUME SignalingAssumption ==
    /\ NoRoom \notin Rooms
    /\ QueueCap \in Nat \ {0}
    /\ MaxFailures \in Nat

VARIABLES
    roomState,      \* "none", "listed" (in Manager.rooms) or "reclaimed"
    participants,   \* Room.Participants
    readers,        \* goroutines holding Room.mu for reading across gRPC calls
    pc,             \* where the goroutine of each connection is
    joining,        \* join.RoomID of the handler in progress
    roomOf,         \* Client.roomID (Client.peerID is set with it)
    existing,       \* existingPeers collected by handleJoin
    todo,           \* subscriptions SetupConsumers has still to create
    empty,          \* RemoveParticipant's local variable
    connected,      \* clients whose page is open and connected
    again,          \* clients for which handleLeave will run a second time
    hub,            \* Hub.clients
    closed,         \* clients whose send channel is closed
    inbox,          \* Client.send and what the socket holds, in order
    dropped,        \* clients for which a full channel lost a message
    sfuPeers,       \* peers registered at the media server
    consumers,      \* number of Consumers at the media server, at most 2 told apart
    started,        \* pages that have created their RTCPeerConnection
    greeting,       \* existing_peers the page handles once WebRTC.init is done
    tiles,          \* remote participants the page shows
    transceivers,   \* remote participants the page has added transceivers for
    pending,        \* those of them that no offer has named yet
    offer,          \* recv_mids of the offer on its way to the server
    warned,         \* publishers bindConsumerByMid found no Consumer for
    failures        \* failed gRPC calls so far

serverLocals == <<joining, existing, todo, empty>>
browser == <<started, greeting, tiles, transceivers, pending, offer>>
sfu == <<sfuPeers, consumers, warned>>
manager == <<roomState, participants, readers>>
vars == <<manager, pc, serverLocals, roomOf, connected, again, hub, closed, inbox, dropped,
          sfu, browser, failures>>

Subscriptions == Clients \X Clients \X Kinds

Resting == {"connected", "ready", "left", "gone"}
Steps == {"addPeer", "addParticipant", "setRoom", "collect", "sendJoined", "broadcast",
          "setup", "pairs", "consumers", "leave", "delete", "reclaim", "removePeer", "notifyLeft",
          "unregister", "close"}

Msg(t, ps) == [type |-> t, peers |-> ps]

Init ==
    /\ roomState = [r \in Rooms |-> "none"]
    /\ participants = [r \in Rooms |-> {}]
    /\ readers = [r \in Rooms |-> {}]
    /\ pc = [c \in Clients |-> "connected"]
    /\ joining = [c \in Clients |-> NoRoom]
    /\ roomOf = [c \in Clients |-> NoRoom]
    /\ existing = [c \in Clients |-> {}]
    /\ todo = [c \in Clients |-> {}]
    /\ empty = [c \in Clients |-> FALSE]
    /\ connected = Clients
    /\ again = {}
    /\ hub = Clients
    /\ closed = {}
    /\ inbox = [c \in Clients |-> <<>>]
    /\ dropped = {}
    /\ sfuPeers = {}
    /\ consumers = [s \in Subscriptions |-> 0]
    /\ started = {}
    /\ greeting = [c \in Clients |-> {}]
    /\ tiles = [c \in Clients |-> {}]
    /\ transceivers = [c \in Clients |-> {}]
    /\ pending = [c \in Clients |-> {}]
    /\ offer = [c \in Clients |-> {}]
    /\ warned = [c \in Clients |-> {}]
    /\ failures = 0

-----------------------------------------------------------------------------
(* Steps of a goroutine, and failing gRPC calls. *)

At(c, from, to) == pc[c] = from /\ pc' = [pc EXCEPT ![c] = to]

(* A call that is answered in time. *)
CallSucceeds == UNCHANGED failures

(* A call that fails or passes its deadline; the server may or may not have *)
(* executed it.                                                             *)
CallFails == failures < MaxFailures /\ failures' = failures + 1

(* Sending on Client.send with select/default: a full channel drops.  What   *)
(* is sent to a page that is gone is lost with the connection.               *)
SendTo(S, m) ==
    LET open == S \cap connected
    IN /\ inbox' = [d \in Clients |-> IF d \in open /\ Len(inbox[d]) < QueueCap
                                      THEN Append(inbox[d], m) ELSE inbox[d]]
       /\ dropped' = dropped \cup {d \in open : Len(inbox[d]) >= QueueCap}

(* Faulty variant: only clients whose join is complete are considered. *)
InRoom_JoinedOnly(r, sender) == {d \in hub : roomOf[d] = r /\ d # sender /\ pc[d] = "ready"}

(* Clients that handleJoin collects and broadcastToRoom sends to. *)
InRoom(r, sender) == {d \in hub : roomOf[d] = r /\ d # sender}

-----------------------------------------------------------------------------
(* room.Manager.CreateRoom, called by the REST handler. *)
CreateRoom(r) ==
    /\ roomState[r] = "none"
    /\ roomState' = [roomState EXCEPT ![r] = "listed"]
    /\ UNCHANGED <<participants, readers, pc, serverLocals, roomOf, connected, again, hub,
                   closed, inbox, dropped, sfu, browser, failures>>

(* handleJoin -> AddParticipant -> GetRoom.  An unknown room is answered with *)
(* an error, after which the page goes back to the start page.               *)
GetRoom(c, r) ==
    /\ At(c, "connected", "addPeer")
    /\ c \in connected
    /\ roomState[r] = "listed"
    /\ joining' = [joining EXCEPT ![c] = r]
    /\ UNCHANGED <<manager, existing, todo, empty, roomOf, connected, again, hub, closed, inbox,
                   dropped, sfu, browser, failures>>

JoinUnknownRoom(c, r) ==
    /\ At(c, "connected", "ready")
    /\ c \in connected
    /\ roomState[r] # "listed"
    /\ SendTo({c}, Msg("error", {}))
    /\ UNCHANGED <<manager, serverLocals, roomOf, connected, again, hub, closed, sfu, browser,
                   failures>>

(* AddParticipant -> sfu.AddPeer. *)
AddPeer(c) ==
    \/ /\ At(c, "addPeer", "addParticipant")
       /\ CallSucceeds
       /\ sfuPeers' = sfuPeers \cup {c}
       /\ UNCHANGED <<manager, serverLocals, roomOf, connected, again, hub, closed, inbox,
                      dropped, consumers, warned, browser>>
    \/ /\ At(c, "addPeer", "ready")
       /\ CallFails
       /\ sfuPeers' \in {sfuPeers, sfuPeers \cup {c}}
       /\ SendTo({c}, Msg("error", {}))
       /\ joining' = [joining EXCEPT ![c] = NoRoom]
       /\ UNCHANGED <<manager, existing, todo, empty, roomOf, connected, again, hub, closed,
                      consumers, warned, browser>>

(* AddParticipant: the Room found before is used, listed or not. *)
AddParticipant(c) ==
    /\ At(c, "addParticipant", "setRoom")
    /\ readers[joining[c]] = {}
    /\ participants' = [participants EXCEPT ![joining[c]] = @ \cup {c}]
    /\ UNCHANGED <<roomState, readers, serverLocals, roomOf, connected, again, hub, closed,
                   inbox, dropped, sfu, browser, failures>>

(* handleJoin: client.peerID, client.roomID and client.username are set,     *)
(* without the lock the other goroutines read them under.                    *)
SetRoom(c) ==
    /\ At(c, "setRoom", "collect")
    /\ roomOf' = [roomOf EXCEPT ![c] = joining[c]]
    /\ UNCHANGED <<manager, serverLocals, connected, again, hub, closed, inbox, dropped, sfu,
                   browser, failures>>

(* handleJoin: existingPeers. *)
CollectExisting(c) ==
    /\ At(c, "collect", "sendJoined")
    /\ existing' = [existing EXCEPT ![c] = InRoom(joining[c], c)]
    /\ UNCHANGED <<manager, joining, todo, empty, roomOf, connected, again, hub, closed, inbox,
                   dropped, sfu, browser, failures>>

SendJoined(c) ==
    /\ At(c, "sendJoined", "broadcast")
    /\ SendTo({c}, Msg("joined", existing[c]))
    /\ UNCHANGED <<manager, serverLocals, roomOf, connected, again, hub, closed, sfu, browser,
                   failures>>

BroadcastJoin(c) ==
    /\ At(c, "broadcast", "setup")
    /\ SendTo(InRoom(joining[c], c), Msg("renegotiate", {c}))
    /\ UNCHANGED <<manager, serverLocals, roomOf, connected, again, hub, closed, sfu, browser,
                   failures>>

(* Faulty variant: only the joining participant gets subscriptions. *)
Pairs_NewSubscriberOnly(r, c) == {s \in Subscriptions : s[1] = c /\ s[2] \in participants[r] \ {c}}

(* Faulty variant: only subscriptions to the joining participant. *)
Pairs_NewPublisherOnly(r, c) == {s \in Subscriptions : s[2] = c /\ s[1] \in participants[r] \ {c}}

(* The subscriptions SetupConsumers creates, for every ordered pair. *)
Pairs(r, c) == {s \in Subscriptions : /\ s[1] \in participants[r] /\ s[2] \in participants[r]
                                      /\ s[1] # s[2]}

(* Faulty variant: Room.mu is released once the participants are copied. *)
Reading_None(r, c) == readers

Reading(r, c) == [readers EXCEPT ![r] = @ \cup {c}]

(* SetupConsumers -> GetRoom; its error is only logged. *)
FindRoom(c) ==
    \/ /\ At(c, "setup", "pairs")
       /\ roomState[joining[c]] = "listed"
       /\ UNCHANGED <<manager, serverLocals, roomOf, connected, again, hub, closed, inbox,
                      dropped, sfu, browser, failures>>
    \/ /\ At(c, "setup", "ready")
       /\ roomState[joining[c]] # "listed"
       /\ joining' = [joining EXCEPT ![c] = NoRoom]
       /\ UNCHANGED <<manager, existing, todo, empty, roomOf, connected, again, hub, closed,
                      inbox, dropped, sfu, browser, failures>>

(* SetupConsumers: the participants of the Room found are read, listed still *)
(* or not, under a read lock of Room.mu that is kept until it returns.       *)
SetupConsumers(c) ==
    /\ At(c, "pairs", "consumers")
    /\ readers' = Reading(joining[c], c)
    /\ todo' = [todo EXCEPT ![c] = Pairs(joining[c], c)]
    /\ UNCHANGED <<roomState, participants, joining, existing, empty, roomOf, connected, again,
                   hub, closed, inbox, dropped, sfu, browser, failures>>

(* Faulty variant: the error path keeps the read lock. *)
AbortSetup_KeepsLock(c) ==
    /\ At(c, "consumers", "ready")
    /\ todo' = [todo EXCEPT ![c] = {}]
    /\ joining' = [joining EXCEPT ![c] = NoRoom]
    /\ UNCHANGED readers

(* SetupConsumers returns, on success or with the first error. *)
AbortSetup(c) ==
    /\ At(c, "consumers", "ready")
    /\ todo' = [todo EXCEPT ![c] = {}]
    /\ joining' = [joining EXCEPT ![c] = NoRoom]
    /\ readers' = [readers EXCEPT ![joining[c]] = @ \ {c}]

(* One more Consumer for subscription s; a third is not told from a second. *)
Created(s) == [consumers EXCEPT ![s] = IF @ < 2 THEN @ + 1 ELSE @]

(* One sfu.AddConsumer call of SetupConsumers, in any order; the media       *)
(* server refuses unregistered peers.                                        *)
AddConsumer(c, s) ==
    /\ pc[c] = "consumers" /\ s \in todo[c]
    /\ LET registered == s[1] \in sfuPeers /\ s[2] \in sfuPeers
       IN \/ /\ registered /\ CallSucceeds
             /\ consumers' = Created(s)
             /\ todo' = [todo EXCEPT ![c] = @ \ {s}]
             /\ UNCHANGED <<pc, joining, readers>>
          \/ /\ IF registered THEN CallFails ELSE CallSucceeds
             /\ consumers' \in {consumers} \cup (IF registered THEN {Created(s)} ELSE {})
             /\ AbortSetup(c)
    /\ UNCHANGED <<roomState, participants, existing, empty, roomOf, connected, again, hub,
                   closed, inbox, dropped, sfuPeers, warned, browser>>

SetupDone(c) ==
    /\ pc[c] = "consumers" /\ todo[c] = {}
    /\ AbortSetup(c)
    /\ UNCHANGED <<roomState, participants, existing, empty, roomOf, connected, again, hub,
                   closed, inbox, dropped, sfu, browser, failures>>

-----------------------------------------------------------------------------
(* handleOffer: SendOffer binds a Consumer per recv_mid; there is an answer  *)
(* even when a bind found none.                                              *)
HandleOffer(c) ==
    /\ pc[c] = "ready" /\ c \in connected /\ offer[c] # {}
    /\ offer' = [offer EXCEPT ![c] = {}]
    /\ LET unfound == {d \in offer[c] : \E k \in Kinds : consumers[<<c, d, k>>] = 0}
       IN \/ /\ CallSucceeds
             /\ warned' = IF c \in sfuPeers THEN [warned EXCEPT ![c] = @ \cup unfound] ELSE warned
             /\ SendTo({c}, Msg("answer", {}))
          \/ /\ CallFails
             /\ warned' \in {warned, [warned EXCEPT ![c] = @ \cup unfound]}
             /\ SendTo({c}, Msg("error", {}))
    /\ UNCHANGED <<manager, pc, serverLocals, roomOf, connected, again, hub, closed, sfuPeers,
                   consumers, started, greeting, tiles, transceivers, pending>>

-----------------------------------------------------------------------------
(* handleLeave, once for a "leave" message and once when reading ends;      *)
(* a client that has not joined is only unregistered.                         *)
StartLeave(c) == pc' = [pc EXCEPT ![c] = IF roomOf[c] = NoRoom THEN "unregister" ELSE "leave"]

(* The page is closed, and the browser's side of the connection with it. *)
PageCloses(c) ==
    /\ connected' = connected \ {c}
    /\ inbox' = [inbox EXCEPT ![c] = <<>>]
    /\ started' = started \ {c}
    /\ greeting' = [greeting EXCEPT ![c] = {}]
    /\ tiles' = [tiles EXCEPT ![c] = {}]
    /\ transceivers' = [transceivers EXCEPT ![c] = {}]
    /\ pending' = [pending EXCEPT ![c] = {}]
    /\ offer' = [offer EXCEPT ![c] = {}]

(* leaveRoom: "leave", behind the offers sent before it, and then the close. *)
LeaveMessage(c) ==
    /\ pc[c] = "ready" /\ c \in connected /\ offer[c] = {}
    /\ PageCloses(c)
    /\ again' = again \cup {c}
    /\ StartLeave(c)
    /\ UNCHANGED <<manager, serverLocals, roomOf, hub, closed, dropped, sfu, failures>>

(* The connection is lost; what the page has sent may be lost with it. *)
ConnectionLost(c) ==
    /\ pc[c] \in {"connected", "ready"} /\ c \in connected
    /\ PageCloses(c)
    /\ StartLeave(c)
    /\ UNCHANGED <<manager, serverLocals, roomOf, again, hub, closed, dropped, sfu, failures>>

(* readPump fails to read on after a "leave" message. *)
ReadError(c) ==
    /\ pc[c] = "left"
    /\ again' = again \ {c}
    /\ StartLeave(c)
    /\ UNCHANGED <<manager, serverLocals, roomOf, connected, hub, closed, inbox, dropped, sfu,
                   browser, failures>>

(* RemoveParticipant -> GetRoom; of an unknown room nothing is removed, from  *)
(* the media server neither.                                                 *)
FindLeftRoom(c) ==
    /\ \/ At(c, "leave", "delete") /\ roomState[roomOf[c]] = "listed"
       \/ At(c, "leave", "notifyLeft") /\ roomState[roomOf[c]] # "listed"
    /\ UNCHANGED <<manager, serverLocals, roomOf, connected, again, hub, closed, inbox, dropped,
                   sfu, browser, failures>>

(* RemoveParticipant: the participant is deleted under Room.mu. *)
RemoveParticipant(c) ==
    LET r == roomOf[c]
    IN /\ At(c, "delete", "reclaim")
       /\ readers[r] = {}
       /\ participants' = [participants EXCEPT ![r] = @ \ {c}]
       /\ empty' = [empty EXCEPT ![c] = participants[r] \subseteq {c}]
       /\ UNCHANGED <<roomState, readers, joining, existing, todo, roomOf, connected, again,
                      hub, closed, inbox, dropped, sfu, browser, failures>>

(* RemoveParticipant: a room that was empty is deleted from Manager.rooms. *)
ReclaimRoom(c) ==
    /\ At(c, "reclaim", "removePeer")
    /\ roomState' = IF empty[c] THEN [roomState EXCEPT ![roomOf[c]] = "reclaimed"] ELSE roomState
    /\ empty' = [empty EXCEPT ![c] = FALSE]
    /\ UNCHANGED <<participants, readers, joining, existing, todo, roomOf, connected, again, hub,
                   closed, inbox, dropped, sfu, browser, failures>>

(* Consumers that are left when the media server has removed c.  Those of    *)
(* others to c that Router::removePeer leaves in their vectors are           *)
(* forgotten: no property is about subscriptions to a peer that has gone.    *)
WithoutPeer(c) == [s \in Subscriptions |-> IF s[1] = c \/ s[2] = c THEN 0 ELSE consumers[s]]

(* RemoveParticipant -> sfu.RemovePeer; an error is only logged. *)
RemovePeer(c) ==
    /\ At(c, "removePeer", "notifyLeft")
    /\ \/ /\ CallSucceeds
          /\ sfuPeers' = sfuPeers \ {c} /\ consumers' = WithoutPeer(c)
       \/ /\ CallFails
          /\ \/ UNCHANGED <<sfuPeers, consumers>>
             \/ sfuPeers' = sfuPeers \ {c} /\ consumers' = WithoutPeer(c)
    /\ UNCHANGED <<manager, serverLocals, roomOf, connected, again, hub, closed, inbox, dropped,
                   warned, browser>>

NotifyLeft(c) ==
    /\ At(c, "notifyLeft", "unregister")
    /\ SendTo(InRoom(roomOf[c], c), Msg("peer-left", {c}))
    /\ UNCHANGED <<manager, serverLocals, roomOf, connected, again, hub, closed, sfu, browser,
                   failures>>

(* Faulty variant: the client stays in Hub.clients. *)
Unregister_KeepsClient(c) ==
    /\ At(c, "unregister", "close")
    /\ UNCHANGED <<manager, serverLocals, roomOf, connected, again, hub, closed, inbox, dropped,
                   sfu, browser, failures>>

Unregister(c) ==
    /\ At(c, "unregister", "close")
    /\ hub' = hub \ {c}
    /\ UNCHANGED <<manager, serverLocals, roomOf, connected, again, closed, inbox, dropped, sfu,
                   browser, failures>>

(* Closing an already closed channel panics and is recovered.  readPump goes *)
(* on after a "leave" message and ends when the connection has ended.        *)
CloseChannel(c) ==
    /\ At(c, "close", IF c \in again THEN "left" ELSE "gone")
    /\ closed' = closed \cup {c}
    /\ UNCHANGED <<manager, serverLocals, roomOf, connected, again, hub, inbox, dropped, sfu,
                   browser, failures>>

-----------------------------------------------------------------------------
(* The page: the message handlers of room.html.  When webrtc.js sends an     *)
(* offer is left open here: an initial offer and the renegotiation queue may *)
(* overlap.                                                                  *)

(* addRemoteVideo and addRecvTransceiver for the peers ps; without an        *)
(* RTCPeerConnection the second returns at once.                             *)
Show(c, ps, hasPc) ==
    LET added == IF hasPc THEN ps ELSE {}
    IN /\ tiles' = [tiles EXCEPT ![c] = @ \cup ps]
       /\ transceivers' = [transceivers EXCEPT ![c] = @ \cup added]
       /\ pending' = [pending EXCEPT ![c] = @ \cup added]

(* Faulty variant: the tile is removed only with a transceiver that has a mid. *)
Hide_MatchedOnly(c, ps) ==
    /\ tiles' = [tiles EXCEPT ![c] = @ \ (ps \ pending[c])]
    /\ transceivers' = [transceivers EXCEPT ![c] = @ \ (ps \ pending[c])]
    /\ UNCHANGED pending

(* removeVideo and markTransceiverInactive, which finds only transceivers    *)
(* that an offer has given a mid.                                            *)
Hide(c, ps) ==
    /\ tiles' = [tiles EXCEPT ![c] = @ \ ps]
    /\ transceivers' = [transceivers EXCEPT ![c] = @ \ (ps \ pending[c])]
    /\ UNCHANGED pending

Receive(c) ==
    LET m == Head(inbox[c])
    IN /\ c \in connected /\ inbox[c] # <<>>
       /\ inbox' = [inbox EXCEPT ![c] = Tail(@)]
       /\ \/ /\ m.type = "joined"
             /\ started' = started \cup {c}
             /\ greeting' = [greeting EXCEPT ![c] = m.peers]
             /\ UNCHANGED <<tiles, transceivers, pending>>
          \/ /\ m.type = "renegotiate"
             /\ Show(c, m.peers, c \in started)
             /\ UNCHANGED <<started, greeting>>
          \/ /\ m.type = "peer-left"
             /\ Hide(c, m.peers)
             /\ UNCHANGED <<started, greeting>>
          \/ /\ m.type \in {"answer", "error"}
             /\ UNCHANGED <<started, greeting, tiles, transceivers, pending>>
       /\ UNCHANGED <<manager, pc, serverLocals, roomOf, connected, again, hub, closed, dropped,
                      sfu, offer, failures>>

(* The "joined" handler goes on when WebRTC.init has returned. *)
InitDone(c) ==
    /\ c \in connected /\ greeting[c] # {}
    /\ Show(c, greeting[c], TRUE)
    /\ greeting' = [greeting EXCEPT ![c] = {}]
    /\ UNCHANGED <<manager, pc, serverLocals, roomOf, connected, again, hub, closed, inbox,
                   dropped, sfu, started, offer, failures>>

(* _runRenegotiateQueue: an offer with all transceivers pending. *)
SendOffer(c) ==
    /\ c \in connected /\ offer[c] = {} /\ pending[c] # {}
    /\ offer' = [offer EXCEPT ![c] = pending[c]]
    /\ pending' = [pending EXCEPT ![c] = {}]
    /\ UNCHANGED <<manager, pc, serverLocals, roomOf, connected, again, hub, closed, inbox,
                   dropped, sfu, started, greeting, tiles, transceivers, failures>>

-----------------------------------------------------------------------------
JoinStep(c) == \/ AddPeer(c) \/ AddParticipant(c) \/ SetRoom(c) \/ CollectExisting(c)
               \/ SendJoined(c) \/ BroadcastJoin(c) \/ FindRoom(c) \/ SetupConsumers(c)
               \/ \E s \in Subscriptions : AddConsumer(c, s)
               \/ SetupDone(c)

LeaveStep(c) == \/ FindLeftRoom(c) \/ RemoveParticipant(c) \/ ReclaimRoom(c) \/ RemovePeer(c)
                \/ NotifyLeft(c) \/ Unregister(c) \/ CloseChannel(c)

(* Steps of signal-svc, and what the pages do at its connections. *)
ServiceStep == \/ \E r \in Rooms : CreateRoom(r)
               \/ \E c \in Clients :
                  \/ \E r \in Rooms : GetRoom(c, r) \/ JoinUnknownRoom(c, r)
                  \/ JoinStep(c)
                  \/ LeaveMessage(c)
                  \/ ConnectionLost(c)
                  \/ ReadError(c)
                  \/ LeaveStep(c)

(* Steps of a page that stays, and the offers it makes. *)
PageStep(c) == Receive(c) \/ InitDone(c) \/ SendOffer(c) \/ HandleOffer(c)

Next == ServiceStep \/ \E c \in Clients : PageStep(c)

Spec == Init /\ [][Next]_vars

(* Goroutines are scheduled, gRPC calls have deadlines and Go's RWMutex does *)
(* not let readers overtake a waiting writer: a started handler goes on.     *)
FairSpec == Spec /\ \A c \in Clients : WF_vars(JoinStep(c)) /\ WF_vars(LeaveStep(c))

-----------------------------------------------------------------------------
(* Properties *)

Messages == [type : {"joined", "renegotiate", "peer-left", "answer", "error"},
             peers : SUBSET Clients]

(* Every variable has its type, and Room.mu is read-locked exactly by the    *)
(* goroutines that are inside SetupConsumers.                                *)
TypeOK ==
    /\ roomState \in [Rooms -> {"none", "listed", "reclaimed"}]
    /\ participants \in [Rooms -> SUBSET Clients]
    /\ readers \in [Rooms -> SUBSET Clients]
    /\ \A r \in Rooms : readers[r] = {c \in Clients : pc[c] = "consumers" /\ joining[c] = r}
    /\ pc \in [Clients -> Resting \cup Steps]
    /\ joining \in [Clients -> Rooms \cup {NoRoom}]
    /\ roomOf \in [Clients -> Rooms \cup {NoRoom}]
    /\ existing \in [Clients -> SUBSET Clients]
    /\ todo \in [Clients -> SUBSET Subscriptions]
    /\ empty \in [Clients -> BOOLEAN]
    /\ connected \subseteq Clients
    /\ again \subseteq Clients
    /\ hub \subseteq Clients
    /\ closed \subseteq Clients
    /\ inbox \in [Clients -> Seq(Messages)]
    /\ \A c \in Clients : Len(inbox[c]) <= QueueCap
    /\ dropped \subseteq Clients
    /\ sfuPeers \subseteq Clients
    /\ consumers \in [Subscriptions -> 0..2]
    /\ started \subseteq Clients
    /\ greeting \in [Clients -> SUBSET Clients]
    /\ tiles \in [Clients -> SUBSET Clients]
    /\ transceivers \in [Clients -> SUBSET Clients]
    /\ pending \in [Clients -> SUBSET Clients]
    /\ offer \in [Clients -> SUBSET Clients]
    /\ warned \in [Clients -> SUBSET Clients]
    /\ failures \in 0..MaxFailures

(* Two clients that have both joined room r and are not leaving it. *)
Together(c, d, r) ==
    /\ c # d /\ r # NoRoom
    /\ roomOf[c] = r /\ roomOf[d] = r
    /\ pc[c] = "ready" /\ pc[d] = "ready"

(* Announcements of participants that client c has still to process. *)
Announced(c) ==
    greeting[c] \cup UNION {inbox[c][i].peers :
        i \in {j \in 1..Len(inbox[c]) : inbox[c][j].type \in {"joined", "renegotiate"}}}

(* No goroutine can send on a closed Client.send, which would panic in the   *)
(* sender's goroutine: a client whose channel is closed has left Hub.clients *)
(* for good, although handleLeave runs twice for it.                         *)
NoSendOnClosedChannel == hub \cap closed = {}

(* However two joins interleave, each of the two pages has been told of the  *)
(* other participant, unless a full channel has dropped a message: handleJoin *)
(* sets roomID before it collects existingPeers and broadcasts.              *)
PeersAware ==
    \A c, d \in Clients, r \in Rooms :
        Together(c, d, r) /\ c \notin dropped => d \in tiles[c] \cup Announced(c)

(* What page c has to process has been processed, and nothing was lost. *)
Settled(c) == pc[c] = "ready" /\ c \notin dropped /\ inbox[c] = <<>> /\ greeting[c] = {}

(* However joins interleave, of two participants at least one has asked for  *)
(* the media of the other: a page that ignores a "renegotiate" because its   *)
(* own "joined" has not come yet is named in the "joined" of the other.      *)
OneSideSubscribed ==
    \A c, d \in Clients, r \in Rooms :
        Together(c, d, r) /\ Settled(c) /\ Settled(d)
            => d \in transceivers[c] \/ c \in transceivers[d]

(* A participant of whom a page heard by "renegotiate" is not shown any more *)
(* when it is gone: "peer-left" comes after "renegotiate", although          *)
(* handleLeave may follow handleJoin at once.                                *)
LeaversDisappear ==
    \A c, d \in Clients :
        Settled(c) /\ pc[d] = "gone" /\ d \notin existing[c] => d \notin tiles[c]

(* When both joins are over, each of two participants is subscribed to every *)
(* kind of media of the other, unless a call has failed or the room has been *)
(* reclaimed under them.                                                     *)
ConsumersForEveryPair ==
    \A c, d \in Clients, r \in Rooms :
        Together(c, d, r) /\ roomState[r] = "listed" /\ failures = 0
            => \A k \in Kinds : consumers[<<c, d, k>>] > 0

(* The media server never answers NOT_FOUND to an AddConsumer of             *)
(* SetupConsumers: participants are registered before they are listed and    *)
(* unlisted before they are removed, and Room.mu is held across the calls.   *)
SetupNeverRefused ==
    \A c \in Clients : pc[c] = "consumers" =>
        \A s \in todo[c] : s[1] \in sfuPeers /\ s[2] \in sfuPeers

(* An offer for a participant named in "joined" finds its Consumers while    *)
(* that participant stays: readPump handles the offer after handleJoin, and  *)
(* so after SetupConsumers, although "joined" is sent before it.             *)
ExistingPeersBindable ==
    \A c \in Clients : \A d \in existing[c] \cap warned[c] :
        \/ failures > 0
        \/ roomState[roomOf[c]] # "listed"
        \/ d \notin participants[roomOf[c]]

(* A handler that has started comes to its end: no goroutine waits forever   *)
(* for Room.mu.                                                              *)
HandlersTerminate == \A c \in Clients : pc[c] \notin Resting ~> pc[c] \in Resting
=============================================================================
