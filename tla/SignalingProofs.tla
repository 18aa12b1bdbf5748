-------------------------- MODULE SignalingProofs --------------------------
(***************************************************************************)
(* Proofs about the signaling service, for any number of connections and    *)
(* rooms, any queue capacity and any number of failed calls.                *)
(***************************************************************************)
EXTENDS Signaling, TLAPS

(* Where the goroutine of a connection is while handleJoin runs, while        *)
(* handleLeave runs, and while its page is open.                              *)
BeforeRoom == {"addPeer", "addParticipant", "setRoom"}
AfterRoom == {"collect", "sendJoined", "broadcast", "setup", "pairs", "consumers"}
Joins == BeforeRoom \cup AfterRoom
InLeave == {"leave", "delete", "reclaim", "removePeer", "notifyLeft"}
Leaves == InLeave \cup {"unregister", "close", "left", "gone"}
Open == {"connected", "ready"} \cup Joins

(* A client that has joined a room and is not leaving it. *)
Stays(c) == pc[c] \in AfterRoom \cup {"ready"} /\ roomOf[c] # NoRoom

(* What the place of a goroutine says of the client's fields: the room is    *)
(* known before roomID is set and is roomID from then on, a page is open     *)
(* exactly while its goroutine reads or joins, Hub.clients loses a client    *)
(* before its channel is closed.                                             *)
ControlInv ==
    \A c \in Clients :
       /\ pc[c] \in Joins => joining[c] \in Rooms
       /\ pc[c] \in {"connected"} \cup BeforeRoom => roomOf[c] = NoRoom
       /\ pc[c] \in AfterRoom => roomOf[c] = joining[c]
       /\ pc[c] \in InLeave => roomOf[c] # NoRoom
       /\ c \in connected <=> pc[c] \in Open
       /\ pc[c] \in Open => c \in hub
       /\ pc[c] = "close" => c \notin hub
       /\ c \in hub => c \notin closed
       /\ joining[c] \in Rooms => roomState[joining[c]] # "none"
       /\ roomOf[c] \in Rooms => roomState[roomOf[c]] # "none"

(* What is known of existingPeers and of failed binds. *)
ExistingInv ==
    \A c \in Clients :
       /\ roomOf[c] = NoRoom \/ pc[c] = "collect" => existing[c] = {}
       /\ \A d \in existing[c] : d # c /\ roomOf[d] # NoRoom /\ roomOf[d] = roomOf[c]
       /\ warned[c] # {} => pc[c] \notin {"connected"} \cup Joins

(* Participants are those that have joined and not been removed, and they    *)
(* are registered at the media server.                                       *)
MemberInv ==
    \A c \in Clients :
       /\ pc[c] = "addParticipant" => c \in sfuPeers
       /\ Stays(c) => c \in participants[roomOf[c]]
       /\ pc[c] = "setRoom" => c \in participants[joining[c]]
       /\ \A r \in Rooms : c \in participants[r] =>
             /\ c \in sfuPeers
             /\ pc[c] \notin {"reclaim", "removePeer"}
             /\ roomOf[c] = r \/ (pc[c] = "setRoom" /\ joining[c] = r)

(* SetupConsumers works on participants that nobody can remove meanwhile. *)
TodoInv ==
    \A c \in Clients :
       todo[c] # {} => pc[c] = "consumers" /\ todo[c] \subseteq Pairs(joining[c], c)

(* Clients whose SetupConsumers has at least begun. *)
SetUp(c) == pc[c] \in {"consumers", "ready"} /\ roomOf[c] # NoRoom

(* A Consumer exists, or the SetupConsumers of one of the two will add it. *)
HasConsumer(c, d, k) ==
    consumers[<<c, d, k>>] > 0 \/ <<c, d, k>> \in todo[c] \cup todo[d]

(* Calls have succeeded so far and the room is still listed. *)
Healthy(r) == failures = 0 /\ roomState[r] = "listed"

(* Of two clients whose SetupConsumers has begun the later has seen both. *)
PairInv ==
    \A c, d \in Clients : \A k \in Kinds :
       /\ c # d /\ roomOf[c] = roomOf[d]
       /\ SetUp(c) /\ SetUp(d)
       /\ Healthy(roomOf[c])
       => HasConsumer(c, d, k)

(* What handleJoin collected in existingPeers gets its Consumers. *)
ExistingPairInv ==
    \A c \in Clients : \A d \in existing[c] : \A k \in Kinds :
       /\ SetUp(c) /\ Healthy(roomOf[c])
       /\ d \in participants[roomOf[c]]
       => consumers[<<c, d, k>>] > 0 \/ <<c, d, k>> \in todo[c]

-----------------------------------------------------------------------------
(* Message i of client c is of one of the types ts and names participant d. *)
Names(c, i, ts, d) == inbox[c][i].type \in ts /\ d \in inbox[c][i].peers

(* Client c has a message of one of the types ts that names d. *)
Told(c, ts, d) == \E i \in DOMAIN inbox[c] : Names(c, i, ts, d)

(* "joined" is sent once, with existingPeers, and starts the page. *)
JoinedMail(c) ==
    /\ pc[c] \in {"connected"} \cup BeforeRoom \cup {"collect", "sendJoined"} =>
          greeting[c] = {} /\ \A i \in DOMAIN inbox[c] : inbox[c][i].type # "joined"
    /\ greeting[c] \subseteq existing[c]
    /\ \A i \in DOMAIN inbox[c] : inbox[c][i].type = "joined" =>
          /\ greeting[c] = {}
          /\ inbox[c][i].peers = existing[c]
          /\ \A j \in DOMAIN inbox[c] : inbox[c][j].type = "joined" => j = i

(* And nobody is announced as left before leaving. *)
MailInv ==
    \A c \in Clients :
       /\ JoinedMail(c)
       /\ \A d \in Clients : Told(c, {"peer-left"}, d) => pc[d] \in Leaves

(* The page of c shows d or will. *)
Hears(c, d) == d \in tiles[c] \cup greeting[c] \/ Told(c, {"joined", "renegotiate"}, d)

(* Client c knows of d, or will: by existingPeers, or by the broadcast that  *)
(* is still to come.                                                         *)
Aware(c, d) ==
    \/ pc[c] = "collect"
    \/ pc[c] = "sendJoined" /\ d \in existing[c]
    \/ pc[d] \in {"collect", "sendJoined", "broadcast"}
    \/ Hears(c, d)

(* Two clients have joined one room, and neither is leaving it. *)
Share(c, d) == c # d /\ roomOf[c] = roomOf[d] /\ Stays(c) /\ Stays(d)

AwareInv == \A c, d \in Clients : Share(c, d) /\ c \notin dropped => Aware(c, d)

(* Of two clients in one room the later to collect has found the other, and  *)
(* its page adds transceivers for it when it handles "joined".               *)
SubscribeInv ==
    \A c, d \in Clients : Share(c, d) /\ pc[c] # "collect" =>
       /\ pc[d] # "collect" => d \in existing[c] \/ c \in existing[d]
       /\ d \in existing[c] /\ pc[c] # "sendJoined" /\ c \notin dropped =>
             d \in transceivers[c] \cup greeting[c] \/ Told(c, {"joined"}, d)

(* The page of c shows d, or will, because of a "renegotiate". *)
Shown(c, d) == d \in tiles[c] \/ Told(c, {"renegotiate"}, d)

(* The page of c will hide d after all that makes it show d. *)
Farewell(c, d) ==
    /\ d \in tiles[c] => Told(c, {"peer-left"}, d)
    /\ \A i \in DOMAIN inbox[c] : Names(c, i, {"renegotiate"}, d) =>
          \E j \in DOMAIN inbox[c] : j > i /\ Names(c, j, {"peer-left"}, d)

(* The places behind the broadcast of "peer-left". *)
Away == {"unregister", "close", "left", "gone"}

(* "renegotiate" reaches the clients of one room only, and so does the       *)
(* "peer-left" behind it.                                                    *)
GoneInv ==
    \A c, d \in Clients : c \in connected /\ d \notin existing[c] =>
       /\ Shown(c, d) => roomOf[c] = roomOf[d] /\ roomOf[d] # NoRoom
       /\ pc[d] \in Away /\ c \notin dropped => Farewell(c, d)

-----------------------------------------------------------------------------
(***************************************************************************)
(* Type correctness, in five parts.                                         *)
(***************************************************************************)
RoomTypes ==
    /\ roomState \in [Rooms -> {"none", "listed", "reclaimed"}]
    /\ participants \in [Rooms -> SUBSET Clients]
    /\ readers \in [Rooms -> SUBSET Clients]
    /\ \A r \in Rooms : readers[r] = {c \in Clients : pc[c] = "consumers" /\ joining[c] = r}
    /\ pc \in [Clients -> Resting \cup Steps]
    /\ joining \in [Clients -> Rooms \cup {NoRoom}]

ClientTypes ==
    /\ roomOf \in [Clients -> Rooms \cup {NoRoom}]
    /\ existing \in [Clients -> SUBSET Clients]
    /\ todo \in [Clients -> SUBSET Subscriptions]
    /\ empty \in [Clients -> BOOLEAN]
    /\ connected \subseteq Clients /\ again \subseteq Clients
    /\ hub \subseteq Clients /\ closed \subseteq Clients

MailTypes ==
    /\ inbox \in [Clients -> Seq(Messages)]
    /\ \A c \in Clients : Len(inbox[c]) <= QueueCap
    /\ dropped \subseteq Clients

SfuTypes ==
    /\ sfuPeers \subseteq Clients
    /\ consumers \in [Subscriptions -> 0..2]
    /\ warned \in [Clients -> SUBSET Clients]
    /\ failures \in 0..MaxFailures

PageTypes ==
    /\ started \subseteq Clients
    /\ greeting \in [Clients -> SUBSET Clients]
    /\ tiles \in [Clients -> SUBSET Clients]
    /\ transceivers \in [Clients -> SUBSET Clients]
    /\ pending \in [Clients -> SUBSET Clients]
    /\ offer \in [Clients -> SUBSET Clients]

(* The five parts are TypeOK. *)
LEMMA TypeParts == TypeOK <=> RoomTypes /\ ClientTypes /\ MailTypes /\ SfuTypes /\ PageTypes
  BY DEF TypeOK, RoomTypes, ClientTypes, MailTypes, SfuTypes, PageTypes

(* Rooms, places and locks. *)
LEMMA RoomTypesStep == TypeOK /\ [Next]_vars => RoomTypes'
<1> SUFFICES ASSUME TypeOK, [Next]_vars PROVE RoomTypes'
  OBVIOUS
<1>0. RoomTypes /\ roomOf \in [Clients -> Rooms \cup {NoRoom}]
  BY TypeParts DEF ClientTypes
<1>1. CASE UNCHANGED <<manager, pc, joining>>
  BY <1>0, <1>1 DEF RoomTypes, manager
<1>2. ASSUME NEW c \in Clients, NEW v \in Resting \cup Steps, pc' = [pc EXCEPT ![c] = v],
             pc[c] # "consumers", v # "consumers", UNCHANGED readers,
             \/ joining' = joining
             \/ \E r \in Rooms \cup {NoRoom} : joining' = [joining EXCEPT ![c] = r],
             roomState' \in [Rooms -> {"none", "listed", "reclaimed"}],
             participants' \in [Rooms -> SUBSET Clients]
      PROVE  RoomTypes'
  <2>1. /\ pc' \in [Clients -> Resting \cup Steps] /\ pc'[c] = v
        /\ \A d \in Clients \ {c} : pc'[d] = pc[d]
    BY <1>0, <1>2 DEF RoomTypes
  <2>2. /\ joining' \in [Clients -> Rooms \cup {NoRoom}]
        /\ \A d \in Clients \ {c} : joining'[d] = joining[d]
    BY <1>0, <1>2 DEF RoomTypes
  <2>3. \A r \in Rooms : readers'[r] = {d \in Clients : pc'[d] = "consumers" /\ joining'[d] = r}
    BY <1>0, <1>2, <2>1, <2>2 DEF RoomTypes
  <2> QED
    BY <1>0, <1>2, <2>1, <2>2, <2>3 DEF RoomTypes
<1>3. ASSUME NEW c \in Clients,
             \/ \E r \in Rooms : GetRoom(c, r) \/ JoinUnknownRoom(c, r)
             \/ AddPeer(c) \/ AddParticipant(c) \/ SetRoom(c) \/ CollectExisting(c)
      PROVE  RoomTypes'
  BY <1>0, <1>2, <1>3 DEF RoomTypes, manager, serverLocals, At, Resting, Steps, GetRoom,
     JoinUnknownRoom, AddPeer, AddParticipant, SetRoom, CollectExisting
<1>4. ASSUME NEW c \in Clients,
             SendJoined(c) \/ BroadcastJoin(c) \/ FindRoom(c)
      PROVE  RoomTypes'
  BY <1>0, <1>2, <1>4 DEF RoomTypes, manager, serverLocals, At, Resting, Steps, SendJoined,
     BroadcastJoin, FindRoom
<1>5. ASSUME NEW c \in Clients,
             LeaveMessage(c) \/ ConnectionLost(c) \/ ReadError(c) \/ LeaveStep(c)
      PROVE  RoomTypes'
  BY <1>0, <1>2, <1>5 DEF RoomTypes, manager, serverLocals, At, Resting, Steps, LeaveMessage,
     ConnectionLost, ReadError, StartLeave, LeaveStep, FindLeftRoom, RemoveParticipant,
     ReclaimRoom, RemovePeer, NotifyLeft, Unregister, CloseChannel
<1>6. ASSUME NEW r \in Rooms, CreateRoom(r)
      PROVE  RoomTypes'
  BY <1>0, <1>6 DEF RoomTypes, CreateRoom, serverLocals
<1>7. ASSUME NEW c \in Clients, SetupConsumers(c)
      PROVE  RoomTypes'
  <2>1. /\ UNCHANGED <<roomState, participants, joining>>
        /\ readers' = [readers EXCEPT ![joining[c]] = @ \cup {c}]
        /\ pc[c] = "pairs" /\ pc' = [pc EXCEPT ![c] = "consumers"]
    BY <1>7 DEF SetupConsumers, Reading, At
  <2>2. /\ pc' \in [Clients -> Resting \cup Steps] /\ pc'[c] = "consumers"
        /\ \A d \in Clients \ {c} : pc'[d] = pc[d]
    BY <1>0, <2>1 DEF RoomTypes, Steps
  <2>3. \A r \in Rooms :
          readers'[r] = IF r = joining[c] THEN readers[r] \cup {c} ELSE readers[r]
    BY <1>0, <2>1 DEF RoomTypes
  <2>4. readers' \in [Rooms -> SUBSET Clients]
    BY <1>0, <2>1 DEF RoomTypes
  <2>5. \A r \in Rooms : readers'[r] = {d \in Clients : pc'[d] = "consumers" /\ joining'[d] = r}
    BY <1>0, <2>1, <2>2, <2>3 DEF RoomTypes
  <2> QED
    BY <1>0, <2>1, <2>2, <2>4, <2>5 DEF RoomTypes
<1>8. ASSUME NEW c \in Clients, AbortSetup(c), UNCHANGED <<roomState, participants>>
      PROVE  RoomTypes'
  <2>1. /\ UNCHANGED <<roomState, participants>>
        /\ readers' = [readers EXCEPT ![joining[c]] = @ \ {c}]
        /\ joining' = [joining EXCEPT ![c] = NoRoom]
        /\ pc[c] = "consumers" /\ pc' = [pc EXCEPT ![c] = "ready"]
    BY <1>8 DEF AbortSetup, At
  <2>2. /\ pc' \in [Clients -> Resting \cup Steps] /\ pc'[c] = "ready"
        /\ \A d \in Clients \ {c} : pc'[d] = pc[d]
    BY <1>0, <2>1 DEF RoomTypes, Resting
  <2>3. \A r \in Rooms :
          readers'[r] = IF r = joining[c] THEN readers[r] \ {c} ELSE readers[r]
    BY <1>0, <2>1 DEF RoomTypes
  <2>4. /\ readers' \in [Rooms -> SUBSET Clients]
        /\ joining' \in [Clients -> Rooms \cup {NoRoom}]
        /\ \A d \in Clients \ {c} : joining'[d] = joining[d]
    BY <1>0, <2>1 DEF RoomTypes
  <2>5. \A r \in Rooms : readers'[r] = {d \in Clients : pc'[d] = "consumers" /\ joining'[d] = r}
    BY <1>0, <2>1, <2>2, <2>3, <2>4 DEF RoomTypes
  <2> QED
    BY <1>0, <2>1, <2>2, <2>4, <2>5 DEF RoomTypes
<1>9. ASSUME NEW c \in Clients, (\E s \in Subscriptions : AddConsumer(c, s)) \/ SetupDone(c)
      PROVE  RoomTypes'
  BY <1>0, <1>1, <1>8, <1>9 DEF AddConsumer, SetupDone, manager
<1>10. ASSUME NEW c \in Clients, PageStep(c)
       PROVE  RoomTypes'
  BY <1>1, <1>10 DEF PageStep, Receive, InitDone, SendOffer, HandleOffer, serverLocals
<1>11. CASE UNCHANGED vars
  BY <1>1, <1>11 DEF vars, serverLocals
<1> QED
  BY <1>3, <1>4, <1>5, <1>6, <1>7, <1>9, <1>10, <1>11 DEF Next, ServiceStep, JoinStep

(* Fields of the clients, locals of the handlers and Hub.clients. *)
LEMMA ClientTypesStep == TypeOK /\ [Next]_vars => ClientTypes'
<1> SUFFICES ASSUME TypeOK, [Next]_vars PROVE ClientTypes'
  OBVIOUS
<1>0. ClientTypes /\ RoomTypes
  BY TypeParts
<1>1. CASE UNCHANGED <<roomOf, existing, todo, empty, connected, again, hub, closed>>
  BY <1>0, <1>1 DEF ClientTypes
<1>2. ASSUME NEW c \in Clients,
             SetRoom(c) \/ CollectExisting(c) \/ SetupConsumers(c)
      PROVE  ClientTypes'
  BY <1>0, <1>2 DEF RoomTypes, ClientTypes, serverLocals, SetRoom, CollectExisting,
     SetupConsumers, InRoom, Pairs
<1>3. ASSUME NEW c \in Clients, (\E s \in Subscriptions : AddConsumer(c, s)) \/ SetupDone(c)
      PROVE  ClientTypes'
  BY <1>0, <1>3 DEF ClientTypes, AddConsumer, SetupDone, AbortSetup
<1>4. ASSUME NEW c \in Clients, LeaveMessage(c) \/ ConnectionLost(c) \/ ReadError(c)
      PROVE  ClientTypes'
  BY <1>0, <1>4 DEF ClientTypes, serverLocals, LeaveMessage, ConnectionLost, ReadError,
     PageCloses
<1>5. ASSUME NEW c \in Clients, LeaveStep(c)
      PROVE  ClientTypes'
  BY <1>0, <1>5 DEF ClientTypes, serverLocals, LeaveStep, FindLeftRoom, RemoveParticipant,
     ReclaimRoom, RemovePeer, NotifyLeft, Unregister, CloseChannel
<1>6. ASSUME NEW c \in Clients,
             \/ \E r \in Rooms : GetRoom(c, r) \/ JoinUnknownRoom(c, r)
             \/ AddPeer(c) \/ AddParticipant(c) \/ SendJoined(c) \/ BroadcastJoin(c)
             \/ FindRoom(c)
      PROVE  ClientTypes'
  BY <1>1, <1>6 DEF serverLocals, GetRoom, JoinUnknownRoom, AddPeer, AddParticipant,
     SendJoined, BroadcastJoin, FindRoom
<1>7. ASSUME NEW c \in Clients, PageStep(c)
      PROVE  ClientTypes'
  BY <1>1, <1>7 DEF PageStep, Receive, InitDone, SendOffer, HandleOffer, serverLocals
<1>8. ASSUME NEW r \in Rooms, CreateRoom(r)
      PROVE  ClientTypes'
  BY <1>1, <1>8 DEF CreateRoom, serverLocals
<1>9. CASE UNCHANGED vars
  BY <1>1, <1>9 DEF vars, serverLocals
<1> QED
  BY <1>2, <1>3, <1>4, <1>5, <1>6, <1>7, <1>8, <1>9 DEF Next, ServiceStep, JoinStep

(* What a send does to the queue of client d: nothing, or the message is the  *)
(* last one; the queues of others than the addressees stay.                   *)
LEMMA SendEffect ==
  ASSUME TypeOK, NEW S, NEW m \in Messages, SendTo(S, m)
  PROVE  /\ MailTypes'
         /\ dropped \subseteq dropped'
         /\ \A d \in Clients :
              \/ inbox'[d] = inbox[d]
              \/ d \in S \cap connected /\ inbox'[d] = Append(inbox[d], m)
         /\ \A d \in S \cap connected :
              d \notin dropped' => inbox'[d] = Append(inbox[d], m)
<1> DEFINE F(d) == IF d \in S \cap connected /\ Len(inbox[d]) < QueueCap
                   THEN Append(inbox[d], m) ELSE inbox[d]
<1>0. /\ inbox \in [Clients -> Seq(Messages)] /\ \A d \in Clients : Len(inbox[d]) <= QueueCap
      /\ connected \subseteq Clients /\ dropped \subseteq Clients /\ QueueCap \in Nat
  BY SignalingAssumption DEF TypeOK
<1>1. /\ inbox' = [d \in Clients |-> F(d)]
      /\ dropped' = dropped \cup {d \in S \cap connected : Len(inbox[d]) >= QueueCap}
  BY DEF SendTo
<1>2. ASSUME NEW d \in Clients
      PROVE  F(d) \in Seq(Messages) /\ Len(F(d)) <= QueueCap
  <2>1. inbox[d] \in Seq(Messages) /\ Len(inbox[d]) \in Nat
    BY <1>0
  <2>2. /\ Append(inbox[d], m) \in Seq(Messages)
        /\ Len(Append(inbox[d], m)) = Len(inbox[d]) + 1
    BY <2>1
  <2> QED
    BY <1>0, <2>1, <2>2
<1>3. \A d \in Clients : inbox'[d] = F(d)
  BY <1>1
<1>4. inbox' \in [Clients -> Seq(Messages)] /\ \A d \in Clients : Len(inbox'[d]) <= QueueCap
  <2> HIDE DEF F
  <2> QED
    BY <1>1, <1>2, <1>3
<1>5. dropped' \subseteq Clients /\ dropped \subseteq dropped'
  BY <1>0, <1>1
<1>6. \A d \in S \cap connected : d \notin dropped' => Len(inbox[d]) < QueueCap
  BY <1>0, <1>1
<1> QED
  BY <1>0, <1>3, <1>4, <1>5, <1>6 DEF MailTypes

(* Every message the server sends is one of Messages. *)
LEMMA SentIsMessage ==
  ASSUME NEW ps \in SUBSET Clients,
         NEW t \in {"joined", "renegotiate", "peer-left", "answer", "error"}
  PROVE  Msg(t, ps) \in Messages /\ Msg(t, ps).type = t /\ Msg(t, ps).peers = ps
  BY DEF Msg, Messages

(* The queues. *)
LEMMA MailTypesStep == TypeOK /\ [Next]_vars => MailTypes'
<1> SUFFICES ASSUME TypeOK, [Next]_vars PROVE MailTypes'
  OBVIOUS
<1>0. MailTypes /\ existing \in [Clients -> SUBSET Clients]
  BY TypeParts DEF ClientTypes
<1>1. CASE UNCHANGED <<inbox, dropped>>
  BY <1>0, <1>1 DEF MailTypes
<1>2. ASSUME NEW S, NEW t \in {"joined", "renegotiate", "peer-left", "answer", "error"},
             NEW ps \in SUBSET Clients, SendTo(S, Msg(t, ps))
      PROVE  MailTypes'
  BY <1>2, SendEffect, SentIsMessage
<1>3. ASSUME NEW c \in Clients,
             \/ \E r \in Rooms : GetRoom(c, r) \/ JoinUnknownRoom(c, r)
             \/ AddPeer(c) \/ SendJoined(c) \/ BroadcastJoin(c) \/ NotifyLeft(c)
             \/ HandleOffer(c)
      PROVE  MailTypes'
  BY <1>0, <1>1, <1>2, <1>3 DEF GetRoom, JoinUnknownRoom, AddPeer, SendJoined, BroadcastJoin,
     NotifyLeft, HandleOffer
<1>4. ASSUME NEW c \in Clients,
             \/ AddParticipant(c) \/ SetRoom(c) \/ CollectExisting(c) \/ FindRoom(c)
             \/ SetupConsumers(c) \/ (\E s \in Subscriptions : AddConsumer(c, s)) \/ SetupDone(c)
      PROVE  MailTypes'
  BY <1>1, <1>4 DEF AddParticipant, SetRoom, CollectExisting, FindRoom, SetupConsumers,
     AddConsumer, SetupDone
<1>5. ASSUME NEW c \in Clients, LeaveMessage(c) \/ ConnectionLost(c)
      PROVE  MailTypes'
  <2>1. inbox' = [inbox EXCEPT ![c] = <<>>] /\ UNCHANGED dropped
    BY <1>5 DEF LeaveMessage, ConnectionLost, PageCloses
  <2>2. <<>> \in Seq(Messages) /\ Len(<<>>) <= QueueCap
    BY SignalingAssumption
  <2> QED
    BY <1>0, <2>1, <2>2 DEF MailTypes
<1>6. ASSUME NEW c \in Clients, ReadError(c) \/ LeaveStep(c)
      PROVE  MailTypes'
  BY <1>1, <1>3, <1>6 DEF ReadError, LeaveStep, FindLeftRoom, RemoveParticipant, ReclaimRoom,
     RemovePeer, Unregister, CloseChannel
<1>7. ASSUME NEW c \in Clients, Receive(c)
      PROVE  MailTypes'
  <2>1. inbox' = [inbox EXCEPT ![c] = Tail(inbox[c])] /\ inbox[c] # <<>> /\ UNCHANGED dropped
    BY <1>7 DEF Receive
  <2>2. Tail(inbox[c]) \in Seq(Messages) /\ Len(Tail(inbox[c])) <= QueueCap
    BY <1>0, <2>1, SignalingAssumption DEF MailTypes
  <2> QED
    BY <1>0, <2>1, <2>2 DEF MailTypes
<1>8. ASSUME NEW c \in Clients, InitDone(c) \/ SendOffer(c)
      PROVE  MailTypes'
  BY <1>1, <1>8 DEF InitDone, SendOffer
<1>9. ASSUME NEW r \in Rooms, CreateRoom(r)
      PROVE  MailTypes'
  BY <1>1, <1>9 DEF CreateRoom
<1>10. CASE UNCHANGED vars
  BY <1>1, <1>10 DEF vars
<1> QED
  BY <1>3, <1>4, <1>5, <1>6, <1>7, <1>8, <1>9, <1>10
  DEF Next, ServiceStep, JoinStep, PageStep

(* The media server and the count of failures. *)
LEMMA SfuTypesStep == TypeOK /\ [Next]_vars => SfuTypes'
<1> SUFFICES ASSUME TypeOK, [Next]_vars PROVE SfuTypes'
  OBVIOUS
<1>0. SfuTypes /\ offer \in [Clients -> SUBSET Clients] /\ MaxFailures \in Nat
  BY TypeParts, SignalingAssumption DEF PageTypes
<1>1. CASE UNCHANGED <<sfu, failures>>
  BY <1>0, <1>1 DEF SfuTypes, sfu
<1>2. (CallSucceeds \/ CallFails) => failures' \in 0..MaxFailures
  BY <1>0 DEF SfuTypes, CallSucceeds, CallFails
<1>3. ASSUME NEW c \in Clients, AddPeer(c)
      PROVE  SfuTypes'
  BY <1>0, <1>2, <1>3 DEF SfuTypes, AddPeer
<1>4. ASSUME NEW c \in Clients, NEW s \in Subscriptions, AddConsumer(c, s)
      PROVE  SfuTypes'
  <2>1. Created(s) \in [Subscriptions -> 0..2]
    BY <1>0 DEF SfuTypes, Created
  <2>2. failures' \in 0..MaxFailures /\ UNCHANGED <<sfuPeers, warned>>
    BY <1>2, <1>4 DEF AddConsumer
  <2>3. consumers' = consumers \/ consumers' = Created(s)
    BY <1>4 DEF AddConsumer
  <2> QED
    BY <1>0, <2>1, <2>2, <2>3 DEF SfuTypes
<1>5. ASSUME NEW c \in Clients, RemovePeer(c)
      PROVE  SfuTypes'
  <2>1. WithoutPeer(c) \in [Subscriptions -> 0..2]
    BY <1>0 DEF SfuTypes, WithoutPeer
  <2> QED
    BY <1>0, <1>2, <1>5, <2>1 DEF SfuTypes, RemovePeer
<1>6. ASSUME NEW c \in Clients, HandleOffer(c)
      PROVE  SfuTypes'
  <2> DEFINE unfound == {d \in offer[c] : \E k \in Kinds : consumers[<<c, d, k>>] = 0}
  <2>1. unfound \subseteq Clients
    BY <1>0
  <2>2. /\ failures' \in 0..MaxFailures /\ UNCHANGED <<sfuPeers, consumers>>
        /\ warned' = warned \/ warned' = [warned EXCEPT ![c] = @ \cup unfound]
    BY <1>2, <1>6 DEF HandleOffer
  <2> HIDE DEF unfound
  <2> QED
    BY <1>0, <2>1, <2>2 DEF SfuTypes
<1>7. ASSUME NEW c \in Clients,
             \/ \E r \in Rooms : GetRoom(c, r) \/ JoinUnknownRoom(c, r)
             \/ AddParticipant(c) \/ SetRoom(c) \/ CollectExisting(c) \/ SendJoined(c)
             \/ BroadcastJoin(c) \/ FindRoom(c) \/ SetupConsumers(c) \/ SetupDone(c)
      PROVE  SfuTypes'
  BY <1>1, <1>7 DEF GetRoom, JoinUnknownRoom, AddParticipant, SetRoom, CollectExisting,
     SendJoined, BroadcastJoin, FindRoom, SetupConsumers, SetupDone
<1>8. ASSUME NEW c \in Clients,
             \/ LeaveMessage(c) \/ ConnectionLost(c) \/ ReadError(c) \/ LeaveStep(c)
             \/ Receive(c) \/ InitDone(c) \/ SendOffer(c)
      PROVE  SfuTypes'
  BY <1>1, <1>5, <1>8 DEF LeaveMessage, ConnectionLost, ReadError, LeaveStep, FindLeftRoom,
     RemoveParticipant, ReclaimRoom, NotifyLeft, Unregister, CloseChannel, Receive, InitDone,
     SendOffer
<1>9. ASSUME NEW r \in Rooms, CreateRoom(r)
      PROVE  SfuTypes'
  BY <1>1, <1>9 DEF CreateRoom
<1>10. CASE UNCHANGED vars
  BY <1>1, <1>10 DEF vars
<1> QED
  BY <1>3, <1>4, <1>6, <1>7, <1>8, <1>9, <1>10 DEF Next, ServiceStep, JoinStep, PageStep

(* The pages. *)
LEMMA PageTypesStep == TypeOK /\ [Next]_vars => PageTypes'
<1> SUFFICES ASSUME TypeOK, [Next]_vars PROVE PageTypes'
  OBVIOUS
<1>0. PageTypes /\ inbox \in [Clients -> Seq(Messages)]
  BY TypeParts DEF MailTypes
<1>1. CASE UNCHANGED browser
  BY <1>0, <1>1 DEF PageTypes, browser
<1>2. ASSUME NEW c \in Clients, PageCloses(c)
      PROVE  PageTypes'
  BY <1>0, <1>2 DEF PageTypes, PageCloses
<1>shown. ASSUME NEW c \in Clients, NEW ps \in SUBSET Clients, NEW b, Show(c, ps, b)
       PROVE  /\ tiles' \in [Clients -> SUBSET Clients]
              /\ transceivers' \in [Clients -> SUBSET Clients]
              /\ pending' \in [Clients -> SUBSET Clients]
  <2> DEFINE added == IF b THEN ps ELSE {}
  <2>1. added \in SUBSET Clients
    OBVIOUS
  <2>2. /\ tiles' = [tiles EXCEPT ![c] = @ \cup ps]
        /\ transceivers' = [transceivers EXCEPT ![c] = @ \cup added]
        /\ pending' = [pending EXCEPT ![c] = @ \cup added]
    BY <1>shown DEF Show
  <2> HIDE DEF added
  <2> QED
    BY <1>0, <2>1, <2>2 DEF PageTypes
<1>3. ASSUME NEW c \in Clients, Receive(c)
      PROVE  PageTypes'
  <2> DEFINE m == Head(inbox[c])
  <2>1. m.peers \subseteq Clients
    <3>1. inbox[c] \in Seq(Messages) /\ inbox[c] # <<>>
      BY <1>0, <1>3 DEF Receive
    <3>2. m \in Messages
      BY <3>1
    <3> QED
      BY <3>2 DEF Messages
  <2>2. \/ /\ started' = started \cup {c} /\ greeting' = [greeting EXCEPT ![c] = m.peers]
           /\ UNCHANGED <<tiles, transceivers, pending>>
        \/ Show(c, m.peers, c \in started) /\ UNCHANGED <<started, greeting>>
        \/ Hide(c, m.peers) /\ UNCHANGED <<started, greeting>>
        \/ UNCHANGED <<started, greeting, tiles, transceivers, pending>>
    BY <1>3 DEF Receive
  <2>3. UNCHANGED offer
    BY <1>3 DEF Receive
  <2> HIDE DEF m
  <2>4. CASE Show(c, m.peers, c \in started) /\ UNCHANGED <<started, greeting>>
    BY <1>0, <1>shown, <2>1, <2>3, <2>4 DEF PageTypes
  <2>5. CASE Hide(c, m.peers) /\ UNCHANGED <<started, greeting>>
    BY <1>0, <2>1, <2>3, <2>5 DEF PageTypes, Hide
  <2> QED
    BY <1>0, <2>1, <2>2, <2>3, <2>4, <2>5 DEF PageTypes
<1>4. ASSUME NEW c \in Clients, InitDone(c) \/ SendOffer(c) \/ HandleOffer(c)
      PROVE  PageTypes'
  <2>1. CASE InitDone(c)
    BY <1>0, <1>shown, <2>1 DEF PageTypes, InitDone
  <2>2. CASE SendOffer(c) \/ HandleOffer(c)
    BY <1>0, <2>2 DEF PageTypes, SendOffer, HandleOffer
  <2> QED
    BY <1>4, <2>1, <2>2
<1>5. ASSUME NEW c \in Clients,
             \/ \E r \in Rooms : GetRoom(c, r) \/ JoinUnknownRoom(c, r)
             \/ JoinStep(c)
      PROVE  PageTypes'
  BY <1>1, <1>5 DEF JoinStep, GetRoom, JoinUnknownRoom, AddPeer, AddParticipant, SetRoom,
     CollectExisting, SendJoined, BroadcastJoin, FindRoom, SetupConsumers, AddConsumer, SetupDone
<1>6. ASSUME NEW c \in Clients, LeaveMessage(c) \/ ConnectionLost(c)
      PROVE  PageTypes'
  BY <1>2, <1>6 DEF LeaveMessage, ConnectionLost
<1>7. ASSUME NEW c \in Clients, ReadError(c) \/ LeaveStep(c)
      PROVE  PageTypes'
  BY <1>1, <1>7 DEF ReadError, LeaveStep, FindLeftRoom, RemoveParticipant, ReclaimRoom,
     RemovePeer, NotifyLeft, Unregister, CloseChannel
<1>8. ASSUME NEW r \in Rooms, CreateRoom(r)
      PROVE  PageTypes'
  BY <1>1, <1>8 DEF CreateRoom
<1>9. CASE UNCHANGED vars
  BY <1>1, <1>9 DEF vars
<1> QED
  BY <1>3, <1>4, <1>5, <1>6, <1>7, <1>8, <1>9 DEF Next, ServiceStep, PageStep

LEMMA TypeStep == TypeOK /\ [Next]_vars => TypeOK'
<1> SUFFICES ASSUME TypeOK, [Next]_vars PROVE TypeOK'
  OBVIOUS
<1>1. RoomTypes' /\ ClientTypes' /\ MailTypes' /\ SfuTypes' /\ PageTypes'
  BY RoomTypesStep, ClientTypesStep, MailTypesStep, SfuTypesStep, PageTypesStep
<1> QED
  BY <1>1 DEF TypeOK, RoomTypes, ClientTypes, MailTypes, SfuTypes, PageTypes

(* Every variable of the signaling service has its type and Room.mu is       *)
(* read-locked by exactly the goroutines inside SetupConsumers, which gives  *)
(* it back on each of its ways out (manager.go, SetupConsumers).             *)
THEOREM SignalingTypeCorrect == Spec => []TypeOK
<1>1. Init => TypeOK
  <2> SUFFICES ASSUME Init PROVE TypeOK
    OBVIOUS
  <2>1. RoomTypes /\ ClientTypes
    BY DEF Init, RoomTypes, ClientTypes, Resting
  <2>2. MailTypes
    <3>1. <<>> \in Seq(Messages) /\ Len(<<>>) <= QueueCap
      BY SignalingAssumption
    <3> QED
      BY <3>1 DEF Init, MailTypes
  <2>3. SfuTypes
    BY SignalingAssumption DEF Init, SfuTypes
  <2>4. PageTypes
    BY DEF Init, PageTypes
  <2> QED
    BY <2>1, <2>2, <2>3, <2>4, TypeParts
<1> QED
  BY <1>1, TypeStep, PTL DEF Spec

-----------------------------------------------------------------------------
(***************************************************************************)
(* Where a goroutine is and what its client's fields are.                   *)
(***************************************************************************)
LEMMA ControlStep == TypeOK /\ ControlInv /\ [Next]_vars => ControlInv'
<1> SUFFICES ASSUME TypeOK, ControlInv, [Next]_vars PROVE ControlInv'
  OBVIOUS
<1> USE DEF BeforeRoom, AfterRoom, Joins, InLeave, Open
<1>0. RoomTypes /\ ClientTypes
  BY TypeParts
<1>1. CASE UNCHANGED <<roomState, pc, joining, roomOf, connected, hub, closed>>
  BY <1>1 DEF ControlInv
<1>2. ASSUME NEW r \in Rooms, CreateRoom(r)
      PROVE  ControlInv'
  BY <1>0, <1>2 DEF ControlInv, RoomTypes, CreateRoom, serverLocals
<1>3. ASSUME NEW c \in Clients, NEW r \in Rooms, GetRoom(c, r)
      PROVE  ControlInv'
  BY <1>0, <1>3 DEF ControlInv, RoomTypes, manager, At, GetRoom
<1>4. ASSUME NEW c \in Clients, NEW r \in Rooms, JoinUnknownRoom(c, r)
      PROVE  ControlInv'
  BY <1>0, <1>4 DEF ControlInv, RoomTypes, manager, serverLocals, At, JoinUnknownRoom
<1>5. ASSUME NEW c \in Clients, AddPeer(c)
      PROVE  ControlInv'
  BY <1>0, <1>5, SignalingAssumption DEF ControlInv, RoomTypes, manager, serverLocals, At, AddPeer
<1>6. ASSUME NEW c \in Clients, AddParticipant(c)
      PROVE  ControlInv'
  BY <1>0, <1>6 DEF ControlInv, RoomTypes, serverLocals, At, AddParticipant
<1>7. ASSUME NEW c \in Clients, SetRoom(c)
      PROVE  ControlInv'
  BY <1>0, <1>7 DEF ControlInv, RoomTypes, ClientTypes, manager, serverLocals, At, SetRoom
<1>8. ASSUME NEW c \in Clients, CollectExisting(c) \/ SendJoined(c) \/ BroadcastJoin(c)
      PROVE  ControlInv'
  BY <1>0, <1>8 DEF ControlInv, RoomTypes, manager, serverLocals, At, CollectExisting,
     SendJoined, BroadcastJoin
<1>9. ASSUME NEW c \in Clients, FindRoom(c)
      PROVE  ControlInv'
  BY <1>0, <1>9, SignalingAssumption DEF ControlInv, RoomTypes, manager, serverLocals, At, FindRoom
<1>10. ASSUME NEW c \in Clients, SetupConsumers(c)
       PROVE  ControlInv'
  BY <1>0, <1>10 DEF ControlInv, RoomTypes, At, SetupConsumers
<1>11. ASSUME NEW c \in Clients, AbortSetup(c),
              UNCHANGED <<roomState, roomOf, connected, hub, closed>>
       PROVE  ControlInv'
  BY <1>0, <1>11, SignalingAssumption DEF ControlInv, RoomTypes, At, AbortSetup
<1>12. ASSUME NEW c \in Clients, (\E s \in Subscriptions : AddConsumer(c, s)) \/ SetupDone(c)
       PROVE  ControlInv'
  BY <1>1, <1>11, <1>12 DEF AddConsumer, SetupDone
<1>13. ASSUME NEW c \in Clients, LeaveMessage(c) \/ ConnectionLost(c) \/ ReadError(c)
       PROVE  ControlInv'
  BY <1>0, <1>13 DEF ControlInv, RoomTypes, ClientTypes, manager, serverLocals, LeaveMessage,
     ConnectionLost, ReadError, StartLeave, PageCloses
<1>14. ASSUME NEW c \in Clients,
              \/ FindLeftRoom(c) \/ RemoveParticipant(c) \/ ReclaimRoom(c) \/ RemovePeer(c)
              \/ NotifyLeft(c)
       PROVE  ControlInv'
  BY <1>0, <1>14 DEF ControlInv, RoomTypes, ClientTypes, manager, serverLocals, At, FindLeftRoom,
     RemoveParticipant, ReclaimRoom, RemovePeer, NotifyLeft
<1>15. ASSUME NEW c \in Clients, Unregister(c) \/ CloseChannel(c)
       PROVE  ControlInv'
  BY <1>0, <1>15 DEF ControlInv, RoomTypes, ClientTypes, manager, serverLocals, At, Unregister,
     CloseChannel
<1>16. ASSUME NEW c \in Clients, PageStep(c)
       PROVE  ControlInv'
  BY <1>1, <1>16 DEF PageStep, Receive, InitDone, SendOffer, HandleOffer, manager, serverLocals
<1>17. CASE UNCHANGED vars
  BY <1>1, <1>17 DEF vars, manager, serverLocals
<1> QED
  BY <1>2, <1>3, <1>4, <1>5, <1>6, <1>7, <1>8, <1>9, <1>10, <1>12, <1>13, <1>14, <1>15, <1>16,
     <1>17 DEF Next, ServiceStep, JoinStep, LeaveStep

LEMMA ControlHolds == Spec => [](TypeOK /\ ControlInv)
<1>1. Init => ControlInv
  BY SignalingAssumption
  DEF Init, ControlInv, BeforeRoom, AfterRoom, Joins, InLeave, Open
<1> QED
  BY <1>1, SignalingTypeCorrect, ControlStep, PTL DEF Spec

(* No goroutine sends on a closed Client.send, however the two runs of       *)
(* handleLeave interleave with broadcasts: Hub.clients loses the client      *)
(* before its channel is closed, and it never comes back (hub.go).           *)
THEOREM ChannelsSafe == Spec => []NoSendOnClosedChannel
<1>1. TypeOK /\ ControlInv => NoSendOnClosedChannel
  BY DEF TypeOK, ControlInv, NoSendOnClosedChannel
<1> QED
  BY <1>1, ControlHolds, PTL

-----------------------------------------------------------------------------
(***************************************************************************)
(* Participants, and what SetupConsumers works on.                          *)
(***************************************************************************)
LEMMA MemberStep == TypeOK /\ ControlInv /\ MemberInv /\ [Next]_vars => MemberInv'
<1> SUFFICES ASSUME TypeOK, ControlInv, MemberInv, [Next]_vars PROVE MemberInv'
  OBVIOUS
<1> USE DEF BeforeRoom, AfterRoom, Joins, InLeave, Stays
<1>0. RoomTypes /\ ClientTypes /\ SfuTypes
  BY TypeParts
<1>1. CASE UNCHANGED <<participants, pc, joining, roomOf, sfuPeers>>
  BY <1>1 DEF MemberInv
<1>2. ASSUME NEW c \in Clients, NEW r \in Rooms, GetRoom(c, r) \/ JoinUnknownRoom(c, r)
      PROVE  MemberInv'
  BY <1>0, <1>2 DEF ControlInv, MemberInv, RoomTypes, manager, serverLocals, sfu, At, GetRoom,
     JoinUnknownRoom
<1>3. ASSUME NEW c \in Clients, AddPeer(c)
      PROVE  MemberInv'
  BY <1>0, <1>3 DEF ControlInv, MemberInv, RoomTypes, manager, serverLocals, At, AddPeer
<1>4. ASSUME NEW c \in Clients, AddParticipant(c)
      PROVE  MemberInv'
  BY <1>0, <1>4 DEF ControlInv, MemberInv, RoomTypes, serverLocals, sfu, At, AddParticipant
<1>5. ASSUME NEW c \in Clients, SetRoom(c)
      PROVE  MemberInv'
  BY <1>0, <1>5, SignalingAssumption DEF ControlInv, MemberInv, RoomTypes, ClientTypes, manager,
     serverLocals, sfu, At, SetRoom
<1>6. ASSUME NEW c \in Clients,
             \/ CollectExisting(c) \/ SendJoined(c) \/ BroadcastJoin(c) \/ FindRoom(c)
             \/ SetupConsumers(c)
      PROVE  MemberInv'
  BY <1>0, <1>6 DEF ControlInv, MemberInv, RoomTypes, manager, serverLocals, sfu, At,
     CollectExisting, SendJoined, BroadcastJoin, FindRoom, SetupConsumers
<1>7. ASSUME NEW c \in Clients, AbortSetup(c), UNCHANGED <<participants, roomOf, sfuPeers>>
      PROVE  MemberInv'
  BY <1>0, <1>7 DEF ControlInv, MemberInv, RoomTypes, At, AbortSetup
<1>8. ASSUME NEW c \in Clients, (\E s \in Subscriptions : AddConsumer(c, s)) \/ SetupDone(c)
      PROVE  MemberInv'
  BY <1>1, <1>7, <1>8 DEF AddConsumer, SetupDone, sfu
<1>9. ASSUME NEW c \in Clients, LeaveMessage(c) \/ ConnectionLost(c) \/ ReadError(c)
      PROVE  MemberInv'
  BY <1>0, <1>9 DEF ControlInv, MemberInv, RoomTypes, ClientTypes, manager, serverLocals, sfu,
     LeaveMessage, ConnectionLost, ReadError, StartLeave
<1>10. ASSUME NEW c \in Clients, RemoveParticipant(c)
       PROVE  MemberInv'
  BY <1>0, <1>10 DEF ControlInv, MemberInv, RoomTypes, sfu, At, RemoveParticipant
<1>11. ASSUME NEW c \in Clients, RemovePeer(c)
       PROVE  MemberInv'
  BY <1>0, <1>11 DEF ControlInv, MemberInv, RoomTypes, manager, serverLocals, At, RemovePeer
<1>12. ASSUME NEW c \in Clients,
              FindLeftRoom(c) \/ ReclaimRoom(c) \/ NotifyLeft(c) \/ Unregister(c) \/ CloseChannel(c)
       PROVE  MemberInv'
  BY <1>0, <1>12 DEF ControlInv, MemberInv, RoomTypes, manager, serverLocals, sfu, At, FindLeftRoom,
     ReclaimRoom, NotifyLeft, Unregister, CloseChannel
<1>13. ASSUME NEW c \in Clients, PageStep(c)
       PROVE  MemberInv'
  BY <1>1, <1>13 DEF PageStep, Receive, InitDone, SendOffer, HandleOffer, manager, serverLocals, sfu
<1>14. ASSUME NEW r \in Rooms, CreateRoom(r)
       PROVE  MemberInv'
  BY <1>1, <1>14 DEF CreateRoom, serverLocals, sfu
<1>15. CASE UNCHANGED vars
  BY <1>1, <1>15 DEF vars, manager, serverLocals, sfu
<1> QED
  BY <1>2, <1>3, <1>4, <1>5, <1>6, <1>8, <1>9, <1>10, <1>11, <1>12, <1>13, <1>14, <1>15
  DEF Next, ServiceStep, JoinStep, LeaveStep

(* Room.mu, held for reading, keeps the participants of a room as they are. *)
LEMMA ReadLockHolds ==
  ASSUME TypeOK, ControlInv, [Next]_vars, NEW r \in Rooms, readers[r] # {}
  PROVE  participants'[r] = participants[r]
<1>0. RoomTypes
  BY TypeParts
<1>1. CASE UNCHANGED participants
  BY <1>1
<1>2. ASSUME NEW c \in Clients, AddParticipant(c) \/ RemoveParticipant(c)
      PROVE  participants'[r] = participants[r]
  BY <1>0, <1>2 DEF RoomTypes, AddParticipant, RemoveParticipant
<1>3. ASSUME NEW c \in Clients,
             \/ \E q \in Rooms : GetRoom(c, q) \/ JoinUnknownRoom(c, q)
             \/ JoinStep(c)
      PROVE  participants'[r] = participants[r]
  BY <1>1, <1>2, <1>3 DEF JoinStep, GetRoom, JoinUnknownRoom, AddPeer, SetRoom, CollectExisting,
     SendJoined, BroadcastJoin, FindRoom, SetupConsumers, AddConsumer, SetupDone, manager
<1>4. ASSUME NEW c \in Clients,
             LeaveMessage(c) \/ ConnectionLost(c) \/ ReadError(c) \/ LeaveStep(c) \/ PageStep(c)
      PROVE  participants'[r] = participants[r]
  BY <1>1, <1>2, <1>4 DEF LeaveMessage, ConnectionLost, ReadError, LeaveStep, FindLeftRoom,
     ReclaimRoom, RemovePeer, NotifyLeft, Unregister, CloseChannel, PageStep, Receive, InitDone,
     SendOffer, HandleOffer, manager
<1> QED
  BY <1>1, <1>3, <1>4 DEF Next, ServiceStep, CreateRoom, vars, manager

LEMMA TodoStep == TypeOK /\ ControlInv /\ TodoInv /\ [Next]_vars => TodoInv'
<1> SUFFICES ASSUME TypeOK, ControlInv, TodoInv, [Next]_vars PROVE TodoInv'
  OBVIOUS
<1>0. RoomTypes /\ ClientTypes
  BY TypeParts
<1>1. ASSUME NEW d \in Clients, pc[d] = "consumers"
      PROVE  /\ joining[d] \in Rooms
             /\ joining'[d] = joining[d] => Pairs(joining[d], d)' = Pairs(joining[d], d)
  <2>1. joining[d] \in Rooms
    BY <1>1 DEF ControlInv, Joins, AfterRoom
  <2>2. readers[joining[d]] # {}
    BY <1>0, <1>1, <2>1 DEF RoomTypes
  <2>3. participants'[joining[d]] = participants[joining[d]]
    BY <2>1, <2>2, ReadLockHolds
  <2> QED
    BY <2>1, <2>3 DEF Pairs
<1>2. ASSUME NEW c \in Clients, \A d \in Clients \ {c} : pc'[d] = pc[d] /\ joining'[d] = joining[d],
             \A d \in Clients \ {c} : todo'[d] = todo[d],
             todo'[c] = {}
      PROVE  TodoInv'
  BY <1>1, <1>2 DEF TodoInv
<1>3. ASSUME NEW c \in Clients, pc[c] # "consumers",
             \A d \in Clients \ {c} : pc'[d] = pc[d] /\ joining'[d] = joining[d],
             UNCHANGED todo
      PROVE  TodoInv'
  BY <1>1, <1>3 DEF TodoInv
<1>4. CASE UNCHANGED <<pc, joining, todo>>
  BY <1>1, <1>4 DEF TodoInv
<1>5. ASSUME NEW c \in Clients,
             \/ \E r \in Rooms : GetRoom(c, r) \/ JoinUnknownRoom(c, r)
             \/ AddPeer(c) \/ AddParticipant(c) \/ SetRoom(c) \/ CollectExisting(c)
             \/ SendJoined(c) \/ BroadcastJoin(c) \/ FindRoom(c)
      PROVE  TodoInv'
  BY <1>0, <1>3, <1>5 DEF RoomTypes, serverLocals, At, GetRoom, JoinUnknownRoom, AddPeer,
     AddParticipant, SetRoom, CollectExisting, SendJoined, BroadcastJoin, FindRoom
<1>6. ASSUME NEW c \in Clients, SetupConsumers(c)
      PROVE  TodoInv'
  <2>1. /\ pc'[c] = "consumers" /\ todo'[c] = Pairs(joining[c], c)
        /\ UNCHANGED <<joining, participants>>
        /\ \A d \in Clients \ {c} : pc'[d] = pc[d] /\ todo'[d] = todo[d]
    BY <1>0, <1>6 DEF RoomTypes, ClientTypes, SetupConsumers, At
  <2>2. \A d \in Clients : Pairs(joining[d], d)' = Pairs(joining[d], d)
    BY <2>1 DEF Pairs
  <2> QED
    BY <2>1, <2>2 DEF TodoInv
<1>7. ASSUME NEW c \in Clients, AbortSetup(c)
      PROVE  TodoInv'
  BY <1>0, <1>2, <1>7 DEF RoomTypes, ClientTypes, AbortSetup, At
<1>8. ASSUME NEW c \in Clients, NEW s \in Subscriptions, AddConsumer(c, s)
      PROVE  TodoInv'
  <2>1. CASE todo' = [todo EXCEPT ![c] = @ \ {s}] /\ UNCHANGED <<pc, joining>>
    <3>1. \A d \in Clients : Pairs(joining[d], d)' = Pairs(joining[d], d)
      BY <1>8, <2>1 DEF AddConsumer, Pairs
    <3>2. todo'[c] \subseteq todo[c] /\ \A d \in Clients \ {c} : todo'[d] = todo[d]
      BY <1>0, <2>1 DEF ClientTypes
    <3> QED
      BY <2>1, <3>1, <3>2 DEF TodoInv
  <2> QED
    BY <1>7, <1>8, <2>1 DEF AddConsumer
<1>9. ASSUME NEW c \in Clients, SetupDone(c)
      PROVE  TodoInv'
  BY <1>7, <1>9 DEF SetupDone
<1>10. ASSUME NEW c \in Clients, LeaveMessage(c) \/ ConnectionLost(c) \/ ReadError(c)
       PROVE  TodoInv'
  BY <1>0, <1>3, <1>10 DEF RoomTypes, serverLocals, LeaveMessage, ConnectionLost, ReadError,
     StartLeave
<1>11. ASSUME NEW c \in Clients, LeaveStep(c)
       PROVE  TodoInv'
  BY <1>0, <1>3, <1>11 DEF RoomTypes, serverLocals, At, LeaveStep, FindLeftRoom, RemoveParticipant,
     ReclaimRoom, RemovePeer, NotifyLeft, Unregister, CloseChannel
<1>12. ASSUME NEW c \in Clients, PageStep(c)
       PROVE  TodoInv'
  BY <1>4, <1>12 DEF PageStep, Receive, InitDone, SendOffer, HandleOffer, serverLocals
<1>13. ASSUME NEW r \in Rooms, CreateRoom(r)
       PROVE  TodoInv'
  BY <1>4, <1>13 DEF CreateRoom, serverLocals
<1>14. CASE UNCHANGED vars
  BY <1>4, <1>14 DEF vars, serverLocals
<1> QED
  BY <1>5, <1>6, <1>8, <1>9, <1>10, <1>11, <1>12, <1>13, <1>14 DEF Next, ServiceStep, JoinStep

LEMMA MembersHold == Spec => [](TypeOK /\ ControlInv /\ MemberInv /\ TodoInv)
<1>1. Init => MemberInv /\ TodoInv
  BY DEF Init, MemberInv, TodoInv, Stays, AfterRoom
<1> QED
  BY <1>1, ControlHolds, MemberStep, TodoStep, PTL DEF Spec

(* The media server refuses no AddConsumer of SetupConsumers: a participant  *)
(* is registered before AddParticipant lists it and unlisted before          *)
(* RemovePeer, and no participant of the room is removed while               *)
(* SetupConsumers holds Room.mu across its calls (manager.go).               *)
THEOREM SetupAccepted == Spec => []SetupNeverRefused
<1>1. TypeOK /\ ControlInv /\ MemberInv /\ TodoInv => SetupNeverRefused
  <2> SUFFICES ASSUME TypeOK, ControlInv, MemberInv, TodoInv,
                      NEW c \in Clients, pc[c] = "consumers", NEW s \in todo[c]
               PROVE  s[1] \in sfuPeers /\ s[2] \in sfuPeers
    BY DEF SetupNeverRefused
  <2>1. joining[c] \in Rooms
    BY DEF ControlInv, Joins, AfterRoom
  <2>2. /\ s \in Subscriptions
        /\ s[1] \in participants[joining[c]] /\ s[2] \in participants[joining[c]]
    BY DEF TodoInv, Pairs
  <2>3. s[1] \in Clients /\ s[2] \in Clients
    BY <2>2 DEF Subscriptions
  <2> QED
    BY <2>1, <2>2, <2>3 DEF MemberInv
<1> QED
  BY <1>1, MembersHold, PTL

-----------------------------------------------------------------------------
(***************************************************************************)
(* Consumers for every pair of participants.                                *)
(***************************************************************************)

(* Nothing heals: failures are counted, and a room is listed only once. *)
LEMMA HealthLost ==
  ASSUME TypeOK, [Next]_vars, NEW r \in Rooms, roomState[r] # "none", Healthy(r)'
  PROVE  Healthy(r)
<1>0. RoomTypes /\ SfuTypes
  BY TypeParts
<1>1. CASE UNCHANGED <<roomState, failures>>
  BY <1>1 DEF Healthy
<1>2. CallSucceeds \/ CallFails => failures = 0
  BY <1>0 DEF Healthy, CallSucceeds, CallFails, SfuTypes
<1>3. ASSUME NEW q \in Rooms, CreateRoom(q)
      PROVE  Healthy(r)
  BY <1>0, <1>3 DEF CreateRoom, Healthy, RoomTypes
<1>4. ASSUME NEW c \in Clients, ReclaimRoom(c)
      PROVE  Healthy(r)
  BY <1>0, <1>4 DEF ReclaimRoom, Healthy, RoomTypes
<1>5. CASE UNCHANGED roomState /\ (CallSucceeds \/ CallFails)
  BY <1>2, <1>5 DEF Healthy
<1>6. ASSUME NEW c \in Clients,
             \/ AddPeer(c) \/ RemovePeer(c) \/ HandleOffer(c)
             \/ \E s \in Subscriptions : AddConsumer(c, s)
      PROVE  Healthy(r)
  BY <1>5, <1>6 DEF AddPeer, RemovePeer, HandleOffer, AddConsumer, manager
<1>7. ASSUME NEW c \in Clients,
             \/ \E q \in Rooms : GetRoom(c, q) \/ JoinUnknownRoom(c, q)
             \/ JoinStep(c)
      PROVE  Healthy(r)
  BY <1>1, <1>6, <1>7 DEF JoinStep, GetRoom, JoinUnknownRoom, AddParticipant, SetRoom,
     CollectExisting, SendJoined, BroadcastJoin, FindRoom, SetupConsumers, SetupDone, manager
<1>8. ASSUME NEW c \in Clients,
             LeaveMessage(c) \/ ConnectionLost(c) \/ ReadError(c) \/ LeaveStep(c) \/ PageStep(c)
      PROVE  Healthy(r)
  BY <1>1, <1>4, <1>6, <1>8 DEF LeaveMessage, ConnectionLost, ReadError, LeaveStep, FindLeftRoom,
     RemoveParticipant, NotifyLeft, Unregister, CloseChannel, PageStep, Receive, InitDone,
     SendOffer, manager
<1> QED
  BY <1>1, <1>3, <1>7, <1>8 DEF Next, ServiceStep, vars, manager

(* How SetupConsumers changes the Consumers and what is still to be done: a   *)
(* subscription leaves todo when it has its Consumer, or the call has failed. *)
LEMMA AddConsumerEffect ==
  ASSUME TypeOK, ControlInv, MemberInv, TodoInv,
         NEW c \in Clients, (\E s \in Subscriptions : AddConsumer(c, s)) \/ SetupDone(c)
  PROVE  /\ pc[c] = "consumers" /\ roomOf' = roomOf
         /\ \A d \in Clients \ {c} : pc'[d] = pc[d] /\ todo'[d] = todo[d]
         /\ pc'[c] \in {"consumers", "ready"}
         /\ todo'[c] # {} => pc'[c] = "consumers"
         /\ \A s \in Subscriptions : consumers[s] > 0 => consumers'[s] > 0
         /\ failures' > 0 \/ \A s \in todo[c] \ todo'[c] : consumers'[s] > 0
<1>0. /\ RoomTypes /\ ClientTypes /\ SfuTypes
  BY TypeParts
<1>1. pc[c] = "consumers" /\ roomOf' = roomOf
  BY DEF AddConsumer, SetupDone
<1>2. ASSUME AbortSetup(c)
      PROVE  /\ pc'[c] = "ready" /\ todo'[c] = {}
             /\ \A d \in Clients \ {c} : pc'[d] = pc[d] /\ todo'[d] = todo[d]
  BY <1>0, <1>2 DEF AbortSetup, At, RoomTypes, ClientTypes
<1>3. CASE SetupDone(c)
  <2>1. todo[c] = {} /\ consumers' = consumers
    BY <1>3 DEF SetupDone, sfu
  <2> QED
    BY <1>1, <1>2, <1>3, <2>1 DEF SetupDone
<1>4. ASSUME NEW s \in Subscriptions, AddConsumer(c, s)
      PROVE  /\ \A d \in Clients \ {c} : pc'[d] = pc[d] /\ todo'[d] = todo[d]
             /\ pc'[c] \in {"consumers", "ready"}
             /\ todo'[c] # {} => pc'[c] = "consumers"
             /\ \A q \in Subscriptions : consumers[q] > 0 => consumers'[q] > 0
             /\ failures' > 0 \/ \A q \in todo[c] \ todo'[c] : consumers'[q] > 0
  <2>1. s[1] \in sfuPeers /\ s[2] \in sfuPeers
    <3>1. joining[c] \in Rooms
      BY <1>1 DEF ControlInv, Joins, AfterRoom
    <3>2. s \in todo[c]
      BY <1>4 DEF AddConsumer
    <3>3. s[1] \in participants[joining[c]] /\ s[2] \in participants[joining[c]]
      BY <3>2 DEF TodoInv, Pairs
    <3>4. s[1] \in Clients /\ s[2] \in Clients
      BY DEF Subscriptions
    <3> QED
      BY <3>1, <3>3, <3>4 DEF MemberInv
  <2>2. /\ Created(s)[s] > 0
        /\ \A q \in Subscriptions : consumers[q] > 0 => Created(s)[q] > 0
    BY <1>0 DEF Created, SfuTypes
  <2>3. CASE /\ consumers' = Created(s) /\ todo' = [todo EXCEPT ![c] = @ \ {s}]
             /\ UNCHANGED pc
    <3>1. todo'[c] = todo[c] \ {s} /\ \A d \in Clients \ {c} : todo'[d] = todo[d]
      BY <1>0, <2>3 DEF ClientTypes
    <3> QED
      BY <1>1, <2>2, <2>3, <3>1
  <2>4. CASE CallFails /\ AbortSetup(c) /\ consumers' \in {consumers, Created(s)}
    <3>1. failures' > 0
      BY <1>0, <2>4 DEF CallFails, SfuTypes
    <3> QED
      BY <1>2, <2>2, <2>4, <3>1
  <2> QED
    BY <1>4, <2>1, <2>3, <2>4 DEF AddConsumer
<1> QED
  BY <1>1, <1>3, <1>4

LEMMA PairStep ==
  TypeOK /\ ControlInv /\ MemberInv /\ TodoInv /\ PairInv /\ [Next]_vars => PairInv'
<1> SUFFICES ASSUME TypeOK, ControlInv, MemberInv, TodoInv, PairInv, [Next]_vars,
                    NEW x \in Clients, NEW y \in Clients, NEW k \in Kinds,
                    x # y, roomOf'[x] = roomOf'[y], SetUp(x)', SetUp(y)', Healthy(roomOf[x])'
             PROVE  HasConsumer(x, y, k)'
  BY DEF PairInv
<1>0. RoomTypes /\ ClientTypes /\ SfuTypes
  BY TypeParts
<1> <<x, y, k>> \in Subscriptions
  BY DEF Subscriptions
<1>1. ASSUME SetUp(x), SetUp(y), roomOf'[x] = roomOf[x], roomOf'[y] = roomOf[y]
      PROVE  HasConsumer(x, y, k)
  <2>1. roomOf[x] \in Rooms /\ roomState[roomOf[x]] # "none"
    BY <1>0, <1>1 DEF SetUp, ClientTypes, ControlInv
  <2>2. Healthy(roomOf[x])
    <3>1. PICK r : r = roomOf[x]
      OBVIOUS
    <3>2. Healthy(r)'
      BY <1>1, <3>1 DEF Healthy
    <3> QED
      BY <2>1, <3>1, <3>2, HealthLost
  <2> QED
    BY <1>1, <2>2 DEF PairInv
<1>2. CASE /\ SetUp(x) /\ SetUp(y) /\ UNCHANGED <<roomOf, todo, consumers>>
  BY <1>1, <1>2 DEF HasConsumer
<1>3. ASSUME NEW c \in Clients, NEW v, pc' = [pc EXCEPT ![c] = v],
             UNCHANGED <<todo, roomOf, consumers>>,
             v \notin {"ready", "consumers"} \/ roomOf[c] = NoRoom
      PROVE  HasConsumer(x, y, k)'
  BY <1>0, <1>2, <1>3 DEF SetUp, RoomTypes
<1>4. CASE UNCHANGED <<pc, roomOf, todo, consumers>>
  BY <1>2, <1>4 DEF SetUp
<1>5. ASSUME NEW c \in Clients,
             \/ \E r \in Rooms : GetRoom(c, r) \/ JoinUnknownRoom(c, r)
             \/ AddPeer(c) \/ AddParticipant(c) \/ CollectExisting(c)
             \/ SendJoined(c) \/ BroadcastJoin(c)
      PROVE  HasConsumer(x, y, k)'
  BY <1>3, <1>5 DEF ControlInv, BeforeRoom, AfterRoom, serverLocals, sfu, At, GetRoom,
     JoinUnknownRoom, AddPeer, AddParticipant, CollectExisting, SendJoined, BroadcastJoin
<1>6. ASSUME NEW c \in Clients, SetRoom(c)
      PROVE  HasConsumer(x, y, k)'
  <2>1. /\ pc'[c] = "collect"
        /\ \A d \in Clients \ {c} : pc'[d] = pc[d] /\ roomOf'[d] = roomOf[d]
        /\ UNCHANGED <<todo, consumers>>
    BY <1>0, <1>6 DEF RoomTypes, ClientTypes, SetRoom, At, serverLocals, sfu
  <2> QED
    BY <1>1, <2>1 DEF SetUp, HasConsumer
<1>7. ASSUME NEW c \in Clients, FindRoom(c)
      PROVE  HasConsumer(x, y, k)'
  <2>1. CASE pc' = [pc EXCEPT ![c] = "pairs"]
    BY <1>3, <1>7, <2>1 DEF FindRoom, serverLocals, sfu
  <2>2. CASE /\ pc' = [pc EXCEPT ![c] = "ready"] /\ pc[c] = "setup"
             /\ roomState[joining[c]] # "listed"
    <3>1. UNCHANGED <<roomOf, todo, consumers, roomState>>
      BY <1>7 DEF FindRoom, sfu, manager, serverLocals
    <3>2. roomOf[c] = joining[c]
      BY <2>2 DEF ControlInv, AfterRoom
    <3>3. c # x /\ c # y
      BY <2>2, <3>1, <3>2 DEF Healthy
    <3> QED
      BY <1>0, <1>2, <2>2, <3>1, <3>3 DEF SetUp, RoomTypes
  <2> QED
    BY <1>7, <2>1, <2>2 DEF FindRoom, At
<1>8. ASSUME NEW c \in Clients, SetupConsumers(c)
      PROVE  HasConsumer(x, y, k)'
  <2>1. /\ pc[c] = "pairs" /\ todo'[c] = Pairs(joining[c], c)
        /\ \A d \in Clients \ {c} : pc'[d] = pc[d] /\ todo'[d] = todo[d]
        /\ UNCHANGED <<roomOf, consumers>>
    BY <1>0, <1>8 DEF RoomTypes, ClientTypes, SetupConsumers, At, sfu
  <2>2. roomOf[c] = joining[c]
    BY <2>1 DEF ControlInv, AfterRoom
  <2>3. \A d \in {x, y} : d \in participants[roomOf[d]]
    BY <2>1 DEF SetUp, MemberInv, Stays, AfterRoom
  <2>4. CASE c \in {x, y}
    <3>1. <<x, y, k>> \in todo'[c]
      BY <2>1, <2>2, <2>3, <2>4 DEF Pairs
    <3> QED
      BY <2>4, <3>1 DEF HasConsumer
  <2>5. CASE c \notin {x, y}
    BY <1>1, <2>1, <2>5 DEF SetUp, HasConsumer
  <2> QED
    BY <2>4, <2>5
<1>9. ASSUME NEW c \in Clients, (\E s \in Subscriptions : AddConsumer(c, s)) \/ SetupDone(c)
      PROVE  HasConsumer(x, y, k)'
  <2>1. /\ SetUp(x) /\ SetUp(y) /\ UNCHANGED roomOf
    BY <1>9, AddConsumerEffect DEF SetUp
  <2>2. failures' = 0
    BY DEF Healthy
  <2>3. HasConsumer(x, y, k)
    BY <1>1, <2>1
  <2> QED
    BY <1>9, <2>2, <2>3, AddConsumerEffect DEF HasConsumer
<1>10. ASSUME NEW c \in Clients, LeaveMessage(c) \/ ConnectionLost(c) \/ ReadError(c)
       PROVE  HasConsumer(x, y, k)'
  BY <1>3, <1>10 DEF serverLocals, sfu, LeaveMessage, ConnectionLost, ReadError, StartLeave
<1>11. ASSUME NEW c \in Clients, RemovePeer(c)
       PROVE  HasConsumer(x, y, k)'
  <2>1. /\ pc'[c] = "notifyLeft" /\ \A d \in Clients \ {c} : pc'[d] = pc[d]
        /\ UNCHANGED <<todo, roomOf>> /\ consumers' \in {consumers, WithoutPeer(c)}
    BY <1>0, <1>11 DEF RoomTypes, RemovePeer, At, serverLocals
  <2>2. c # x /\ c # y
    BY <2>1 DEF SetUp
  <2>3. consumers'[<<x, y, k>>] = consumers[<<x, y, k>>]
    BY <2>1, <2>2 DEF WithoutPeer
  <2> QED
    BY <1>1, <2>1, <2>2, <2>3 DEF SetUp, HasConsumer
<1>12. ASSUME NEW c \in Clients, LeaveStep(c)
       PROVE  HasConsumer(x, y, k)'
  BY <1>3, <1>11, <1>12 DEF serverLocals, sfu, At, LeaveStep, FindLeftRoom, RemoveParticipant,
     ReclaimRoom, NotifyLeft, Unregister, CloseChannel
<1>13. ASSUME NEW c \in Clients, PageStep(c)
       PROVE  HasConsumer(x, y, k)'
  BY <1>4, <1>13 DEF PageStep, Receive, InitDone, SendOffer, HandleOffer, serverLocals, sfu
<1>14. ASSUME NEW r \in Rooms, CreateRoom(r)
       PROVE  HasConsumer(x, y, k)'
  BY <1>4, <1>14 DEF CreateRoom, serverLocals, sfu
<1>15. CASE UNCHANGED vars
  BY <1>4, <1>15 DEF vars, serverLocals, sfu
<1> QED
  BY <1>5, <1>6, <1>7, <1>8, <1>9, <1>10, <1>12, <1>13, <1>14, <1>15
  DEF Next, ServiceStep, JoinStep

(* When two participants have both joined a room that is listed still and no *)
(* call has failed, each is subscribed to all media of the other: of two     *)
(* concurrent runs of SetupConsumers the later finds both participants       *)
(* (manager.go).                                                             *)
THEOREM EveryPairSubscribed == Spec => []ConsumersForEveryPair
<1>1. Init => PairInv
  BY DEF Init, PairInv, SetUp
<1>2. TypeOK /\ TodoInv /\ PairInv => ConsumersForEveryPair
  <2> SUFFICES ASSUME TypeOK, TodoInv, PairInv, NEW c \in Clients, NEW d \in Clients,
                      NEW r \in Rooms, Together(c, d, r), roomState[r] = "listed", failures = 0,
                      NEW k \in Kinds
               PROVE  consumers[<<c, d, k>>] > 0
    BY DEF ConsumersForEveryPair
  <2>1. SetUp(c) /\ SetUp(d) /\ Healthy(roomOf[c]) /\ roomOf[c] = roomOf[d] /\ c # d
    BY DEF Together, SetUp, Healthy
  <2>2. HasConsumer(c, d, k)
    BY <2>1 DEF PairInv
  <2>3. todo[c] = {} /\ todo[d] = {}
    BY DEF Together, TodoInv
  <2> QED
    BY <2>2, <2>3 DEF HasConsumer
<1> QED
  BY <1>1, <1>2, MembersHold, PairStep, PTL DEF Spec

-----------------------------------------------------------------------------
(***************************************************************************)
(* Offers for the participants named in "joined".                           *)
(***************************************************************************)
LEMMA ExistingStep == TypeOK /\ ControlInv /\ ExistingInv /\ [Next]_vars => ExistingInv'
<1> SUFFICES ASSUME TypeOK, ControlInv, ExistingInv, [Next]_vars PROVE ExistingInv'
  OBVIOUS
<1> USE DEF BeforeRoom, AfterRoom, Joins
<1>0. RoomTypes /\ ClientTypes /\ SfuTypes
  BY TypeParts
<1>1. CASE UNCHANGED <<roomOf, pc, existing, warned>>
  BY <1>1 DEF ExistingInv
<1>2. ASSUME NEW c \in Clients, NEW v, pc' = [pc EXCEPT ![c] = v], v # "collect",
             v \in {"connected"} \cup Joins => pc[c] \in {"connected"} \cup Joins,
             UNCHANGED <<roomOf, existing, warned>>
      PROVE  ExistingInv'
  BY <1>0, <1>2 DEF ExistingInv, RoomTypes
<1>3. ASSUME NEW c \in Clients,
             \/ \E r \in Rooms : GetRoom(c, r) \/ JoinUnknownRoom(c, r)
             \/ AddPeer(c) \/ AddParticipant(c) \/ SendJoined(c) \/ BroadcastJoin(c)
             \/ FindRoom(c) \/ SetupConsumers(c)
      PROVE  ExistingInv'
  BY <1>2, <1>3 DEF serverLocals, sfu, At, GetRoom, JoinUnknownRoom, AddPeer, AddParticipant,
     SendJoined, BroadcastJoin, FindRoom, SetupConsumers
<1>4. ASSUME NEW c \in Clients, SetRoom(c)
      PROVE  ExistingInv'
  <2>1. /\ pc[c] = "setRoom" /\ pc'[c] = "collect" /\ roomOf'[c] = joining[c]
        /\ \A d \in Clients \ {c} : pc'[d] = pc[d] /\ roomOf'[d] = roomOf[d]
        /\ UNCHANGED <<existing, warned>>
    BY <1>0, <1>4 DEF RoomTypes, ClientTypes, SetRoom, At, serverLocals, sfu
  <2>2. roomOf[c] = NoRoom /\ existing[c] = {}
    BY <2>1 DEF ControlInv, ExistingInv
  <2>3. \A d \in Clients : c \notin existing[d]
    BY <2>2 DEF ExistingInv
  <2> QED
    BY <1>0, <2>1, <2>2, <2>3 DEF ExistingInv, ClientTypes
<1>5. ASSUME NEW c \in Clients, CollectExisting(c)
      PROVE  ExistingInv'
  <2>1. /\ pc[c] = "collect" /\ pc'[c] = "sendJoined" /\ existing'[c] = InRoom(joining[c], c)
        /\ \A d \in Clients \ {c} : pc'[d] = pc[d] /\ existing'[d] = existing[d]
        /\ UNCHANGED <<roomOf, warned>>
    BY <1>0, <1>5 DEF RoomTypes, ClientTypes, CollectExisting, At, sfu
  <2>2. joining[c] \in Rooms /\ roomOf[c] = joining[c]
    BY <2>1 DEF ControlInv
  <2>3. \A d \in existing'[c] : d # c /\ roomOf[d] = roomOf[c] /\ roomOf[d] # NoRoom
    BY <2>1, <2>2, SignalingAssumption DEF InRoom
  <2>4. roomOf[c] # NoRoom
    BY <2>2, SignalingAssumption
  <2> QED
    BY <1>0, <2>1, <2>3, <2>4 DEF ExistingInv
<1>6. ASSUME NEW c \in Clients, (\E s \in Subscriptions : AddConsumer(c, s)) \/ SetupDone(c)
      PROVE  ExistingInv'
  BY <1>1, <1>2, <1>6 DEF AddConsumer, SetupDone, AbortSetup, At, sfu
<1>7. ASSUME NEW c \in Clients, LeaveMessage(c) \/ ConnectionLost(c) \/ ReadError(c)
      PROVE  ExistingInv'
  BY <1>2, <1>7 DEF serverLocals, sfu, LeaveMessage, ConnectionLost, ReadError, StartLeave
<1>8. ASSUME NEW c \in Clients, LeaveStep(c)
      PROVE  ExistingInv'
  BY <1>2, <1>8 DEF serverLocals, sfu, At, LeaveStep, FindLeftRoom, RemoveParticipant, ReclaimRoom,
     RemovePeer, NotifyLeft, Unregister, CloseChannel
<1>9. ASSUME NEW c \in Clients, HandleOffer(c)
      PROVE  ExistingInv'
  <2>1. /\ pc[c] = "ready" /\ UNCHANGED <<pc, roomOf, existing>>
        /\ \A d \in Clients \ {c} : warned'[d] = warned[d]
    BY <1>0, <1>9 DEF HandleOffer, SfuTypes, serverLocals
  <2> QED
    BY <1>0, <2>1 DEF ExistingInv
<1>10. ASSUME NEW c \in Clients, Receive(c) \/ InitDone(c) \/ SendOffer(c)
       PROVE  ExistingInv'
  BY <1>1, <1>10 DEF Receive, InitDone, SendOffer, serverLocals, sfu
<1>11. ASSUME NEW r \in Rooms, CreateRoom(r)
       PROVE  ExistingInv'
  BY <1>1, <1>11 DEF CreateRoom, serverLocals, sfu
<1>12. CASE UNCHANGED vars
  BY <1>1, <1>12 DEF vars, serverLocals, sfu
<1> QED
  BY <1>3, <1>4, <1>5, <1>6, <1>7, <1>8, <1>9, <1>10, <1>11, <1>12
  DEF Next, ServiceStep, JoinStep, PageStep

(* A connection joins once: who has a room becomes a participant of none. *)
LEMMA JoinsOnce ==
  ASSUME TypeOK, ControlInv, [Next]_vars,
         NEW d \in Clients, roomOf[d] # NoRoom, NEW r \in Rooms, d \in participants'[r]
  PROVE  d \in participants[r] /\ roomOf'[d] = roomOf[d]
<1> USE DEF BeforeRoom, AfterRoom, Joins
<1>0. RoomTypes /\ ClientTypes
  BY TypeParts
<1>1. CASE UNCHANGED <<participants, roomOf>>
  BY <1>1
<1>2. ASSUME NEW c \in Clients, AddParticipant(c) \/ SetRoom(c) \/ RemoveParticipant(c)
      PROVE  d \in participants[r] /\ roomOf'[d] = roomOf[d]
  BY <1>0, <1>2 DEF RoomTypes, ClientTypes, ControlInv, AddParticipant, SetRoom,
     RemoveParticipant, At, manager
<1>3. ASSUME NEW c \in Clients,
             \/ \E q \in Rooms : GetRoom(c, q) \/ JoinUnknownRoom(c, q)
             \/ JoinStep(c)
      PROVE  d \in participants[r] /\ roomOf'[d] = roomOf[d]
  BY <1>1, <1>2, <1>3 DEF JoinStep, GetRoom, JoinUnknownRoom, AddPeer, CollectExisting,
     SendJoined, BroadcastJoin, FindRoom, SetupConsumers, AddConsumer, SetupDone, manager
<1>4. ASSUME NEW c \in Clients,
             LeaveMessage(c) \/ ConnectionLost(c) \/ ReadError(c) \/ LeaveStep(c) \/ PageStep(c)
      PROVE  d \in participants[r] /\ roomOf'[d] = roomOf[d]
  BY <1>1, <1>2, <1>4 DEF LeaveMessage, ConnectionLost, ReadError, LeaveStep, FindLeftRoom,
     ReclaimRoom, RemovePeer, NotifyLeft, Unregister, CloseChannel, PageStep, Receive, InitDone,
     SendOffer, HandleOffer, manager
<1> QED
  BY <1>1, <1>3, <1>4 DEF Next, ServiceStep, CreateRoom, vars, manager

LEMMA ExistingPairStep ==
  /\ TypeOK /\ ControlInv /\ MemberInv /\ TodoInv /\ ExistingInv /\ ExistingPairInv
  /\ [Next]_vars
  => ExistingPairInv'
<1> SUFFICES ASSUME TypeOK, ControlInv, MemberInv, TodoInv, ExistingInv, ExistingPairInv,
                    [Next]_vars,
                    NEW x \in Clients, NEW y \in existing'[x], NEW k \in Kinds,
                    SetUp(x)', Healthy(roomOf[x])', y \in participants'[roomOf'[x]]
             PROVE  consumers'[<<x, y, k>>] > 0 \/ <<x, y, k>> \in todo'[x]
  BY DEF ExistingPairInv
<1>0. RoomTypes /\ ClientTypes /\ SfuTypes /\ ClientTypes'
  BY TypeParts, ClientTypesStep
<1> y \in Clients
  BY <1>0 DEF ClientTypes
<1> <<x, y, k>> \in Subscriptions
  BY DEF Subscriptions
<1>1. ASSUME SetUp(x), roomOf'[x] = roomOf[x], existing'[x] = existing[x]
      PROVE  /\ consumers[<<x, y, k>>] > 0 \/ <<x, y, k>> \in todo[x]
             /\ y \in participants[roomOf[x]] /\ roomOf[x] \in Rooms
  <2>1. roomOf[x] \in Rooms /\ roomState[roomOf[x]] # "none"
    BY <1>0, <1>1 DEF SetUp, ClientTypes, ControlInv
  <2>2. PICK r : r = roomOf[x]
    OBVIOUS
  <2>3. Healthy(r)'
    BY <1>1, <2>2 DEF Healthy
  <2>4. Healthy(r)
    BY <2>1, <2>2, <2>3, HealthLost
  <2>5. roomOf[y] # NoRoom /\ y \in existing[x]
    BY <1>1 DEF ExistingInv
  <2>6. y \in participants[r]
    BY <1>1, <2>1, <2>2, <2>5, JoinsOnce
  <2> QED
    BY <1>1, <2>1, <2>2, <2>4, <2>5, <2>6 DEF ExistingPairInv
<1>2. CASE SetUp(x) /\ UNCHANGED <<roomOf, existing, todo, consumers>>
  BY <1>1, <1>2
<1>3. ASSUME NEW c \in Clients, NEW v, pc' = [pc EXCEPT ![c] = v],
             UNCHANGED <<todo, roomOf, existing, consumers>>,
             v \notin {"ready", "consumers"} \/ roomOf[c] = NoRoom
      PROVE  consumers'[<<x, y, k>>] > 0 \/ <<x, y, k>> \in todo'[x]
  BY <1>0, <1>2, <1>3 DEF SetUp, RoomTypes
<1>4. CASE UNCHANGED <<pc, roomOf, existing, todo, consumers>>
  BY <1>2, <1>4 DEF SetUp
<1>5. ASSUME NEW c \in Clients,
             \/ \E r \in Rooms : GetRoom(c, r) \/ JoinUnknownRoom(c, r)
             \/ AddPeer(c) \/ AddParticipant(c) \/ SendJoined(c) \/ BroadcastJoin(c)
      PROVE  consumers'[<<x, y, k>>] > 0 \/ <<x, y, k>> \in todo'[x]
  BY <1>3, <1>5 DEF ControlInv, BeforeRoom, serverLocals, sfu, At, GetRoom, JoinUnknownRoom,
     AddPeer, AddParticipant, SendJoined, BroadcastJoin
<1>6. ASSUME NEW c \in Clients, SetRoom(c) \/ CollectExisting(c)
      PROVE  consumers'[<<x, y, k>>] > 0 \/ <<x, y, k>> \in todo'[x]
  <2>1. /\ pc'[c] \in {"collect", "sendJoined"}
        /\ \A d \in Clients \ {c} :
             pc'[d] = pc[d] /\ roomOf'[d] = roomOf[d] /\ existing'[d] = existing[d]
        /\ UNCHANGED <<todo, consumers>>
    BY <1>0, <1>6 DEF RoomTypes, ClientTypes, SetRoom, CollectExisting, At, serverLocals, sfu
  <2> QED
    BY <1>1, <2>1 DEF SetUp
<1>7. ASSUME NEW c \in Clients, FindRoom(c)
      PROVE  consumers'[<<x, y, k>>] > 0 \/ <<x, y, k>> \in todo'[x]
  <2>1. CASE pc' = [pc EXCEPT ![c] = "pairs"]
    BY <1>3, <1>7, <2>1 DEF FindRoom, serverLocals, sfu
  <2>2. CASE /\ pc' = [pc EXCEPT ![c] = "ready"] /\ pc[c] = "setup"
             /\ roomState[joining[c]] # "listed"
    <3>1. UNCHANGED <<roomOf, existing, todo, consumers, roomState>>
      BY <1>7 DEF FindRoom, sfu, manager, serverLocals
    <3>2. roomOf[c] = joining[c]
      BY <2>2 DEF ControlInv, AfterRoom
    <3>3. c # x
      BY <2>2, <3>1, <3>2 DEF Healthy
    <3> QED
      BY <1>0, <1>2, <2>2, <3>1, <3>3 DEF SetUp, RoomTypes
  <2> QED
    BY <1>7, <2>1, <2>2 DEF FindRoom, At
<1>8. ASSUME NEW c \in Clients, SetupConsumers(c)
      PROVE  consumers'[<<x, y, k>>] > 0 \/ <<x, y, k>> \in todo'[x]
  <2>1. /\ pc[c] = "pairs" /\ todo'[c] = Pairs(joining[c], c)
        /\ \A d \in Clients \ {c} : pc'[d] = pc[d] /\ todo'[d] = todo[d]
        /\ UNCHANGED <<roomOf, existing, participants, consumers>>
    BY <1>0, <1>8 DEF RoomTypes, ClientTypes, SetupConsumers, At, sfu
  <2>2. roomOf[c] = joining[c]
    BY <2>1 DEF ControlInv, AfterRoom
  <2>3. CASE c = x
    <3>1. x \in participants[roomOf[x]]
      BY <2>1, <2>3 DEF SetUp, MemberInv, Stays, AfterRoom
    <3>2. x # y
      BY <2>1 DEF ExistingInv
    <3>3. <<x, y, k>> \in todo'[c]
      BY <2>1, <2>2, <2>3, <3>1, <3>2 DEF Pairs
    <3> QED
      BY <2>3, <3>3
  <2>4. CASE c # x
    BY <1>1, <2>1, <2>4 DEF SetUp
  <2> QED
    BY <2>3, <2>4
<1>9. ASSUME NEW c \in Clients, (\E s \in Subscriptions : AddConsumer(c, s)) \/ SetupDone(c)
      PROVE  consumers'[<<x, y, k>>] > 0 \/ <<x, y, k>> \in todo'[x]
  <2>1. SetUp(x) /\ UNCHANGED <<roomOf, existing>>
    BY <1>9, AddConsumerEffect DEF SetUp, AddConsumer, SetupDone
  <2>2. failures' = 0
    BY DEF Healthy
  <2>3. consumers[<<x, y, k>>] > 0 \/ <<x, y, k>> \in todo[x]
    BY <1>1, <2>1
  <2> QED
    BY <1>9, <2>2, <2>3, AddConsumerEffect
<1>10. ASSUME NEW c \in Clients, LeaveMessage(c) \/ ConnectionLost(c) \/ ReadError(c)
       PROVE  consumers'[<<x, y, k>>] > 0 \/ <<x, y, k>> \in todo'[x]
  BY <1>3, <1>10 DEF serverLocals, sfu, LeaveMessage, ConnectionLost, ReadError, StartLeave
<1>11. ASSUME NEW c \in Clients, RemovePeer(c)
       PROVE  consumers'[<<x, y, k>>] > 0 \/ <<x, y, k>> \in todo'[x]
  <2>1. /\ pc[c] = "removePeer" /\ pc'[c] = "notifyLeft"
        /\ \A d \in Clients \ {c} : pc'[d] = pc[d]
        /\ UNCHANGED <<todo, roomOf, existing>> /\ consumers' \in {consumers, WithoutPeer(c)}
    BY <1>0, <1>11 DEF RoomTypes, RemovePeer, At, serverLocals
  <2>2. c # x /\ SetUp(x)
    BY <2>1 DEF SetUp
  <2>3. c # y
    BY <1>1, <2>1, <2>2 DEF MemberInv
  <2>4. consumers'[<<x, y, k>>] = consumers[<<x, y, k>>]
    BY <2>1, <2>2, <2>3 DEF WithoutPeer
  <2> QED
    BY <1>1, <2>1, <2>2, <2>4
<1>12. ASSUME NEW c \in Clients, LeaveStep(c)
       PROVE  consumers'[<<x, y, k>>] > 0 \/ <<x, y, k>> \in todo'[x]
  BY <1>3, <1>11, <1>12 DEF serverLocals, sfu, At, LeaveStep, FindLeftRoom, RemoveParticipant,
     ReclaimRoom, NotifyLeft, Unregister, CloseChannel
<1>13. ASSUME NEW c \in Clients, PageStep(c)
       PROVE  consumers'[<<x, y, k>>] > 0 \/ <<x, y, k>> \in todo'[x]
  BY <1>4, <1>13 DEF PageStep, Receive, InitDone, SendOffer, HandleOffer, serverLocals, sfu
<1>14. ASSUME NEW r \in Rooms, CreateRoom(r)
       PROVE  consumers'[<<x, y, k>>] > 0 \/ <<x, y, k>> \in todo'[x]
  BY <1>4, <1>14 DEF CreateRoom, serverLocals, sfu
<1>15. CASE UNCHANGED vars
  BY <1>4, <1>15 DEF vars, serverLocals, sfu
<1> QED
  BY <1>5, <1>6, <1>7, <1>8, <1>9, <1>10, <1>12, <1>13, <1>14, <1>15
  DEF Next, ServiceStep, JoinStep

(* A bind that failed for a participant of existingPeers is excused, and     *)
(* stays excused.                                                            *)
LEMMA BindableStep ==
  /\ TypeOK /\ ControlInv /\ TodoInv /\ ExistingInv /\ ExistingPairInv
  /\ ExistingPeersBindable /\ [Next]_vars
  => ExistingPeersBindable'
<1> SUFFICES ASSUME TypeOK, ControlInv, TodoInv, ExistingInv, ExistingPairInv,
                    ExistingPeersBindable, [Next]_vars
             PROVE  ExistingPeersBindable'
  OBVIOUS
<1> SfuTypes'
  BY SfuTypesStep
<1> SUFFICES ASSUME NEW c \in Clients, NEW d \in existing'[c] \cap warned'[c],
                    Healthy(roomOf[c])', d \in participants'[roomOf'[c]]
             PROVE  FALSE
  BY DEF ExistingPeersBindable, Healthy, SfuTypes
<1>0. RoomTypes /\ ClientTypes /\ SfuTypes /\ ExistingInv' /\ ClientTypes'
  BY TypeParts, ExistingStep, ClientTypesStep
<1> d \in Clients
  BY <1>0 DEF ClientTypes
<1>1. ASSUME roomOf'[c] = roomOf[c], d \in existing[c]
      PROVE  /\ Healthy(roomOf[c]) /\ d \in participants[roomOf[c]]
             /\ roomOf[c] # NoRoom
  <2>1. roomOf[c] # NoRoom /\ roomOf[d] # NoRoom
    BY <1>1 DEF ExistingInv
  <2>2. roomOf[c] \in Rooms /\ roomState[roomOf[c]] # "none"
    BY <1>0, <2>1 DEF ClientTypes, ControlInv
  <2>3. PICK r : r = roomOf[c]
    OBVIOUS
  <2>4. Healthy(r)'
    BY <1>1, <2>3 DEF Healthy
  <2> QED
    BY <1>1, <2>1, <2>2, <2>3, <2>4, HealthLost, JoinsOnce
<1>2. ASSUME UNCHANGED <<roomOf, existing>>, d \in warned[c]
      PROVE  FALSE
  BY <1>1, <1>2 DEF ExistingPeersBindable, Healthy
<1>3. ASSUME NEW b \in Clients, SetRoom(b) \/ CollectExisting(b)
      PROVE  FALSE
  <2>1. /\ pc'[b] \in {"collect", "sendJoined"}
        /\ \A e \in Clients \ {b} : roomOf'[e] = roomOf[e] /\ existing'[e] = existing[e]
        /\ UNCHANGED warned
    BY <1>0, <1>3 DEF RoomTypes, ClientTypes, SetRoom, CollectExisting, At, serverLocals, sfu
  <2>2. c # b
    BY <1>0, <2>1 DEF ExistingInv, Joins, AfterRoom
  <2> QED
    BY <1>1, <2>1, <2>2 DEF ExistingPeersBindable, Healthy
<1>4. ASSUME NEW b \in Clients, HandleOffer(b)
      PROVE  FALSE
  <2>1. /\ pc[b] = "ready" /\ UNCHANGED <<roomOf, existing>>
        /\ \A e \in Clients \ {b} : warned'[e] = warned[e]
        /\ warned'[b] \subseteq
              warned[b] \cup {e \in offer[b] : \E k \in Kinds : consumers[<<b, e, k>>] = 0}
    BY <1>0, <1>4 DEF HandleOffer, SfuTypes, serverLocals
  <2>2. CASE d \in warned[c]
    BY <1>2, <2>1, <2>2
  <2>3. CASE d \notin warned[c]
    <3>1. c = b
      BY <2>1, <2>3
    <3>2. PICK k \in Kinds : consumers[<<c, d, k>>] = 0
      BY <2>1, <2>3, <3>1
    <3>3. todo[c] = {}
      BY <2>1, <3>1 DEF TodoInv
    <3>4. SetUp(c)
      BY <1>1, <2>1, <3>1 DEF SetUp
    <3> QED
      BY <1>1, <2>1, <3>2, <3>3, <3>4 DEF ExistingPairInv
  <2> QED
    BY <2>2, <2>3
<1>5. ASSUME NEW b \in Clients,
             \/ \E r \in Rooms : GetRoom(b, r) \/ JoinUnknownRoom(b, r)
             \/ JoinStep(b)
      PROVE  FALSE
  BY <1>2, <1>3, <1>5 DEF JoinStep, GetRoom, JoinUnknownRoom, AddPeer, AddParticipant, SendJoined,
     BroadcastJoin, FindRoom, SetupConsumers, AddConsumer, SetupDone, serverLocals, sfu
<1>6. ASSUME NEW b \in Clients,
             \/ LeaveMessage(b) \/ ConnectionLost(b) \/ ReadError(b) \/ LeaveStep(b)
             \/ PageStep(b)
      PROVE  FALSE
  BY <1>2, <1>4, <1>6 DEF LeaveMessage, ConnectionLost, ReadError, LeaveStep, FindLeftRoom,
     RemoveParticipant, ReclaimRoom, RemovePeer, NotifyLeft, Unregister, CloseChannel, PageStep,
     Receive, InitDone, SendOffer, serverLocals, sfu
<1>7. ASSUME NEW r \in Rooms, CreateRoom(r)
      PROVE  FALSE
  BY <1>2, <1>7 DEF CreateRoom, serverLocals, sfu
<1>8. CASE UNCHANGED vars
  BY <1>2, <1>8 DEF vars, serverLocals, sfu
<1> QED
  BY <1>5, <1>6, <1>7, <1>8 DEF Next, ServiceStep

LEMMA ExistingHolds == Spec => [](TypeOK /\ ControlInv /\ ExistingInv)
<1>1. Init => ExistingInv
  BY DEF Init, ExistingInv
<1> QED
  BY <1>1, ControlHolds, ExistingStep, PTL DEF Spec

(* An offer that names a participant of existingPeers finds its Consumers    *)
(* while that participant stays, unless a call has failed or the room has    *)
(* been reclaimed: readPump handles the offer after SetupConsumers, though   *)
(* "joined" is sent before it (hub.go, handleJoin and handleOffer).          *)
THEOREM OffersFindConsumers == Spec => []ExistingPeersBindable
<1>1. Init => ExistingPairInv /\ ExistingPeersBindable
  BY DEF Init, ExistingPairInv, ExistingPeersBindable
<1> QED
  BY <1>1, MembersHold, ExistingHolds, ExistingPairStep, BindableStep, PTL DEF Spec

-----------------------------------------------------------------------------
(***************************************************************************)
(* The queues: what sending, receiving and closing do to what a page has    *)
(* still to be told.                                                        *)
(***************************************************************************)

(* Queue t is queue s with message m behind it. *)
Longer(s, t, m) ==
    /\ Len(s) \in Nat /\ DOMAIN s = 1..Len(s) /\ DOMAIN t = 1..(Len(s) + 1)
    /\ \A i \in DOMAIN s : t[i] = s[i]
    /\ t[Len(s) + 1] = m

(* Queue t is queue s without its first message m. *)
Shorter(s, t, m) ==
    /\ Len(s) \in Nat \ {0} /\ DOMAIN s = 1..Len(s) /\ DOMAIN t = 1..(Len(s) - 1)
    /\ \A i \in DOMAIN t : t[i] = s[i + 1]
    /\ s[1] = m

LEMMA AppendIsLonger ==
  ASSUME NEW s \in Seq(Messages), NEW m \in Messages
  PROVE  Longer(s, Append(s, m), m)
  BY DEF Longer

LEMMA TailIsShorter ==
  ASSUME NEW s \in Seq(Messages), s # <<>>
  PROVE  Shorter(s, Tail(s), Head(s)) /\ Head(s) \in Messages
  BY DEF Shorter

(* A message that is sent is lost or the last one. *)
LEMMA SentIsLast ==
  ASSUME TypeOK, NEW S, NEW m \in Messages, SendTo(S, m), NEW d \in Clients
  PROVE  /\ \/ inbox'[d] = inbox[d]
            \/ d \in S \cap connected /\ Longer(inbox[d], inbox'[d], m)
         /\ d \in S \cap connected /\ d \notin dropped' => Longer(inbox[d], inbox'[d], m)
<1>1. inbox[d] \in Seq(Messages)
  BY DEF TypeOK
<1>2. Longer(inbox[d], Append(inbox[d], m), m)
  BY <1>1, AppendIsLonger
<1>3. /\ inbox'[d] = inbox[d] \/ (d \in S \cap connected /\ inbox'[d] = Append(inbox[d], m))
      /\ d \in S \cap connected /\ d \notin dropped' => inbox'[d] = Append(inbox[d], m)
  BY SendEffect
<1> QED
  BY <1>2, <1>3

LEMMA ToldAfterSend ==
  ASSUME TypeOK, NEW S, NEW m \in Messages, SendTo(S, m), NEW d \in Clients, NEW ts, NEW e
  PROVE  /\ Told(d, ts, e) => Told(d, ts, e)'
         /\ Told(d, ts, e)' => \/ Told(d, ts, e)
                               \/ d \in S \cap connected /\ m.type \in ts /\ e \in m.peers
         /\ d \in S \cap connected /\ d \notin dropped' /\ m.type \in ts /\ e \in m.peers
               => Told(d, ts, e)'
<1>1. CASE inbox'[d] = inbox[d] /\ ~(d \in S \cap connected /\ d \notin dropped')
  BY <1>1 DEF Told, Names
<1>2. CASE d \in S \cap connected /\ Longer(inbox[d], inbox'[d], m)
  BY <1>2 DEF Told, Names, Longer
<1> QED
  BY <1>1, <1>2, SentIsLast

LEMMA ToldAfterReceive ==
  ASSUME TypeOK, NEW c \in Clients, Receive(c)
  PROVE  /\ Shorter(inbox[c], inbox'[c], Head(inbox[c]))
         /\ Head(inbox[c]) \in Messages
         /\ \A d \in Clients \ {c} : inbox'[d] = inbox[d]
         /\ \A ts, e : Told(c, ts, e)
               <=> Told(c, ts, e)' \/ (Head(inbox[c]).type \in ts /\ e \in Head(inbox[c]).peers)
<1>1. inbox[c] \in Seq(Messages) /\ inbox \in [Clients -> Seq(Messages)]
  BY DEF TypeOK
<1>2. inbox[c] # <<>> /\ inbox' = [inbox EXCEPT ![c] = Tail(inbox[c])]
  BY DEF Receive
<1>3. inbox'[c] = Tail(inbox[c]) /\ \A d \in Clients \ {c} : inbox'[d] = inbox[d]
  BY <1>1, <1>2
<1>4. Shorter(inbox[c], inbox'[c], Head(inbox[c])) /\ Head(inbox[c]) \in Messages
  BY <1>1, <1>2, <1>3, TailIsShorter
<1>5. ASSUME NEW ts, NEW e
      PROVE  Told(c, ts, e)
               <=> Told(c, ts, e)' \/ (Head(inbox[c]).type \in ts /\ e \in Head(inbox[c]).peers)
  <2> DEFINE m == Head(inbox[c])
  <2>1. Shorter(inbox[c], inbox'[c], m)
    BY <1>4
  <2> HIDE DEF m
  <2>2. ASSUME Told(c, ts, e)
        PROVE  Told(c, ts, e)' \/ (m.type \in ts /\ e \in m.peers)
    <3>1. PICK i \in DOMAIN inbox[c] : Names(c, i, ts, e)
      BY <2>2 DEF Told
    <3>2. CASE i = 1
      BY <2>1, <3>1, <3>2 DEF Names, Shorter
    <3>3. CASE i # 1
      <4>1. i - 1 \in DOMAIN inbox'[c] /\ inbox'[c][i - 1] = inbox[c][i]
        <5>1. i \in Nat /\ i > 1 /\ i <= Len(inbox[c]) /\ Len(inbox[c]) \in Nat
          BY <2>1, <3>1, <3>3 DEF Shorter
        <5>2. i - 1 \in 1..(Len(inbox[c]) - 1) /\ (i - 1) + 1 = i
          BY <5>1
        <5> QED
          BY <2>1, <5>2 DEF Shorter
      <4> QED
        BY <3>1, <4>1 DEF Told, Names
    <3> QED
      BY <3>2, <3>3
  <2>3. ASSUME Told(c, ts, e)'
        PROVE  Told(c, ts, e)
    <3>1. PICK i \in DOMAIN inbox'[c] : inbox'[c][i].type \in ts /\ e \in inbox'[c][i].peers
      BY <2>3 DEF Told, Names
    <3>2. i + 1 \in DOMAIN inbox[c] /\ inbox'[c][i] = inbox[c][i + 1]
      BY <2>1, <3>1 DEF Shorter
    <3> QED
      BY <3>1, <3>2 DEF Told, Names
  <2>4. ASSUME m.type \in ts, e \in m.peers
        PROVE  Told(c, ts, e)
    <3>1. 1 \in DOMAIN inbox[c] /\ inbox[c][1] = m
      BY <2>1 DEF Shorter
    <3> QED
      BY <2>4, <3>1 DEF Told, Names
  <2> QED
    BY <2>2, <2>3, <2>4 DEF m
<1> QED
  BY <1>3, <1>4, <1>5

(* A message once lost is not forgotten, and who leaves does not come back. *)
LEMMA Onward ==
  ASSUME TypeOK, [Next]_vars
  PROVE  /\ dropped \subseteq dropped'
         /\ \A d \in Clients : pc[d] \in Leaves => pc'[d] \in Leaves
<1> USE DEF Leaves, InLeave
<1>0. RoomTypes /\ existing \in [Clients -> SUBSET Clients]
  BY TypeParts DEF ClientTypes
<1> DEFINE Moves == /\ dropped \subseteq dropped'
                    /\ \A d \in Clients : pc[d] \in Leaves => pc'[d] \in Leaves
<1>1. ASSUME NEW S, NEW t \in {"joined", "renegotiate", "peer-left", "answer", "error"},
             NEW ps \in SUBSET Clients, SendTo(S, Msg(t, ps))
      PROVE  dropped \subseteq dropped'
  BY <1>1, SendEffect, SentIsMessage
<1>2. ASSUME NEW c \in Clients,
             \/ \E r \in Rooms : GetRoom(c, r) \/ JoinUnknownRoom(c, r)
             \/ AddPeer(c) \/ SendJoined(c) \/ BroadcastJoin(c)
      PROVE  Moves
  <2>1. dropped \subseteq dropped'
    BY <1>0, <1>1, <1>2 DEF GetRoom, JoinUnknownRoom, AddPeer, SendJoined, BroadcastJoin
  <2>2. \A d \in Clients : pc[d] \in Leaves => pc'[d] \in Leaves
    BY <1>0, <1>2 DEF RoomTypes, At, GetRoom, JoinUnknownRoom, AddPeer, SendJoined, BroadcastJoin
  <2> QED
    BY <2>1, <2>2
<1>3. ASSUME NEW c \in Clients,
             \/ AddParticipant(c) \/ SetRoom(c) \/ CollectExisting(c) \/ FindRoom(c)
             \/ SetupConsumers(c) \/ (\E s \in Subscriptions : AddConsumer(c, s)) \/ SetupDone(c)
      PROVE  Moves
  BY <1>0, <1>3 DEF RoomTypes, At, AddParticipant, SetRoom, CollectExisting, FindRoom,
     SetupConsumers, AddConsumer, SetupDone, AbortSetup
<1>4. ASSUME NEW c \in Clients,
             LeaveMessage(c) \/ ConnectionLost(c) \/ ReadError(c) \/ LeaveStep(c)
      PROVE  Moves
  BY <1>0, <1>1, <1>4 DEF RoomTypes, At, LeaveMessage, ConnectionLost, ReadError, StartLeave,
     LeaveStep, FindLeftRoom, RemoveParticipant, ReclaimRoom, RemovePeer, NotifyLeft, Unregister,
     CloseChannel
<1>5. ASSUME NEW c \in Clients, PageStep(c)
      PROVE  Moves
  BY <1>1, <1>5 DEF PageStep, HandleOffer, Receive, InitDone, SendOffer
<1>6. ASSUME NEW r \in Rooms, CreateRoom(r)
      PROVE  Moves
  BY <1>6 DEF CreateRoom
<1>7. CASE UNCHANGED vars
  BY <1>7 DEF vars
<1> QED
  BY <1>2, <1>3, <1>4, <1>5, <1>6, <1>7 DEF Next, ServiceStep, JoinStep

(* The places of a client that has not been sent "joined". *)
Unjoined == {"connected"} \cup BeforeRoom \cup {"collect", "sendJoined"}

(* Only "joined" itself, its reception and existingPeers matter to it. *)
LEMMA JoinedMailKept ==
  ASSUME TypeOK, NEW x \in Clients, JoinedMail(x),
         greeting'[x] = greeting[x], existing'[x] = existing[x],
         pc'[x] \in Unjoined => pc[x] \in Unjoined,
         \/ inbox'[x] = inbox[x]
         \/ \E m \in Messages : m.type # "joined" /\ Longer(inbox[x], inbox'[x], m)
  PROVE  JoinedMail(x)'
<1>1. CASE inbox'[x] = inbox[x]
  BY <1>1 DEF JoinedMail, Unjoined
<1>2. ASSUME NEW m \in Messages, m.type # "joined", Longer(inbox[x], inbox'[x], m)
      PROVE  JoinedMail(x)'
  <2>1. ASSUME NEW i \in DOMAIN inbox'[x], inbox'[x][i].type = "joined"
        PROVE  i \in DOMAIN inbox[x] /\ inbox[x][i] = inbox'[x][i]
    BY <1>2, <2>1 DEF Longer
  <2> QED
    BY <2>1 DEF JoinedMail, Unjoined
<1> QED
  BY <1>1, <1>2

LEMMA MailStep == TypeOK /\ ControlInv /\ ExistingInv /\ MailInv /\ [Next]_vars => MailInv'
<1> SUFFICES ASSUME TypeOK, ControlInv, ExistingInv, MailInv, [Next]_vars,
                    NEW x \in Clients
             PROVE  /\ JoinedMail(x)'
                    /\ \A y \in Clients : Told(x, {"peer-left"}, y)' => pc'[y] \in Leaves
  BY DEF MailInv
<1> DEFINE Good == /\ JoinedMail(x)'
                   /\ \A y \in Clients : Told(x, {"peer-left"}, y)' => pc'[y] \in Leaves
<1>0. RoomTypes /\ ClientTypes /\ PageTypes /\ MailTypes
  BY TypeParts
<1>1. /\ JoinedMail(x)
      /\ \A y \in Clients : Told(x, {"peer-left"}, y) => pc'[y] \in Leaves
  BY Onward DEF MailInv
<1>2. ASSUME inbox'[x] = inbox[x], greeting'[x] = greeting[x], existing'[x] = existing[x],
             pc'[x] \in Unjoined => pc[x] \in Unjoined
      PROVE  Good
  BY <1>1, <1>2, JoinedMailKept DEF Told, Names
<1>3. ASSUME NEW S, NEW t \in {"renegotiate", "answer", "error"}, NEW ps \in SUBSET Clients,
             SendTo(S, Msg(t, ps)), greeting'[x] = greeting[x], existing'[x] = existing[x],
             pc'[x] \in Unjoined => pc[x] \in Unjoined
      PROVE  Good
  <2>1. PICK m \in Messages : m = Msg(t, ps) /\ m.type = t
    BY SentIsMessage
  <2>2. JoinedMail(x)'
    BY <1>1, <1>3, <2>1, SentIsLast, JoinedMailKept
  <2>3. ASSUME NEW y \in Clients, Told(x, {"peer-left"}, y)'
        PROVE  Told(x, {"peer-left"}, y)
    BY <1>3, <2>1, <2>3, ToldAfterSend
  <2> QED
    BY <1>1, <2>2, <2>3
<1>4. ASSUME NEW c \in Clients,
             \/ \E r \in Rooms : GetRoom(c, r)
             \/ AddParticipant(c) \/ SetRoom(c) \/ FindRoom(c) \/ SetupConsumers(c)
             \/ (\E s \in Subscriptions : AddConsumer(c, s)) \/ SetupDone(c)
      PROVE  Good
  <2>1. UNCHANGED <<inbox, greeting, existing>>
    BY <1>4 DEF GetRoom, AddParticipant, SetRoom, FindRoom, SetupConsumers, AddConsumer, SetupDone,
       browser, serverLocals
  <2>2. pc'[x] \in Unjoined => pc[x] \in Unjoined
    BY <1>0, <1>4 DEF RoomTypes, At, GetRoom, AddParticipant, SetRoom, FindRoom, SetupConsumers,
       AddConsumer, SetupDone, AbortSetup, Unjoined, BeforeRoom
  <2> QED
    BY <1>2, <2>1, <2>2
<1>5. ASSUME NEW c \in Clients, NEW r \in Rooms, JoinUnknownRoom(c, r)
      PROVE  Good
  <2>1. UNCHANGED <<greeting, existing>> /\ SendTo({c}, Msg("error", {}))
    BY <1>5 DEF JoinUnknownRoom, browser, serverLocals
  <2>2. pc'[x] \in Unjoined => pc[x] \in Unjoined
    BY <1>0, <1>5 DEF RoomTypes, At, JoinUnknownRoom, Unjoined, BeforeRoom
  <2> QED
    BY <1>3, <2>1, <2>2
<1>6. ASSUME NEW c \in Clients, AddPeer(c)
      PROVE  Good
  <2>1. UNCHANGED <<greeting, existing>> /\ (UNCHANGED inbox \/ SendTo({c}, Msg("error", {})))
    BY <1>6 DEF AddPeer, browser, serverLocals
  <2>2. pc'[x] \in Unjoined => pc[x] \in Unjoined
    BY <1>0, <1>6 DEF RoomTypes, At, AddPeer, Unjoined, BeforeRoom
  <2> QED
    BY <1>2, <1>3, <2>1, <2>2
<1>7. ASSUME NEW c \in Clients, CollectExisting(c)
      PROVE  Good
  <2>1. /\ pc[c] = "collect" /\ UNCHANGED <<inbox, greeting>>
        /\ pc'[c] = "sendJoined"
        /\ \A d \in Clients \ {c} : existing'[d] = existing[d] /\ pc'[d] = pc[d]
    BY <1>0, <1>7 DEF RoomTypes, ClientTypes, CollectExisting, At, browser
  <2>2. CASE x = c
    <3>1. JoinedMail(x)'
      BY <1>1, <2>1, <2>2 DEF JoinedMail
    <3> QED
      BY <1>1, <2>1, <3>1 DEF Told, Names
  <2> QED
    BY <1>2, <2>1, <2>2
<1>8. ASSUME NEW c \in Clients, SendJoined(c)
      PROVE  Good
  <2>1. /\ pc[c] = "sendJoined" /\ pc'[c] = "broadcast" /\ UNCHANGED <<greeting, existing>>
        /\ \A d \in Clients \ {c} : pc'[d] = pc[d]
        /\ SendTo({c}, Msg("joined", existing[c]))
    BY <1>0, <1>8 DEF RoomTypes, SendJoined, At, serverLocals, browser
  <2>2. existing[c] \in SUBSET Clients
    BY <1>0 DEF ClientTypes
  <2>3. PICK m \in Messages : /\ m = Msg("joined", existing[c])
                             /\ m.type = "joined" /\ m.peers = existing[c]
    BY <2>2, SentIsMessage
  <2>4. \/ inbox'[x] = inbox[x]
        \/ x = c /\ Longer(inbox[x], inbox'[x], m)
    BY <2>1, <2>3, SentIsLast
  <2>5. \A y \in Clients : Told(x, {"peer-left"}, y)' => Told(x, {"peer-left"}, y)
    BY <2>1, <2>3, ToldAfterSend
  <2>6. CASE x = c /\ Longer(inbox[x], inbox'[x], m)
    <3>1. greeting[x] = {} /\ \A i \in DOMAIN inbox[x] : inbox[x][i].type # "joined"
      BY <1>1, <2>1, <2>6 DEF JoinedMail
    <3>2. \A i \in DOMAIN inbox'[x] : inbox'[x][i].type = "joined" =>
            i = Len(inbox[x]) + 1 /\ inbox'[x][i].peers = existing[x]
      BY <2>3, <2>6, <3>1 DEF Longer
    <3>3. JoinedMail(x)'
      BY <2>1, <2>6, <3>1, <3>2 DEF JoinedMail, BeforeRoom
    <3> QED
      BY <1>1, <2>5, <3>3
  <2> QED
    BY <1>2, <2>1, <2>4, <2>6 DEF Unjoined, BeforeRoom
<1>9. ASSUME NEW c \in Clients, BroadcastJoin(c)
      PROVE  Good
  <2>1. /\ UNCHANGED <<greeting, existing>>
        /\ SendTo(InRoom(joining[c], c), Msg("renegotiate", {c}))
    BY <1>9 DEF BroadcastJoin, serverLocals, browser
  <2>2. pc'[x] \in Unjoined => pc[x] \in Unjoined
    BY <1>0, <1>9 DEF RoomTypes, At, BroadcastJoin, Unjoined, BeforeRoom
  <2> QED
    BY <1>3, <2>1, <2>2
<1>10. ASSUME NEW c \in Clients, LeaveMessage(c) \/ ConnectionLost(c)
       PROVE  Good
  <2>1. /\ PageCloses(c) /\ StartLeave(c) /\ UNCHANGED existing
    BY <1>10 DEF LeaveMessage, ConnectionLost, serverLocals
  <2>2. /\ inbox'[c] = <<>> /\ greeting'[c] = {}
        /\ \A d \in Clients \ {c} :
             inbox'[d] = inbox[d] /\ greeting'[d] = greeting[d] /\ pc'[d] = pc[d]
    BY <1>0, <2>1 DEF PageCloses, StartLeave, MailTypes, PageTypes, RoomTypes
  <2>3. CASE x = c
    BY <2>2, <2>3 DEF JoinedMail, Told
  <2> QED
    BY <1>2, <2>1, <2>2, <2>3
<1>11. ASSUME NEW c \in Clients, NotifyLeft(c)
       PROVE  Good
  <2>1. /\ UNCHANGED <<greeting, existing>> /\ pc'[c] = "unregister"
        /\ \A d \in Clients \ {c} : pc'[d] = pc[d]
        /\ SendTo(InRoom(roomOf[c], c), Msg("peer-left", {c}))
    BY <1>0, <1>11 DEF RoomTypes, NotifyLeft, At, serverLocals, browser
  <2>2. PICK m \in Messages : m = Msg("peer-left", {c}) /\ m.type = "peer-left" /\ m.peers = {c}
    BY SentIsMessage
  <2>3. JoinedMail(x)'
    BY <1>1, <2>1, <2>2, SentIsLast, JoinedMailKept DEF Unjoined, BeforeRoom
  <2>4. ASSUME NEW y \in Clients, Told(x, {"peer-left"}, y)'
        PROVE  Told(x, {"peer-left"}, y) \/ y = c
    BY <2>1, <2>2, <2>4, ToldAfterSend
  <2> QED
    BY <1>1, <2>1, <2>3, <2>4 DEF Leaves
<1>12. ASSUME NEW c \in Clients,
              \/ ReadError(c) \/ FindLeftRoom(c) \/ RemoveParticipant(c) \/ ReclaimRoom(c)
              \/ RemovePeer(c) \/ Unregister(c) \/ CloseChannel(c)
       PROVE  Good
  <2>1. UNCHANGED <<inbox, greeting, existing>>
    BY <1>12 DEF ReadError, FindLeftRoom, RemoveParticipant, ReclaimRoom, RemovePeer, Unregister,
       CloseChannel, browser, serverLocals
  <2>2. pc'[x] \in Unjoined => pc[x] \in Unjoined
    BY <1>0, <1>12 DEF RoomTypes, At, ReadError, StartLeave, FindLeftRoom, RemoveParticipant,
       ReclaimRoom, RemovePeer, Unregister, CloseChannel, Unjoined, BeforeRoom
  <2> QED
    BY <1>2, <2>1, <2>2
<1>13. ASSUME NEW c \in Clients, Receive(c)
       PROVE  Good
  <2> DEFINE m == Head(inbox[c])
  <2>1. /\ Shorter(inbox[c], inbox'[c], m) /\ m \in Messages
        /\ \A d \in Clients \ {c} : inbox'[d] = inbox[d]
        /\ \A ts, e : Told(c, ts, e)' => Told(c, ts, e)
    BY <1>13, ToldAfterReceive
  <2>2. /\ UNCHANGED <<pc, existing>>
        /\ \/ m.type = "joined" /\ greeting' = [greeting EXCEPT ![c] = m.peers]
           \/ m.type # "joined" /\ UNCHANGED greeting
    BY <1>13 DEF Receive, serverLocals
  <2> HIDE DEF m
  <2>3. CASE x = c
    <3>1. ASSUME NEW i \in DOMAIN inbox'[x]
          PROVE  /\ i + 1 \in DOMAIN inbox[x] /\ inbox'[x][i] = inbox[x][i + 1]
                 /\ i + 1 # 1 /\ i \in Nat
      BY <2>1, <2>3 DEF Shorter
    <3>2. 1 \in DOMAIN inbox[x] /\ inbox[x][1] = m
      BY <2>1, <2>3 DEF Shorter
    <3>3. CASE m.type = "joined"
      <4>1. /\ pc[x] \notin Unjoined /\ m.peers = existing[x]
            /\ \A j \in DOMAIN inbox[x] : inbox[x][j].type = "joined" => j = 1
        BY <1>1, <3>2, <3>3 DEF JoinedMail, Unjoined
      <4>2. greeting'[x] = existing[x]
        BY <1>0, <2>2, <2>3, <3>3, <4>1 DEF PageTypes
      <4>3. \A i \in DOMAIN inbox'[x] : inbox'[x][i].type # "joined"
        BY <3>1, <4>1
      <4>4. JoinedMail(x)'
        BY <2>2, <4>1, <4>2, <4>3 DEF JoinedMail, Unjoined
      <4> QED
        BY <1>1, <2>1, <2>3, <4>4
    <3>4. CASE m.type # "joined"
      <4>1. greeting'[x] = greeting[x]
        BY <2>2, <3>4
      <4>2. ASSUME NEW i \in DOMAIN inbox'[x], inbox'[x][i].type = "joined"
            PROVE  /\ greeting'[x] = {}
                   /\ inbox'[x][i].peers = existing'[x]
                   /\ \A j \in DOMAIN inbox'[x] : inbox'[x][j].type = "joined" => j = i
        <5>1. /\ greeting[x] = {} /\ inbox[x][i + 1].peers = existing[x]
              /\ \A j \in DOMAIN inbox[x] : inbox[x][j].type = "joined" => j = i + 1
          BY <1>1, <3>1, <4>2 DEF JoinedMail
        <5>2. \A j \in DOMAIN inbox'[x] : inbox'[x][j].type = "joined" => j + 1 = i + 1
          BY <3>1, <5>1
        <5>3. \A j \in DOMAIN inbox'[x] : j \in Nat /\ i \in Nat
          BY <3>1
        <5> QED
          BY <2>2, <3>1, <4>1, <5>1, <5>2, <5>3
      <4>3. pc'[x] \in Unjoined => \A i \in DOMAIN inbox'[x] : inbox'[x][i].type # "joined"
        BY <1>1, <2>2, <3>1 DEF JoinedMail, Unjoined
      <4>4. JoinedMail(x)'
        BY <1>1, <2>2, <4>1, <4>2, <4>3 DEF JoinedMail, Unjoined
      <4> QED
        BY <1>1, <2>1, <2>3, <4>4
    <3> QED
      BY <3>3, <3>4
  <2>4. CASE x # c
    <3>1. greeting'[x] = greeting[x]
      BY <1>0, <2>2, <2>4 DEF PageTypes
    <3> QED
      BY <1>2, <2>1, <2>2, <2>4, <3>1
  <2> QED
    BY <2>3, <2>4
<1>14. ASSUME NEW c \in Clients, InitDone(c)
       PROVE  Good
  <2>1. /\ UNCHANGED <<pc, existing, inbox>> /\ greeting'[c] = {} /\ greeting[c] # {}
        /\ \A d \in Clients \ {c} : greeting'[d] = greeting[d]
    BY <1>0, <1>14 DEF InitDone, PageTypes, serverLocals
  <2>2. CASE x = c
    BY <1>1, <2>1, <2>2 DEF JoinedMail, Told, Names
  <2> QED
    BY <1>2, <2>1, <2>2
<1>15. ASSUME NEW c \in Clients, SendOffer(c)
       PROVE  Good
  BY <1>2, <1>15 DEF SendOffer, serverLocals
<1>16. ASSUME NEW c \in Clients, HandleOffer(c)
       PROVE  Good
  <2>1. /\ UNCHANGED <<pc, greeting, existing>>
        /\ SendTo({c}, Msg("answer", {})) \/ SendTo({c}, Msg("error", {}))
    BY <1>16 DEF HandleOffer, serverLocals
  <2> QED
    BY <1>3, <2>1
<1>17. ASSUME NEW r \in Rooms, CreateRoom(r)
       PROVE  Good
  BY <1>2, <1>17 DEF CreateRoom, serverLocals, browser
<1>18. CASE UNCHANGED vars
  BY <1>2, <1>18 DEF vars, serverLocals, browser
<1> QED
  BY <1>4, <1>5, <1>6, <1>7, <1>8, <1>9, <1>10, <1>11, <1>12, <1>13, <1>14, <1>15, <1>16, <1>17,
     <1>18
  DEF Next, ServiceStep, JoinStep, LeaveStep, PageStep

-----------------------------------------------------------------------------
(***************************************************************************)
(* Who hears of whom.                                                       *)
(***************************************************************************)

(* A client that has joined is in Hub.clients and its page is open. *)
LEMMA StaysKnown ==
  ASSUME TypeOK, ControlInv, NEW c \in Clients, Stays(c)
  PROVE  /\ c \in hub /\ c \in connected /\ roomOf[c] \in Rooms
         /\ pc[c] \in AfterRoom => roomOf[c] = joining[c]
         /\ pc[c] \notin Leaves
  BY DEF TypeOK, ControlInv, Stays, AfterRoom, Joins, Open, Leaves, InLeave

(* The steps that make a client stay: only SetRoom does. *)
LEMMA StaysBefore ==
  ASSUME TypeOK, ControlInv, [Next]_vars, NEW d \in Clients, Stays(d)'
  PROVE  \/ Stays(d) /\ roomOf'[d] = roomOf[d]
         \/ SetRoom(d) /\ pc'[d] = "collect" /\ roomOf[d] = NoRoom
<1> USE DEF AfterRoom, BeforeRoom, InLeave, Stays
<1> DEFINE Before == Stays(d) /\ roomOf'[d] = roomOf[d]
<1>0. RoomTypes /\ ClientTypes
  BY TypeParts
<1>1. CASE UNCHANGED <<pc, roomOf>>
  BY <1>1
<1>2. ASSUME NEW c \in Clients, NEW v, pc' = [pc EXCEPT ![c] = v], UNCHANGED roomOf,
             v \in AfterRoom \cup {"ready"} => pc[c] \in AfterRoom \/ roomOf[c] = NoRoom
      PROVE  Before
  BY <1>0, <1>2 DEF RoomTypes
<1>3. ASSUME NEW c \in Clients,
             \/ \E r \in Rooms : GetRoom(c, r) \/ JoinUnknownRoom(c, r)
             \/ AddPeer(c) \/ AddParticipant(c) \/ CollectExisting(c) \/ SendJoined(c)
             \/ BroadcastJoin(c) \/ FindRoom(c) \/ SetupConsumers(c)
      PROVE  Before
  BY <1>2, <1>3 DEF ControlInv, At, GetRoom, JoinUnknownRoom, AddPeer, AddParticipant,
     CollectExisting, SendJoined, BroadcastJoin, FindRoom, SetupConsumers
<1>4. ASSUME NEW c \in Clients, SetRoom(c)
      PROVE  Before \/ (SetRoom(d) /\ pc'[d] = "collect" /\ roomOf[d] = NoRoom)
  BY <1>0, <1>4 DEF ControlInv, RoomTypes, ClientTypes, At, SetRoom
<1>5. ASSUME NEW c \in Clients, (\E s \in Subscriptions : AddConsumer(c, s)) \/ SetupDone(c)
      PROVE  Before
  BY <1>1, <1>2, <1>5 DEF AddConsumer, SetupDone, AbortSetup, At
<1>6. ASSUME NEW c \in Clients,
             LeaveMessage(c) \/ ConnectionLost(c) \/ ReadError(c) \/ LeaveStep(c)
      PROVE  Before
  BY <1>2, <1>6 DEF LeaveMessage, ConnectionLost, ReadError, StartLeave, LeaveStep, FindLeftRoom,
     RemoveParticipant, ReclaimRoom, RemovePeer, NotifyLeft, Unregister, CloseChannel, At
<1>7. ASSUME NEW c \in Clients, PageStep(c)
      PROVE  Before
  BY <1>1, <1>7 DEF PageStep, Receive, InitDone, SendOffer, HandleOffer
<1>8. ASSUME NEW r \in Rooms, CreateRoom(r)
      PROVE  Before
  BY <1>1, <1>8 DEF CreateRoom
<1>9. CASE UNCHANGED vars
  BY <1>1, <1>9 DEF vars
<1> QED
  BY <1>3, <1>4, <1>5, <1>6, <1>7, <1>8, <1>9 DEF Next, ServiceStep, JoinStep

(* A page that receives a message loses sight of nobody who stays. *)
LEMMA ReceiveKeeps ==
  ASSUME TypeOK, ControlInv, MailInv, NEW c \in Clients, Receive(c),
         NEW d \in Clients, pc[d] \notin Leaves
  PROVE  /\ Hears(c, d) => Hears(c, d)'
         /\ d \in transceivers[c] \cup greeting[c] \/ Told(c, {"joined"}, d)
              => d \in transceivers'[c] \cup greeting'[c] \/ Told(c, {"joined"}, d)'
<1> DEFINE m == Head(inbox[c])
<1>0. PageTypes
  BY TypeParts
<1>1. /\ \A ts, e : Told(c, ts, e) <=> Told(c, ts, e)' \/ (m.type \in ts /\ e \in m.peers)
      /\ Shorter(inbox[c], inbox'[c], m)
  BY ToldAfterReceive
<1>2. \/ /\ m.type = "joined" /\ greeting' = [greeting EXCEPT ![c] = m.peers]
         /\ UNCHANGED <<tiles, transceivers>>
      \/ m.type = "renegotiate" /\ Show(c, m.peers, c \in started) /\ UNCHANGED greeting
      \/ m.type = "peer-left" /\ Hide(c, m.peers) /\ UNCHANGED greeting
      \/ m.type \in {"answer", "error"} /\ UNCHANGED <<greeting, tiles, transceivers>>
  BY DEF Receive
<1> HIDE DEF m
<1>3. CASE /\ m.type = "joined" /\ greeting' = [greeting EXCEPT ![c] = m.peers]
           /\ UNCHANGED <<tiles, transceivers>>
  <2>1. greeting[c] = {}
    <3>1. 1 \in DOMAIN inbox[c] /\ inbox[c][1] = m
      BY <1>1 DEF Shorter
    <3> QED
      BY <1>3, <3>1 DEF MailInv, JoinedMail
  <2>2. greeting'[c] = m.peers
    BY <1>0, <1>3 DEF PageTypes
  <2> QED
    BY <1>1, <1>3, <2>1, <2>2 DEF Hears
<1>4. CASE m.type = "renegotiate" /\ Show(c, m.peers, c \in started) /\ UNCHANGED greeting
  <2>1. tiles'[c] = tiles[c] \cup m.peers /\ transceivers[c] \subseteq transceivers'[c]
    BY <1>0, <1>4 DEF Show, PageTypes
  <2> QED
    BY <1>1, <1>4, <2>1 DEF Hears
<1>5. CASE m.type = "peer-left" /\ Hide(c, m.peers) /\ UNCHANGED greeting
  <2>1. /\ tiles'[c] = tiles[c] \ m.peers
        /\ transceivers'[c] = transceivers[c] \ (m.peers \ pending[c])
    BY <1>0, <1>5 DEF Hide, PageTypes
  <2>2. d \notin m.peers
    BY <1>1, <1>5 DEF MailInv
  <2> QED
    BY <1>1, <1>5, <2>1, <2>2 DEF Hears
<1>6. CASE m.type \in {"answer", "error"} /\ UNCHANGED <<greeting, tiles, transceivers>>
  BY <1>1, <1>6 DEF Hears
<1> QED
  BY <1>2, <1>3, <1>4, <1>5, <1>6

(* What a page shows, has asked for or has still to process is lost neither  *)
(* by a step of the server nor by its own.                                   *)
LEMMA PageKeeps ==
  ASSUME TypeOK, ControlInv, MailInv, [Next]_vars,
         NEW x \in Clients, NEW y \in Clients, pc'[x] \in Open, pc[y] \notin Leaves
  PROVE  /\ Hears(x, y) => Hears(x, y)'
         /\ y \in transceivers[x] \cup greeting[x] \/ Told(x, {"joined"}, y)
              => y \in transceivers'[x] \cup greeting'[x] \/ Told(x, {"joined"}, y)'
<1> DEFINE Kept == /\ Hears(x, y) => Hears(x, y)'
                   /\ y \in transceivers[x] \cup greeting[x] \/ Told(x, {"joined"}, y)
                        => y \in transceivers'[x] \cup greeting'[x] \/ Told(x, {"joined"}, y)'
<1>0. RoomTypes /\ PageTypes /\ MailTypes /\ existing \in [Clients -> SUBSET Clients]
  BY TypeParts DEF ClientTypes
<1>1. ASSUME inbox'[x] = inbox[x], greeting'[x] = greeting[x], tiles'[x] = tiles[x],
             transceivers'[x] = transceivers[x]
      PROVE  Kept
  BY <1>1 DEF Hears, Told, Names
<1>2. ASSUME NEW S, NEW t \in {"joined", "renegotiate", "peer-left", "answer", "error"},
             NEW ps \in SUBSET Clients, SendTo(S, Msg(t, ps)),
             UNCHANGED <<greeting, tiles, transceivers>>
      PROVE  Kept
  <2>1. PICK m \in Messages : m = Msg(t, ps)
    BY SentIsMessage
  <2>2. \A ts : Told(x, ts, y) => Told(x, ts, y)'
    BY <1>2, <2>1, ToldAfterSend
  <2> QED
    BY <1>2, <2>2 DEF Hears
<1>3. ASSUME NEW c \in Clients,
             \/ \E r \in Rooms : GetRoom(c, r) \/ JoinUnknownRoom(c, r)
             \/ AddPeer(c) \/ SendJoined(c) \/ BroadcastJoin(c) \/ NotifyLeft(c) \/ HandleOffer(c)
      PROVE  Kept
  <2>1. UNCHANGED <<greeting, tiles, transceivers>>
    BY <1>3 DEF GetRoom, JoinUnknownRoom, AddPeer, SendJoined, BroadcastJoin, NotifyLeft,
       HandleOffer, browser
  <2>2. \/ UNCHANGED inbox
        \/ \E S : \E t \in {"joined", "renegotiate", "peer-left", "answer", "error"} :
             \E ps \in SUBSET Clients : SendTo(S, Msg(t, ps))
    BY <1>0, <1>3 DEF GetRoom, JoinUnknownRoom, AddPeer, SendJoined, BroadcastJoin, NotifyLeft,
       HandleOffer
  <2> QED
    BY <1>1, <1>2, <2>1, <2>2
<1>4. ASSUME NEW c \in Clients,
             \/ AddParticipant(c) \/ SetRoom(c) \/ CollectExisting(c) \/ FindRoom(c)
             \/ SetupConsumers(c) \/ (\E s \in Subscriptions : AddConsumer(c, s)) \/ SetupDone(c)
             \/ ReadError(c) \/ FindLeftRoom(c) \/ RemoveParticipant(c) \/ ReclaimRoom(c)
             \/ RemovePeer(c) \/ Unregister(c) \/ CloseChannel(c) \/ SendOffer(c)
      PROVE  Kept
  BY <1>1, <1>4 DEF AddParticipant, SetRoom, CollectExisting, FindRoom, SetupConsumers,
     AddConsumer, SetupDone, ReadError, FindLeftRoom, RemoveParticipant, ReclaimRoom, RemovePeer,
     Unregister, CloseChannel, SendOffer, browser
<1>5. ASSUME NEW c \in Clients, LeaveMessage(c) \/ ConnectionLost(c)
      PROVE  Kept
  <2>1. PageCloses(c) /\ StartLeave(c)
    BY <1>5 DEF LeaveMessage, ConnectionLost
  <2>2. c # x
    BY <1>0, <2>1 DEF StartLeave, RoomTypes, Open, Joins, BeforeRoom, AfterRoom
  <2> QED
    BY <1>0, <1>1, <2>1, <2>2 DEF PageCloses, MailTypes, PageTypes
<1>6. ASSUME NEW c \in Clients, Receive(c)
      PROVE  Kept
  <2>1. CASE c = x
    BY <1>6, <2>1, ReceiveKeeps
  <2>2. CASE c # x
    <3>1. inbox'[x] = inbox[x]
      BY <1>6, <2>2, ToldAfterReceive
    <3>2. greeting'[x] = greeting[x] /\ tiles'[x] = tiles[x] /\ transceivers'[x] = transceivers[x]
      BY <1>0, <1>6, <2>2 DEF Receive, Show, Hide, PageTypes
    <3> QED
      BY <1>1, <3>1, <3>2
  <2> QED
    BY <2>1, <2>2
<1>7. ASSUME NEW c \in Clients, InitDone(c)
      PROVE  Kept
  <2>1. /\ tiles'[c] = tiles[c] \cup greeting[c]
        /\ transceivers'[c] = transceivers[c] \cup greeting[c]
        /\ \A d \in Clients \ {c} : /\ greeting'[d] = greeting[d] /\ tiles'[d] = tiles[d]
                                    /\ transceivers'[d] = transceivers[d]
        /\ UNCHANGED inbox
    BY <1>0, <1>7 DEF InitDone, Show, PageTypes
  <2>2. CASE x = c
    BY <2>1, <2>2 DEF Hears, Told, Names
  <2> QED
    BY <1>1, <2>1, <2>2
<1>8. ASSUME NEW r \in Rooms, CreateRoom(r)
      PROVE  Kept
  BY <1>1, <1>8 DEF CreateRoom, browser
<1>9. CASE UNCHANGED vars
  BY <1>1, <1>9 DEF vars, browser
<1> QED
  BY <1>3, <1>4, <1>5, <1>6, <1>7, <1>8, <1>9
  DEF Next, ServiceStep, JoinStep, LeaveStep, PageStep

(* Before handleJoin has broadcast, only its own three steps move it on; and  *)
(* existingPeers is collected once.                                           *)
LEMMA EarlyMoves ==
  ASSUME TypeOK, [Next]_vars, NEW d \in Clients
  PROVE  /\ pc[d] \in {"collect", "sendJoined", "broadcast"} =>
               pc'[d] = pc[d] \/ CollectExisting(d) \/ SendJoined(d) \/ BroadcastJoin(d)
         /\ existing'[d] = existing[d] \/ CollectExisting(d)
<1> DEFINE P == /\ pc[d] \in {"collect", "sendJoined", "broadcast"} => pc'[d] = pc[d]
                /\ existing'[d] = existing[d]
<1>0. RoomTypes /\ ClientTypes
  BY TypeParts
<1>1. ASSUME NEW c \in Clients,
             \/ \E r \in Rooms : GetRoom(c, r) \/ JoinUnknownRoom(c, r)
             \/ AddPeer(c) \/ AddParticipant(c) \/ SetRoom(c) \/ FindRoom(c) \/ SetupConsumers(c)
      PROVE  P
  BY <1>0, <1>1 DEF RoomTypes, At, GetRoom, JoinUnknownRoom, AddPeer, AddParticipant, SetRoom,
     FindRoom, SetupConsumers, serverLocals
<1>2. ASSUME NEW c \in Clients, (\E s \in Subscriptions : AddConsumer(c, s)) \/ SetupDone(c)
      PROVE  P
  BY <1>0, <1>2 DEF RoomTypes, At, AddConsumer, SetupDone, AbortSetup
<1>3. ASSUME NEW c \in Clients,
             LeaveMessage(c) \/ ConnectionLost(c) \/ ReadError(c) \/ LeaveStep(c)
      PROVE  P
  BY <1>0, <1>3 DEF RoomTypes, At, LeaveMessage, ConnectionLost, ReadError, StartLeave, LeaveStep,
     FindLeftRoom, RemoveParticipant, ReclaimRoom, RemovePeer, NotifyLeft, Unregister, CloseChannel,
     serverLocals
<1>4. ASSUME NEW c \in Clients, PageStep(c)
      PROVE  P
  BY <1>4 DEF PageStep, Receive, InitDone, SendOffer, HandleOffer, serverLocals
<1>5. ASSUME NEW c \in Clients, c # d,
             CollectExisting(c) \/ SendJoined(c) \/ BroadcastJoin(c)
      PROVE  P
  BY <1>0, <1>5 DEF RoomTypes, ClientTypes, At, CollectExisting, SendJoined, BroadcastJoin,
     serverLocals
<1>6. CASE SendJoined(d) \/ BroadcastJoin(d)
  BY <1>6 DEF SendJoined, BroadcastJoin, serverLocals
<1>7. ASSUME NEW r \in Rooms, CreateRoom(r)
      PROVE  P
  BY <1>7 DEF CreateRoom, serverLocals
<1>8. CASE UNCHANGED vars
  BY <1>8 DEF vars, serverLocals
<1> QED
  BY <1>1, <1>2, <1>3, <1>4, <1>5, <1>6, <1>7, <1>8 DEF Next, ServiceStep, JoinStep

(* What the three steps do, seen by another client of the room. *)
LEMMA JoinTells ==
  ASSUME TypeOK, ControlInv, NEW c \in Clients, NEW d \in Clients, Share(c, d)
  PROVE  /\ CollectExisting(c) => pc[c] = "collect" /\ pc'[c] = "sendJoined" /\ d \in existing'[c]
         /\ SendJoined(c) =>
              /\ pc[c] = "sendJoined" /\ pc'[c] = "broadcast"
              /\ d \in existing[c] /\ c \notin dropped' => Told(c, {"joined"}, d)'
         /\ BroadcastJoin(c) =>
              /\ pc[c] = "broadcast" /\ pc'[c] = "setup"
              /\ d \notin dropped' => Told(d, {"renegotiate"}, c)'
<1>0. RoomTypes /\ ClientTypes
  BY TypeParts
<1>1. /\ Stays(c) /\ Stays(d) /\ roomOf[c] = roomOf[d] /\ c # d
      /\ c \in connected /\ d \in connected /\ d \in hub
  BY StaysKnown DEF Share
<1>2. pc[c] \in AfterRoom => d \in InRoom(joining[c], c)
  BY <1>1, StaysKnown DEF InRoom
<1>3. ASSUME CollectExisting(c)
      PROVE  pc[c] = "collect" /\ pc'[c] = "sendJoined" /\ d \in existing'[c]
  BY <1>0, <1>2, <1>3 DEF CollectExisting, At, RoomTypes, ClientTypes, AfterRoom
<1>4. ASSUME SendJoined(c)
      PROVE  /\ pc[c] = "sendJoined" /\ pc'[c] = "broadcast"
             /\ d \in existing[c] /\ c \notin dropped' => Told(c, {"joined"}, d)'
  <2>1. pc[c] = "sendJoined" /\ pc'[c] = "broadcast" /\ SendTo({c}, Msg("joined", existing[c]))
    BY <1>0, <1>4 DEF SendJoined, At, RoomTypes
  <2>2. existing[c] \in SUBSET Clients
    BY <1>0 DEF ClientTypes
  <2>3. PICK m \in Messages : /\ m = Msg("joined", existing[c])
                             /\ m.type = "joined" /\ m.peers = existing[c]
    BY <2>2, SentIsMessage
  <2> QED
    BY <1>1, <2>1, <2>3, ToldAfterSend
<1>5. ASSUME BroadcastJoin(c)
      PROVE  /\ pc[c] = "broadcast" /\ pc'[c] = "setup"
             /\ d \notin dropped' => Told(d, {"renegotiate"}, c)'
  <2>1. /\ pc[c] = "broadcast" /\ pc'[c] = "setup"
        /\ SendTo(InRoom(joining[c], c), Msg("renegotiate", {c}))
    BY <1>0, <1>5 DEF BroadcastJoin, At, RoomTypes
  <2>2. PICK m \in Messages : m = Msg("renegotiate", {c}) /\ m.type = "renegotiate" /\ m.peers = {c}
    BY SentIsMessage
  <2>3. d \in InRoom(joining[c], c)
    BY <1>2, <2>1 DEF AfterRoom
  <2> QED
    BY <1>1, <2>1, <2>2, <2>3, ToldAfterSend
<1> QED
  BY <1>3, <1>4, <1>5

LEMMA AwareStep ==
  TypeOK /\ ControlInv /\ MailInv /\ AwareInv /\ [Next]_vars => AwareInv'
<1> SUFFICES ASSUME TypeOK, ControlInv, MailInv, AwareInv, [Next]_vars,
                    NEW x \in Clients, NEW y \in Clients, Share(x, y)', x \notin dropped'
             PROVE  Aware(x, y)'
  BY DEF AwareInv
<1>1. CASE pc'[x] = "collect" \/ pc'[y] = "collect"
  BY <1>1 DEF Aware
<1>2. CASE pc'[x] # "collect" /\ pc'[y] # "collect"
  <2>1. Share(x, y) /\ Share(y, x)
    BY <1>2, StaysBefore DEF Share
  <2>2. Aware(x, y)
    BY <2>1, Onward DEF AwareInv
  <2>3. Hears(x, y) => Hears(x, y)'
    <3>1. pc'[x] \in Open
      BY DEF Share, Stays, Open, Joins
    <3>2. pc[y] \notin Leaves
      BY <2>1, StaysKnown DEF Share
    <3> QED
      BY <3>1, <3>2, PageKeeps
  <2>4. CASE pc[x] = "collect"
    <3>1. CollectExisting(x)
      BY <1>2, <2>4, EarlyMoves, <2>1, JoinTells
    <3> QED
      BY <2>1, <3>1, JoinTells DEF Aware
  <2>5. CASE pc[x] = "sendJoined" /\ y \in existing[x]
    <3>1. CASE SendJoined(x)
      BY <2>1, <2>5, <3>1, JoinTells DEF Aware, Hears, Told, Names
    <3>2. CASE ~SendJoined(x)
      <4>1. pc'[x] = pc[x] /\ existing'[x] = existing[x]
        BY <2>1, <2>5, <3>2, EarlyMoves, JoinTells
      <4> QED
        BY <2>5, <4>1 DEF Aware
    <3> QED
      BY <3>1, <3>2
  <2>6. CASE pc[y] \in {"collect", "sendJoined", "broadcast"}
    <3>1. CASE BroadcastJoin(y)
      BY <2>1, <3>1, JoinTells DEF Aware, Hears, Told, Names
    <3>2. CASE ~BroadcastJoin(y)
      BY <2>1, <2>6, <3>2, EarlyMoves, JoinTells DEF Aware
    <3> QED
      BY <3>1, <3>2
  <2> QED
    BY <2>2, <2>3, <2>4, <2>5, <2>6 DEF Aware
<1> QED
  BY <1>1, <1>2

LEMMA SubscribeStep ==
  /\ TypeOK /\ ControlInv /\ ExistingInv /\ MailInv /\ SubscribeInv /\ [Next]_vars
  => SubscribeInv'
<1> SUFFICES ASSUME TypeOK, ControlInv, ExistingInv, MailInv, SubscribeInv, [Next]_vars,
                    NEW x \in Clients, NEW y \in Clients, Share(x, y)', pc'[x] # "collect"
             PROVE  /\ pc'[y] # "collect" => y \in existing'[x] \/ x \in existing'[y]
                    /\ y \in existing'[x] /\ pc'[x] # "sendJoined" /\ x \notin dropped' =>
                          \/ y \in transceivers'[x] \cup greeting'[x]
                          \/ Told(x, {"joined"}, y)'
  BY DEF SubscribeInv
<1>1. Stays(x) /\ roomOf'[x] = roomOf[x]
  BY StaysBefore DEF Share
<1>2. CASE SetRoom(y) /\ pc'[y] = "collect" /\ roomOf[y] = NoRoom
  <2>1. existing' = existing
    BY <1>2 DEF SetRoom, serverLocals
  <2>2. y \notin existing'[x]
    BY <1>2, <2>1 DEF ExistingInv
  <2> QED
    BY <1>2, <2>2
<1>3. CASE Stays(y) /\ roomOf'[y] = roomOf[y]
  <2>1. Share(x, y) /\ Share(y, x)
    BY <1>1, <1>3 DEF Share
  <2>2. CASE pc[x] = "collect"
    <3>1. CollectExisting(x)
      BY <2>1, <2>2, EarlyMoves, JoinTells
    <3> QED
      BY <2>1, <3>1, JoinTells
  <2>3. CASE pc[x] # "collect"
    <3>1. existing'[x] = existing[x]
      BY <2>1, <2>3, EarlyMoves, JoinTells
    <3>2. ASSUME pc'[y] # "collect"
          PROVE  y \in existing'[x] \/ x \in existing'[y]
      <4>1. CASE pc[y] = "collect"
        <5>1. CollectExisting(y)
          BY <2>1, <3>2, <4>1, EarlyMoves, JoinTells
        <5> QED
          BY <2>1, <5>1, JoinTells
      <4>2. CASE pc[y] # "collect"
        <5>1. existing'[y] = existing[y]
          BY <2>1, <4>2, EarlyMoves, JoinTells
        <5> QED
          BY <2>1, <2>3, <3>1, <4>2, <5>1 DEF SubscribeInv
      <4> QED
        BY <4>1, <4>2
    <3>3. ASSUME y \in existing'[x], pc'[x] # "sendJoined", x \notin dropped'
          PROVE  y \in transceivers'[x] \cup greeting'[x] \/ Told(x, {"joined"}, y)'
      <4>1. CASE pc[x] = "sendJoined"
        <5>1. SendJoined(x)
          BY <2>1, <3>3, <4>1, EarlyMoves, JoinTells
        <5> QED
          BY <2>1, <3>1, <3>3, <5>1, JoinTells
      <4>2. CASE pc[x] # "sendJoined"
        <5>1. x \notin dropped
          BY <3>3, Onward
        <5>2. y \in transceivers[x] \cup greeting[x] \/ Told(x, {"joined"}, y)
          BY <2>1, <2>3, <3>1, <3>3, <4>2, <5>1 DEF SubscribeInv
        <5>3. pc'[x] \in Open /\ pc[y] \notin Leaves
          BY <2>1, StaysKnown DEF Share, Stays, Open, Joins
        <5> QED
          BY <5>2, <5>3, PageKeeps
      <4> QED
        BY <4>1, <4>2
    <3> QED
      BY <3>2, <3>3
  <2> QED
    BY <2>2, <2>3
<1> QED
  BY <1>2, <1>3, StaysBefore DEF Share

-----------------------------------------------------------------------------
(***************************************************************************)
(* Who leaves disappears.                                                   *)
(***************************************************************************)

(* Pages only close, a room once set stays, and a client is away only after  *)
(* the broadcast of "peer-left", unless it never had a room.                 *)
LEMMA AwayMoves ==
  ASSUME TypeOK, ControlInv, [Next]_vars, NEW d \in Clients
  PROVE  /\ d \in connected' => d \in connected
         /\ roomOf[d] # NoRoom => roomOf'[d] = roomOf[d]
         /\ pc'[d] \in Away => pc[d] \in Away \/ roomOf[d] = NoRoom \/ NotifyLeft(d)
<1> USE DEF Away
<1> DEFINE P == /\ d \in connected' => d \in connected
                /\ roomOf[d] # NoRoom => roomOf'[d] = roomOf[d]
                /\ pc'[d] \in Away => pc[d] \in Away \/ roomOf[d] = NoRoom
<1>0. RoomTypes /\ ClientTypes
  BY TypeParts
<1>1. ASSUME NEW c \in Clients,
             \/ \E r \in Rooms : GetRoom(c, r) \/ JoinUnknownRoom(c, r)
             \/ AddPeer(c) \/ AddParticipant(c) \/ CollectExisting(c) \/ SendJoined(c)
             \/ BroadcastJoin(c) \/ FindRoom(c) \/ SetupConsumers(c)
      PROVE  P
  BY <1>0, <1>1 DEF RoomTypes, At, GetRoom, JoinUnknownRoom, AddPeer, AddParticipant,
     CollectExisting, SendJoined, BroadcastJoin, FindRoom, SetupConsumers
<1>2. ASSUME NEW c \in Clients, SetRoom(c)
      PROVE  P
  BY <1>0, <1>2 DEF RoomTypes, ClientTypes, ControlInv, BeforeRoom, At, SetRoom
<1>3. ASSUME NEW c \in Clients, (\E s \in Subscriptions : AddConsumer(c, s)) \/ SetupDone(c)
      PROVE  P
  BY <1>0, <1>3 DEF RoomTypes, At, AddConsumer, SetupDone, AbortSetup
<1>4. ASSUME NEW c \in Clients, LeaveMessage(c) \/ ConnectionLost(c) \/ ReadError(c)
      PROVE  P
  BY <1>0, <1>4 DEF RoomTypes, LeaveMessage, ConnectionLost, ReadError, StartLeave, PageCloses
<1>5. ASSUME NEW c \in Clients,
             \/ FindLeftRoom(c) \/ RemoveParticipant(c) \/ ReclaimRoom(c) \/ RemovePeer(c)
             \/ Unregister(c) \/ CloseChannel(c)
             \/ NotifyLeft(c) /\ c # d
      PROVE  P
  BY <1>0, <1>5 DEF RoomTypes, At, FindLeftRoom, RemoveParticipant, ReclaimRoom, RemovePeer,
     NotifyLeft, Unregister, CloseChannel
<1>6. CASE NotifyLeft(d)
  BY <1>6 DEF NotifyLeft
<1>7. ASSUME NEW c \in Clients, PageStep(c)
      PROVE  P
  BY <1>7 DEF PageStep, Receive, InitDone, SendOffer, HandleOffer
<1>8. ASSUME NEW r \in Rooms, CreateRoom(r)
      PROVE  P
  BY <1>8 DEF CreateRoom
<1>9. CASE UNCHANGED vars
  BY <1>9 DEF vars
<1> QED
  BY <1>1, <1>2, <1>3, <1>4, <1>5, <1>6, <1>7, <1>8, <1>9 DEF Next, ServiceStep, JoinStep, LeaveStep

(* The page that is not made to show d need not be told to hide it. *)
LEMMA NothingToHide ==
  ASSUME NEW c, NEW d, ~Shown(c, d)
  PROVE  Farewell(c, d)
  BY DEF Shown, Farewell, Told

(* Receiving brings the page closer to hiding d, never past it. *)
LEMMA ReceiveHides ==
  ASSUME TypeOK, MailInv, NEW c \in Clients, Receive(c), NEW d \in Clients
  PROVE  /\ Shown(c, d)' => Shown(c, d)
         /\ Farewell(c, d) => Farewell(c, d)'
<1> DEFINE m == Head(inbox[c])
<1>0. PageTypes
  BY TypeParts
<1>1. /\ Shorter(inbox[c], inbox'[c], m)
      /\ \A ts, e : Told(c, ts, e) <=> Told(c, ts, e)' \/ (m.type \in ts /\ e \in m.peers)
  BY ToldAfterReceive
<1>2. \/ m.type = "renegotiate" /\ Show(c, m.peers, c \in started)
      \/ m.type = "peer-left" /\ Hide(c, m.peers)
      \/ m.type \in {"joined", "answer", "error"} /\ UNCHANGED tiles
  BY DEF Receive
<1> HIDE DEF m
<1>3. /\ m.type = "renegotiate" => tiles'[c] = tiles[c] \cup m.peers
      /\ m.type = "peer-left" => tiles'[c] = tiles[c] \ m.peers
      /\ m.type \notin {"renegotiate", "peer-left"} => tiles'[c] = tiles[c]
  BY <1>0, <1>2 DEF Show, Hide, PageTypes
<1>4. Shown(c, d)' => Shown(c, d)
  BY <1>1, <1>3 DEF Shown
<1>5. ASSUME Farewell(c, d), d \in tiles'[c]
      PROVE  Told(c, {"peer-left"}, d)'
  <2>1. ~(m.type = "peer-left" /\ d \in m.peers)
    BY <1>3, <1>5
  <2>2. Told(c, {"peer-left"}, d)
    <3>1. CASE d \in tiles[c]
      BY <1>5, <3>1 DEF Farewell
    <3>2. CASE d \notin tiles[c]
      <4>1. m.type = "renegotiate" /\ d \in m.peers
        BY <1>3, <1>5, <3>2
      <4>2. 1 \in DOMAIN inbox[c] /\ Names(c, 1, {"renegotiate"}, d)
        BY <1>1, <4>1 DEF Shorter, Names
      <4> QED
        BY <1>5, <4>2 DEF Farewell, Told
    <3> QED
      BY <3>1, <3>2
  <2> QED
    BY <1>1, <2>1, <2>2
<1>6. ASSUME Farewell(c, d), NEW i \in DOMAIN inbox'[c], Names(c, i, {"renegotiate"}, d)'
      PROVE  \E j \in DOMAIN inbox'[c] : j > i /\ Names(c, j, {"peer-left"}, d)'
  <2>1. /\ i \in Nat /\ i >= 1 /\ i + 1 \in DOMAIN inbox[c] /\ inbox'[c][i] = inbox[c][i + 1]
    BY <1>1 DEF Shorter
  <2>2. Names(c, i + 1, {"renegotiate"}, d)
    BY <1>6, <2>1 DEF Names
  <2>3. PICK j \in DOMAIN inbox[c] : j > i + 1 /\ Names(c, j, {"peer-left"}, d)
    BY <1>6, <2>1, <2>2 DEF Farewell
  <2>4. j \in Nat /\ j <= Len(inbox[c]) /\ Len(inbox[c]) \in Nat
    BY <1>1, <2>3 DEF Shorter
  <2>5. j - 1 \in 1..(Len(inbox[c]) - 1) /\ (j - 1) + 1 = j /\ j - 1 > i
    BY <2>1, <2>3, <2>4
  <2>6. j - 1 \in DOMAIN inbox'[c] /\ inbox'[c][j - 1] = inbox[c][j]
    BY <1>1, <2>5 DEF Shorter
  <2>7. Names(c, j - 1, {"peer-left"}, d)'
    BY <2>3, <2>6 DEF Names
  <2> QED
    BY <2>5, <2>6, <2>7
<1> QED
  BY <1>4, <1>5, <1>6 DEF Farewell

(* A message behind the others takes nothing back. *)
LEMMA SendHides ==
  ASSUME TypeOK, NEW S, NEW m \in Messages, SendTo(S, m), UNCHANGED tiles,
         NEW c \in Clients, NEW d \in Clients, ~(m.type = "renegotiate" /\ d \in m.peers)
  PROVE  /\ Shown(c, d)' => Shown(c, d)
         /\ Farewell(c, d) => Farewell(c, d)'
<1>1. /\ Told(c, {"renegotiate"}, d)' => Told(c, {"renegotiate"}, d)
      /\ Told(c, {"peer-left"}, d) => Told(c, {"peer-left"}, d)'
  BY ToldAfterSend
<1>2. Shown(c, d)' => Shown(c, d)
  BY <1>1 DEF Shown
<1>3. ASSUME Farewell(c, d), NEW i \in DOMAIN inbox'[c], Names(c, i, {"renegotiate"}, d)'
      PROVE  \E j \in DOMAIN inbox'[c] : j > i /\ Names(c, j, {"peer-left"}, d)'
  <2>1. CASE inbox'[c] = inbox[c]
    BY <1>3, <2>1 DEF Farewell, Names
  <2>2. CASE Longer(inbox[c], inbox'[c], m)
    <3>1. i \in DOMAIN inbox[c] /\ inbox'[c][i] = inbox[c][i]
      BY <1>3, <2>2 DEF Longer, Names
    <3>2. PICK j \in DOMAIN inbox[c] : j > i /\ Names(c, j, {"peer-left"}, d)
      BY <1>3, <3>1 DEF Farewell, Names
    <3>3. j \in DOMAIN inbox'[c] /\ inbox'[c][j] = inbox[c][j]
      BY <2>2, <3>2 DEF Longer
    <3> QED
      BY <3>2, <3>3 DEF Names
  <2> QED
    BY <2>1, <2>2, SentIsLast
<1> QED
  BY <1>1, <1>2, <1>3 DEF Farewell

(* Who broadcasts "peer-left" is hidden by every page that shows it. *)
LEMMA NotifyHides ==
  ASSUME TypeOK, ControlInv, NEW d \in Clients, NotifyLeft(d),
         NEW c \in Clients, c \in connected, c \notin dropped', roomOf[c] = roomOf[d]
  PROVE  Farewell(c, d)'
<1>0. RoomTypes
  BY TypeParts
<1>1. pc[d] = "notifyLeft" /\ SendTo(InRoom(roomOf[d], d), Msg("peer-left", {d}))
  BY DEF NotifyLeft, At
<1>2. PICK m \in Messages : m = Msg("peer-left", {d}) /\ m.type = "peer-left" /\ m.peers = {d}
  BY SentIsMessage
<1>3. c \in InRoom(roomOf[d], d)
  BY <1>1 DEF ControlInv, InRoom, Open, Joins, BeforeRoom, AfterRoom
<1>4. Longer(inbox[c], inbox'[c], m)
  BY <1>1, <1>2, <1>3, SentIsLast
<1>5. Told(c, {"peer-left"}, d)'
  BY <1>1, <1>2, <1>3, ToldAfterSend
<1>6. ASSUME NEW i \in DOMAIN inbox'[c], Names(c, i, {"renegotiate"}, d)'
      PROVE  \E j \in DOMAIN inbox'[c] : j > i /\ Names(c, j, {"peer-left"}, d)'
  <2>1. i # Len(inbox[c]) + 1
    BY <1>2, <1>4, <1>6 DEF Longer, Names
  <2>2. Len(inbox[c]) + 1 \in DOMAIN inbox'[c] /\ Len(inbox[c]) + 1 > i
    BY <1>4, <2>1 DEF Longer
  <2> QED
    BY <1>2, <1>4, <2>2 DEF Longer, Names
<1> QED
  BY <1>5, <1>6 DEF Farewell

LEMMA GoneStep ==
  TypeOK /\ ControlInv /\ ExistingInv /\ MailInv /\ GoneInv /\ [Next]_vars => GoneInv'
<1> SUFFICES ASSUME TypeOK, ControlInv, ExistingInv, MailInv, GoneInv, [Next]_vars,
                    NEW x \in Clients, NEW y \in Clients, x \in connected', y \notin existing'[x]
             PROVE  /\ Shown(x, y)' => roomOf'[x] = roomOf'[y] /\ roomOf'[y] # NoRoom
                    /\ pc'[y] \in Away /\ x \notin dropped' => Farewell(x, y)'
  BY DEF GoneInv
<1> DEFINE Good == /\ Shown(x, y)' => roomOf'[x] = roomOf'[y] /\ roomOf'[y] # NoRoom
                   /\ pc'[y] \in Away /\ x \notin dropped' => Farewell(x, y)'
<1>0. /\ RoomTypes /\ ClientTypes /\ PageTypes /\ MailTypes
  BY TypeParts
<1>1. x \in connected /\ y \notin existing[x]
  <2>1. x \in connected
    BY AwayMoves
  <2>2. CollectExisting(x) => existing[x] = {}
    BY DEF CollectExisting, At, ExistingInv
  <2> QED
    BY <2>1, <2>2, EarlyMoves
<1>2. /\ Shown(x, y) => roomOf[x] = roomOf[y] /\ roomOf[y] # NoRoom
      /\ pc[y] \in Away /\ x \notin dropped' => Farewell(x, y)
  BY <1>1, Onward DEF GoneInv
<1>3. ASSUME Shown(x, y)' => Shown(x, y), Farewell(x, y) => Farewell(x, y)', ~NotifyLeft(y)
      PROVE  Good
  <2>1. Shown(x, y) => roomOf'[x] = roomOf'[y] /\ roomOf'[y] # NoRoom
    BY <1>2, AwayMoves
  <2>2. ASSUME pc'[y] \in Away, x \notin dropped'
        PROVE  Farewell(x, y)
    <3>1. CASE pc[y] \in Away
      BY <1>2, <2>2, <3>1
    <3>2. CASE roomOf[y] = NoRoom
      BY <1>2, <3>2, NothingToHide
    <3> QED
      BY <1>3, <2>2, <3>1, <3>2, AwayMoves
  <2> QED
    BY <1>3, <2>1, <2>2
<1>4. ASSUME inbox'[x] = inbox[x], tiles'[x] = tiles[x], ~NotifyLeft(y)
      PROVE  Good
  BY <1>3, <1>4 DEF Shown, Farewell, Told, Names
<1>5. ASSUME NEW S, NEW t \in {"joined", "renegotiate", "peer-left", "answer", "error"},
             NEW ps \in SUBSET Clients, SendTo(S, Msg(t, ps)), UNCHANGED tiles,
             ~(t = "renegotiate" /\ y \in ps), ~NotifyLeft(y)
      PROVE  Good
  <2>1. PICK m \in Messages : m = Msg(t, ps) /\ m.type = t /\ m.peers = ps
    BY SentIsMessage
  <2> QED
    BY <1>3, <1>5, <2>1, SendHides
<1>6. ASSUME pc[y] # "notifyLeft"
      PROVE  ~NotifyLeft(y)
  BY <1>6 DEF NotifyLeft, At
<1>7. ASSUME UNCHANGED pc
      PROVE  ~NotifyLeft(y)
  BY <1>0, <1>7 DEF NotifyLeft, At, RoomTypes
<1>8. ASSUME NEW c \in Clients, NEW v, pc[c] # "notifyLeft", pc' = [pc EXCEPT ![c] = v]
      PROVE  ~NotifyLeft(y)
  BY <1>0, <1>8 DEF NotifyLeft, At, RoomTypes
<1>9. ASSUME NEW c \in Clients,
             \/ \E r \in Rooms : GetRoom(c, r)
             \/ AddParticipant(c) \/ SetRoom(c) \/ CollectExisting(c) \/ FindRoom(c)
             \/ SetupConsumers(c)
      PROVE  Good
  BY <1>4, <1>8, <1>9 DEF GetRoom, AddParticipant, SetRoom, CollectExisting, FindRoom,
     SetupConsumers, At, browser
<1>10. ASSUME NEW c \in Clients,
              \/ (\E r \in Rooms : JoinUnknownRoom(c, r)) \/ AddPeer(c) \/ SendJoined(c)
       PROVE  Good
  <2>1. ~NotifyLeft(y) /\ UNCHANGED tiles
    BY <1>8, <1>10 DEF JoinUnknownRoom, AddPeer, SendJoined, At, browser
  <2>2. existing[c] \in SUBSET Clients
    BY <1>0 DEF ClientTypes
  <2>3. \/ UNCHANGED inbox
        \/ SendTo({c}, Msg("error", {})) \/ SendTo({c}, Msg("joined", existing[c]))
    BY <1>10 DEF JoinUnknownRoom, AddPeer, SendJoined
  <2> QED
    BY <1>4, <1>5, <2>1, <2>2, <2>3
<1>11. ASSUME NEW c \in Clients, BroadcastJoin(c)
       PROVE  Good
  <2>1. /\ pc[c] = "broadcast" /\ pc'[c] = "setup" /\ ~NotifyLeft(y) /\ UNCHANGED <<tiles, roomOf>>
        /\ SendTo(InRoom(joining[c], c), Msg("renegotiate", {c}))
    BY <1>0, <1>8, <1>11 DEF BroadcastJoin, At, RoomTypes, browser
  <2>2. CASE y = c
    <3>1. roomOf[y] = joining[y] /\ roomOf[y] # NoRoom
      BY <2>1, <2>2, SignalingAssumption DEF ControlInv, AfterRoom, Joins
    <3>2. PICK m \in Messages : m = Msg("renegotiate", {c})
      BY SentIsMessage
    <3>3. Told(x, {"renegotiate"}, y)' => Told(x, {"renegotiate"}, y) \/ x \in InRoom(joining[c], c)
      BY <2>1, <3>2, ToldAfterSend
    <3>4. Shown(x, y)' => roomOf[x] = roomOf[y]
      BY <1>2, <2>1, <2>2, <3>1, <3>3 DEF Shown, InRoom
    <3> QED
      BY <2>1, <2>2, <3>1, <3>4 DEF Away
  <2>3. CASE y # c
    BY <1>5, <2>1, <2>3
  <2> QED
    BY <2>2, <2>3
<1>12. ASSUME NEW c \in Clients, (\E s \in Subscriptions : AddConsumer(c, s)) \/ SetupDone(c)
       PROVE  Good
  BY <1>4, <1>7, <1>8, <1>12 DEF AddConsumer, SetupDone, AbortSetup, At, browser
<1>13. ASSUME NEW c \in Clients, LeaveMessage(c) \/ ConnectionLost(c)
       PROVE  Good
  <2>1. PageCloses(c) /\ StartLeave(c) /\ pc[c] # "notifyLeft"
    BY <1>13 DEF LeaveMessage, ConnectionLost
  <2>2. c # x
    BY <2>1 DEF PageCloses
  <2>3. ~NotifyLeft(y)
    BY <1>8, <2>1 DEF StartLeave
  <2>4. inbox'[x] = inbox[x] /\ tiles'[x] = tiles[x]
    BY <1>0, <2>1, <2>2 DEF PageCloses, MailTypes, PageTypes
  <2> QED
    BY <1>4, <2>3, <2>4
<1>14. ASSUME NEW c \in Clients, ReadError(c)
       PROVE  Good
  BY <1>4, <1>8, <1>14 DEF ReadError, StartLeave, browser
<1>15. ASSUME NEW c \in Clients,
              \/ FindLeftRoom(c) \/ RemoveParticipant(c) \/ ReclaimRoom(c) \/ RemovePeer(c)
              \/ Unregister(c) \/ CloseChannel(c)
       PROVE  Good
  BY <1>4, <1>8, <1>15 DEF FindLeftRoom, RemoveParticipant, ReclaimRoom, RemovePeer, Unregister,
     CloseChannel, At, browser
<1>16. ASSUME NEW c \in Clients, NotifyLeft(c)
       PROVE  Good
  <2>1. /\ UNCHANGED <<tiles, roomOf>>
        /\ pc[c] = "notifyLeft" /\ pc' = [pc EXCEPT ![c] = "unregister"]
        /\ SendTo(InRoom(roomOf[c], c), Msg("peer-left", {c}))
    BY <1>16 DEF NotifyLeft, At, browser
  <2>2. CASE y = c
    <3>1. PICK m \in Messages : m = Msg("peer-left", {c}) /\ m.type = "peer-left"
      BY SentIsMessage
    <3>2. Shown(x, y)' => Shown(x, y)
      BY <2>1, <3>1, SendHides
    <3>3. CASE roomOf[x] = roomOf[y]
      BY <1>1, <1>2, <1>16, <2>1, <2>2, <3>2, <3>3, NotifyHides
    <3>4. CASE roomOf[x] # roomOf[y]
      <4>1. ~Shown(x, y)'
        BY <1>2, <3>2, <3>4
      <4>2. Farewell(x, y)'
        BY <4>1 DEF Shown, Farewell, Told
      <4> QED
        BY <4>1, <4>2
    <3> QED
      BY <3>3, <3>4
  <2>3. CASE y # c
    <3>1. ~NotifyLeft(y)
      BY <1>0, <2>1, <2>3 DEF NotifyLeft, At, RoomTypes
    <3> QED
      BY <1>5, <2>1, <3>1
  <2> QED
    BY <2>2, <2>3
<1>17. ASSUME NEW c \in Clients, Receive(c)
       PROVE  Good
  <2>1. ~NotifyLeft(y)
    BY <1>7, <1>17 DEF Receive
  <2>2. CASE c = x
    BY <1>3, <1>17, <2>1, <2>2, ReceiveHides
  <2>3. CASE c # x
    <3>1. inbox'[x] = inbox[x]
      BY <1>17, <2>3, ToldAfterReceive
    <3>2. tiles'[x] = tiles[x]
      BY <1>0, <1>17, <2>3 DEF Receive, Show, Hide, PageTypes
    <3> QED
      BY <1>4, <2>1, <3>1, <3>2
  <2> QED
    BY <2>2, <2>3
<1>18. ASSUME NEW c \in Clients, InitDone(c)
       PROVE  Good
  <2>1. /\ tiles'[c] = tiles[c] \cup greeting[c]
        /\ \A d \in Clients \ {c} : tiles'[d] = tiles[d]
        /\ UNCHANGED <<inbox, pc>>
    BY <1>0, <1>18 DEF InitDone, Show, PageTypes
  <2>2. y \notin greeting[x]
    BY <1>1 DEF MailInv, JoinedMail
  <2>3. y \in tiles'[x] <=> y \in tiles[x]
    BY <2>1, <2>2
  <2> QED
    BY <1>3, <1>7, <2>1, <2>3 DEF Shown, Farewell, Told, Names
<1>19. ASSUME NEW c \in Clients, SendOffer(c)
       PROVE  Good
  BY <1>4, <1>7, <1>19 DEF SendOffer
<1>20. ASSUME NEW c \in Clients, HandleOffer(c)
       PROVE  Good
  <2>1. /\ UNCHANGED <<pc, tiles>>
        /\ SendTo({c}, Msg("answer", {})) \/ SendTo({c}, Msg("error", {}))
    BY <1>20 DEF HandleOffer
  <2> QED
    BY <1>5, <1>7, <2>1
<1>21. ASSUME NEW r \in Rooms, CreateRoom(r)
       PROVE  Good
  BY <1>4, <1>7, <1>21 DEF CreateRoom, browser
<1>22. CASE UNCHANGED vars
  BY <1>4, <1>7, <1>22 DEF vars, browser
<1> QED
  BY <1>9, <1>10, <1>11, <1>12, <1>13, <1>14, <1>15, <1>16, <1>17, <1>18, <1>19, <1>20, <1>21, <1>22
  DEF Next, ServiceStep, JoinStep, LeaveStep, PageStep

-----------------------------------------------------------------------------
LEMMA MailHolds == Spec => [](TypeOK /\ ControlInv /\ ExistingInv /\ MailInv)
<1>1. Init => MailInv
  BY DEF Init, MailInv, JoinedMail, Told
<1> QED
  BY <1>1, ExistingHolds, MailStep, PTL DEF Spec

(* However two joins interleave, each page has been told of the other        *)
(* participant unless a full channel has dropped a message: handleJoin sets  *)
(* roomID before it collects existingPeers and broadcasts (hub.go).          *)
THEOREM EveryoneAware == Spec => []PeersAware
<1>1. Init => AwareInv
  BY DEF Init, AwareInv, Share, Stays
<1>2. TypeOK /\ AwareInv => PeersAware
  <2> SUFFICES ASSUME TypeOK, AwareInv, NEW c \in Clients, NEW d \in Clients, NEW r \in Rooms,
                      Together(c, d, r), c \notin dropped
               PROVE  d \in tiles[c] \cup Announced(c)
    BY DEF PeersAware
  <2>1. Share(c, d) /\ pc[c] = "ready" /\ pc[d] = "ready"
    BY DEF Together, Share, Stays
  <2>2. Hears(c, d)
    BY <2>1 DEF AwareInv, Aware
  <2>3. ASSUME Told(c, {"joined", "renegotiate"}, d)
        PROVE  d \in Announced(c)
    <3>1. DOMAIN inbox[c] = 1..Len(inbox[c])
      BY DEF TypeOK
    <3> QED
      BY <2>3, <3>1 DEF Told, Names, Announced
  <2> QED
    BY <2>2, <2>3 DEF Hears, Announced
<1> QED
  BY <1>1, <1>2, MailHolds, AwareStep, PTL DEF Spec

(* Of two participants whose pages have processed all they were sent, at     *)
(* least one has asked for the media of the other: of two joins the later to *)
(* collect existingPeers finds the other (hub.go, room.html).                *)
THEOREM OneSideAsks == Spec => []OneSideSubscribed
<1>1. Init => SubscribeInv
  BY DEF Init, SubscribeInv, Share, Stays
<1>2. TypeOK /\ SubscribeInv => OneSideSubscribed
  <2> SUFFICES ASSUME TypeOK, SubscribeInv, NEW c \in Clients, NEW d \in Clients, NEW r \in Rooms,
                      Together(c, d, r), Settled(c), Settled(d)
               PROVE  d \in transceivers[c] \/ c \in transceivers[d]
    BY DEF OneSideSubscribed
  <2>1. Share(c, d) /\ Share(d, c) /\ pc[c] = "ready" /\ pc[d] = "ready"
    BY DEF Together, Share, Stays
  <2>2. ~Told(c, {"joined"}, d) /\ ~Told(d, {"joined"}, c)
    BY DEF Settled, Told
  <2> QED
    BY <2>1, <2>2 DEF SubscribeInv, Settled
<1> QED
  BY <1>1, <1>2, MailHolds, SubscribeStep, PTL DEF Spec

(* Who was announced by "renegotiate" and is gone is shown no more by a page *)
(* that has processed all it was sent: "peer-left" is behind every           *)
(* "renegotiate" in the same queue (hub.go, handleLeave).                    *)
THEOREM NoGhosts == Spec => []LeaversDisappear
<1>1. Init => GoneInv
  BY DEF Init, GoneInv, Shown, Farewell, Told
<1>2. TypeOK /\ ControlInv /\ GoneInv => LeaversDisappear
  <2> SUFFICES ASSUME TypeOK, ControlInv, GoneInv, NEW c \in Clients, NEW d \in Clients,
                      Settled(c), pc[d] = "gone", d \notin existing[c]
               PROVE  d \notin tiles[c]
    BY DEF LeaversDisappear
  <2>1. c \in connected
    BY DEF Settled, ControlInv, Open
  <2>2. Farewell(c, d)
    BY <2>1 DEF GoneInv, Settled, Away
  <2> QED
    BY <2>2 DEF Farewell, Told, Settled
<1> QED
  BY <1>1, <1>2, MailHolds, GoneStep, PTL DEF Spec
=============================================================================
