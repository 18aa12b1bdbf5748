# NameCon: TLA+ models and proofs

NameCon is a WebRTC conference: a page in each browser (`web/`), a signalling
server in Go (`signal-svc/`) and a selective forwarding unit in C++
(`media-svc/`). This directory holds TLA+ modules of the parts that keep state
and run concurrently, TLC configurations that check them on small instances, and
theorems that TLAPS proves for every size. `PROJECT.json` lists components,
runs, mutants, findings, hazards, theorems and, for every definition, the source
lines it stands for. Paths below are relative to the repository.

## 1. Inventory

### The parts and what they keep

| Part | State | Operations |
|---|---|---|
| `media-svc/sfu/Router`, `RouteTable` | per Peer the vectors `producers`, `consumers`; `_allPeers`; `_outSsrcToConsumer`; `_ssrcToPeer` | `addConsumer`, `bindConsumerByMid`, `getAllBoundSsrcs`, `removePeer`, `onRtpPacket`, `onRtcpPacket` |
| `media-svc/grpc/MediaServiceImpl` | `_peers` | `AddPeer`, `SendOffer`, `AddConsumer`, `RemoveConsumer` (placeholder), `RemovePeer` |
| `media-svc/transport/PacketRouter` | `_peerMap` (endpoint to Peer), `_pendingPeers` | `registerPeer`, `getOrCreatePeer`, `handleDtls`, `handleSrtp` |
| `DtlsContext`, `SrtpContext` | handshake state, keys | `handlePacket`, `exportSrtpKeys`, `init`, `protect`/`unprotect` |
| `UdpServer`, `IceServer` | socket, one receive buffer; ICE credentials of the process | receive loop, `sendTo`; STUN answers |
| `SdpParser`, `RtpHeader`, `RtcpHandler` | static payload type sets, shared by all peers | parsing and generation |
| `signal-svc` `signaling.Hub`, `Client` | `clients`; per client `peerID`, `roomID`, channel `send` (32) | `handleJoin`, `handleOffer`, `handleLeave`, `broadcastToRoom`, pumps |
| `signal-svc` `room.Manager` | `rooms`, per room `Participants` | `CreateRoom`, `GetRoom`, `AddParticipant`, `RemoveParticipant`, `SetupConsumers` |
| `web/js/webrtc.js`, `web/room.html` | queue, flags, pending transceivers, inactive pool, `_midPeerMap`, `_answerResolver` | `init`, `renegotiate`, camera, ICE restart, `setAnswer`, handlers of messages |

### How they interact

A page sends `join`, `offer`, `leave` over a WebSocket; `readPump` handles one
message after another, a goroutine per client. `handleJoin` calls
`AddParticipant` (gRPC `AddPeer`), tells the page (`joined`) and the room
(`renegotiate`), and calls `SetupConsumers` (gRPC `AddConsumer` for every ordered
pair and kind). An offer becomes gRPC `SendOffer`, which binds mids to Consumers
and returns the answer. `handleLeave` calls `RemoveParticipant` (gRPC
`RemovePeer`) and broadcasts `peer-left`. Media comes by UDP from the browser:
STUN, then a DTLS handshake, then SRTP; the first packet of an endpoint binds it
to a pending Peer. gRPC calls run on several threads; UDP packets are handled one
at a time on whichever of five threads.

### What is hard

Pointers used after the lock is released; a Producer and its Consumers that may
come in either order; links kept in four places and undone by one function; a
binding of endpoints to Peers by order of arrival; lost and repeated handshake
flights; one receive buffer read in place and sends that outlive the stack they
point to; numbers that wrap, rewritten on the way out and translated back for
feedback; mids that are used again while old Consumers still hold them; joins and leaves of one room that interleave between locks, gRPC calls
and channel operations; JavaScript handlers that interleave at every `await`.
`PROJECT.json` lists these as hazards, each at its line, with the properties that
cover it.

What makes each part correct, in short: the Router's links agree and lead only to
objects that exist, subscriptions meet their streams, nobody gets a stream twice
or somebody else's; an endpoint has its own Peer, with its own browser's keys;
participants of a room know and are subscribed to each other, handlers end and
never send on a closed channel; what the page has to negotiate is negotiated; what
the answer announces is what the media carries; a stream arrives as it was sent,
and feedback about it names the right packet; a browser with the credentials of
the running process gets connected.

## 2. Modules

| Module | Models | Checked by | Proved in |
|---|---|---|---|
| `Router` | Router, RouteTable and the gRPC calls that drive them | `MCRouter` | `RouterProofs` |
| `Fanout` | abstract: what the Router promises of forwarding | through `Router` | `RouterRefinement` |
| `Signaling` | Hub, Client, room.Manager, gRPC client; the page as far as messages and tiles go | `MCSignaling` | `SignalingProofs` |
| `Transport` | PacketRouter, DtlsContext, SrtpContext, AddPeer/RemovePeer; browsers and the network are external | `MCTransport` | `TransportProofs` |
| `WebClient` | negotiation in webrtc.js and room.html; RTCPeerConnection is external | `MCWebClient` | `WebClientProofs` |
| `Rtcp` | RTCP compounds: RtcpHandler and the parser in Router, as operators | through `Rtp` | – |
| `Rtp` | RtpHeader, `rewriteRtpHeader`, translation of feedback, SRTP replay windows | `MCRtp` | `RtpProofs` |
| `Sdp` | SdpParser, SendOffer with `getAllBoundSsrcs`, and a page that reuses mids | `MCSdp` | `SdpProofs` |
| `Ice` | UdpServer, dispatch in PacketRouter, IceServer, death and restart of the process | `MCIce` | `IceProofs` |

The MC modules add symmetry sets and the values of constants that are functions or
sets of numbers (`Address`, `Magic` and `Shape` of `Ice`, `Offered` and `SubscriberPTs` of `Sdp`, `OutSsrc` and
`OwnSsrc` of `Rtp`). Definitions named `X_Something` next to a definition `X` are
faulty variants of it: each property is violated when `X` is replaced by such a
variant (`mutants` in `PROJECT.json`).

### Router

One step is one critical section of `Router::_mutex` or `MediaServiceImpl::_mutex`,
or one use of a raw pointer outside them. `rpc[w]` is the call that gRPC worker `w`
executes: `AddConsumerLookup`, `addConsumer` and `AddConsumerReturn` are the
three parts of one AddConsumer call, `SendOfferLookup`, `bindConsumerByMid`,
`SendOfferAnswer` those of SendOffer for one mid, `RemovePeerErase` and
`removePeer` those of RemovePeer. `udp` is the packet in the UDP thread:
`onRtpPacket` (fast path), `findOrCreateProducer` (slow path), `Forward` (one turn
of the loop), `onRtcpPacket`/`CheckPublisher`/`SendFeedback`,
`SrtpReady`/`sendPLItoAllPeers`. There is one such thread because
`UdpServer::onReceive` arms the next receive after the callback has returned; for
the same reason the second test in the slow path never finds a Producer.

Consumer and Producer objects are numbers, never reused, and `consumer` and
`producer` are functions on those that exist. What is read through a pointer to a
destroyed object is any value (`CheckPublisher`); what is written through one is
not followed further, `PointersUsedAreLive` says that it happens. A Peer has no
such problem: `PacketRouter` keeps a `shared_ptr` to it for ever. `Mids` that a
browser offers again are those its inactive pool can hold: of the same kind, and
only after the publisher has left.

### Fanout

The abstract specification knows subscriptions (subscriber, publisher, kind), which
of them are ready, which streams have begun, and on which subscriptions the packet
in hand has yet to be sent. `Promised` in `Router` is the refinement mapping: a
subscription is a live Consumer that has a publisher (however many duplicates
there are), it is ready when one has a mid, a stream has begun when it has a
Producer, and what is due are the targets of the UDP thread that still exist and
are ready. `ForwardsAsPromised` says that every step of the Router is a step of
Fanout or none: `Forward` takes one subscription off what is due, `removePeer` ends
exactly the leaver's own subscriptions and those to its streams, also for the
packet in flight. `Leave` keeps subscriptions to a stream that had not begun,
because the code does: `removePeer` finds only Consumers that a Producer lists.

### Signaling

`pc[c]` is the program counter of client `c`'s `readPump`. A step is a critical
section, a gRPC call, or a send on channels. `GetRoom` to `SetupDone` are
handleJoin, `FindLeftRoom` to `CloseChannel` handleLeave, which runs once for
`leave` and again when reading ends. A gRPC call that fails may have been executed.
`readers` are the goroutines holding `Room.mu` for reading across the calls of
`SetupConsumers`; its AddConsumer calls are made in any order, of which the code's
(map order, video before audio) is one. `SetRoom` writes three fields at once.
`consumers` counts up to two, enough to tell one from several; the Consumers of
others that `removePeer` leaves behind for a departed publisher are forgotten
(`WithoutPeer`). The page is
abstract: when it offers what is pending is left open, and the initial offer,
which binds nothing, is left out. All connections exist from the start. Room and
peer identifiers, random numbers in the code, are taken to be distinct.

### Transport

`Peers` are the ones AddPeer registers (named after their browser) and blank ones
that `getOrCreatePeer` makes (named after their endpoint). `Candidates(e)` is the
set `getOrCreatePeer` may choose from: `begin()` of an `unordered_map` is any
member. `session[p]` and `srtp[p]` say which browser's handshake and keys a Peer
has. A packet in flight may be lost, delivered late or delivered again. OpenSSL is
modelled by its flights: it repeats its last one when a packet arrives after its
timer has expired, for nothing calls `DTLSv1_handle_timeout`. A finished context
ignores everything, as `DtlsContext::handlePacket` does.

### WebClient

Three async functions (`init`, the queue's loop, `_doIceRestart`) advance through
`step[t]`; each `await` ends a step. A transceiver pair (video and audio) of a
peer is one number; numbers are the mids too, and `NullMid` is the key `null` of
`_midPeerMap`. `snapshot[t]` is the set of lines of the offer made by
`createOffer`, which `setLocalDescription` gives mids. The server answers line for
line or with an error. Each `createOffer` and `setLocalDescription` may be rejected,
`MaxRejects` times in all, also for no reason, for browsers differ in which older
offer they still accept. The three functions take it differently: `InitRejected`
ends the `joined` handler (`step["init"]` is `failed`), `IceRejected` is caught and
given up, and `QueueRejected` leaves the loop through its `finally`: `_renegotiating`
is reset while `_pendingTransceivers`, `_needsRenegotiate` and the requests stay,
until some later event calls `renegotiate()`. Two history variables, which no
action reads to decide anything, name what the properties must except: `aborted`
(such an end, and no `renegotiate()` since) and `tooLate` (transceivers added
between a `createOffer` and its `setLocalDescription`). The camera needs
the microphone's stream: without one `enableCamera` throws half-way, after
`addTransceiver`, which is not modelled. `MaxOverlaps` bounds how often a negotiation starts while `init` or an
ICE restart is under way; with 0 the models of the queue are exact as long as that
does not happen. The camera button is disabled during a toggle; the camera goes on and
off again.

### Rtp and Rtcp

One stream, its Consumers (one for each subscriber), and the feedback on it.
Packets are numbered; `Packet(n)` has the header fields, the first two as the bytes
that `parse` takes apart and `writeFixedHeader` puts together. `newSentSeq` and
`newSentTs` are the two lines that continue a sequence, in unsigned arithmetic
of `SeqMod` and `TsMod` values. `onRtpPacket(n, lost)` is the arrival of any packet
sent so far, hence loss, delay and repetition on the way in; `lost` are the
subscribers whose copy is lost on the way out. libsrtp is external: it guesses the
index nearest the highest it knows and has a replay window in each direction, as
`SrtpContext::init` sets them. A compound of RTCP is a sequence of words;
`HandlerCalls` is the walk of `Router::onRtcpPacket`, with its quirks (lengths are
compared with the rest of the buffer, a NACK's first pair only is read, `handleRR`
looks for the SSRC of the reporter), `Callbacks` the walk of `RtcpHandler`. Nobody
feeds the RtcpHandler that MediaServer creates; here its builders and its parser
are the browser's, which makes the comparison of the two parsers mean something.

### Sdp

`videoPTs` is the static set that every `parseOffer` adds to. A Consumer's outgoing
SSRC is its place in the subscriber's vector; `midToSsrc` is the map that SendOffer
builds, with the later of two Consumers that hold the same mid overwriting the
earlier. `generateAnswer` mirrors directions and names an SSRC where the page
wants to receive; pages' offers are well formed, and the empty answer to one that
`parseOffer` refuses is left out. The page does what webrtc.js does when its offers do not
overlap: `addRecvTransceiver` takes a pooled transceiver, any of the kind where the
code takes the one retired first, or a new one,
`markTransceiverInactive` returns it, `Negotiate` sends one offer for all that
is pending. `existing` are the peers of `joined`, for whom transceivers are added
only when `init` has returned; messages are handled meanwhile, `MaxLate` of them.
Once `init` has returned the loop over them runs to its end: each turn is a step,
`AddExisting`, and the page does nothing else while `adding` holds.
Kinds are decided by `onRtpPacket` from the payload type, as in the Router.

### Ice

The threads of `MediaServer::run` share one receive buffer. `onReceive` fills it,
`onStunPacket` checks the credentials in place, `SendTo` builds the answer from it,
and only then is the next receive armed: `Receiving` says so, and the properties
fail when it says otherwise. `sendTo` passes a pointer to a buffer on the stack; a
send that finds the socket busy is in `deferred`, and what leaves in the end is the
message, a later one built at the same place, or anything (`Garbage`). A STUN
message is a function from offsets to attributes; `Visited` are the offsets that
the loop of `validateCredentials` comes to with the padding rule of the code, and
that function's verdict on them is stated for all of them at once. A HMAC is the
record of its inputs. An address and the cookie are the sets of their one bits, so
that XOR is the symmetric difference. `Restart` is the
process that dies (also by SIGTERM, since the signal set of `setupSignals` is local
and cancelled when that function returns) and is started again by
docker-compose.yml (`restart: unless-stopped`) with new credentials. Browsers
(external) repeat their checks and restart ICE when these fail, as
`_doIceRestart` does. The network carries requests that browsers have signed, for
the running process or an earlier one: a wrong HMAC comes only with a wrong
username, so neither comparison is ever the only one to fail. Death and start are one step; an ICE
restart offered while the process is down, which the signalling server answers with
an error and the page repeats at its next change of state only
(webrtc.js:103-126), does not occur, and `FinallyConnected` takes the restart as
repeated until it is answered. What else a restart loses, Peers and rooms, is not in this
module: it is about reaching the server at all.

## 3. Runs

Passing runs:

| Run | Question | Instance | Distinct states |
|---|---|---|---|
| `router` | do all links stay consistent, and does forwarding implement Fanout? | 2 peers, 2 workers, 2 SSRCs each way, 2 Consumers, 2 Producers | 331,105 |
| `router_kinds` | are audio and video kept apart? | both kinds, 1 worker | 493,945 |
| `signaling` | do joins, leaves and offers work together, and do handlers end? | 2 clients, 1 room, 1 kind, 1 failure, channels of 3 | 210,376 |
| `transport` | is an endpoint tied to one Peer with the right keys? | 2 browsers, 2 endpoints, 1 move, 1 failure | 162,764 |
| `transport_live` | does the server get its keys? | 2 browsers, 1 endpoint, 1 failure | 3,960 |
| `webclient` | is anything to be negotiated forgotten, and do the queue and the joined handler end? | 2 others, 2 toggles, 1 restart, 1 overlap, 1 error, 1 rejection | 755,710 |
| `rtp` | does a stream arrive as it was sent, and feedback where it belongs? | 2 subscribers, 5 packets from 14 modulo 16, window 2, 1 compound | 404,136 |
| `sdp` | do answers name what is sent, and are kinds recognised? | 2 publishers, colliding payload types | 56,464 |
| `ice` | are valid checks answered rightly, and does everybody get connected? | 2 browsers, 2 threads, 1 fault | 45,529 |

What the properties say: `NoDanglingConsumer`, `AttachmentConsistent` and
`RouteTableSound` that `removePeer` undoes every link; `NoStrandedConsumer` and
`KindsKeptApart` that subscriptions and streams meet, whichever comes first;
`OneDeliveringConsumer` and `InFlightPacketIsSubscribed` that a packet reaches each
subscriber once and nobody else. `PeersAware`, `OneSideSubscribed`,
`LeaversDisappear` and `ConsumersForEveryPair` that overlapping joins and leaves
leave both sides with what they need; `SetupNeverRefused` and
`ExistingPeersBindable` that the order of locks and calls keeps the media server's
errors away; `NoSendOnClosedChannel` that no goroutine panics; `HandlersTerminate`
that `Room.mu` is always released. `OneEndpointPerPeer`, `EnoughPending`,
`MediaDecryptable`, `NoForeignKeys` and `ServerKeysEventually` are about the binding
of endpoints and the keys kept for them. `PendingIsScheduled` says that what the
page wants to negotiate is offered by the loop's next offer or is in the one being
set, through overlaps, errors and rejections; after a rejection the loop takes it up
when `renegotiate()` is next called, and the one thing excepted is what is added
while an offer is being set. `QueueDrains` and `JoinedHandlerFinishes` are promised
as long as no negotiations overlap, no answer fails and nothing is rejected
(`Undisturbed`), for otherwise the promise of an answer may be lost. `TimelineKept` says that all the bookkeeping of
`rewriteRtpHeader` changes nothing but the SSRC, `ProtectNeverRefuses` that the replay
window on the way out drops nothing that came in, `NackNamesLostPackets` that the
publisher is asked for what is missing, although the offset used is that of a later
moment, `ParsersAgree` that the two parsers find the same requests.
`ForwardedIsExpected` and `AnswerKeepsSsrcs` say that answers and media agree when
mids are used again, `KindsByOffers` when a kind can be mistaken. `OnlyValidAnswered`,
`CheckedAddressIsOwn` and `FinallyConnected` are about the shared buffer, the
deferred sends and new credentials.

Two peers, both publisher and subscriber of each other, two Consumers (a
duplicate of a subscription, or one each way) and two Producers (a new SSRC, or one each) make every pair of
critical sections meet. SSRCs of either kind may collide: `allocateSsrc` draws
from the two at random and both browsers may choose the same one. The room's races
need a client that joins or leaves while another does. Kinds of media do not
influence signalling, so one is enough there. Channels of three are full when a
page does not read, as those of 32 are in the code. Two browsers are needed for
one to take the other's Peer. Five packets from number 14 modulo 16 pass the wrap,
and with a window of 2 packets come in too late for it; the reach of a BLP is one
packet, so that a second pair occurs. The two publishers of `sdp` are there, come and
go in any order, so that a pooled mid is used again while its old Consumer exists;
their payload types collide with each other's as those of Firefox (Opus on 109) and
Chrome (a video RTX on 109) do. Three exceed four million states. The browsers of
`ice` send attributes of lengths that need padding and of lengths that do not; two
threads are enough for one to overwrite what the other reads. Its invariants have
also been checked with two faults (1.49 million states), liveness with one. Both
kinds together with two workers are too many states for `router`; the proofs of
section 4 cover any number of either. Bounds on counters (`MaxConsumers`, `MaxProducers`,
`MaxFailures`, `MaxMoves`, `MaxInitFailures`, `MaxToggles`, `MaxRestarts`,
`MaxOverlaps`, `MaxErrors`, `MaxRejects`, `MaxPackets`, `MaxFeedback`, `MaxLate`, `MaxFaults`) are in
the guards. Symmetry is used in safety runs only.
Deadlock is not checked: peers, clients and browsers may all have left, and a page
may be idle.

Runs that end in a violation show where the code does not do what a comment in it
says; `findings` quotes the comment.

| Run | What TLC finds |
|---|---|
| `router_pointers` | a Consumer destroyed while the UDP thread is about to read it |
| `transport_binding` | a browser bound to another's Peer |
| `sdp_reuse` | a participant joins and leaves while `init` awaits the microphone; its mid goes to a peer whose Consumer is older, and the answer names the SSRC of the departed one's Consumer |

The models have further behaviours a reader should know of, for which no run is
kept; the properties above are stated so that they say what holds in spite of them.

- Media service. A packet of a removed peer creates a Producer that nothing deletes.
  A second SSRC of a publisher (RTX has one) gets no subscribers. Every join creates
  Consumers for every pair again. A payload type that one page uses for audio and
  another for video makes the audio a video stream, though SdpParser.cpp:46-47 says
  the sets are independent of how browsers assign numbers. `handleNACK` forwards
  the first pair of a NACK only; `handleRR` looks for the reporter's own SSRC, so a
  receiver report is dropped, or goes to a publisher as a report on another
  subscriber's Consumer when the SSRCs coincide (in `MCRtp` those of subscriber 1 do).
- Transport. A removed Peer stays pending and may be given to another browser; a
  browser that changes its endpoint gets a Peer without keys; a lost final flight of
  the server is never repeated. A receive error ends the receive loop for good.
- Signalling. `renegotiate` goes out before SetupConsumers has run, so an offer may
  find no Consumer (the comment at manager.go:119 says otherwise); a room may be
  deleted with a participant in it (manager.go:96). A page shows for ever a
  participant who left between the collection and the sending of `joined`. A page
  that hears `renegotiate` before its own `joined` adds no transceiver.
- Page. Two offers may be outstanding at a time (webrtc.js:209), and then the promise
  of the first answer is overwritten. A transceiver added between the queue's
  `createOffer` and `setLocalDescription` is in no offer, and off the list whose
  comment (webrtc.js:16) says it holds those without a mid. An `error` instead of an
  answer leaves the queue waiting for ever. A rejected `createOffer` or
  `setLocalDescription` stops the queue until the next event, and in `init` it keeps
  the page from ever adding the participants that were there before. With overlaps a
  transceiver in use may be put into the pool.

Each is a hazard in `PROJECT.json`.

### Fairness

`Signaling`: weak fairness of each client's handler steps: goroutines are
scheduled and every gRPC call has a deadline; clients, pages and offers get none.
`Transport`: a browser repeats its flight (WF), and a packet sent again and again is
delivered, and answered, in the end (SF); losses are not bounded. `WebClient`: weak
fairness of what is under way: promises of the browser settle and the signalling
server answers, in time bounded by its deadlines. `Ice`: weak fairness of the threads,
of repeated checks and of the ICE restart after failed ones; strong fairness of
the arrival of a check and of its answer and of sends that find the socket free: what is sent again and again
arrives in the end. Nothing makes a receive loop that has ended start again, so
`FinallyConnected` excepts that state.

## 4. Proofs

`RouterProofs` proves for every value of the constants (assumption
`RouterAssumption`: null values are not values, no browser SSRC is 0, kinds are
audio and video, the bounds are naturals) type correctness and the seven other
invariants the router runs check, for any numbers of peers, workers, mids and
objects, with colliding SSRCs or without.

None of them is inductive alone. `RouterInv` is `TypeOK`, `HeapInv` and the
snapshot invariants. `HeapInv` has, besides the invariants of the runs:

- `Linked` and `Listed`, the two directions of `AttachmentConsistent`: `removePeer`
  orphans what the lists hold and detaches what the back pointers name, so each
  direction is needed for the other;
- `AttachedHasProducer`: a Consumer with an SSRC and a publisher has its Producer;
  without it a new Producer of the same SSRC could have back pointers it never
  listed;
- `ProducersDistinct`: no two Producers of a peer have one SSRC, for which the
  double check of the slow path is needed;
- `SubscribersKnown`: the subscriber of a Consumer is in `_allPeers`, for
  `findOrCreateProducer` looks for waiting Consumers only there;
- `ReverseMapSound`: an entry of `_outSsrcToConsumer` names a Consumer that has
  that SSRC, so that erasing by SSRC erases every entry of a destroyed Consumer,
  collisions included;
- `OldestBound`: of the Consumers of one subscription only the oldest can have a
  mid, which is why `bindConsumerByMid`'s first match delivers once;
- `SnapshotKnown`: a Consumer number in a snapshot has been allocated, so that no
  later one can be mistaken for it.

Each is shown to be kept by each action in a lemma of its own; `removePeer`,
`addConsumer` and `findOrCreateProducer` are the long ones.

`RouterRefinement` proves that `Router` implements `Fanout` under the mapping
`Promised`: the initial state maps to an initial state, and each action maps to the
step of Fanout it is meant to be or changes nothing there (`Implements`). Besides
`RouterInv` this takes `FeedInv`: of several Producers of one peer and kind only
the oldest has consumers (`OldestFeeds`), so that `findOrCreateProducer` begins a
stream that is new to Fanout or changes nothing, and `bindConsumerByMid` is only
ever given a mid (`MidsGiven`). `OldestBound` is what makes duplicates of a
Consumer one subscription: when `removePeer` or `Forward` takes the one that
delivers, none is left that still would.

`TransportProofs` proves type correctness and `OneEndpointPerPeer` from
`TransportInv`: besides the two, a Peer that is not registered or still pending
has no endpoint, and a blank one has none but its own (`UnboundPeers`); so the Peer
that a new endpoint gets is not bound to an earlier one. It assumes only that null
values are not values and that the bounds are naturals. `NoForeignKeys` and
`MediaDecryptable` need `KeysInv`: endpoints belong to one browser at a time, a
packet under way carries its browser's endpoint (`OwnEndpoint`, `OneHome`), a
handshake on a Peer is that of the browser behind its endpoint (`OwnSession`,
`BoundBack`), the keys are those of the handshake (`KeysOfSession`), and a browser
that has finished finds the server finished too (`FinishedKnown`). `EnoughPending`
counts: the inductive form `EnoughForAll` counts also the browsers that have left
while their first packets are on the way, for these take a pending Peer as well.

`SignalingProofs` proves all eight invariants of the `signaling` run for any
clients, rooms, kinds, queue capacity and number of failed calls. `ControlInv` ties
the fields of a connection to the place of its goroutine; it contains that
`Hub.clients` loses a client before its channel is closed, which is
`NoSendOnClosedChannel`. `MemberInv` says that participants are registered with the
media server and that only `handleLeave` ends that; `TodoInv` that what
`SetupConsumers` still has to do concerns participants, since whoever removes one
needs the write lock of `Room.mu` (lemma `ReadLockHolds`): hence
`SetupNeverRefused`. `PairInv` says that of two goroutines that have reached
`SetupConsumers` the later one has seen both participants, so each Consumer exists
or is still on a list: `ConsumersForEveryPair` is the case of empty lists.
`ExistingPairInv` is the same for the peers of `joined` (`ExistingPeersBindable`).
`MailInv` says that a page gets one `joined`, with the peers that were collected.
`AwareInv` follows a pair of participants through `collect`, `sendJoined` and
`broadcast`: whoever sets `roomID` later collects the other, whoever broadcasts
later tells the other. `SubscribeInv` adds that the later one to collect has the
other in its `joined`. `GoneInv` orders the messages in one channel: behind every
`renegotiate` that names a participant who has left there is a `peer-left` that
does.

`WebClientProofs` proves type correctness and `PendingIsScheduled` for any numbers
of participants, toggles, restarts, overlaps, errors and rejections. `LoopInv` is the
first half of the property, on what is pending, with the flag and the queue's
length: whoever adds to the list calls `renegotiate()` in the same step, and the loop
ends only with an empty list or by a rejection. `QueueInv` says in
addition that `_answerResolver` belongs to a function that awaits its answer
(`Awaited`): this is why an answer cannot end the loop between the taking of the
request and that of what is pending. `LateInv` is the second half: a transceiver
without a mid that was not added too late is on the list or a camera switch is
noted, and when the queue is setting its offer it is in that offer; of an ICE
restart's offer only what is on the list may be missing, since the restart clears
`_needsRenegotiate` and not the list. The type of a transceiver is a matter of
counting (`Numbered`: no more transceivers than participants asked for and
toggles), with the cardinality theorems of the library.

`IceProofs` proves the three invariants of the `ice` run for any browsers, threads,
cookie and number of faults, and any layout of the requests before
MESSAGE-INTEGRITY that does not contain one itself (`IceAssumption`). `LoopInv` says
that at most one thread is in a callback and that the buffer then holds a signed
request, from the check of the credentials to the response; `PacketInv` that every
request under way is signed with the credentials of its transaction, and that
every response, deferred or sent, answers a valid request of the browser it names,
or is garbage, which the browser refuses. Whatever bytes a deferred send carries,
what a browser accepts therefore has its own address.

`RtpProofs` proves, for any moduli, numbers of subscribers and packets (assumption
`RtpAssumption`: the moduli are positive, the others naturals), type correctness,
`TimelineKept` and `OffsetsZero`. The argument is one lemma on widths, `NarrowedSum`:
adding to the last number the narrowed distance from it to the new one gives the
new one. Hence a Consumer always moves to the packet's own numbers, and the offsets
that `handleNACK` subtracts stay zero. `RtpInv` is the three together; each header
written is compared with the publisher's field by field, bytes included.
`ProtectNeverRefuses` is proved from it with `ShiftInv`: the indices that libsrtp
counts for a subscriber are the publisher's packet numbers shifted by one base, a
different one for each subscriber, so the replay check on the way out gives the
verdict of the one on the way in, whatever the window. The theorem supposes
`HalfWrap`, at most `SeqMod \div 2` packets, as in the run. The supposition is
needed: when half a wrap of packets is lost in a row libsrtp takes the next packet
for an old one and `srtp_protect` refuses it (TLC shows it with four sequence
numbers and five packets, of which 0 and 4 arrive).

`SdpProofs` proves `KindsByOffers` for any publishers and payload types, under
`SdpAssumption` (an offer does not use a payload type in sections of both kinds).
The strengthening `PTsInv` says that the static set holds exactly what the offers
handled so far contain: the lower bound keeps video from being taken for audio,
the upper bound limits what audio can be mistaken.

It also proves `AnswerKeepsSsrcs`, for any publishers and any `MaxLate`. `PageInv`
is the invariant. A publisher passes once through four stages: the page has no
transceivers for it, they are pending, they are in the offer, its Consumers have
mids (`Stages`, `JoinsOnce`); a publisher takes two mids at most, so those of the
model suffice (`FewMids`). A mid that has a publisher is not in the pool
(`Pool`), so no later offer gives it to another Consumer, and the offer receives
on it (`OfferFits`). Hence the Consumer that the page knows for such a mid stays
the last with that mid, and `SendOffer` names the last (`AnswerFits`,
`RemoteFits`).

`ForwardedIsExpected` is proved for any publishers and `MaxLate = 0`, as in its
run. `ForwardInv` adds to `PageInv` how the order of the Consumers agrees with the
order of the messages: whoever has a Consumer as late as p's first leaves after
p's announcement (`Order`), so a mid that is in the pool when p is announced has
earlier Consumers only (`Earlier`), and of the Consumers with that mid the last,
which the answer names, is p's (`Named`). The supposition is needed: with
`MaxLate = 2` TLC finds a publisher that is announced, negotiated and gone again
before the page adds an existing peer, which then gets the pooled mid though its
Consumers are the earlier ones.

Only model-checked, of the passing runs:

- the liveness properties `HandlersTerminate`, `ServerKeysEventually`,
  `QueueDrains`, `JoinedHandlerFinishes` and `FinallyConnected`: fairness and ENABLED
  are out of the prover's reach;
- `NackNamesLostPackets` and `ParsersAgree` of `Rtp`: `HandlerCalls` and `Callbacks`
  are recursive walks, and what a recursive function computes would need induction
  over data.

## 5. Not modelled

- Code nobody calls: `generateAndSendSR`, `findRewrittenSsrc`, `RouteTable::lookup`,
  `RtpHeader::headerLength`; the placeholder `RemoveConsumer`; the REST `JoinRoom`
  handler, which no page calls; the AI, summary and token stubs.
- Text: codec lines and headers of an SDP, which are mirrored or constant; JSON;
  `videoPT` and `audioPT`, which are written and not read.
- The page's display, recording and volume; configuration, logging, start-up of
  the Go server, deployment. They keep no state that the others depend on.
- Memory effects below a step: torn reads of `client.roomID`, the unlocked static
  sets. They are listed as hazards.
- Two processes of the media service in one history of a room: after a restart the
  signalling server's participants are unknown to it and nothing registers them
  again. `Ice` shows that browsers reach the new process; what they get there is
  the subject of `Transport` from its initial state.

## 6. Plan

1. A proof that the RTCP packets the Router makes are read back as made, with the
   walks unrolled for single packets.
2. `Transport` with ports used again by a later browser.
3. `Conference`: Signaling, Sdp and Router composed.
