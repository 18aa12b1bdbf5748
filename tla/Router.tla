------------------------------- MODULE Router -------------------------------
(***************************************************************************)
(* The SFU core of media-svc: sfu::Router and RouteTable, driven by the     *)
(* worker threads of MediaServiceImpl (gRPC) and by the UDP receive loop.   *)
(*                                                                          *)
(* Threads.  UdpServer re-arms async_receive_from only after the packet     *)
(* callback has returned, so packets are handled one at a time: one logical *)
(* UDP thread, with program counter udp.pc.  gRPC calls run concurrently    *)
(* with it and with each other on the Workers.  A step of this module is    *)
(* one critical section of Router::_mutex (or MediaServiceImpl::_mutex), or *)
(* one use of a raw pointer after the lock has been released.               *)
(*                                                                          *)
(* Heap.  A Consumer or Producer object is a number, given out in the order *)
(* of allocation; the vectors Peer::producers and Peer::consumers only grow *)
(* by push_back and are emptied at once, so vector order is number order.   *)
(* Numbers are not reused: a pointer to a destroyed object stays            *)
(* recognisable, and what a thread reads through it is arbitrary.           *)
(***************************************************************************)
EXTENDS Naturals

CONSTANTS
    Peers,          \* Peer objects; the signalling server never reuses a peerId
    Ssrcs,          \* SSRCs browsers choose for the streams they send
    OutSsrcs,       \* the range allocateSsrc draws from
    Kinds,          \* media kinds in use, a subset of {"audio", "video"}
    Mids,           \* mids of the subscribers' transceivers
    Workers,        \* gRPC worker threads
    MaxConsumers,   \* bound: Consumer objects ever allocated
    MaxProducers,   \* bound: Producer objects ever allocated
    NoPeer,         \* nullptr of type Peer*
    NoMid           \* the empty recvMid

(* Null values are not values; 0 is the code's mark for "no SSRC yet", and no  *)
(* browser sends a stream with SSRC 0.                                        *)
ASSUME RouterAssumption ==
    /\ NoPeer \notin Peers
    /\ NoMid \notin Mids
    /\ 0 \notin Ssrcs
    /\ Kinds # {} /\ Kinds \subseteq {"audio", "video"}
    /\ MaxConsumers \in Nat /\ MaxProducers \in Nat

VARIABLES
    peerState,      \* "new", "registered" (in MediaServiceImpl::_peers), "removed"
    srtp,           \* peers whose SRTP context exists
    allPeers,       \* Router::_allPeers
    consumer,       \* the Consumer objects that exist, by number
    nextConsumer,   \* the number of the next one allocated
    producer,       \* the Producer objects that exist, by number
    nextProducer,
    outSsrcToConsumer,  \* Router::_outSsrcToConsumer, 0 for no entry
    routeTable,     \* RouteTable::_ssrcToPeer
    rpc,            \* the call each worker is executing
    udp             \* the packet the UDP thread is executing

routerVars == <<allPeers, consumer, nextConsumer, producer, nextProducer,
                outSsrcToConsumer, routeTable>>
vars == <<peerState, srtp, routerVars, rpc, udp>>

ConsumerIds == 1 .. MaxConsumers
ProducerIds == 1 .. MaxProducers

(* The objects that exist: allocated and not destroyed. *)
liveConsumers == DOMAIN consumer
liveProducers == DOMAIN producer

-----------------------------------------------------------------------------
(***************************************************************************)
(* Records.  seq/timestamp rewriting state and statistics of a Consumer do  *)
(* not influence routing and are left out here.                             *)
(***************************************************************************)
ConsumerRec == [subscriber    : Peers,
                publisher     : Peers \cup {NoPeer},
                kind          : Kinds,
                rewrittenSsrc : OutSsrcs,
                publisherSsrc : Ssrcs \cup {0},
                recvMid       : Mids \cup {NoMid},
                active        : BOOLEAN]

ProducerRec == [publisher    : Peers,
                originalSsrc : Ssrcs,
                kind         : Kinds,
                consumers    : SUBSET ConsumerIds]

RpcRec == [op   : {"idle", "addConsumer", "addReturn", "bind", "answer", "removePeer"},
           sub  : Peers \cup {NoPeer},
           pub  : Peers \cup {NoPeer},
           kind : Kinds,
           mid  : Mids \cup {NoMid},
           cell : ConsumerIds \cup {0}]

UdpRec == [pc      : {"idle", "create", "forward", "feedback", "translate", "keyframes"},
           from    : Peers \cup {NoPeer},
           ssrc    : Ssrcs \cup {0},
           kind    : Kinds,
           targets : SUBSET ConsumerIds,
           sources : SUBSET ProducerIds,
           held    : ConsumerIds \cup {0}]

AnyKind == CHOOSE k \in Kinds : TRUE

IdleRpc == [op |-> "idle", sub |-> NoPeer, pub |-> NoPeer, kind |-> AnyKind,
            mid |-> NoMid, cell |-> 0]

IdleUdp == [pc |-> "idle", from |-> NoPeer, ssrc |-> 0, kind |-> AnyKind,
            targets |-> {}, sources |-> {}, held |-> 0]

Init == /\ peerState = [p \in Peers |-> "new"]
        /\ srtp = {}
        /\ allPeers = {}
        /\ consumer = [c \in {} |-> 0]
        /\ nextConsumer = 1
        /\ producer = [r \in {} |-> 0]
        /\ nextProducer = 1
        /\ outSsrcToConsumer = [o \in OutSsrcs |-> 0]
        /\ routeTable = [s \in Ssrcs |-> NoPeer]
        /\ rpc = [w \in Workers |-> IdleRpc]
        /\ udp = IdleUdp

-----------------------------------------------------------------------------
(* What the vectors of a Peer contain. *)

ProducersOf(p) == {r \in liveProducers : producer[r].publisher = p}
ConsumersOf(p) == {c \in liveConsumers : consumer[c].subscriber = p}

(* Router::findProducer: the producers of p with this SSRC (at most one). *)
findProducer(p, s) == {r \in ProducersOf(p) : producer[r].originalSsrc = s}

(* Faulty variant: the walk keeps the last match. *)
First_KeepsLast(S) == {i \in S : \A j \in S : j <= i}

(* The first element of a vector, as a set so that an empty one is no error. *)
First(S) == {i \in S : \A j \in S : i <= j}

(* Consumers with the subscriber, publisher and kind that bindConsumerByMid compares. *)
Matching(sub, pub, k) == {c \in ConsumersOf(sub) : /\ consumer[c].kind = k
                                                   /\ consumer[c].publisher = pub}

-----------------------------------------------------------------------------
(***************************************************************************)
(* gRPC: AddPeer, and the two halves of AddConsumer, SendOffer, RemovePeer. *)
(* A call whose findPeer fails returns without effect and is no step.       *)
(***************************************************************************)
AddPeer(p) ==
    /\ peerState[p] = "new"
    /\ peerState' = [peerState EXCEPT ![p] = "registered"]
    /\ UNCHANGED <<srtp, routerVars, rpc, udp>>

(* MediaServiceImpl::AddConsumer up to both findPeer calls.  manager.go    *)
(* never subscribes a participant to itself.                                *)
AddConsumerLookup(w, sub, pub, k) ==
    /\ rpc[w].op = "idle"
    /\ sub # pub
    /\ peerState[sub] = "registered" /\ peerState[pub] = "registered"
    /\ nextConsumer <= MaxConsumers
    /\ rpc' = [rpc EXCEPT ![w] = [IdleRpc EXCEPT !.op = "addConsumer",
                                    !.sub = sub, !.pub = pub, !.kind = k]]
    /\ UNCHANGED <<peerState, srtp, routerVars, udp>>

(* The Consumer that Router::addConsumer builds, attached to producer s. *)
NewConsumer(sub, pub, k, o, s) ==
    [subscriber |-> sub, publisher |-> pub, kind |-> k, rewrittenSsrc |-> o,
     publisherSsrc |-> s, recvMid |-> NoMid, active |-> TRUE]

(* Faulty variants: the existing producers are not searched; isVideo is not compared. *)
Ready_None(pub, k) == {}
Ready_AnyKind(pub, k) == {r \in ProducersOf(pub) : producer[r].originalSsrc # 0}

(* Producers an added consumer can be attached to at once. *)
Ready(pub, k) == {r \in ProducersOf(pub) : /\ producer[r].kind = k
                                           /\ producer[r].originalSsrc # 0}

addConsumer(w, o) ==
    LET sub == rpc[w].sub
        pub == rpc[w].pub
        k   == rpc[w].kind
        c   == nextConsumer
    IN /\ rpc[w].op = "addConsumer"
       /\ c \in ConsumerIds
       /\ allPeers' = allPeers \cup {sub, pub}
       /\ outSsrcToConsumer' = [outSsrcToConsumer EXCEPT ![o] = c]
       /\ \/ /\ Ready(pub, k) = {}
             /\ consumer' = [d \in liveConsumers \cup {c} |->
                               IF d = c THEN NewConsumer(sub, pub, k, o, 0) ELSE consumer[d]]
             /\ UNCHANGED producer
          \/ \E r \in First(Ready(pub, k)) :
             /\ consumer' = [d \in liveConsumers \cup {c} |->
                               IF d = c THEN NewConsumer(sub, pub, k, o, producer[r].originalSsrc)
                                        ELSE consumer[d]]
             /\ producer' = [producer EXCEPT ![r].consumers = @ \cup {c}]
       /\ nextConsumer' = c + 1
       /\ rpc' = [rpc EXCEPT ![w].op = "addReturn", ![w].cell = c]
       /\ UNCHANGED <<peerState, srtp, nextProducer, routeTable, udp>>

(* The tail of addConsumer: the new Consumer is read again, for the log and *)
(* for the reply, after the lock has been released.                         *)
AddConsumerReturn(w) ==
    /\ rpc[w].op = "addReturn"
    /\ rpc' = [rpc EXCEPT ![w] = IdleRpc]
    /\ UNCHANGED <<peerState, srtp, routerVars, udp>>

(* SendOffer up to findPeer, for one element of recv_mids (each element is  *)
(* bound under the lock anew, so an offer with several is several of these). *)
(* A browser reuses a mid of the inactive pool only for the same kind and   *)
(* after the publisher it was bound to has left.                            *)
SendOfferLookup(w, sub, pub, k, m) ==
    /\ rpc[w].op = "idle"
    /\ sub # pub
    /\ peerState[sub] = "registered"
    /\ peerState[pub] # "new"
    /\ \A c \in ConsumersOf(sub) : consumer[c].recvMid = m =>
          /\ consumer[c].kind = k
          /\ consumer[c].publisher \in {pub, NoPeer} \cup {p \in Peers : peerState[p] = "removed"}
    /\ rpc' = [rpc EXCEPT ![w] = [IdleRpc EXCEPT !.op = "bind", !.sub = sub, !.pub = pub,
                                                 !.kind = k, !.mid = m]]
    /\ UNCHANGED <<peerState, srtp, routerVars, udp>>

bindConsumerByMid(w) ==
    LET match == Matching(rpc[w].sub, rpc[w].pub, rpc[w].kind)
    IN /\ rpc[w].op = "bind"
       /\ \/ match = {} /\ UNCHANGED consumer
          \/ \E c \in First(match) : consumer' = [consumer EXCEPT ![c].recvMid = rpc[w].mid]
       /\ rpc' = [rpc EXCEPT ![w].op = "answer"]
       /\ UNCHANGED <<peerState, srtp, allPeers, nextConsumer, producer, nextProducer,
                      outSsrcToConsumer, routeTable, udp>>

(* The rest of SendOffer: read getAllBoundSsrcs under the lock and generate *)
(* the answer, which changes nothing of the Router.                        *)
SendOfferAnswer(w) ==
    /\ rpc[w].op = "answer"
    /\ rpc' = [rpc EXCEPT ![w] = IdleRpc]
    /\ UNCHANGED <<peerState, srtp, routerVars, udp>>

(* RemovePeer up to the erase from MediaServiceImpl::_peers. *)
RemovePeerErase(w, p) ==
    /\ rpc[w].op = "idle"
    /\ peerState[p] = "registered"
    /\ peerState' = [peerState EXCEPT ![p] = "removed"]
    /\ rpc' = [rpc EXCEPT ![w] = [IdleRpc EXCEPT !.op = "removePeer", !.sub = p]]
    /\ UNCHANGED <<srtp, routerVars, udp>>

(* Consumers subscribed to the streams of p: removePeer orphans them. *)
Orphans(p) == UNION {producer[r].consumers : r \in ProducersOf(p)}

(* Faulty variants: publisher is not reset; active is not reset. *)
Orphaned_KeepsPublisher(c) == [consumer[c] EXCEPT !.active = FALSE]
Orphaned_StaysActive(c) == [consumer[c] EXCEPT !.publisher = NoPeer]

(* The part of an orphaned Consumer that removePeer changes. *)
Orphaned(c) == [consumer[c] EXCEPT !.publisher = NoPeer, !.active = FALSE]

(* Faulty variant: the lists of other peers' producers are left alone. *)
Detached_None(p, r) == {}

(* Consumers of p that removePeer takes out of producer r's list. *)
Detached(p, r) == {c \in ConsumersOf(p) \ Orphans(p) :
                      /\ consumer[c].publisher = producer[r].publisher
                      /\ consumer[c].publisherSsrc = producer[r].originalSsrc
                      /\ producer[r].originalSsrc # 0}

(* Keys removePeer erases from _outSsrcToConsumer. *)
Erased(p) == {consumer[c].rewrittenSsrc : c \in Orphans(p) \cup ConsumersOf(p)}

(* Faulty variant: the route table is not cleaned. *)
unbindPeer_Nothing(p) == routeTable

(* RouteTable::unbindPeer. *)
unbindPeer(p) == [s \in Ssrcs |-> IF routeTable[s] = p THEN NoPeer ELSE routeTable[s]]

removePeer(w) ==
    LET p == rpc[w].sub
    IN /\ rpc[w].op = "removePeer"
       /\ consumer' = [c \in liveConsumers \ ConsumersOf(p) |->
                          IF c \in Orphans(p) THEN Orphaned(c) ELSE consumer[c]]
       /\ producer' = [r \in liveProducers \ ProducersOf(p) |->
                          [producer[r] EXCEPT !.consumers = @ \ Detached(p, r)]]
       /\ outSsrcToConsumer' = [o \in OutSsrcs |->
                                  IF o \in Erased(p) THEN 0 ELSE outSsrcToConsumer[o]]
       /\ allPeers' = allPeers \ {p}
       /\ routeTable' = unbindPeer(p)
       /\ rpc' = [rpc EXCEPT ![w] = IdleRpc]
       /\ UNCHANGED <<peerState, srtp, nextConsumer, nextProducer, udp>>

-----------------------------------------------------------------------------
(***************************************************************************)
(* The UDP thread.  A peer stays in PacketRouter::_peerMap after RemovePeer, *)
(* so packets of a removed peer are still decrypted and routed.             *)
(***************************************************************************)

(* End of PacketRouter::handleDtls: SRTP is ready, and the video producers  *)
(* are collected for sendPLItoAllPeers.                                     *)
SrtpReady(p) ==
    LET video == {r \in liveProducers : /\ producer[r].publisher \in allPeers
                                        /\ producer[r].kind = "video"}
    IN /\ udp.pc = "idle"
       /\ peerState[p] # "new" /\ p \notin srtp
       /\ srtp' = srtp \cup {p}
       /\ udp' = IF video = {} THEN IdleUdp
                 ELSE [IdleUdp EXCEPT !.pc = "keyframes", !.from = p, !.sources = video]
       /\ UNCHANGED <<peerState, routerVars, rpc>>

(* One turn of the loop of sendPLItoAllPeers, on a Producer* held without the lock. *)
sendPLItoAllPeers(r) ==
    /\ udp.pc = "keyframes" /\ r \in udp.sources
    /\ udp' = IF udp.sources = {r} THEN IdleUdp ELSE [udp EXCEPT !.sources = @ \ {r}]
    /\ UNCHANGED <<peerState, srtp, routerVars, rpc>>

(* What the UDP thread does with a snapshot of producer->consumers. *)
Snapshot(u, cs) == IF cs = {} THEN IdleUdp ELSE [u EXCEPT !.pc = "forward", !.targets = cs]

(* onRtpPacket, fast path: the Producer exists and its list is copied, or   *)
(* the slow path follows after the shared lock has been released.           *)
onRtpPacket(p, s, k) ==
    LET u == [IdleUdp EXCEPT !.from = p, !.ssrc = s, !.kind = k]
    IN /\ udp.pc = "idle"
       /\ p \in srtp
       /\ \/ /\ findProducer(p, s) = {}
             /\ nextProducer <= MaxProducers
             /\ udp' = [u EXCEPT !.pc = "create"]
          \/ \E r \in findProducer(p, s) : udp' = Snapshot(u, producer[r].consumers)
       /\ UNCHANGED <<peerState, srtp, routerVars, rpc>>

(* Faulty variant: only waiting video consumers are associated. *)
Waiting_VideoOnly(p, k) == {c \in liveConsumers : /\ consumer[c].publisher = p
                                                  /\ k = "video" /\ consumer[c].kind = k
                                                  /\ consumer[c].publisherSsrc = 0}

(* Consumers that wait for this publisher's stream of this kind. *)
Waiting(p, k) == {c \in liveConsumers : /\ consumer[c].subscriber \in allPeers
                                        /\ consumer[c].publisher = p
                                        /\ consumer[c].kind = k
                                        /\ consumer[c].publisherSsrc = 0}

(* onRtpPacket, slow path.  Packets are handled one at a time and no other  *)
(* thread creates producers, so the double check never finds one.           *)
findOrCreateProducer ==
    LET p == udp.from
        s == udp.ssrc
        k == udp.kind
        r == nextProducer
    IN /\ udp.pc = "create"
       /\ findProducer(p, s) = {}
       /\ r \in ProducerIds
       /\ producer' = [q \in liveProducers \cup {r} |->
                         IF q = r THEN [publisher |-> p, originalSsrc |-> s, kind |-> k,
                                        consumers |-> Waiting(p, k)]
                                  ELSE producer[q]]
       /\ consumer' = [c \in liveConsumers |->
                         IF c \in Waiting(p, k) THEN [consumer[c] EXCEPT !.publisherSsrc = s]
                                                ELSE consumer[c]]
       /\ nextProducer' = r + 1
       /\ routeTable' = [routeTable EXCEPT ![s] = p]
       /\ udp' = Snapshot(udp, Waiting(p, k))
       /\ UNCHANGED <<peerState, srtp, allPeers, nextConsumer, outSsrcToConsumer, rpc>>

(* One turn of the forwarding loop.  It reads the Consumer without the lock  *)
(* and sends the rewritten packet if that is active, has a mid and its       *)
(* subscriber SRTP; routing state is unchanged.                              *)
Forward(c) ==
    /\ udp.pc = "forward" /\ c \in udp.targets
    /\ udp' = IF udp.targets = {c} THEN IdleUdp ELSE [udp EXCEPT !.targets = @ \ {c}]
    /\ UNCHANGED <<peerState, srtp, routerVars, rpc>>

(* Faulty variant: the lookup's null result is not tested. *)
onRtcpPacket_NoNullCheck(p, o) ==
    /\ udp.pc = "idle" /\ p \in srtp
    /\ udp' = [IdleUdp EXCEPT !.pc = "feedback", !.held = outSsrcToConsumer[o]]
    /\ UNCHANGED <<peerState, srtp, routerVars, rpc>>

(* onRtcpPacket for a PLI, NACK or RR that names an outgoing SSRC: handlePLI, *)
(* handleNACK and handleRR all start with findConsumerByOutSsrc.  The sender *)
(* is not compared with the subscriber of the Consumer found.               *)
onRtcpPacket(p, o) ==
    /\ udp.pc = "idle"
    /\ p \in srtp
    /\ outSsrcToConsumer[o] # 0
    /\ udp' = [IdleUdp EXCEPT !.pc = "feedback", !.held = outSsrcToConsumer[o]]
    /\ UNCHANGED <<peerState, srtp, routerVars, rpc>>

(* The check of c->publisher, outside the lock.  Of a destroyed Consumer    *)
(* anything may be read.                                                    *)
CheckPublisher ==
    /\ udp.pc = "feedback"
    /\ \/ /\ udp.held \in liveConsumers
          /\ udp' = IF consumer[udp.held].publisher \in srtp
                    THEN [udp EXCEPT !.pc = "translate", !.from = consumer[udp.held].publisher]
                    ELSE IdleUdp
       \/ /\ udp.held \notin liveConsumers
          /\ udp' \in {IdleUdp} \cup {[udp EXCEPT !.pc = "translate", !.from = p] : p \in srtp}
    /\ UNCHANGED <<peerState, srtp, routerVars, rpc>>

(* c->publisherSsrc becomes the media SSRC of the translated packet, which  *)
(* is sent to the publisher read before.                                    *)
SendFeedback ==
    /\ udp.pc = "translate"
    /\ udp' = IdleUdp
    /\ UNCHANGED <<peerState, srtp, routerVars, rpc>>

-----------------------------------------------------------------------------
GrpcStep == \/ \E p \in Peers : AddPeer(p)
            \/ \E w \in Workers :
               \/ \E sub, pub \in Peers, k \in Kinds : AddConsumerLookup(w, sub, pub, k)
               \/ \E o \in OutSsrcs : addConsumer(w, o)
               \/ AddConsumerReturn(w)
               \/ \E sub, pub \in Peers, k \in Kinds, m \in Mids :
                     SendOfferLookup(w, sub, pub, k, m)
               \/ bindConsumerByMid(w)
               \/ SendOfferAnswer(w)
               \/ \E p \in Peers : RemovePeerErase(w, p)
               \/ removePeer(w)

UdpStep == \/ \E p \in Peers : SrtpReady(p)
           \/ \E r \in ProducerIds : sendPLItoAllPeers(r)
           \/ \E p \in Peers, s \in Ssrcs, k \in Kinds : onRtpPacket(p, s, k)
           \/ findOrCreateProducer
           \/ \E c \in ConsumerIds : Forward(c)
           \/ \E p \in Peers, o \in OutSsrcs : onRtcpPacket(p, o)
           \/ CheckPublisher
           \/ SendFeedback

Next == GrpcStep \/ UdpStep

Spec == Init /\ [][Next]_vars
-----------------------------------------------------------------------------
(***************************************************************************)
(* Properties.                                                              *)
(***************************************************************************)

(* Every variable has its type; object numbers below next* are the allocated *)
(* ones; the pointers that a call or a packet handler goes on to follow      *)
(* (findPeer's result, fromPeer, the Consumer* of the RTCP handlers) are     *)
(* never null.                                                               *)
TypeOK ==
    /\ peerState \in [Peers -> {"new", "registered", "removed"}]
    /\ srtp \subseteq Peers
    /\ allPeers \subseteq Peers
    /\ nextConsumer \in 1 .. (MaxConsumers + 1)
    /\ liveConsumers \subseteq 1 .. (nextConsumer - 1)
    /\ consumer \in [liveConsumers -> ConsumerRec]
    /\ nextProducer \in 1 .. (MaxProducers + 1)
    /\ liveProducers \subseteq 1 .. (nextProducer - 1)
    /\ producer \in [liveProducers -> ProducerRec]
    /\ outSsrcToConsumer \in [OutSsrcs -> ConsumerIds \cup {0}]
    /\ routeTable \in [Ssrcs -> Peers \cup {NoPeer}]
    /\ rpc \in [Workers -> RpcRec]
    /\ \A w \in Workers :
          /\ rpc[w].op # "idle" => rpc[w].sub \in Peers
          /\ rpc[w].op \in {"addConsumer", "bind"} => rpc[w].pub \in Peers
    /\ udp \in UdpRec
    /\ udp.pc \in {"create", "forward"} => udp.from \in Peers /\ udp.ssrc \in Ssrcs
    /\ udp.pc \in {"feedback", "translate"} => udp.held # 0

(* Router.cpp removePeer: no list of a Producer, and no entry of            *)
(* _outSsrcToConsumer, keeps a pointer to a Consumer that was destroyed with *)
(* its subscriber, even when allocateSsrc hands out one SSRC twice.         *)
NoDanglingConsumer ==
    /\ \A r \in liveProducers : producer[r].consumers \subseteq liveConsumers
    /\ \A o \in OutSsrcs : outSsrcToConsumer[o] # 0 => outSsrcToConsumer[o] \in liveConsumers

(* Producer::consumers and Consumer::publisher/publisherSsrc are the two     *)
(* ends of one link: each list holds exactly the consumers that point back.  *)
AttachmentConsistent ==
    \A c \in liveConsumers, r \in liveProducers :
        c \in producer[r].consumers <=>
            /\ consumer[c].publisher = producer[r].publisher
            /\ consumer[c].publisherSsrc = producer[r].originalSsrc

(* Router.cpp:74 and 184 compare isVideo: an audio consumer is never fed by a  *)
(* video Producer or the other way round, though a packet's kind is decided  *)
(* anew for every packet.                                                    *)
KindsKeptApart ==
    \A r \in liveProducers : \A c \in producer[r].consumers \cap liveConsumers :
        consumer[c].kind = producer[r].kind

(* Router.cpp:68-72: whichever comes first, the publisher's packet or the    *)
(* subscription, no consumer is left waiting for a stream that the publisher *)
(* already sends.                                                            *)
NoStrandedConsumer ==
    \A c \in liveConsumers, r \in liveProducers :
        /\ consumer[c].publisher = producer[r].publisher
        /\ consumer[c].kind = producer[r].kind
        => consumer[c].publisherSsrc # 0

(* SetupConsumers adds consumers again for every pair on every join; still   *)
(* at most one consumer of a (subscriber, publisher, kind) can be bound to a *)
(* mid, so no subscriber is sent a stream twice.                             *)
OneDeliveringConsumer ==
    \A c, d \in liveConsumers :
        /\ consumer[c].subscriber = consumer[d].subscriber
        /\ consumer[c].kind = consumer[d].kind
        /\ consumer[c].publisher = consumer[d].publisher
        /\ consumer[c].publisher # NoPeer
        /\ consumer[c].recvMid # NoMid /\ consumer[d].recvMid # NoMid
        => c = d

(* onRtpPacket forwards from a snapshot taken earlier: a consumer of the     *)
(* snapshot that still exists and is active is still subscribed to exactly   *)
(* the stream the packet belongs to.                                         *)
InFlightPacketIsSubscribed ==
    \A c \in udp.targets \cap liveConsumers :
        consumer[c].active => /\ consumer[c].publisher = udp.from
                              /\ consumer[c].publisherSsrc = udp.ssrc

(* RouteTable names as sender of an SSRC only a peer that has a Producer     *)
(* with that SSRC, even when two browsers picked the same one.               *)
RouteTableSound ==
    \A s \in Ssrcs : routeTable[s] # NoPeer => findProducer(routeTable[s], s) # {}

(* Router.h:69 says that one lock protects the producer and consumer lists.  *)
(* Claimed consequence: an object that a thread goes on to read was not      *)
(* destroyed under it.                                                       *)
PointersUsedAreLive ==
    /\ udp.pc = "forward" => udp.targets \subseteq liveConsumers
    /\ udp.pc \in {"feedback", "translate"} => udp.held \in liveConsumers
    /\ udp.pc = "keyframes" => udp.sources \subseteq liveProducers
    /\ \A w \in Workers : rpc[w].op = "addReturn" => rpc[w].cell \in liveConsumers

-----------------------------------------------------------------------------
(* What Fanout promises, in terms of the Router's objects. *)

Triple(c) == <<consumer[c].subscriber, consumer[c].publisher, consumer[c].kind>>
Subscribed == {c \in liveConsumers : consumer[c].publisher # NoPeer}
Negotiated == {c \in Subscribed : consumer[c].recvMid # NoMid}

Promised == INSTANCE Fanout WITH
    subs    <- {Triple(c) : c \in Subscribed},
    ready   <- {Triple(c) : c \in Negotiated},
    sending <- {<<producer[r].publisher, producer[r].kind>> : r \in liveProducers},
    due     <- {Triple(c) : c \in Negotiated \cap udp.targets}

(* The Router with its locks, snapshots and raw pointers forwards as Fanout  *)
(* says: a packet goes to all subscribers of its stream that are ready, or   *)
(* to none, and a departure ends exactly the subscriptions it should, also   *)
(* for the packet that is being forwarded.                                   *)
ForwardsAsPromised == Promised!Spec
=============================================================================
