-------------------------- MODULE RouterRefinement --------------------------
(***************************************************************************)
(* Proof that Router implements Fanout, step by step, under the refinement  *)
(* mapping Promised: subscriptions, readiness and the packet in hand are    *)
(* read off the Consumers and the snapshot of the UDP thread.               *)
(***************************************************************************)
EXTENDS RouterProofs

(* Of several Producers of one peer and kind only the oldest has consumers:  *)
(* addConsumer attaches to the first it finds, and findOrCreateProducer finds *)
(* nobody waiting once there is one.                                         *)
OldestFeeds ==
    \A r, q \in liveProducers :
        /\ producer[r].publisher = producer[q].publisher
        /\ producer[r].kind = producer[q].kind
        /\ producer[r].consumers # {}
        => r <= q

(* bindConsumerByMid is given a mid: SendOffer binds only what recv_mids lists. *)
MidsGiven == \A w \in Workers : rpc[w].op = "bind" => rpc[w].mid \in Mids

(* What the refinement needs beyond RouterInv. *)
FeedInv == OldestFeeds /\ MidsGiven

-----------------------------------------------------------------------------
(* FeedInv is inductive, given RouterInv. *)

(* addConsumer adds to the list of the first Producer of the kind only. *)
LEMMA AddConsumerFeeds ==
    ASSUME RouterInv, FeedInv, NEW w \in Workers, NEW o \in OutSsrcs, addConsumer(w, o)
    PROVE  OldestFeeds'
<1>0. TypeOK /\ OldestFeeds
  BY DEF RouterInv, FeedInv
<1>1. CASE UNCHANGED producer
  BY <1>0, <1>1 DEF OldestFeeds, liveProducers
<1>2. ASSUME NEW r \in First(Ready(rpc[w].pub, rpc[w].kind)),
             producer' = [producer EXCEPT ![r].consumers = @ \cup {nextConsumer}]
      PROVE  OldestFeeds'
  <2>1. /\ r \in liveProducers /\ producer[r] \in ProducerRec
        /\ producer[r].publisher = rpc[w].pub /\ producer[r].kind = rpc[w].kind
    BY <1>0, FieldTypes DEF First, Ready, ProducersOf
  <2>2. \A q \in liveProducers :
           producer[q].publisher = producer[r].publisher /\ producer[q].kind = producer[r].kind
           => r <= q
    BY <1>0, <2>1, FieldTypes DEF First, Ready, ProducersOf
  <2> DEFINE v == [producer[r] EXCEPT !.consumers = @ \cup {nextConsumer}]
  <2>3. v.publisher = producer[r].publisher /\ v.kind = producer[r].kind
    BY <2>1 DEF ProducerRec
  <2>4. producer' = [producer EXCEPT ![r] = v]
    BY <1>2
  <2> HIDE DEF v
  <2>5. /\ liveProducers' = liveProducers /\ producer'[r] = v
        /\ \A q \in liveProducers \ {r} : producer'[q] = producer[q]
    BY <2>1, <2>4 DEF liveProducers
  <2> QED
    BY <1>0, <2>2, <2>3, <2>5 DEF OldestFeeds
<1> QED
  BY <1>1, <1>2 DEF addConsumer

(* A Producer made beside another of its kind finds nobody waiting, and an   *)
(* older one has a smaller number.                                           *)
LEMMA CreateFeeds ==
    ASSUME RouterInv, FeedInv, findOrCreateProducer
    PROVE  OldestFeeds'
<1> DEFINE p == udp.from
           k == udp.kind
           n == nextProducer
<1>0. TypeOK /\ HeapInv /\ OldestFeeds
  BY DEF RouterInv, FeedInv
<1>1. CreateEffect(p, udp.ssrc, k)
  BY <1>0, CreateHasEffect
<1>2. /\ liveProducers' = liveProducers \cup {n} /\ n \notin liveProducers
      /\ \A r \in liveProducers : producer'[r] = producer[r]
      /\ producer'[n].publisher = p /\ producer'[n].kind = k
      /\ producer'[n].consumers = Waiting(p, k)
  BY <1>1 DEF CreateEffect
<1>3. n \in Nat /\ \A r \in liveProducers : r \in Nat /\ r < n
  BY <1>0, LiveInRange
<1>4. \A q \in liveProducers : producer[q].publisher = p /\ producer[q].kind = k
                                  => Waiting(p, k) = {}
  BY <1>0 DEF HeapInv, NoStrandedConsumer, Waiting
<1> HIDE DEF p, k, n
<1> SUFFICES ASSUME NEW r \in liveProducers', NEW q \in liveProducers',
                    producer'[r].publisher = producer'[q].publisher,
                    producer'[r].kind = producer'[q].kind,
                    producer'[r].consumers # {}
             PROVE  r <= q
  BY DEF OldestFeeds
<1>5. CASE r = n
  BY <1>2, <1>3, <1>4, <1>5
<1>6. CASE r # n /\ q = n
  <2>1. r \in liveProducers
    BY <1>2, <1>6
  <2>2. r <= n
    BY <1>3, <2>1
  <2> QED
    BY <1>6, <2>2
<1>7. CASE r # n /\ q # n
  BY <1>0, <1>2, <1>7 DEF OldestFeeds
<1> QED
  BY <1>5, <1>6, <1>7

(* Every step keeps FeedInv. *)
LEMMA FeedStep == RouterInv /\ FeedInv /\ [Next]_vars => FeedInv'
<1> SUFFICES ASSUME RouterInv, FeedInv, [Next]_vars PROVE FeedInv'
  OBVIOUS
<1>0. TypeOK /\ OldestFeeds /\ MidsGiven /\ rpc \in [Workers -> RpcRec]
  BY DEF RouterInv, FeedInv, TypeOK
<1>1. UNCHANGED rpc => MidsGiven'
  BY <1>0 DEF MidsGiven
<1>2. UNCHANGED producer => OldestFeeds'
  BY <1>0 DEF OldestFeeds, liveProducers
<1>3. ASSUME NEW w \in Workers, NEW v \in RpcRec, rpc' = [rpc EXCEPT ![w] = v],
             v.op = "bind" => v.mid \in Mids
      PROVE  MidsGiven'
  BY <1>0, <1>3 DEF MidsGiven
<1>4. ASSUME NEW w \in Workers, rpc' = [rpc EXCEPT ![w] = IdleRpc] PROVE MidsGiven'
  BY <1>3, <1>4, IdleTypes
<1>5. CASE GrpcStep
  <2>1. ASSUME NEW p \in Peers, AddPeer(p) PROVE FeedInv'
    BY <1>1, <1>2, <2>1 DEF AddPeer, routerVars, FeedInv
  <2>2. ASSUME NEW w \in Workers, NEW sub \in Peers, NEW pub \in Peers, NEW k \in Kinds,
               AddConsumerLookup(w, sub, pub, k)
        PROVE  FeedInv'
    <3> DEFINE v == [IdleRpc EXCEPT !.op = "addConsumer", !.sub = sub, !.pub = pub, !.kind = k]
    <3>1. v \in RpcRec /\ v.op = "addConsumer"
      BY DEF IdleRpc, RpcRec
    <3>2. rpc' = [rpc EXCEPT ![w] = v] /\ UNCHANGED producer
      BY <2>2 DEF AddConsumerLookup, routerVars
    <3> HIDE DEF v
    <3> QED
      BY <1>2, <1>3, <3>1, <3>2 DEF FeedInv
  <2>3. ASSUME NEW w \in Workers, NEW o \in OutSsrcs, addConsumer(w, o) PROVE FeedInv'
    <3> DEFINE v == [rpc[w] EXCEPT !.op = "addReturn", !.cell = nextConsumer]
    <3>1. v \in RpcRec /\ v.op = "addReturn"
      BY <1>0, <2>3 DEF addConsumer, RpcRec
    <3>2. rpc' = [rpc EXCEPT ![w] = v]
      BY <1>0, <2>3 DEF addConsumer
    <3> HIDE DEF v
    <3> QED
      BY <1>3, <2>3, <3>1, <3>2, AddConsumerFeeds DEF FeedInv
  <2>4. ASSUME NEW w \in Workers, AddConsumerReturn(w) \/ SendOfferAnswer(w) PROVE FeedInv'
    BY <1>2, <1>4, <2>4 DEF AddConsumerReturn, SendOfferAnswer, routerVars, FeedInv
  <2>5. ASSUME NEW w \in Workers, NEW sub \in Peers, NEW pub \in Peers, NEW k \in Kinds,
               NEW m \in Mids, SendOfferLookup(w, sub, pub, k, m)
        PROVE  FeedInv'
    <3> DEFINE v == [IdleRpc EXCEPT !.op = "bind", !.sub = sub, !.pub = pub, !.kind = k, !.mid = m]
    <3>1. v \in RpcRec /\ v.mid \in Mids
      BY DEF IdleRpc, RpcRec
    <3>2. rpc' = [rpc EXCEPT ![w] = v] /\ UNCHANGED producer
      BY <2>5 DEF SendOfferLookup, routerVars
    <3> HIDE DEF v
    <3> QED
      BY <1>2, <1>3, <3>1, <3>2 DEF FeedInv
  <2>6. ASSUME NEW w \in Workers, bindConsumerByMid(w) PROVE FeedInv'
    <3> DEFINE v == [rpc[w] EXCEPT !.op = "answer"]
    <3>1. v \in RpcRec /\ v.op = "answer"
      BY <1>0 DEF RpcRec
    <3>2. rpc' = [rpc EXCEPT ![w] = v] /\ UNCHANGED producer
      BY <1>0, <2>6 DEF bindConsumerByMid
    <3> HIDE DEF v
    <3> QED
      BY <1>2, <1>3, <3>1, <3>2 DEF FeedInv
  <2>7. ASSUME NEW w \in Workers, NEW p \in Peers, RemovePeerErase(w, p) PROVE FeedInv'
    <3> DEFINE v == [IdleRpc EXCEPT !.op = "removePeer", !.sub = p]
    <3>1. v \in RpcRec /\ v.op = "removePeer"
      BY IdleTypes DEF IdleRpc, RpcRec
    <3>2. rpc' = [rpc EXCEPT ![w] = v] /\ UNCHANGED producer
      BY <2>7 DEF RemovePeerErase, routerVars
    <3> HIDE DEF v
    <3> QED
      BY <1>2, <1>3, <3>1, <3>2 DEF FeedInv
  <2>8. ASSUME NEW w \in Workers, removePeer(w) PROVE FeedInv'
    <3>1. RemoveEffect(rpc[w].sub)
      BY <1>0, <2>8, RemoveHasEffect
    <3>2. OldestFeeds'
      BY <1>0, <3>1 DEF RemoveEffect, OldestFeeds
    <3> QED
      BY <1>4, <2>8, <3>2 DEF removePeer, FeedInv
  <2> QED
    BY <1>5, <2>1, <2>2, <2>3, <2>4, <2>5, <2>6, <2>7, <2>8 DEF GrpcStep
<1>6. CASE UdpStep
  BY <1>1, <1>2, <1>6, CreateFeeds
  DEF UdpStep, SrtpReady, sendPLItoAllPeers, onRtpPacket, findOrCreateProducer, Forward,
      onRtcpPacket, CheckPublisher, SendFeedback, routerVars, FeedInv
<1>7. CASE UNCHANGED vars
  BY <1>1, <1>2, <1>7 DEF vars, routerVars, FeedInv
<1> QED
  BY <1>5, <1>6, <1>7 DEF Next

(* FeedInv holds in every reachable state. *)
LEMMA FeedHolds == Spec => [](RouterInv /\ FeedInv)
<1>1. Init => FeedInv
  BY IdleTypes DEF Init, FeedInv, OldestFeeds, MidsGiven, liveProducers
<1> QED
  BY <1>1, InitInv, InvStep, FeedStep, PTL DEF Spec

-----------------------------------------------------------------------------
(***************************************************************************)
(* The four variables of Fanout, as the mapping Promised reads them.        *)
(***************************************************************************)
Subs == {Triple(c) : c \in Subscribed}
Rdy == {Triple(c) : c \in Negotiated}
Streams == {<<producer[r].publisher, producer[r].kind>> : r \in liveProducers}
Due == {Triple(c) : c \in Negotiated \cap udp.targets}

(* What a step must do to be a step of Fanout. *)
Implements == Promised!Next \/ UNCHANGED Promised!vars

(* A step that changes none of the four is a stuttering step of Fanout. *)
LEMMA Stutters == UNCHANGED <<Subs, Rdy, Streams, Due>> => Implements
  BY DEF Implements, Promised!vars, Subs, Rdy, Streams, Due

(* While the Router's objects stay as they are, the subscriptions do. *)
LEMMA SameObjects ==
    ASSUME UNCHANGED routerVars
    PROVE  /\ Subs' = Subs /\ Rdy' = Rdy /\ Streams' = Streams
           /\ udp'.targets = udp.targets => Due' = Due
           /\ Negotiated' = Negotiated
           /\ \A c : Triple(c)' = Triple(c)
  BY DEF routerVars, Subs, Rdy, Streams, Due, Subscribed, Negotiated, Triple, liveConsumers,
         liveProducers

(* Outside the forwarding loop no packet is in hand. *)
LEMMA NothingInHand == udp.targets = {} => Due = {}
  BY DEF Due

(* The subscriptions are triples of peers and kinds. *)
LEMMA SubscriptionTypes ==
    ASSUME TypeOK, NEW c \in Subscribed
    PROVE  /\ c \in liveConsumers /\ Triple(c) \in Promised!Subscriptions /\ Triple(c) \in Subs
           /\ Triple(c)[1] = consumer[c].subscriber
           /\ Triple(c)[2] = consumer[c].publisher
           /\ Triple(c)[3] = consumer[c].kind
           /\ consumer[c].publisher \in Peers /\ consumer[c].kind \in Kinds
<1>1. /\ c \in liveConsumers /\ consumer[c] \in ConsumerRec /\ consumer[c].publisher # NoPeer
  BY FieldTypes DEF Subscribed
<1>2. /\ consumer[c].subscriber \in Peers /\ consumer[c].publisher \in Peers
      /\ consumer[c].kind \in Kinds
  BY <1>1 DEF ConsumerRec
<1> QED
  BY <1>1, <1>2 DEF Triple, Subs, Promised!Subscriptions

(* No two Consumers that are bound to a mid carry one subscription. *)
LEMMA TripleInjective ==
    ASSUME RouterInv, NEW c \in Negotiated, NEW d \in Negotiated, Triple(c) = Triple(d)
    PROVE  c = d
<1>1. TypeOK /\ c \in Subscribed /\ d \in Subscribed
  BY DEF RouterInv, Negotiated
<1>2. /\ c \in liveConsumers /\ d \in liveConsumers
      /\ consumer[c].subscriber = consumer[d].subscriber
      /\ consumer[c].publisher = consumer[d].publisher
      /\ consumer[c].kind = consumer[d].kind
  BY <1>1, SubscriptionTypes
<1>3. c <= d /\ d <= c
  BY <1>2 DEF RouterInv, HeapInv, OldestBound, Negotiated, Subscribed
<1> QED
  BY <1>1, <1>2, <1>3, LiveInRange

(* The consumers of a Producer are those of its stream, if it has any: the   *)
(* packets of a second SSRC of the same kind go to nobody.                   *)
LEMMA AllOrNone ==
    ASSUME RouterInv, FeedInv, NEW r \in liveProducers, producer[r].consumers # {},
           NEW c \in liveConsumers,
           consumer[c].publisher = producer[r].publisher, consumer[c].kind = producer[r].kind
    PROVE  c \in producer[r].consumers
<1>1. TypeOK /\ HeapInv /\ OldestFeeds
  BY DEF RouterInv, FeedInv
<1>2. consumer[c].publisherSsrc # 0 /\ consumer[c].publisher # NoPeer
  BY <1>1, FieldTypes DEF HeapInv, NoStrandedConsumer
<1>3. PICK q \in liveProducers : /\ producer[q].publisher = consumer[c].publisher
                                 /\ producer[q].originalSsrc = consumer[c].publisherSsrc
  BY <1>1, <1>2 DEF HeapInv, AttachedHasProducer
<1>4. c \in producer[q].consumers
  BY <1>1, <1>3 DEF HeapInv, Listed
<1>5. producer[q].kind = producer[r].kind
  BY <1>1, <1>4 DEF HeapInv, Linked
<1>6. q <= r /\ r <= q
  BY <1>1, <1>3, <1>4, <1>5 DEF OldestFeeds
<1>7. q = r
  BY <1>1, <1>6, LiveInRange
<1> QED
  BY <1>4, <1>7

-----------------------------------------------------------------------------
(* Every action is a step of Fanout or a stuttering step. *)

(* addConsumer subscribes; the new Consumer has no mid and is in no snapshot. *)
LEMMA AddConsumerSubscribes ==
    ASSUME RouterInv, NEW w \in Workers, NEW o \in OutSsrcs, addConsumer(w, o)
    PROVE  Implements
<1>a. PICK c : c = nextConsumer
  OBVIOUS
<1>b. PICK t : t = <<rpc[w].sub, rpc[w].pub, rpc[w].kind>>
  OBVIOUS
<1>0. TypeOK /\ rpc[w] \in RpcRec /\ rpc[w].op = "addConsumer" /\ udp' = udp
  BY DEF RouterInv, TypeOK, addConsumer
<1>1. rpc[w].sub \in Peers /\ rpc[w].pub \in Peers /\ rpc[w].kind \in Kinds
  BY <1>0 DEF TypeOK, RpcRec
<1>2. AddConsumerEffect(w, o)
  BY <1>0, AddConsumerHasEffect
<1>3. /\ liveConsumers' = liveConsumers \cup {c} /\ c \notin liveConsumers
      /\ \A d \in liveConsumers : consumer'[d] = consumer[d]
      /\ consumer'[c].publisher # NoPeer /\ consumer'[c].recvMid = NoMid
  BY <1>a, <1>1, <1>2, RouterAssumption DEF AddConsumerEffect
<1>4. Triple(c)' = t /\ \A d \in liveConsumers : Triple(d)' = Triple(d)
  BY <1>a, <1>b, <1>2, <1>3 DEF AddConsumerEffect, Triple
<1>5. Subscribed' = Subscribed \cup {c} /\ Negotiated' = Negotiated
  BY <1>3 DEF Subscribed, Negotiated
<1>6. Subscribed \subseteq liveConsumers /\ Negotiated \subseteq liveConsumers
  BY DEF Subscribed, Negotiated
<1>7. Subs' = Subs \cup {t}
  BY <1>4, <1>5, <1>6 DEF Subs
<1>8. Rdy' = Rdy /\ Due' = Due
  BY <1>0, <1>4, <1>5, <1>6 DEF Rdy, Due
<1>9. Streams' = Streams
  BY <1>2 DEF AddConsumerEffect, Streams
<1>10. t \in Promised!Subscriptions
  BY <1>b, <1>1 DEF Promised!Subscriptions
<1>11. Promised!Subscribe(t)
  BY <1>7, <1>8, <1>9 DEF Promised!Subscribe, Subs, Rdy, Streams, Due
<1> QED
  BY <1>10, <1>11 DEF Implements, Promised!Next

(* bindConsumerByMid makes the subscription of the Consumer it finds ready,  *)
(* also for the packet in hand when its snapshot holds the Consumer.         *)
LEMMA BindNegotiates ==
    ASSUME RouterInv, FeedInv, NEW w \in Workers, bindConsumerByMid(w)
    PROVE  Implements
<1> DEFINE match == Matching(rpc[w].sub, rpc[w].pub, rpc[w].kind)
<1>0. TypeOK /\ MidsGiven /\ rpc[w].op = "bind" /\ udp' = udp /\ producer' = producer
  BY DEF RouterInv, FeedInv, bindConsumerByMid
<1>1. rpc[w].pub \in Peers /\ rpc[w].mid \in Mids
  BY <1>0 DEF TypeOK, MidsGiven
<1>2. Streams' = Streams
  BY <1>0 DEF Streams, liveProducers
<1>3. CASE UNCHANGED consumer
  BY <1>0, <1>2, <1>3, Stutters DEF Subs, Rdy, Due, Subscribed, Negotiated, Triple, liveConsumers
<1>4. ASSUME NEW c \in First(match), consumer' = [consumer EXCEPT ![c].recvMid = rpc[w].mid]
      PROVE  Implements
  <2> DEFINE v == [consumer[c] EXCEPT !.recvMid = rpc[w].mid]
  <2>1. c \in liveConsumers /\ consumer[c] \in ConsumerRec /\ consumer[c].publisher = rpc[w].pub
    BY <1>0, FieldTypes DEF First, Matching, ConsumersOf
  <2>2. /\ v.subscriber = consumer[c].subscriber /\ v.publisher = consumer[c].publisher
        /\ v.kind = consumer[c].kind /\ v.recvMid # NoMid
    BY <1>1, <2>1, RouterAssumption DEF ConsumerRec
  <2>3. consumer' = [consumer EXCEPT ![c] = v]
    BY <1>4
  <2> HIDE DEF v
  <2>4. /\ liveConsumers' = liveConsumers /\ consumer'[c] = v
        /\ \A d \in liveConsumers \ {c} : consumer'[d] = consumer[d]
    BY <2>1, <2>3 DEF liveConsumers
  <2>5. \A d \in liveConsumers : Triple(d)' = Triple(d)
    BY <2>2, <2>4 DEF Triple
  <2>6. Subscribed' = Subscribed /\ c \in Subscribed
    BY <1>1, <2>1, <2>2, <2>4, RouterAssumption DEF Subscribed
  <2>7. Negotiated' = Negotiated \cup {c}
    BY <2>2, <2>4, <2>6 DEF Negotiated, Subscribed
  <2>8. Subscribed \subseteq liveConsumers /\ Negotiated \subseteq liveConsumers
    BY DEF Subscribed, Negotiated
  <2>9. Subs' = Subs /\ Rdy' = Rdy \cup {Triple(c)}
    BY <2>1, <2>5, <2>6, <2>7, <2>8 DEF Subs, Rdy
  <2>10. Due' \in {Due, Due \cup {Triple(c)}}
    <3>1. CASE c \in udp.targets
      BY <1>0, <2>1, <2>5, <2>7, <2>8, <3>1 DEF Due
    <3>2. CASE c \notin udp.targets
      BY <1>0, <2>1, <2>5, <2>7, <2>8, <3>2 DEF Due
    <3> QED
      BY <3>1, <3>2
  <2>11. Triple(c) \in Subs /\ Triple(c) \in Promised!Subscriptions
    BY <1>0, <2>6, SubscriptionTypes
  <2>12. Promised!Negotiate(Triple(c))
    BY <1>2, <2>9, <2>10, <2>11 DEF Promised!Negotiate, Subs, Rdy, Streams, Due
  <2> QED
    BY <2>11, <2>12 DEF Implements, Promised!Next
<1> QED
  BY <1>3, <1>4 DEF bindConsumerByMid

(* removePeer ends the subscriptions of the peer, and those to streams of    *)
(* the peer that have begun, also for the packet in hand.                    *)
LEMMA RemoveLeaves ==
    ASSUME RouterInv, NEW w \in Workers, removePeer(w)
    PROVE  Implements
<1>a. PICK p : p = rpc[w].sub
  OBVIOUS
<1> DEFINE Keeps(t) == t[1] # p /\ ~(t[2] = p /\ <<p, t[3]>> \in Streams)
<1>0. TypeOK /\ HeapInv /\ p \in Peers /\ udp' = udp
  BY <1>a DEF RouterInv, TypeOK, removePeer
<1>1. RemoveEffect(p)
  BY <1>a, <1>0, RemoveHasEffect
<1>2. \A c \in Subscribed : c \in Orphans(p) <=>
                               consumer[c].publisher = p /\ <<p, consumer[c].kind>> \in Streams
  <2> SUFFICES ASSUME NEW c \in Subscribed
               PROVE  c \in Orphans(p) <=>
                        consumer[c].publisher = p /\ <<p, consumer[c].kind>> \in Streams
    OBVIOUS
  <2>1. c \in liveConsumers /\ consumer[c].publisher # NoPeer
    BY DEF Subscribed
  <2>2. ASSUME c \in Orphans(p)
        PROVE  consumer[c].publisher = p /\ <<p, consumer[c].kind>> \in Streams
    <3>1. PICK r \in liveProducers : producer[r].publisher = p /\ c \in producer[r].consumers
      BY <2>2 DEF Orphans, ProducersOf
    <3> QED
      BY <1>0, <3>1 DEF HeapInv, Linked, Streams
  <2>3. ASSUME consumer[c].publisher = p, <<p, consumer[c].kind>> \in Streams
        PROVE  c \in Orphans(p)
    <3>1. PICK r \in liveProducers : <<p, consumer[c].kind>> = <<producer[r].publisher, producer[r].kind>>
      BY <2>3 DEF Streams
    <3>2. producer[r].publisher = p /\ producer[r].kind = consumer[c].kind
      BY <3>1
    <3>3. consumer[c].publisherSsrc # 0
      BY <1>0, <2>1, <2>3, <3>2 DEF HeapInv, NoStrandedConsumer
    <3>4. PICK q \in liveProducers : /\ producer[q].publisher = p
                                     /\ producer[q].originalSsrc = consumer[c].publisherSsrc
      BY <1>0, <2>1, <2>3, <3>3 DEF HeapInv, AttachedHasProducer
    <3>5. c \in producer[q].consumers
      BY <1>0, <2>1, <2>3, <3>4 DEF HeapInv, Listed
    <3> QED
      BY <3>4, <3>5 DEF Orphans, ProducersOf
  <2> QED
    BY <2>2, <2>3
<1>3. \A c \in Subscribed : Keeps(Triple(c)) <=> c \notin ConsumersOf(p) /\ c \notin Orphans(p)
  BY <1>0, <1>2, SubscriptionTypes DEF ConsumersOf
<1>4. /\ Subscribed' = {c \in Subscribed : Keeps(Triple(c))}
      /\ Negotiated' = {c \in Negotiated : Keeps(Triple(c))}
  <2>1. Subscribed' = {c \in Subscribed : c \notin ConsumersOf(p) /\ c \notin Orphans(p)}
    BY <1>1 DEF RemoveEffect, Subscribed
  <2>2. Negotiated' = {c \in Negotiated : c \notin ConsumersOf(p) /\ c \notin Orphans(p)}
    BY <1>1, <2>1 DEF RemoveEffect, Subscribed, Negotiated
  <2> HIDE DEF Keeps
  <2> QED
    BY <1>3, <2>1, <2>2 DEF Negotiated
<1>5. \A c \in Subscribed' : Triple(c)' = Triple(c)
  BY <1>1, RouterAssumption DEF RemoveEffect, Triple, Subscribed
<1> HIDE DEF Keeps
<1>6. Subs' = {t \in Subs : Keeps(t)}
  BY <1>4, <1>5 DEF Subs
<1>7. Negotiated \subseteq Subscribed /\ Negotiated' \subseteq Subscribed'
  BY DEF Negotiated
<1>8. Rdy' = Rdy \cap Subs'
  BY <1>4, <1>5, <1>6, <1>7 DEF Rdy, Subs
<1>9. Due' = Due \cap Subs'
  BY <1>0, <1>4, <1>5, <1>6, <1>7 DEF Due, Subs
<1>10. Streams' = {s \in Streams : s[1] # p}
  BY <1>1 DEF RemoveEffect, Streams, ProducersOf
<1>11. Promised!Leave(p)
  BY <1>6, <1>8, <1>9, <1>10 DEF Promised!Leave, Subs, Rdy, Streams, Due, Keeps
<1> QED
  BY <1>0, <1>11 DEF Implements, Promised!Next

(* onRtpPacket is a packet for all who are ready, or for nobody, once the    *)
(* Producer is found; while it is not found nothing has happened yet.        *)
LEMMA PacketForwards ==
    ASSUME RouterInv, FeedInv, NEW p \in Peers, NEW s \in Ssrcs, NEW k \in Kinds,
           onRtpPacket(p, s, k)
    PROVE  Implements
<1> DEFINE u == [IdleUdp EXCEPT !.from = p, !.ssrc = s, !.kind = k]
<1>0. TypeOK /\ HeapInv /\ UNCHANGED routerVars /\ udp.targets = {}
  BY DEF RouterInv, onRtpPacket, SnapshotKnown
<1>1. u \in UdpRec /\ u.targets = {}
  BY IdleTypes DEF UdpRec, IdleUdp
<1>2. \/ udp' = [u EXCEPT !.pc = "create"]
      \/ \E r \in findProducer(p, s) : udp' = Snapshot(u, producer[r].consumers)
  BY DEF onRtpPacket
<1> HIDE DEF u
<1>3. Subs' = Subs /\ Rdy' = Rdy /\ Streams' = Streams /\ Due = {}
  BY <1>0, SameObjects, NothingInHand
<1>4. CASE udp' = [u EXCEPT !.pc = "create"]
  <2>1. udp'.targets = {}
    BY <1>1, <1>4 DEF UdpRec
  <2> QED
    BY <1>0, <1>3, <2>1, SameObjects, Stutters
<1>5. ASSUME NEW r \in findProducer(p, s), udp' = Snapshot(u, producer[r].consumers)
      PROVE  Implements
  <2>1. /\ r \in liveProducers /\ producer[r].publisher = p /\ producer[r] \in ProducerRec
    BY <1>0, FieldTypes DEF findProducer, ProducersOf
  <2>2. PICK j \in Kinds : producer[r].kind = j
    BY <2>1 DEF ProducerRec
  <2>3. udp'.targets = producer[r].consumers
    <3>1. CASE producer[r].consumers = {}
      BY <1>5, <3>1, IdleTypes DEF Snapshot
    <3>2. CASE producer[r].consumers # {}
      <4>1. udp' = [u EXCEPT !.pc = "forward", !.targets = producer[r].consumers]
        BY <1>5, <3>2 DEF Snapshot
      <4> QED
        BY <1>1, <4>1 DEF UdpRec
    <3> QED
      BY <3>1, <3>2
  <2>4. <<p, j>> \in Streams
    BY <2>1, <2>2 DEF Streams
  <2>5. Due' = {Triple(c) : c \in Negotiated \cap producer[r].consumers}
    BY <1>0, <2>3, SameObjects DEF Due
  <2>6. Due' = {t \in Rdy : t[2] = p /\ t[3] = j} \/ Due' = {}
    <3>1. CASE producer[r].consumers = {}
      BY <2>5, <3>1
    <3>2. CASE producer[r].consumers # {}
      <4>1. \A c \in Negotiated :
               c \in producer[r].consumers <=> Triple(c)[2] = p /\ Triple(c)[3] = j
        <5> SUFFICES ASSUME NEW c \in Negotiated
                     PROVE  c \in producer[r].consumers <=>
                               consumer[c].publisher = p /\ consumer[c].kind = j
          BY <1>0, SubscriptionTypes DEF Negotiated
        <5>1. c \in liveConsumers
          BY DEF Negotiated, Subscribed
        <5>2. c \in producer[r].consumers =>
                 consumer[c].publisher = p /\ consumer[c].kind = j
          BY <1>0, <2>1, <2>2 DEF HeapInv, Linked
        <5>3. consumer[c].publisher = p /\ consumer[c].kind = j => c \in producer[r].consumers
          BY <2>1, <2>2, <3>2, <5>1, AllOrNone
        <5> QED
          BY <5>2, <5>3
      <4> QED
        BY <2>5, <4>1 DEF Rdy
    <3> QED
      BY <3>1, <3>2
  <2>7. Promised!Packet(p, j)
    BY <1>3, <2>4, <2>6 DEF Promised!Packet, Promised!ReadyFor, Subs, Rdy, Streams, Due
  <2> QED
    BY <2>7 DEF Implements, Promised!Next
<1> QED
  BY <1>2, <1>4, <1>5

(* findOrCreateProducer is a packet for all who are ready when it is the     *)
(* first of its kind, and for nobody when it begins a second stream.         *)
LEMMA CreateForwards ==
    ASSUME RouterInv, findOrCreateProducer
    PROVE  Implements
<1>1. PICK p \in Peers, k \in Kinds : p = udp.from /\ k = udp.kind
  BY DEF RouterInv, TypeOK, UdpRec, findOrCreateProducer
<1>2. /\ TypeOK /\ HeapInv /\ udp.targets = {} /\ udp \in UdpRec
      /\ udp' = Snapshot(udp, Waiting(p, k))
  BY <1>1 DEF RouterInv, SnapshotKnown, TypeOK, findOrCreateProducer
<1>3. CreateEffect(p, udp.ssrc, k)
  BY <1>1, <1>2, CreateHasEffect
<1>4. udp'.targets = Waiting(p, k)
  <2>1. CASE Waiting(p, k) = {}
    BY <1>2, <2>1, IdleTypes DEF Snapshot
  <2>2. CASE Waiting(p, k) # {}
    <3>1. udp' = [udp EXCEPT !.pc = "forward", !.targets = Waiting(p, k)]
      BY <1>2, <2>2 DEF Snapshot
    <3> QED
      BY <1>2, <3>1 DEF UdpRec
  <2> QED
    BY <2>1, <2>2
<1>5. /\ Subscribed' = Subscribed /\ Negotiated' = Negotiated
      /\ \A c \in liveConsumers : Triple(c)' = Triple(c)
  BY <1>3 DEF CreateEffect, Subscribed, Negotiated, Triple
<1>6. Subscribed \subseteq liveConsumers /\ Negotiated \subseteq liveConsumers
  BY DEF Subscribed, Negotiated
<1>7. Subs' = Subs /\ Rdy' = Rdy
  BY <1>5, <1>6 DEF Subs, Rdy
<1>8. Due' = {Triple(c) : c \in Negotiated \cap Waiting(p, k)}
  BY <1>4, <1>5, <1>6 DEF Due
<1>9. Streams' = Streams \cup {<<p, k>>}
  BY <1>3 DEF CreateEffect, Streams
<1>10. CASE <<p, k>> \in Streams
  <2>1. PICK r \in liveProducers : <<p, k>> = <<producer[r].publisher, producer[r].kind>>
    BY <1>10 DEF Streams
  <2>2. producer[r].publisher = p /\ producer[r].kind = k
    BY <2>1
  <2>3. Waiting(p, k) = {}
    BY <1>2, <2>2 DEF HeapInv, NoStrandedConsumer, Waiting
  <2>4. Due' = {} /\ Due = {}
    BY <1>2, <1>8, <2>3, NothingInHand
  <2>5. Promised!Packet(p, k)
    BY <1>7, <1>9, <1>10, <2>4 DEF Promised!Packet, Subs, Rdy, Streams, Due
  <2> QED
    BY <2>5 DEF Implements, Promised!Next
<1>11. CASE <<p, k>> \notin Streams
  <2>1. \A c \in Negotiated : c \in Waiting(p, k) <=> Triple(c)[2] = p /\ Triple(c)[3] = k
    <3> SUFFICES ASSUME NEW c \in Negotiated
                 PROVE  c \in Waiting(p, k) <=> consumer[c].publisher = p /\ consumer[c].kind = k
      BY <1>2, SubscriptionTypes DEF Negotiated
    <3>1. c \in liveConsumers /\ consumer[c].publisher # NoPeer
      BY DEF Negotiated, Subscribed
    <3>2. ASSUME consumer[c].publisher = p, consumer[c].kind = k
          PROVE  consumer[c].publisherSsrc = 0
      <4> SUFFICES ASSUME consumer[c].publisherSsrc # 0 PROVE FALSE
        OBVIOUS
      <4>1. PICK r \in liveProducers : /\ producer[r].publisher = consumer[c].publisher
                                       /\ producer[r].originalSsrc = consumer[c].publisherSsrc
        BY <1>2, <3>1 DEF HeapInv, AttachedHasProducer
      <4>2. c \in producer[r].consumers
        BY <1>2, <3>1, <4>1 DEF HeapInv, Listed
      <4>3. producer[r].kind = k /\ producer[r].publisher = p
        BY <1>2, <3>2, <4>1, <4>2 DEF HeapInv, Linked
      <4> QED
        BY <1>11, <4>3 DEF Streams
    <3> QED
      BY <1>2, <3>1, <3>2 DEF Waiting, HeapInv, SubscribersKnown
  <2>2. Due' = {t \in Rdy : t[2] = p /\ t[3] = k}
    BY <1>8, <2>1 DEF Rdy
  <2>3. Promised!Packet(p, k)
    BY <1>2, <1>7, <1>9, <2>2, NothingInHand
    DEF Promised!Packet, Promised!ReadyFor, Subs, Rdy, Streams, Due
  <2> QED
    BY <2>3 DEF Implements, Promised!Next
<1> QED
  BY <1>10, <1>11

(* One turn of the forwarding loop serves one subscription, or none when the *)
(* Consumer is gone, orphaned or not yet bound to a mid.                     *)
LEMMA ForwardDelivers ==
    ASSUME RouterInv, NEW c \in ConsumerIds, Forward(c)
    PROVE  Implements
<1>0. TypeOK /\ udp \in UdpRec /\ c \in udp.targets /\ UNCHANGED routerVars
  BY DEF RouterInv, TypeOK, Forward
<1>1. udp'.targets = udp.targets \ {c}
  <2>1. CASE udp.targets = {c}
    BY <2>1, IdleTypes DEF Forward
  <2>2. CASE udp.targets # {c}
    BY <1>0, <2>2 DEF Forward, UdpRec
  <2> QED
    BY <2>1, <2>2
<1>2. /\ Subs' = Subs /\ Rdy' = Rdy /\ Streams' = Streams /\ Negotiated' = Negotiated
      /\ \A d : Triple(d)' = Triple(d)
  BY <1>0, SameObjects
<1>3. CASE c \in Negotiated
  <2>1. Triple(c) \in Due
    BY <1>0, <1>3 DEF Due
  <2>2. Due' = Due \ {Triple(c)}
    BY <1>1, <1>2, <1>3, TripleInjective DEF Due
  <2>3. Triple(c) \in Promised!Subscriptions
    BY <1>0, <1>3, SubscriptionTypes DEF Negotiated
  <2>4. Promised!Deliver(Triple(c))
    BY <1>2, <2>1, <2>2 DEF Promised!Deliver, Subs, Rdy, Streams, Due
  <2> QED
    BY <2>3, <2>4 DEF Implements, Promised!Next
<1>4. CASE c \notin Negotiated
  <2>1. Due' = Due
    BY <1>1, <1>2, <1>4 DEF Due
  <2> QED
    BY <1>2, <2>1, Stutters
<1> QED
  BY <1>3, <1>4

(* Feedback and key frame requests touch no packet in hand. *)
LEMMA FeedbackStutters ==
    ASSUME RouterInv,
           \/ \E p \in Peers : SrtpReady(p)
           \/ \E r \in ProducerIds : sendPLItoAllPeers(r)
           \/ \E p \in Peers, o \in OutSsrcs : onRtcpPacket(p, o)
           \/ CheckPublisher
           \/ SendFeedback
    PROVE  Implements
<1>0. udp \in UdpRec /\ SnapshotKnown
  BY DEF RouterInv, TypeOK
<1>1. udp.targets = {} /\ UNCHANGED routerVars
  BY <1>0 DEF SnapshotKnown, SrtpReady, sendPLItoAllPeers, onRtcpPacket, CheckPublisher, SendFeedback
<1>2. udp'.targets = {}
  <2>1. ASSUME NEW p \in Peers, SrtpReady(p) PROVE udp'.targets = {}
    BY <2>1, IdleTypes DEF SrtpReady, IdleUdp
  <2>2. ASSUME NEW r \in ProducerIds, sendPLItoAllPeers(r) PROVE udp'.targets = {}
    BY <1>0, <1>1, <2>2, IdleTypes DEF sendPLItoAllPeers, UdpRec
  <2>3. ASSUME NEW p \in Peers, NEW o \in OutSsrcs, onRtcpPacket(p, o) PROVE udp'.targets = {}
    BY <2>3 DEF onRtcpPacket, IdleUdp
  <2>4. CASE CheckPublisher
    <3>1. \/ udp' = IdleUdp
          \/ \E q \in srtp : udp' = [udp EXCEPT !.pc = "translate", !.from = q]
      BY <2>4 DEF CheckPublisher
    <3> QED
      BY <1>0, <1>1, <3>1, IdleTypes DEF UdpRec
  <2>5. CASE SendFeedback
    BY <2>5, IdleTypes DEF SendFeedback
  <2> QED
    BY <2>1, <2>2, <2>3, <2>4, <2>5
<1> QED
  BY <1>1, <1>2, SameObjects, Stutters

(* Every step of the Router is a step of Fanout or a stuttering step. *)
LEMMA StepImplements == RouterInv /\ FeedInv /\ [Next]_vars => [Promised!Next]_(Promised!vars)
<1> SUFFICES ASSUME RouterInv, FeedInv, [Next]_vars PROVE Implements
  BY DEF Implements
<1>1. ASSUME UNCHANGED <<routerVars, udp>> PROVE Implements
  BY <1>1, SameObjects, Stutters
<1>2. CASE GrpcStep
  BY <1>1, <1>2, AddConsumerSubscribes, BindNegotiates, RemoveLeaves
  DEF GrpcStep, AddPeer, AddConsumerLookup, AddConsumerReturn, SendOfferLookup,
      SendOfferAnswer, RemovePeerErase
<1>3. CASE UdpStep
  BY <1>3, PacketForwards, CreateForwards, ForwardDelivers, FeedbackStutters DEF UdpStep
<1>4. CASE UNCHANGED vars
  BY <1>1, <1>4 DEF vars
<1> QED
  BY <1>2, <1>3, <1>4 DEF Next

(* The Router, with its locks, snapshots and raw pointers, forwards as the   *)
(* abstract specification Fanout promises, for any number of peers, streams, *)
(* workers and objects.                                                      *)
THEOREM RouterImplementsFanout == Spec => ForwardsAsPromised
<1>1. Init => Promised!Init
  BY IdleTypes DEF Init, Promised!Init, Subscribed, Negotiated, liveConsumers, liveProducers
<1> QED
  BY <1>1, StepImplements, FeedHolds, PTL DEF Spec, ForwardsAsPromised, Promised!Spec
=============================================================================
