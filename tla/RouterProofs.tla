---------------------------- MODULE RouterProofs ----------------------------
(***************************************************************************)
(* Proofs that the routing structures of Router stay consistent, for any    *)
(* number of peers, streams, workers and objects.                           *)
(***************************************************************************)
EXTENDS Router, TLAPS

(* A Consumer in a Producer's list exists and points back at the stream. *)
Linked ==
    \A r \in liveProducers : \A c \in producer[r].consumers :
        /\ c \in liveConsumers
        /\ consumer[c].publisher = producer[r].publisher
        /\ consumer[c].publisherSsrc = producer[r].originalSsrc
        /\ consumer[c].kind = producer[r].kind

(* A Consumer that points at a stream is in the list of its Producer. *)
Listed ==
    \A c \in liveConsumers, r \in liveProducers :
        /\ consumer[c].publisher = producer[r].publisher
        /\ consumer[c].publisherSsrc = producer[r].originalSsrc
        => c \in producer[r].consumers

(* A Consumer with a publisher and a publisherSsrc has a Producer to point at. *)
AttachedHasProducer ==
    \A c \in liveConsumers :
        /\ consumer[c].publisher # NoPeer
        /\ consumer[c].publisherSsrc # 0
        => \E r \in liveProducers : /\ producer[r].publisher = consumer[c].publisher
                                     /\ producer[r].originalSsrc = consumer[c].publisherSsrc

(* A peer has one Producer per SSRC. *)
ProducersDistinct ==
    \A r, q \in liveProducers :
        /\ producer[r].publisher = producer[q].publisher
        /\ producer[r].originalSsrc = producer[q].originalSsrc
        => r = q

(* findOrCreateProducer walks _allPeers: it misses no subscriber. *)
SubscribersKnown == \A c \in liveConsumers : consumer[c].subscriber \in allPeers

(* The reverse map leads to a Consumer with that outgoing SSRC. *)
ReverseMapSound ==
    \A o \in OutSsrcs : outSsrcToConsumer[o] # 0 =>
        /\ outSsrcToConsumer[o] \in liveConsumers
        /\ consumer[outSsrcToConsumer[o]].rewrittenSsrc = o

(* Only the oldest Consumer for a stream is ever bound to a mid. *)
OldestBound ==
    \A c, d \in liveConsumers :
        /\ consumer[c].subscriber = consumer[d].subscriber
        /\ consumer[c].kind = consumer[d].kind
        /\ consumer[c].publisher = consumer[d].publisher
        /\ consumer[c].publisher # NoPeer
        /\ consumer[c].recvMid # NoMid
        => c <= d

(* The snapshot of the packet in flight holds Consumers allocated by now. *)
SnapshotKnown ==
    /\ udp.targets \subseteq 1 .. (nextConsumer - 1)
    /\ udp.pc # "forward" => udp.targets = {}

(* The part of the invariant that is about the Router's structures. *)
HeapInv ==
    /\ Linked
    /\ Listed
    /\ AttachedHasProducer
    /\ ProducersDistinct
    /\ NoStrandedConsumer
    /\ SubscribersKnown
    /\ ReverseMapSound
    /\ OldestBound
    /\ RouteTableSound

(* The inductive invariant. *)
RouterInv ==
    /\ TypeOK
    /\ HeapInv
    /\ SnapshotKnown
    /\ InFlightPacketIsSubscribed

-----------------------------------------------------------------------------
(* The records of an idle worker and of the idle UDP thread are well typed. *)
LEMMA IdleTypes == /\ AnyKind \in Kinds
                   /\ IdleRpc \in RpcRec
                   /\ IdleUdp \in UdpRec
                   /\ IdleRpc.op = "idle"
                   /\ IdleUdp.pc = "idle"
                   /\ IdleUdp.targets = {}
                   /\ IdleUdp.held = 0
<1>1. AnyKind \in Kinds
  BY RouterAssumption DEF AnyKind
<1> QED
  BY <1>1 DEF IdleRpc, IdleUdp, RpcRec, UdpRec

(* The initial state satisfies the invariant. *)
LEMMA InitInv == Init => RouterInv
<1> SUFFICES ASSUME Init PROVE RouterInv
  OBVIOUS
<1>0. liveConsumers = {} /\ liveProducers = {}
  BY DEF Init, liveConsumers, liveProducers
<1>1. TypeOK
  BY <1>0, IdleTypes, RouterAssumption DEF Init, TypeOK, ConsumerIds
<1>2. /\ Linked /\ Listed /\ AttachedHasProducer /\ ProducersDistinct
      /\ NoStrandedConsumer /\ SubscribersKnown /\ OldestBound
  BY <1>0 DEF Linked, Listed, AttachedHasProducer, ProducersDistinct, NoStrandedConsumer, SubscribersKnown, OldestBound
<1>3. ReverseMapSound
  BY DEF Init, ReverseMapSound
<1>4. SnapshotKnown /\ InFlightPacketIsSubscribed
  BY IdleTypes DEF Init, SnapshotKnown, InFlightPacketIsSubscribed
<1>5. RouteTableSound
  BY DEF Init, RouteTableSound
<1> QED
  BY <1>1, <1>2, <1>3, <1>4, <1>5 DEF RouterInv, HeapInv

-----------------------------------------------------------------------------
(* Type correctness, action by action. *)

(* What TypeOK says of rpc, on its own. *)
RpcOK == /\ rpc \in [Workers -> RpcRec]
         /\ \A w \in Workers :
               /\ rpc[w].op # "idle" => rpc[w].sub \in Peers
               /\ rpc[w].op \in {"addConsumer", "bind"} => rpc[w].pub \in Peers

(* What TypeOK says of udp, on its own. *)
UdpOK == /\ udp \in UdpRec
         /\ udp.pc \in {"create", "forward"} => udp.from \in Peers /\ udp.ssrc \in Ssrcs
         /\ udp.pc \in {"feedback", "translate"} => udp.held # 0

(* What TypeOK says of the Router's structures, on its own. *)
HeapOK == /\ allPeers \subseteq Peers
          /\ nextConsumer \in 1 .. (MaxConsumers + 1)
          /\ liveConsumers \subseteq 1 .. (nextConsumer - 1)
          /\ consumer \in [liveConsumers -> ConsumerRec]
          /\ nextProducer \in 1 .. (MaxProducers + 1)
          /\ liveProducers \subseteq 1 .. (nextProducer - 1)
          /\ producer \in [liveProducers -> ProducerRec]
          /\ outSsrcToConsumer \in [OutSsrcs -> ConsumerIds \cup {0}]
          /\ routeTable \in [Ssrcs -> Peers \cup {NoPeer}]

(* TypeOK of the whole state, in its heap part and its thread part. *)
LEMMA TypeSplit ==
    TypeOK <=> /\ peerState \in [Peers -> {"new", "registered", "removed"}]
               /\ srtp \subseteq Peers
               /\ HeapOK /\ RpcOK /\ UdpOK
  BY DEF TypeOK, HeapOK, RpcOK, UdpOK

(* The two parts give TypeOK back. *)
LEMMA TypeJoin ==
    ASSUME peerState' \in [Peers -> {"new", "registered", "removed"}],
           srtp' \subseteq Peers, HeapOK', RpcOK', UdpOK'
    PROVE  TypeOK'
  BY DEF TypeOK, HeapOK, RpcOK, UdpOK

(* Existing objects have numbers within the bounds, below the next number. *)
LEMMA LiveInRange ==
    ASSUME TypeOK
    PROVE  /\ liveConsumers \subseteq ConsumerIds
           /\ \A c \in liveConsumers : c \in Nat /\ c < nextConsumer
           /\ nextConsumer \in Nat
           /\ liveProducers \subseteq ProducerIds
           /\ \A r \in liveProducers : r \in Nat /\ r < nextProducer
           /\ nextProducer \in Nat
<1>1. /\ nextConsumer \in Nat /\ nextConsumer <= MaxConsumers + 1
      /\ nextProducer \in Nat /\ nextProducer <= MaxProducers + 1
  BY RouterAssumption DEF TypeOK
<1>2. \A c \in liveConsumers : c \in Nat /\ 1 <= c /\ c < nextConsumer
  BY <1>1 DEF TypeOK
<1>3. \A r \in liveProducers : r \in Nat /\ 1 <= r /\ r < nextProducer
  BY <1>1 DEF TypeOK
<1> QED
  BY <1>1, <1>2, <1>3, RouterAssumption DEF ConsumerIds, ProducerIds

(* A worker that takes up or finishes a call stays well typed. *)
LEMMA RpcStep ==
    ASSUME RpcOK, NEW w \in Workers, NEW v \in RpcRec, rpc' = [rpc EXCEPT ![w] = v],
           v.op # "idle" => v.sub \in Peers,
           v.op \in {"addConsumer", "bind"} => v.pub \in Peers
    PROVE  RpcOK'
  BY DEF RpcOK

(* A gRPC worker that finishes its call is well typed. *)
LEMMA RpcToIdle ==
    ASSUME RpcOK, NEW w \in Workers, rpc' = [rpc EXCEPT ![w] = IdleRpc]
    PROVE  RpcOK'
  BY RpcStep, IdleTypes DEF IdleRpc

(* A step that leaves the Router's objects alone keeps their types. *)
LEMMA HeapUnchanged == HeapOK /\ UNCHANGED routerVars => HeapOK'
  BY DEF HeapOK, routerVars, liveConsumers, liveProducers

(* addConsumer: the new Consumer, and the Producer it is attached to. *)
LEMMA HeapAddConsumer ==
    ASSUME TypeOK, NEW w \in Workers, NEW o \in OutSsrcs, addConsumer(w, o)
    PROVE  HeapOK' /\ RpcOK'
<1> DEFINE c == nextConsumer
           new(s) == NewConsumer(rpc[w].sub, rpc[w].pub, rpc[w].kind, o, s)
<1>1. /\ rpc[w] \in RpcRec /\ rpc[w].sub \in Peers /\ rpc[w].pub \in Peers
      /\ rpc[w].kind \in Kinds /\ rpc[w].op = "addConsumer"
  BY DEF TypeOK, addConsumer, RpcRec
<1>2. /\ c \in ConsumerIds /\ c \in Nat /\ nextConsumer' = c + 1
      /\ nextConsumer' \in 1 .. (MaxConsumers + 1)
  BY RouterAssumption DEF addConsumer, ConsumerIds
<1>3. \A s \in Ssrcs \cup {0} : new(s) \in ConsumerRec
  BY <1>1 DEF NewConsumer, ConsumerRec
<1>4. /\ liveConsumers' = liveConsumers \cup {c}
      /\ consumer' \in [liveConsumers' -> ConsumerRec]
      /\ producer' \in [liveProducers' -> ProducerRec]
      /\ liveProducers' = liveProducers
  <2>1. CASE Ready(rpc[w].pub, rpc[w].kind) = {}
    <3>1. consumer' = [d \in liveConsumers \cup {c} |-> IF d = c THEN new(0) ELSE consumer[d]]
      BY <2>1 DEF addConsumer, First
    <3>2. producer' = producer
      BY <2>1 DEF addConsumer, First
    <3> QED
      BY <1>3, <3>1, <3>2 DEF TypeOK, liveConsumers, liveProducers
  <2>2. ASSUME NEW r \in First(Ready(rpc[w].pub, rpc[w].kind)),
               consumer' = [d \in liveConsumers \cup {c} |->
                              IF d = c THEN new(producer[r].originalSsrc) ELSE consumer[d]],
               producer' = [producer EXCEPT ![r].consumers = @ \cup {c}]
        PROVE  <1>4!:
    <3>1. r \in liveProducers /\ producer[r] \in ProducerRec
      BY DEF First, Ready, ProducersOf, TypeOK
    <3>2. producer[r].originalSsrc \in Ssrcs
      BY <3>1 DEF ProducerRec
    <3>3. [producer[r] EXCEPT !.consumers = @ \cup {c}] \in ProducerRec
      BY <3>1, <1>2 DEF ProducerRec
    <3>4. producer' \in [liveProducers -> ProducerRec]
      BY <3>3, <2>2 DEF TypeOK
    <3> QED
      BY <1>3, <2>2, <3>2, <3>4 DEF TypeOK, liveConsumers, liveProducers
  <2> QED
    BY <2>1, <2>2 DEF addConsumer
<1>5. RpcOK'
  <2> DEFINE v == [rpc[w] EXCEPT !.op = "addReturn", !.cell = c]
  <2>1. v \in RpcRec /\ v.op = "addReturn" /\ v.sub \in Peers
    BY <1>1, <1>2 DEF RpcRec
  <2>2. rpc' = [rpc EXCEPT ![w] = v] /\ RpcOK
    BY TypeSplit DEF addConsumer, TypeOK
  <2> HIDE DEF v
  <2> QED
    BY <2>1, <2>2, RpcStep
<1>6. allPeers' \subseteq Peers /\ outSsrcToConsumer' \in [OutSsrcs -> ConsumerIds \cup {0}]
  BY <1>1, <1>2 DEF addConsumer, TypeOK
<1>7. liveConsumers' \subseteq 1 .. (nextConsumer' - 1)
  BY <1>2, <1>4 DEF TypeOK
<1> QED
  BY <1>2, <1>4, <1>5, <1>6, <1>7 DEF HeapOK, TypeOK, addConsumer

(* bindConsumerByMid keeps the types of the Router's objects. *)
LEMMA HeapBind ==
    ASSUME TypeOK, NEW w \in Workers, bindConsumerByMid(w)
    PROVE  HeapOK' /\ RpcOK'
<1>1. /\ rpc[w] \in RpcRec /\ rpc[w].sub \in Peers
      /\ rpc[w].mid \in Mids \cup {NoMid}
  BY DEF TypeOK, bindConsumerByMid, RpcRec
<1> DEFINE match == Matching(rpc[w].sub, rpc[w].pub, rpc[w].kind)
<1>2. rpc' = [rpc EXCEPT ![w] = [rpc[w] EXCEPT !.op = "answer"]]
  BY DEF bindConsumerByMid, TypeOK
<1>3. [rpc[w] EXCEPT !.op = "answer"] \in RpcRec
  BY <1>1 DEF RpcRec
<1>4. RpcOK'
  BY <1>1, <1>2, <1>3 DEF RpcOK, TypeOK, RpcRec
<1>5. CASE UNCHANGED consumer
  BY <1>4, <1>5, HeapUnchanged, TypeSplit DEF bindConsumerByMid, routerVars
<1>6. ASSUME NEW c \in First(match), consumer' = [consumer EXCEPT ![c].recvMid = rpc[w].mid]
      PROVE  HeapOK' /\ RpcOK'
  <2>1. c \in liveConsumers /\ consumer[c] \in ConsumerRec
    BY DEF First, Matching, ConsumersOf, TypeOK
  <2>2. [consumer[c] EXCEPT !.recvMid = rpc[w].mid] \in ConsumerRec
    BY <1>1, <2>1 DEF ConsumerRec
  <2>3. consumer' \in [liveConsumers -> ConsumerRec] /\ liveConsumers' = liveConsumers
    BY <1>6, <2>2 DEF TypeOK, liveConsumers
  <2> QED
    BY <1>4, <2>3 DEF HeapOK, TypeOK, bindConsumerByMid, liveProducers
<1> QED
  BY <1>5, <1>6 DEF bindConsumerByMid

(* removePeer keeps the types of the Router's objects. *)
LEMMA HeapRemovePeer ==
    ASSUME TypeOK, NEW w \in Workers, removePeer(w)
    PROVE  HeapOK' /\ RpcOK'
<1> DEFINE p == rpc[w].sub
<1>1. /\ liveConsumers' = liveConsumers \ ConsumersOf(p)
      /\ liveProducers' = liveProducers \ ProducersOf(p)
  BY DEF removePeer, liveConsumers, liveProducers
<1>2. consumer' \in [liveConsumers' -> ConsumerRec]
  <2>1. \A c \in liveConsumers : Orphaned(c) \in ConsumerRec
    BY DEF TypeOK, Orphaned, ConsumerRec
  <2> QED
    BY <1>1, <2>1 DEF removePeer, TypeOK
<1>3. producer' \in [liveProducers' -> ProducerRec]
  <2>1. \A r \in liveProducers :
           [producer[r] EXCEPT !.consumers = @ \ Detached(p, r)] \in ProducerRec
    BY DEF TypeOK, ProducerRec
  <2> QED
    BY <1>1, <2>1 DEF removePeer
<1>4. /\ outSsrcToConsumer' \in [OutSsrcs -> ConsumerIds \cup {0}]
      /\ routeTable' \in [Ssrcs -> Peers \cup {NoPeer}]
      /\ allPeers' \subseteq Peers
  BY DEF TypeOK, removePeer, unbindPeer
<1>5. HeapOK'
  BY <1>1, <1>2, <1>3, <1>4 DEF HeapOK, TypeOK, removePeer
<1> QED
  BY <1>5, RpcToIdle, TypeSplit DEF removePeer

(* findOrCreateProducer keeps the types of the Router's objects. *)
LEMMA HeapCreateProducer ==
    ASSUME TypeOK, findOrCreateProducer
    PROVE  HeapOK' /\ UdpOK'
<1> DEFINE p == udp.from
           s == udp.ssrc
           k == udp.kind
           r == nextProducer
<1>1. /\ udp \in UdpRec /\ p \in Peers /\ s \in Ssrcs /\ k \in Kinds
      /\ r \in ProducerIds /\ r \in Nat /\ nextProducer' = r + 1
      /\ nextProducer' \in 1 .. (MaxProducers + 1)
  BY RouterAssumption DEF TypeOK, findOrCreateProducer, UdpRec, ProducerIds
<1>2. Waiting(p, k) \subseteq ConsumerIds
  BY LiveInRange DEF Waiting
<1>3. /\ liveProducers' = liveProducers \cup {r}
      /\ producer' \in [liveProducers' -> ProducerRec]
  BY <1>1, <1>2 DEF findOrCreateProducer, liveProducers, TypeOK, ProducerRec
<1>4. /\ liveConsumers' = liveConsumers
      /\ consumer' \in [liveConsumers' -> ConsumerRec]
  <2>1. \A c \in liveConsumers : [consumer[c] EXCEPT !.publisherSsrc = s] \in ConsumerRec
    BY <1>1 DEF TypeOK, ConsumerRec
  <2> QED
    BY <2>1 DEF findOrCreateProducer, liveConsumers, TypeOK
<1>5. routeTable' \in [Ssrcs -> Peers \cup {NoPeer}]
  BY <1>1 DEF findOrCreateProducer, TypeOK
<1>6. HeapOK'
  BY <1>1, <1>3, <1>4, <1>5 DEF HeapOK, TypeOK, findOrCreateProducer
<1>7. UdpOK'
  BY <1>1, <1>2, IdleTypes DEF findOrCreateProducer, UdpOK, UdpRec, Snapshot
<1> QED
  BY <1>6, <1>7

(* TypeOK is inductive. *)
LEMMA TypeStep == TypeOK /\ [Next]_vars => TypeOK'
<1> SUFFICES ASSUME TypeOK, [Next]_vars PROVE TypeOK'
  OBVIOUS
<1>0. /\ HeapOK /\ RpcOK /\ UdpOK
      /\ srtp \subseteq Peers
      /\ peerState \in [Peers -> {"new", "registered", "removed"}]
  BY TypeSplit
<1>1. ASSUME NEW p \in Peers, AddPeer(p) PROVE TypeOK'
  BY <1>0, <1>1, HeapUnchanged, TypeJoin DEF AddPeer, RpcOK, UdpOK
<1>2. ASSUME NEW w \in Workers, NEW sub \in Peers, NEW pub \in Peers, NEW k \in Kinds,
             AddConsumerLookup(w, sub, pub, k)
      PROVE  TypeOK'
  <2> DEFINE v == [IdleRpc EXCEPT !.op = "addConsumer", !.sub = sub, !.pub = pub, !.kind = k]
  <2>1. v \in RpcRec /\ v.sub = sub /\ v.pub = pub
    BY DEF IdleRpc, RpcRec
  <2>2. rpc' = [rpc EXCEPT ![w] = v]
    BY <1>2 DEF AddConsumerLookup
  <2> HIDE DEF v
  <2>3. RpcOK'
    BY <1>0, <2>1, <2>2, RpcStep
  <2> QED
    BY <1>0, <1>2, <2>3, HeapUnchanged, TypeJoin DEF AddConsumerLookup, UdpOK
<1>3. ASSUME NEW w \in Workers, NEW o \in OutSsrcs, addConsumer(w, o) PROVE TypeOK'
  BY <1>0, <1>3, HeapAddConsumer, TypeJoin DEF addConsumer, UdpOK
<1>4. ASSUME NEW w \in Workers, AddConsumerReturn(w) PROVE TypeOK'
  BY <1>0, <1>4, RpcToIdle, HeapUnchanged, TypeJoin DEF AddConsumerReturn, UdpOK
<1>5. ASSUME NEW w \in Workers, NEW sub \in Peers, NEW pub \in Peers, NEW k \in Kinds,
             NEW m \in Mids, SendOfferLookup(w, sub, pub, k, m)
      PROVE  TypeOK'
  <2> DEFINE v == [IdleRpc EXCEPT !.op = "bind", !.sub = sub, !.pub = pub, !.kind = k, !.mid = m]
  <2>1. v \in RpcRec /\ v.sub = sub /\ v.pub = pub
    BY DEF IdleRpc, RpcRec
  <2>2. rpc' = [rpc EXCEPT ![w] = v]
    BY <1>5 DEF SendOfferLookup
  <2> HIDE DEF v
  <2>3. RpcOK'
    BY <1>0, <2>1, <2>2, RpcStep
  <2> QED
    BY <1>0, <1>5, <2>3, HeapUnchanged, TypeJoin DEF SendOfferLookup, UdpOK
<1>6. ASSUME NEW w \in Workers, bindConsumerByMid(w) PROVE TypeOK'
  BY <1>0, <1>6, HeapBind, TypeJoin DEF bindConsumerByMid, UdpOK
<1>7. ASSUME NEW w \in Workers, SendOfferAnswer(w) PROVE TypeOK'
  BY <1>0, <1>7, RpcToIdle, HeapUnchanged, TypeJoin DEF SendOfferAnswer, UdpOK
<1>8. ASSUME NEW w \in Workers, NEW p \in Peers, RemovePeerErase(w, p) PROVE TypeOK'
  <2> DEFINE v == [IdleRpc EXCEPT !.op = "removePeer", !.sub = p]
  <2>1. v \in RpcRec /\ v.sub = p /\ v.op = "removePeer"
    BY IdleTypes DEF IdleRpc, RpcRec
  <2>2. rpc' = [rpc EXCEPT ![w] = v]
    BY <1>8 DEF RemovePeerErase
  <2> HIDE DEF v
  <2>3. RpcOK'
    BY <1>0, <2>1, <2>2, RpcStep
  <2> QED
    BY <1>0, <1>8, <2>3, HeapUnchanged, TypeJoin DEF RemovePeerErase, UdpOK
<1>9. ASSUME NEW w \in Workers, removePeer(w) PROVE TypeOK'
  BY <1>0, <1>9, HeapRemovePeer, TypeJoin DEF removePeer, UdpOK
<1>10. ASSUME NEW p \in Peers, SrtpReady(p) PROVE TypeOK'
  <2>1. UdpOK'
    BY <1>10, IdleTypes, LiveInRange DEF SrtpReady, UdpOK, UdpRec, IdleUdp
  <2> QED
    BY <1>0, <1>10, <2>1, HeapUnchanged, TypeJoin DEF SrtpReady, RpcOK
<1>11. ASSUME NEW r \in ProducerIds, sendPLItoAllPeers(r) PROVE TypeOK'
  <2>1. UdpOK'
    BY <1>0, <1>11, IdleTypes DEF sendPLItoAllPeers, UdpOK, UdpRec
  <2> QED
    BY <1>0, <1>11, <2>1, HeapUnchanged, TypeJoin DEF sendPLItoAllPeers, RpcOK
<1>12. ASSUME NEW p \in Peers, NEW s \in Ssrcs, NEW k \in Kinds, onRtpPacket(p, s, k)
       PROVE  TypeOK'
  <2>1. \A r \in findProducer(p, s) : producer[r].consumers \subseteq ConsumerIds
    BY DEF findProducer, ProducersOf, TypeOK, ProducerRec
  <2> DEFINE u == [IdleUdp EXCEPT !.from = p, !.ssrc = s, !.kind = k]
  <2>2. u \in UdpRec /\ u.from = p /\ u.ssrc = s
    BY IdleTypes DEF UdpRec, IdleUdp
  <2>3. \/ udp' = [u EXCEPT !.pc = "create"]
        \/ \E r \in findProducer(p, s) : udp' = Snapshot(u, producer[r].consumers)
    BY <1>12 DEF onRtpPacket
  <2> HIDE DEF u
  <2>4. UdpOK'
    <3>1. CASE udp' = [u EXCEPT !.pc = "create"]
      BY <2>2, <3>1 DEF UdpOK, UdpRec
    <3>2. ASSUME NEW r \in findProducer(p, s), udp' = Snapshot(u, producer[r].consumers)
          PROVE  UdpOK'
      BY <2>1, <2>2, <3>2, IdleTypes DEF UdpOK, UdpRec, Snapshot
    <3> QED
      BY <2>3, <3>1, <3>2
  <2> QED
    BY <1>0, <1>12, <2>4, HeapUnchanged, TypeJoin DEF onRtpPacket, RpcOK
<1>13. CASE findOrCreateProducer
  BY <1>0, <1>13, HeapCreateProducer, TypeJoin DEF findOrCreateProducer, RpcOK
<1>14. ASSUME NEW c \in ConsumerIds, Forward(c) PROVE TypeOK'
  <2>1. UdpOK'
    BY <1>0, <1>14, IdleTypes DEF Forward, UdpOK, UdpRec
  <2> QED
    BY <1>0, <1>14, <2>1, HeapUnchanged, TypeJoin DEF Forward, RpcOK
<1>15. ASSUME NEW p \in Peers, NEW o \in OutSsrcs, onRtcpPacket(p, o) PROVE TypeOK'
  <2>1. outSsrcToConsumer[o] \in ConsumerIds \cup {0}
    BY DEF TypeOK
  <2>2. UdpOK'
    BY <1>15, <2>1, IdleTypes DEF onRtcpPacket, UdpOK, UdpRec, IdleUdp
  <2> QED
    BY <1>0, <1>15, <2>2, HeapUnchanged, TypeJoin DEF onRtcpPacket, RpcOK
<1>16. CASE CheckPublisher
  <2>1. \/ udp' = IdleUdp
        \/ \E p \in srtp : udp' = [udp EXCEPT !.pc = "translate", !.from = p]
    BY <1>16 DEF CheckPublisher
  <2>2. \A p \in srtp : [udp EXCEPT !.pc = "translate", !.from = p] \in UdpRec
    BY <1>0 DEF UdpOK, UdpRec
  <2>3. udp.held # 0
    BY <1>0, <1>16 DEF UdpOK, CheckPublisher
  <2>4. UdpOK'
    BY <1>0, <2>1, <2>2, <2>3, IdleTypes DEF UdpOK, UdpRec
  <2> QED
    BY <1>0, <1>16, <2>4, HeapUnchanged, TypeJoin DEF CheckPublisher, RpcOK
<1>17. CASE SendFeedback
  BY <1>0, <1>17, HeapUnchanged, TypeJoin, IdleTypes DEF SendFeedback, RpcOK, UdpOK
<1>18. CASE UNCHANGED vars
  BY <1>0, <1>18, HeapUnchanged, TypeJoin DEF vars, RpcOK, UdpOK
<1> QED
  BY <1>1, <1>2, <1>3, <1>4, <1>5, <1>6, <1>7, <1>8, <1>9, <1>10, <1>11, <1>12, <1>13, <1>14,
     <1>15, <1>16, <1>17, <1>18 DEF Next, GrpcStep, UdpStep

(* Every variable of the routing core keeps its type, and no call or packet  *)
(* handler goes on with a null pointer.                                      *)
THEOREM TypeCorrect == Spec => []TypeOK
<1>1. Init => TypeOK
  BY InitInv DEF RouterInv
<1> QED
  BY <1>1, TypeStep, PTL DEF Spec

-----------------------------------------------------------------------------
(* The structural invariant, action by action. *)

(* A step that leaves the Router's objects alone keeps HeapInv. *)
LEMMA HeapInvUnchanged == HeapInv /\ UNCHANGED routerVars => HeapInv'
  BY DEF HeapInv, Linked, Listed, AttachedHasProducer, ProducersDistinct, NoStrandedConsumer,
         SubscribersKnown, ReverseMapSound, OldestBound, RouteTableSound, routerVars, liveConsumers,
         liveProducers, findProducer, ProducersOf

(* The fields of live objects have their types; no stream has SSRC 0. *)
LEMMA FieldTypes ==
    ASSUME TypeOK
    PROVE  /\ \A c \in liveConsumers :
                 /\ consumer[c] \in ConsumerRec
                 /\ consumer[c].subscriber \in Peers
                 /\ consumer[c].publisher \in Peers \cup {NoPeer}
           /\ \A r \in liveProducers :
                 /\ producer[r] \in ProducerRec
                 /\ producer[r].publisher \in Peers
                 /\ producer[r].originalSsrc \in Ssrcs
                 /\ producer[r].originalSsrc # 0
                 /\ producer[r].publisher # NoPeer
<1>1. /\ \A c \in liveConsumers : consumer[c] \in ConsumerRec
      /\ \A r \in liveProducers : producer[r] \in ProducerRec
  BY DEF TypeOK
<1> QED
  BY <1>1, RouterAssumption DEF ConsumerRec, ProducerRec

(* What addConsumer does to the objects, field by field. *)
AddConsumerEffect(w, o) ==
    LET c == nextConsumer IN
    /\ liveConsumers' = liveConsumers \cup {c}
    /\ c \notin liveConsumers
    /\ \A d \in liveConsumers : consumer'[d] = consumer[d] /\ d # c /\ d < c
    /\ consumer'[c].subscriber = rpc[w].sub
    /\ consumer'[c].publisher = rpc[w].pub
    /\ consumer'[c].kind = rpc[w].kind
    /\ consumer'[c].rewrittenSsrc = o
    /\ consumer'[c].recvMid = NoMid
    /\ liveProducers' = liveProducers
    /\ \A r \in liveProducers :
          /\ producer'[r].publisher = producer[r].publisher
          /\ producer'[r].originalSsrc = producer[r].originalSsrc
          /\ producer'[r].kind = producer[r].kind
    /\ \/ /\ Ready(rpc[w].pub, rpc[w].kind) = {}
          /\ consumer'[c].publisherSsrc = 0
          /\ \A r \in liveProducers : producer'[r].consumers = producer[r].consumers
       \/ \E r \in Ready(rpc[w].pub, rpc[w].kind) :
          /\ consumer'[c].publisherSsrc = producer[r].originalSsrc
          /\ producer'[r].consumers = producer[r].consumers \cup {c}
          /\ \A q \in liveProducers \ {r} : producer'[q].consumers = producer[q].consumers

(* What addConsumer changes, in the terms InvAddConsumer uses. *)
LEMMA AddConsumerHasEffect ==
    ASSUME TypeOK, NEW w \in Workers, NEW o \in OutSsrcs, addConsumer(w, o)
    PROVE  AddConsumerEffect(w, o)
<1> DEFINE c == nextConsumer
           new(s) == NewConsumer(rpc[w].sub, rpc[w].pub, rpc[w].kind, o, s)
<1>1. /\ c \notin liveConsumers
      /\ \A d \in liveConsumers : d # c /\ d < c
  BY LiveInRange
<1>2. CASE Ready(rpc[w].pub, rpc[w].kind) = {}
  <2>1. consumer' = [d \in liveConsumers \cup {c} |-> IF d = c THEN new(0) ELSE consumer[d]]
    BY <1>2 DEF addConsumer, First
  <2>2. producer' = producer
    BY <1>2 DEF addConsumer, First
  <2> QED
    BY <1>1, <1>2, <2>1, <2>2 DEF NewConsumer, liveConsumers, liveProducers, AddConsumerEffect
<1>3. ASSUME NEW r \in First(Ready(rpc[w].pub, rpc[w].kind)),
             consumer' = [d \in liveConsumers \cup {c} |->
                            IF d = c THEN new(producer[r].originalSsrc) ELSE consumer[d]],
             producer' = [producer EXCEPT ![r].consumers = @ \cup {c}]
      PROVE  AddConsumerEffect(w, o)
  <2>1. r \in Ready(rpc[w].pub, rpc[w].kind) /\ r \in liveProducers /\ producer[r] \in ProducerRec
    BY FieldTypes DEF First, Ready, ProducersOf
  <2> DEFINE pr == [producer[r] EXCEPT !.consumers = @ \cup {c}]
  <2>2. /\ pr.publisher = producer[r].publisher /\ pr.originalSsrc = producer[r].originalSsrc
        /\ pr.kind = producer[r].kind /\ pr.consumers = producer[r].consumers \cup {c}
    BY <2>1 DEF ProducerRec
  <2>3. producer' = [producer EXCEPT ![r] = pr]
    BY <1>3
  <2> HIDE DEF pr
  <2>4. /\ liveProducers' = liveProducers /\ producer'[r] = pr
        /\ \A q \in liveProducers \ {r} : producer'[q] = producer[q]
    BY <2>1, <2>3 DEF liveProducers, TypeOK
  <2>5. /\ liveConsumers' = liveConsumers \cup {c}
        /\ \A d \in liveConsumers : consumer'[d] = consumer[d]
        /\ consumer'[c] = new(producer[r].originalSsrc)
    BY <1>1, <1>3 DEF liveConsumers
  <2> QED
    BY <1>1, <2>1, <2>2, <2>4, <2>5 DEF NewConsumer, AddConsumerEffect
<1> QED
  BY <1>2, <1>3 DEF addConsumer

(* addConsumer keeps HeapInv. *)
LEMMA InvAddConsumer ==
    ASSUME TypeOK, HeapInv, NEW w \in Workers, NEW o \in OutSsrcs, addConsumer(w, o)
    PROVE  HeapInv'
<1> DEFINE c == nextConsumer
<1>1. AddConsumerEffect(w, o)
  BY AddConsumerHasEffect
<1>2. rpc[w].sub \in Peers /\ rpc[w].pub \in Peers /\ allPeers' = allPeers \cup {rpc[w].sub, rpc[w].pub}
  BY DEF addConsumer, TypeOK
<1>3. \A r \in Ready(rpc[w].pub, rpc[w].kind) :
        /\ r \in liveProducers /\ producer[r].publisher = rpc[w].pub
        /\ producer[r].kind = rpc[w].kind
  BY DEF Ready, ProducersOf
<1>4. Linked'
  BY <1>1, <1>3 DEF AddConsumerEffect, HeapInv, Linked
<1>5. Listed'
  BY <1>1, <1>3, FieldTypes DEF AddConsumerEffect, HeapInv, Listed, ProducersDistinct
<1>6. ProducersDistinct'
  BY <1>1 DEF AddConsumerEffect, HeapInv, ProducersDistinct
<1>7. NoStrandedConsumer'
  BY <1>1, <1>3, FieldTypes DEF AddConsumerEffect, HeapInv, NoStrandedConsumer, Ready, ProducersOf
<1>8. SubscribersKnown'
  BY <1>1, <1>2 DEF AddConsumerEffect, HeapInv, SubscribersKnown
<1>9. ReverseMapSound'
  BY <1>1 DEF AddConsumerEffect, HeapInv, ReverseMapSound, addConsumer, TypeOK
<1>10. OldestBound'
  BY <1>1, LiveInRange DEF AddConsumerEffect, HeapInv, OldestBound
<1>11. RouteTableSound'
  BY <1>1 DEF AddConsumerEffect, HeapInv, RouteTableSound, addConsumer, findProducer, ProducersOf
<1>12. AttachedHasProducer'
  BY <1>1, <1>3 DEF AddConsumerEffect, HeapInv, AttachedHasProducer
<1> QED
  BY <1>4, <1>5, <1>6, <1>7, <1>8, <1>9, <1>10, <1>11, <1>12 DEF HeapInv

(* What bindConsumerByMid does to the objects, field by field. *)
BindEffect(w) ==
    /\ liveConsumers' = liveConsumers
    /\ UNCHANGED <<producer, outSsrcToConsumer, routeTable, allPeers>>
    /\ \A d \in liveConsumers :
          /\ consumer'[d].subscriber = consumer[d].subscriber
          /\ consumer'[d].publisher = consumer[d].publisher
          /\ consumer'[d].kind = consumer[d].kind
          /\ consumer'[d].rewrittenSsrc = consumer[d].rewrittenSsrc
          /\ consumer'[d].publisherSsrc = consumer[d].publisherSsrc
          /\ consumer'[d].active = consumer[d].active
          /\ \/ consumer'[d].recvMid = consumer[d].recvMid
             \/ d \in First(Matching(rpc[w].sub, rpc[w].pub, rpc[w].kind))

(* What bindConsumerByMid changes. *)
LEMMA BindHasEffect ==
    ASSUME TypeOK, NEW w \in Workers, bindConsumerByMid(w)
    PROVE  BindEffect(w)
<1> DEFINE match == Matching(rpc[w].sub, rpc[w].pub, rpc[w].kind)
<1>1. CASE consumer' = consumer
  BY <1>1 DEF bindConsumerByMid, BindEffect, liveConsumers
<1>2. ASSUME NEW c \in First(match), consumer' = [consumer EXCEPT ![c].recvMid = rpc[w].mid]
      PROVE  BindEffect(w)
  <2> DEFINE v == [consumer[c] EXCEPT !.recvMid = rpc[w].mid]
  <2>1. c \in liveConsumers /\ consumer[c] \in ConsumerRec
    BY FieldTypes DEF First, Matching, ConsumersOf
  <2>2. /\ v.subscriber = consumer[c].subscriber /\ v.publisher = consumer[c].publisher
        /\ v.kind = consumer[c].kind /\ v.rewrittenSsrc = consumer[c].rewrittenSsrc
        /\ v.publisherSsrc = consumer[c].publisherSsrc /\ v.active = consumer[c].active
    BY <2>1 DEF ConsumerRec
  <2>3. consumer' = [consumer EXCEPT ![c] = v]
    BY <1>2
  <2> HIDE DEF v
  <2>4. /\ liveConsumers' = liveConsumers /\ consumer'[c] = v
        /\ \A d \in liveConsumers \ {c} : consumer'[d] = consumer[d]
    BY <2>1, <2>3 DEF liveConsumers, TypeOK
  <2> QED
    BY <2>2, <2>4 DEF bindConsumerByMid, BindEffect
<1> QED
  BY <1>1, <1>2 DEF bindConsumerByMid

(* bindConsumerByMid keeps HeapInv. *)
LEMMA InvBind ==
    ASSUME TypeOK, HeapInv, NEW w \in Workers, bindConsumerByMid(w)
    PROVE  HeapInv'
<1>1. BindEffect(w)
  BY BindHasEffect
<1>2. liveProducers' = liveProducers
  BY <1>1 DEF BindEffect, liveProducers
<1>3. /\ Linked' /\ Listed' /\ AttachedHasProducer' /\ ProducersDistinct'
      /\ NoStrandedConsumer' /\ SubscribersKnown' /\ ReverseMapSound'
  BY <1>1, <1>2 DEF BindEffect, HeapInv, Linked, Listed, AttachedHasProducer, ProducersDistinct,
                    NoStrandedConsumer, SubscribersKnown, ReverseMapSound
<1>4. RouteTableSound'
  BY <1>1, <1>2 DEF BindEffect, HeapInv, RouteTableSound, findProducer, ProducersOf
<1>5. OldestBound'
  <2> SUFFICES ASSUME NEW c \in liveConsumers, NEW d \in liveConsumers,
                      consumer[c].subscriber = consumer[d].subscriber,
                      consumer[c].kind = consumer[d].kind,
                      consumer[c].publisher = consumer[d].publisher,
                      consumer[c].publisher # NoPeer,
                      consumer'[c].recvMid # NoMid
               PROVE  c <= d
    BY <1>1 DEF OldestBound, BindEffect
  <2>1. CASE consumer'[c].recvMid = consumer[c].recvMid
    BY <2>1 DEF HeapInv, OldestBound
  <2>2. CASE c \in First(Matching(rpc[w].sub, rpc[w].pub, rpc[w].kind))
    BY <2>2 DEF First, Matching, ConsumersOf
  <2> QED
    BY <1>1, <2>1, <2>2 DEF BindEffect
<1> QED
  BY <1>3, <1>4, <1>5 DEF HeapInv

(* What removePeer does to the objects, field by field. *)
RemoveEffect(p) ==
    /\ liveConsumers' = liveConsumers \ ConsumersOf(p)
    /\ liveProducers' = liveProducers \ ProducersOf(p)
    /\ \A c \in liveConsumers' :
          /\ consumer'[c].subscriber = consumer[c].subscriber
          /\ consumer'[c].kind = consumer[c].kind
          /\ consumer'[c].rewrittenSsrc = consumer[c].rewrittenSsrc
          /\ consumer'[c].publisherSsrc = consumer[c].publisherSsrc
          /\ consumer'[c].recvMid = consumer[c].recvMid
          /\ IF c \in Orphans(p) THEN consumer'[c].publisher = NoPeer /\ ~consumer'[c].active
             ELSE /\ consumer'[c].publisher = consumer[c].publisher
                  /\ consumer'[c].active = consumer[c].active
    /\ \A r \in liveProducers' :
          /\ producer'[r].publisher = producer[r].publisher
          /\ producer'[r].originalSsrc = producer[r].originalSsrc
          /\ producer'[r].kind = producer[r].kind
          /\ producer'[r].consumers = producer[r].consumers \ Detached(p, r)

(* What removePeer changes. *)
LEMMA RemoveHasEffect ==
    ASSUME TypeOK, NEW w \in Workers, removePeer(w)
    PROVE  RemoveEffect(rpc[w].sub)
<1> DEFINE p == rpc[w].sub
<1>1. /\ consumer' = [c \in liveConsumers \ ConsumersOf(p) |->
                          IF c \in Orphans(p) THEN Orphaned(c) ELSE consumer[c]]
      /\ producer' = [r \in liveProducers \ ProducersOf(p) |->
                          [producer[r] EXCEPT !.consumers = @ \ Detached(p, r)]]
  BY DEF removePeer
<1>2. \A c \in liveConsumers :
        /\ Orphaned(c).subscriber = consumer[c].subscriber
        /\ Orphaned(c).kind = consumer[c].kind
        /\ Orphaned(c).rewrittenSsrc = consumer[c].rewrittenSsrc
        /\ Orphaned(c).publisherSsrc = consumer[c].publisherSsrc
        /\ Orphaned(c).recvMid = consumer[c].recvMid
        /\ Orphaned(c).publisher = NoPeer
        /\ Orphaned(c).active = FALSE
  BY FieldTypes DEF Orphaned, ConsumerRec
<1>3. /\ liveConsumers' = liveConsumers \ ConsumersOf(p)
      /\ liveProducers' = liveProducers \ ProducersOf(p)
  BY <1>1 DEF liveConsumers, liveProducers
<1>4. \A r \in liveProducers' :
          /\ producer'[r].publisher = producer[r].publisher
          /\ producer'[r].originalSsrc = producer[r].originalSsrc
          /\ producer'[r].kind = producer[r].kind
          /\ producer'[r].consumers = producer[r].consumers \ Detached(p, r)
  BY <1>1, <1>3, FieldTypes DEF ProducerRec
<1>5. \A c \in liveConsumers' :
        consumer'[c] = IF c \in Orphans(p) THEN Orphaned(c) ELSE consumer[c]
  BY <1>1, <1>3
<1> QED
  BY <1>2, <1>3, <1>4, <1>5 DEF RemoveEffect

(* removePeer keeps HeapInv. *)
LEMMA InvRemovePeer ==
    ASSUME TypeOK, HeapInv, NEW w \in Workers, removePeer(w)
    PROVE  HeapInv'
<1> DEFINE p == rpc[w].sub
<1>1. RemoveEffect(p)
  BY RemoveHasEffect
<1>2. p \in Peers /\ p # NoPeer
  BY RouterAssumption DEF removePeer, TypeOK
<1> HIDE DEF p
(* A consumer of another peer's producer is no orphan of p, and the other way round. *)
<1>3. \A c \in Orphans(p) : c \in liveConsumers /\ consumer[c].publisher = p
  BY DEF HeapInv, Linked, Orphans, ProducersOf
<1>4. \A r \in liveProducers' : r \in liveProducers /\ producer[r].publisher # p
  BY <1>1 DEF RemoveEffect, ProducersOf
<1>5. \A r \in liveProducers' : \A c \in producer[r].consumers :
        c \notin Orphans(p) /\ (c \in ConsumersOf(p) => c \in Detached(p, r))
  BY <1>3, <1>4, FieldTypes DEF HeapInv, Linked, Detached
<1>6. Linked'
  BY <1>1, <1>4, <1>5 DEF RemoveEffect, HeapInv, Linked
<1>7. Listed'
  <2> SUFFICES ASSUME NEW c \in liveConsumers', NEW r \in liveProducers',
                      consumer'[c].publisher = producer'[r].publisher,
                      consumer'[c].publisherSsrc = producer'[r].originalSsrc
               PROVE  c \in producer'[r].consumers
    BY DEF Listed
  <2>1. c \notin Orphans(p) /\ c \in liveConsumers /\ c \notin ConsumersOf(p)
    BY <1>1, <1>4, FieldTypes DEF RemoveEffect
  <2> QED
    BY <1>1, <1>4, <2>1 DEF RemoveEffect, HeapInv, Listed, Detached
<1>8. ProducersDistinct'
  BY <1>1, <1>4 DEF RemoveEffect, HeapInv, ProducersDistinct
<1>9. NoStrandedConsumer'
  <2> SUFFICES ASSUME NEW c \in liveConsumers', NEW r \in liveProducers',
                      consumer'[c].publisher = producer'[r].publisher,
                      consumer'[c].kind = producer'[r].kind
               PROVE  consumer'[c].publisherSsrc # 0
    BY DEF NoStrandedConsumer
  <2>1. c \notin Orphans(p) /\ c \in liveConsumers
    BY <1>1, <1>4, FieldTypes DEF RemoveEffect
  <2> QED
    BY <1>1, <1>4, <2>1 DEF RemoveEffect, HeapInv, NoStrandedConsumer
<1>10. SubscribersKnown'
  BY <1>1 DEF RemoveEffect, HeapInv, SubscribersKnown, removePeer, ConsumersOf, p
<1>11. ReverseMapSound'
  <2> SUFFICES ASSUME NEW o \in OutSsrcs, outSsrcToConsumer'[o] # 0
               PROVE  /\ outSsrcToConsumer'[o] \in liveConsumers'
                      /\ consumer'[outSsrcToConsumer'[o]].rewrittenSsrc = o
    BY DEF ReverseMapSound
  <2>1. outSsrcToConsumer'[o] = outSsrcToConsumer[o] /\ o \notin Erased(p)
    BY DEF removePeer, p
  <2>2. outSsrcToConsumer[o] \in liveConsumers /\ consumer[outSsrcToConsumer[o]].rewrittenSsrc = o
    BY <2>1 DEF HeapInv, ReverseMapSound
  <2>3. outSsrcToConsumer[o] \notin ConsumersOf(p)
    BY <2>1, <2>2 DEF Erased
  <2> QED
    BY <1>1, <2>1, <2>2, <2>3 DEF RemoveEffect
<1>12. OldestBound'
  <2> SUFFICES ASSUME NEW c \in liveConsumers', NEW d \in liveConsumers',
                      consumer'[c].subscriber = consumer'[d].subscriber,
                      consumer'[c].kind = consumer'[d].kind,
                      consumer'[c].publisher = consumer'[d].publisher,
                      consumer'[c].publisher # NoPeer,
                      consumer'[c].recvMid # NoMid
               PROVE  c <= d
    BY DEF OldestBound
  <2>1. c \notin Orphans(p) /\ d \notin Orphans(p) /\ c \in liveConsumers /\ d \in liveConsumers
    BY <1>1 DEF RemoveEffect
  <2> QED
    BY <1>1, <2>1 DEF RemoveEffect, HeapInv, OldestBound
<1>13. RouteTableSound'
  <2> SUFFICES ASSUME NEW s \in Ssrcs, routeTable'[s] # NoPeer
               PROVE  \E r \in liveProducers' : /\ producer'[r].publisher = routeTable'[s]
                                                /\ producer'[r].originalSsrc = s
    BY DEF RouteTableSound, findProducer, ProducersOf
  <2>1. routeTable'[s] = routeTable[s] /\ routeTable[s] # p
    BY DEF removePeer, unbindPeer, p
  <2>2. PICK r \in liveProducers : /\ producer[r].publisher = routeTable[s]
                                   /\ producer[r].originalSsrc = s
    BY <2>1 DEF HeapInv, RouteTableSound, findProducer, ProducersOf
  <2>3. r \in liveProducers'
    BY <1>1, <2>1, <2>2 DEF RemoveEffect, ProducersOf
  <2> QED
    BY <1>1, <2>1, <2>2, <2>3 DEF RemoveEffect
<1>14. AttachedHasProducer'
  <2> SUFFICES ASSUME NEW c \in liveConsumers', consumer'[c].publisher # NoPeer,
                      consumer'[c].publisherSsrc # 0
               PROVE  \E r \in liveProducers' :
                         /\ producer'[r].publisher = consumer'[c].publisher
                         /\ producer'[r].originalSsrc = consumer'[c].publisherSsrc
    BY DEF AttachedHasProducer
  <2>1. /\ c \notin Orphans(p) /\ c \in liveConsumers
        /\ consumer'[c].publisher = consumer[c].publisher
        /\ consumer'[c].publisherSsrc = consumer[c].publisherSsrc
    BY <1>1 DEF RemoveEffect
  <2>2. PICK r \in liveProducers : /\ producer[r].publisher = consumer[c].publisher
                                   /\ producer[r].originalSsrc = consumer[c].publisherSsrc
    BY <2>1 DEF HeapInv, AttachedHasProducer
  <2>3. c \in producer[r].consumers
    BY <2>1, <2>2 DEF HeapInv, Listed
  <2>4. r \in liveProducers'
    BY <1>1, <2>1, <2>3 DEF RemoveEffect, Orphans
  <2> QED
    BY <1>1, <2>1, <2>2, <2>4 DEF RemoveEffect
<1> QED
  BY <1>6, <1>7, <1>8, <1>9, <1>10, <1>11, <1>12, <1>13, <1>14 DEF HeapInv

(* What findOrCreateProducer does to the objects, field by field. *)
CreateEffect(p, s, k) ==
    LET n == nextProducer IN
    /\ liveConsumers' = liveConsumers
    /\ liveProducers' = liveProducers \cup {n}
    /\ n \notin liveProducers
    /\ \A r \in liveProducers : producer'[r] = producer[r] /\ r # n
    /\ producer'[n].publisher = p
    /\ producer'[n].originalSsrc = s
    /\ producer'[n].kind = k
    /\ producer'[n].consumers = Waiting(p, k)
    /\ \A c \in liveConsumers :
          /\ consumer'[c].subscriber = consumer[c].subscriber
          /\ consumer'[c].publisher = consumer[c].publisher
          /\ consumer'[c].kind = consumer[c].kind
          /\ consumer'[c].rewrittenSsrc = consumer[c].rewrittenSsrc
          /\ consumer'[c].recvMid = consumer[c].recvMid
          /\ consumer'[c].publisherSsrc = IF c \in Waiting(p, k) THEN s
                                          ELSE consumer[c].publisherSsrc

(* What findOrCreateProducer changes when it makes a Producer. *)
LEMMA CreateHasEffect ==
    ASSUME TypeOK, findOrCreateProducer
    PROVE  CreateEffect(udp.from, udp.ssrc, udp.kind)
<1> DEFINE p == udp.from
           s == udp.ssrc
           k == udp.kind
           n == nextProducer
           new == [publisher |-> p, originalSsrc |-> s, kind |-> k, consumers |-> Waiting(p, k)]
           att(c) == [consumer[c] EXCEPT !.publisherSsrc = s]
<1>1. /\ producer' = [q \in liveProducers \cup {n} |-> IF q = n THEN new ELSE producer[q]]
      /\ consumer' = [c \in liveConsumers |-> IF c \in Waiting(p, k) THEN att(c) ELSE consumer[c]]
  BY DEF findOrCreateProducer
<1>2. \A c \in liveConsumers :
        /\ att(c).subscriber = consumer[c].subscriber
        /\ att(c).publisher = consumer[c].publisher
        /\ att(c).kind = consumer[c].kind
        /\ att(c).rewrittenSsrc = consumer[c].rewrittenSsrc
        /\ att(c).recvMid = consumer[c].recvMid
        /\ att(c).publisherSsrc = s
  BY FieldTypes DEF ConsumerRec
<1>3. n \notin liveProducers /\ \A r \in liveProducers : r # n
  BY LiveInRange
<1> HIDE DEF att
<1>4. /\ liveConsumers' = liveConsumers
      /\ \A c \in liveConsumers :
            consumer'[c] = IF c \in Waiting(p, k) THEN att(c) ELSE consumer[c]
  BY <1>1 DEF liveConsumers
<1>5. /\ liveProducers' = liveProducers \cup {n}
      /\ producer'[n] = new
      /\ \A r \in liveProducers : producer'[r] = producer[r]
  BY <1>1, <1>3 DEF liveProducers
<1> QED
  BY <1>2, <1>3, <1>4, <1>5 DEF CreateEffect

(* findOrCreateProducer keeps HeapInv. *)
LEMMA InvCreateProducer ==
    ASSUME TypeOK, HeapInv, findOrCreateProducer
    PROVE  HeapInv'
<1> DEFINE p == udp.from
           s == udp.ssrc
           k == udp.kind
           n == nextProducer
<1>1. CreateEffect(p, s, k)
  BY CreateHasEffect
<1>2. /\ p \in Peers /\ s \in Ssrcs /\ s # 0 /\ p # NoPeer
      /\ routeTable' = [routeTable EXCEPT ![s] = p] /\ allPeers' = allPeers
      /\ outSsrcToConsumer' = outSsrcToConsumer
  BY RouterAssumption DEF findOrCreateProducer, TypeOK
<1>3. \A r \in liveProducers : ~(producer[r].publisher = p /\ producer[r].originalSsrc = s)
  BY DEF findOrCreateProducer, findProducer, ProducersOf
<1> HIDE DEF p, s, k, n
(* All consumers that wait for the stream are found. *)
<1>4. \A c \in liveConsumers :
        c \in Waiting(p, k) <=> /\ consumer[c].publisher = p /\ consumer[c].kind = k
                                /\ consumer[c].publisherSsrc = 0
  BY DEF HeapInv, SubscribersKnown, Waiting
<1>5. Waiting(p, k) \subseteq liveConsumers
  BY DEF Waiting
<1>6. Linked'
  <2>1. \A r \in liveProducers : \A c \in producer[r].consumers : c \notin Waiting(p, k)
    BY <1>4, FieldTypes DEF HeapInv, Linked
  <2>2. \A r \in liveProducers : \A c \in producer'[r].consumers :
          /\ c \in liveConsumers'
          /\ consumer'[c].publisher = producer'[r].publisher
          /\ consumer'[c].publisherSsrc = producer'[r].originalSsrc
          /\ consumer'[c].kind = producer'[r].kind
    BY <1>1, <2>1 DEF CreateEffect, HeapInv, Linked
  <2>3. \A c \in producer'[n].consumers :
          /\ c \in liveConsumers'
          /\ consumer'[c].publisher = producer'[n].publisher
          /\ consumer'[c].publisherSsrc = producer'[n].originalSsrc
          /\ consumer'[c].kind = producer'[n].kind
    BY <1>1, <1>4, <1>5 DEF CreateEffect, n
  <2> QED
    BY <1>1, <2>2, <2>3 DEF CreateEffect, Linked, n
<1>7. Listed'
  <2> SUFFICES ASSUME NEW c \in liveConsumers', NEW r \in liveProducers',
                      consumer'[c].publisher = producer'[r].publisher,
                      consumer'[c].publisherSsrc = producer'[r].originalSsrc
               PROVE  c \in producer'[r].consumers
    BY DEF Listed
  <2>1. CASE r = n /\ c \in Waiting(p, k)
    BY <1>1, <2>1 DEF CreateEffect, n
  <2>2. CASE r = n /\ c \notin Waiting(p, k)
    (* A consumer that already pointed at (p, s) had a Producer with that SSRC. *)
    <3>1. consumer[c].publisher = p /\ consumer[c].publisherSsrc = s /\ c \in liveConsumers
      BY <1>1, <2>2 DEF CreateEffect, n
    <3> QED
      BY <1>2, <1>3, <3>1 DEF HeapInv, AttachedHasProducer
  <2>3. CASE r # n
    <3>1. r \in liveProducers /\ producer'[r] = producer[r] /\ c \in liveConsumers
      BY <1>1, <2>3 DEF CreateEffect, n
    <3>2. c \notin Waiting(p, k)
      BY <1>1, <1>3, <1>4, <3>1 DEF CreateEffect
    <3> QED
      BY <1>1, <3>1, <3>2 DEF CreateEffect, HeapInv, Listed
  <2> QED
    BY <2>1, <2>2, <2>3
<1>8. ProducersDistinct'
  BY <1>1, <1>3 DEF CreateEffect, HeapInv, ProducersDistinct
<1>9. NoStrandedConsumer'
  BY <1>1, <1>2, <1>4 DEF CreateEffect, HeapInv, NoStrandedConsumer
<1>10. SubscribersKnown' /\ ReverseMapSound' /\ OldestBound'
  BY <1>1, <1>2 DEF CreateEffect, HeapInv, SubscribersKnown, ReverseMapSound, OldestBound
<1>11. RouteTableSound'
  <2> SUFFICES ASSUME NEW t \in Ssrcs, routeTable'[t] # NoPeer
               PROVE  \E r \in liveProducers' : /\ producer'[r].publisher = routeTable'[t]
                                                /\ producer'[r].originalSsrc = t
    BY DEF RouteTableSound, findProducer, ProducersOf
  <2>1. CASE t = s
    BY <1>1, <1>2, <2>1 DEF CreateEffect, TypeOK
  <2>2. CASE t # s
    <3>1. routeTable'[t] = routeTable[t]
      BY <1>2, <2>2 DEF TypeOK
    <3>2. PICK r \in liveProducers : /\ producer[r].publisher = routeTable[t]
                                     /\ producer[r].originalSsrc = t
      BY <3>1 DEF HeapInv, RouteTableSound, findProducer, ProducersOf
    <3> QED
      BY <1>1, <3>1, <3>2 DEF CreateEffect
  <2> QED
    BY <2>1, <2>2
<1>12. AttachedHasProducer'
  <2> SUFFICES ASSUME NEW c \in liveConsumers', consumer'[c].publisher # NoPeer,
                      consumer'[c].publisherSsrc # 0
               PROVE  \E r \in liveProducers' :
                         /\ producer'[r].publisher = consumer'[c].publisher
                         /\ producer'[r].originalSsrc = consumer'[c].publisherSsrc
    BY DEF AttachedHasProducer
  <2>1. c \in liveConsumers
    BY <1>1 DEF CreateEffect
  <2>2. CASE c \in Waiting(p, k)
    BY <1>1, <1>4, <2>1, <2>2 DEF CreateEffect
  <2>3. CASE c \notin Waiting(p, k)
    <3>1. PICK r \in liveProducers : /\ producer[r].publisher = consumer[c].publisher
                                     /\ producer[r].originalSsrc = consumer[c].publisherSsrc
      BY <1>1, <2>1, <2>3 DEF CreateEffect, HeapInv, AttachedHasProducer
    <3> QED
      BY <1>1, <2>1, <2>3, <3>1 DEF CreateEffect
  <2> QED
    BY <2>2, <2>3
<1> QED
  BY <1>6, <1>7, <1>8, <1>9, <1>10, <1>11, <1>12 DEF HeapInv

(* Every step keeps HeapInv. *)
LEMMA HeapInvStep == TypeOK /\ HeapInv /\ [Next]_vars => HeapInv'
<1> SUFFICES ASSUME TypeOK, HeapInv, [Next]_vars PROVE HeapInv'
  OBVIOUS
<1>1. ASSUME UNCHANGED routerVars PROVE HeapInv'
  BY <1>1, HeapInvUnchanged
<1>2. CASE GrpcStep
  <2>1. ASSUME NEW w \in Workers, NEW o \in OutSsrcs, addConsumer(w, o) PROVE HeapInv'
    BY <2>1, InvAddConsumer
  <2>2. ASSUME NEW w \in Workers, bindConsumerByMid(w) PROVE HeapInv'
    BY <2>2, InvBind
  <2>3. ASSUME NEW w \in Workers, removePeer(w) PROVE HeapInv'
    BY <2>3, InvRemovePeer
  <2> QED
    BY <1>1, <1>2, <2>1, <2>2, <2>3
    DEF GrpcStep, AddPeer, AddConsumerLookup, AddConsumerReturn, SendOfferLookup,
        SendOfferAnswer, RemovePeerErase
<1>3. CASE UdpStep
  BY <1>1, <1>3, InvCreateProducer
  DEF UdpStep, SrtpReady, sendPLItoAllPeers, onRtpPacket, Forward, onRtcpPacket,
      CheckPublisher, SendFeedback
<1>4. CASE UNCHANGED vars
  BY <1>1, <1>4 DEF vars
<1> QED
  BY <1>2, <1>3, <1>4 DEF Next

-----------------------------------------------------------------------------
(* The packet in flight. *)
FlightInv == SnapshotKnown /\ InFlightPacketIsSubscribed

(* Without a snapshot there is nothing to show. *)
LEMMA NoSnapshot == udp'.targets = {} => FlightInv'
  BY DEF FlightInv, SnapshotKnown, InFlightPacketIsSubscribed

(* gRPC steps keep what is known of the packet in flight. *)
LEMMA FlightGrpc ==
    ASSUME RouterInv, GrpcStep
    PROVE  FlightInv'
<1>0. TypeOK /\ HeapInv /\ FlightInv /\ udp' = udp
  BY DEF RouterInv, FlightInv, GrpcStep, AddPeer, AddConsumerLookup, addConsumer, AddConsumerReturn,
         SendOfferLookup, bindConsumerByMid, SendOfferAnswer, RemovePeerErase, removePeer
<1>1. ASSUME UNCHANGED routerVars PROVE FlightInv'
  BY <1>0, <1>1 DEF FlightInv, SnapshotKnown, InFlightPacketIsSubscribed, routerVars, liveConsumers
<1>2. ASSUME NEW w \in Workers, NEW o \in OutSsrcs, addConsumer(w, o) PROVE FlightInv'
  <2>1. AddConsumerEffect(w, o) /\ nextConsumer' = nextConsumer + 1 /\ nextConsumer \in Nat
    BY <1>0, <1>2, AddConsumerHasEffect, LiveInRange DEF addConsumer
  <2>2. \A c \in udp.targets : c \in 1 .. (nextConsumer - 1) /\ c # nextConsumer
    BY <1>0, <2>1 DEF FlightInv, SnapshotKnown
  <2>3. SnapshotKnown'
    BY <1>0, <2>1 DEF FlightInv, SnapshotKnown
  <2>4. InFlightPacketIsSubscribed'
    BY <1>0, <2>1, <2>2 DEF AddConsumerEffect, FlightInv, InFlightPacketIsSubscribed
  <2> QED
    BY <2>3, <2>4 DEF FlightInv
<1>3. ASSUME NEW w \in Workers, bindConsumerByMid(w) PROVE FlightInv'
  <2>1. BindEffect(w) /\ nextConsumer' = nextConsumer
    BY <1>0, <1>3, BindHasEffect DEF bindConsumerByMid
  <2> QED
    BY <1>0, <2>1 DEF BindEffect, FlightInv, SnapshotKnown, InFlightPacketIsSubscribed
<1>4. ASSUME NEW w \in Workers, removePeer(w) PROVE FlightInv'
  <2>1. RemoveEffect(rpc[w].sub) /\ nextConsumer' = nextConsumer
    BY <1>0, <1>4, RemoveHasEffect DEF removePeer
  <2> QED
    BY <1>0, <2>1 DEF RemoveEffect, FlightInv, SnapshotKnown, InFlightPacketIsSubscribed
<1> QED
  BY <1>1, <1>2, <1>3, <1>4
  DEF GrpcStep, AddPeer, AddConsumerLookup, AddConsumerReturn, SendOfferLookup,
      SendOfferAnswer, RemovePeerErase

(* Steps of the UDP thread keep what is known of the packet in flight. *)
LEMMA FlightUdp ==
    ASSUME RouterInv, UdpStep
    PROVE  FlightInv'
<1>0. TypeOK /\ HeapInv /\ FlightInv /\ udp \in UdpRec
  BY DEF RouterInv, FlightInv, TypeOK
<1>1. ASSUME NEW p \in Peers, SrtpReady(p) PROVE FlightInv'
  BY <1>1, NoSnapshot, IdleTypes DEF SrtpReady, IdleUdp
<1>2. ASSUME NEW r \in ProducerIds, sendPLItoAllPeers(r) PROVE FlightInv'
  <2>1. udp.targets = {}
    BY <1>0, <1>2 DEF sendPLItoAllPeers, FlightInv, SnapshotKnown
  <2>2. udp'.targets = {}
    BY <1>0, <1>2, <2>1, IdleTypes DEF sendPLItoAllPeers, UdpRec
  <2> QED
    BY <2>2, NoSnapshot
<1>3. ASSUME NEW p \in Peers, NEW s \in Ssrcs, NEW k \in Kinds, onRtpPacket(p, s, k)
      PROVE  FlightInv'
  <2> DEFINE u == [IdleUdp EXCEPT !.from = p, !.ssrc = s, !.kind = k]
  <2>1. u \in UdpRec /\ u.from = p /\ u.ssrc = s /\ u.targets = {}
    BY IdleTypes DEF UdpRec, IdleUdp
  <2>2. \/ udp' = [u EXCEPT !.pc = "create"]
        \/ \E r \in findProducer(p, s) : udp' = Snapshot(u, producer[r].consumers)
    BY <1>3 DEF onRtpPacket
  <2>3. UNCHANGED routerVars
    BY <1>3 DEF onRtpPacket
  <2> HIDE DEF u
  <2>4. CASE udp' = [u EXCEPT !.pc = "create"]
    BY <2>1, <2>4, NoSnapshot DEF UdpRec
  <2>5. ASSUME NEW r \in findProducer(p, s), udp' = Snapshot(u, producer[r].consumers)
        PROVE  FlightInv'
    <3>1. /\ r \in liveProducers /\ producer[r].publisher = p /\ producer[r].originalSsrc = s
      BY DEF findProducer, ProducersOf
    <3>2. CASE producer[r].consumers = {}
      BY <2>5, <3>2, NoSnapshot, IdleTypes DEF Snapshot
    <3>3. CASE producer[r].consumers # {}
      <4>1. udp' = [u EXCEPT !.pc = "forward", !.targets = producer[r].consumers]
        BY <2>5, <3>3 DEF Snapshot
      <4>2. /\ udp'.targets = producer[r].consumers /\ udp'.from = p /\ udp'.ssrc = s
            /\ udp'.pc = "forward"
        BY <2>1, <4>1 DEF UdpRec
      <4>3. producer[r].consumers \subseteq liveConsumers
        BY <1>0, <3>1 DEF HeapInv, Linked
      <4>4. SnapshotKnown'
        BY <1>0, <2>3, <4>2, <4>3 DEF SnapshotKnown, TypeOK, routerVars
      <4>5. InFlightPacketIsSubscribed'
        BY <1>0, <2>3, <3>1, <4>2 DEF InFlightPacketIsSubscribed, HeapInv, Linked, routerVars,
                                      liveConsumers
      <4> QED
        BY <4>4, <4>5 DEF FlightInv
    <3> QED
      BY <3>2, <3>3
  <2> QED
    BY <2>2, <2>4, <2>5
<1>4. CASE findOrCreateProducer
  <2> DEFINE p == udp.from
             s == udp.ssrc
             k == udp.kind
  <2>1. CreateEffect(p, s, k) /\ udp' = Snapshot(udp, Waiting(p, k)) /\ nextConsumer' = nextConsumer
    BY <1>0, <1>4, CreateHasEffect DEF findOrCreateProducer
  <2>2. CASE Waiting(p, k) = {}
    BY <2>1, <2>2, NoSnapshot, IdleTypes DEF Snapshot
  <2>3. CASE Waiting(p, k) # {}
    <3>1. udp' = [udp EXCEPT !.pc = "forward", !.targets = Waiting(p, k)]
      BY <2>1, <2>3 DEF Snapshot
    <3>2. /\ udp'.targets = Waiting(p, k) /\ udp'.from = p /\ udp'.ssrc = s
          /\ udp'.pc = "forward"
      BY <1>0, <3>1 DEF UdpRec
    <3>3. Waiting(p, k) \subseteq liveConsumers /\ \A c \in Waiting(p, k) : consumer[c].publisher = p
      BY DEF Waiting
    <3>4. SnapshotKnown'
      BY <1>0, <2>1, <3>2, <3>3 DEF SnapshotKnown, TypeOK
    <3>5. InFlightPacketIsSubscribed'
      BY <2>1, <3>2, <3>3 DEF InFlightPacketIsSubscribed, CreateEffect
    <3> QED
      BY <3>4, <3>5 DEF FlightInv
  <2> QED
    BY <2>2, <2>3
<1>5. ASSUME NEW c \in ConsumerIds, Forward(c) PROVE FlightInv'
  <2>1. \/ udp' = IdleUdp
        \/ udp' = [udp EXCEPT !.targets = @ \ {c}]
    BY <1>5 DEF Forward
  <2>2. CASE udp' = IdleUdp
    BY <2>2, NoSnapshot, IdleTypes
  <2>3. CASE udp' = [udp EXCEPT !.targets = @ \ {c}]
    <3>1. /\ udp'.targets = udp.targets \ {c} /\ udp'.from = udp.from /\ udp'.ssrc = udp.ssrc
          /\ udp'.pc = udp.pc
      BY <1>0, <2>3 DEF UdpRec
    <3> QED
      BY <1>0, <1>5, <3>1 DEF FlightInv, SnapshotKnown, InFlightPacketIsSubscribed, Forward,
                              routerVars, liveConsumers
  <2> QED
    BY <2>1, <2>2, <2>3
<1>6. ASSUME NEW p \in Peers, NEW o \in OutSsrcs, onRtcpPacket(p, o) PROVE FlightInv'
  BY <1>6, NoSnapshot DEF onRtcpPacket, IdleUdp
<1>7. CASE CheckPublisher
  <2>1. udp.targets = {}
    BY <1>0, <1>7 DEF CheckPublisher, FlightInv, SnapshotKnown
  <2>2. \/ udp' = IdleUdp
        \/ \E q \in srtp : udp' = [udp EXCEPT !.pc = "translate", !.from = q]
    BY <1>7 DEF CheckPublisher
  <2>3. udp'.targets = {}
    BY <1>0, <2>1, <2>2, IdleTypes DEF UdpRec
  <2> QED
    BY <2>3, NoSnapshot
<1>8. CASE SendFeedback
  BY <1>8, NoSnapshot, IdleTypes DEF SendFeedback
<1> QED
  BY <1>1, <1>2, <1>3, <1>4, <1>5, <1>6, <1>7, <1>8 DEF UdpStep

(* RouterInv is inductive. *)
LEMMA InvStep == RouterInv /\ [Next]_vars => RouterInv'
<1> SUFFICES ASSUME RouterInv, [Next]_vars PROVE RouterInv'
  OBVIOUS
<1>1. TypeOK' /\ HeapInv'
  BY TypeStep, HeapInvStep DEF RouterInv
<1>2. FlightInv'
  <2>1. CASE UNCHANGED vars
    BY <2>1 DEF RouterInv, FlightInv, SnapshotKnown, InFlightPacketIsSubscribed, vars, routerVars,
                liveConsumers
  <2> QED
    BY <2>1, FlightGrpc, FlightUdp DEF Next
<1> QED
  BY <1>1, <1>2 DEF RouterInv, FlightInv

(* The invariant is inductive. *)
LEMMA InvHolds == Spec => []RouterInv
  BY InitInv, InvStep, PTL DEF Spec

(* Router.cpp removePeer leaves no pointer to a destroyed Consumer in any    *)
(* Producer's list or in _outSsrcToConsumer.                                 *)
THEOREM NoDangling == Spec => []NoDanglingConsumer
<1>1. RouterInv => NoDanglingConsumer
  BY DEF RouterInv, HeapInv, Linked, ReverseMapSound, NoDanglingConsumer
<1> QED
  BY <1>1, InvHolds, PTL

(* A Producer's list holds exactly the Consumers that point back at it.      *)
THEOREM Attachment == Spec => []AttachmentConsistent
<1>1. RouterInv => AttachmentConsistent
  BY DEF RouterInv, HeapInv, Linked, Listed, AttachmentConsistent
<1> QED
  BY <1>1, InvHolds, PTL

(* Audio consumers are fed by audio Producers only, video by video.          *)
THEOREM KindSeparation == Spec => []KindsKeptApart
<1>1. RouterInv => KindsKeptApart
  BY DEF RouterInv, HeapInv, Linked, KindsKeptApart
<1> QED
  BY <1>1, InvHolds, PTL

(* In whichever order addConsumer and the first packet come, no Consumer is  *)
(* left waiting for a stream the publisher already sends.                    *)
THEOREM NoneStranded == Spec => []NoStrandedConsumer
<1>1. RouterInv => NoStrandedConsumer
  BY DEF RouterInv, HeapInv
<1> QED
  BY <1>1, InvHolds, PTL

(* Repeated SetupConsumers never make a subscriber receive a stream twice.   *)
THEOREM DeliveredOnce == Spec => []OneDeliveringConsumer
<1>1. RouterInv => OneDeliveringConsumer
  <2> SUFFICES ASSUME RouterInv, NEW c \in liveConsumers, NEW d \in liveConsumers,
                      consumer[c].subscriber = consumer[d].subscriber,
                      consumer[c].kind = consumer[d].kind,
                      consumer[c].publisher = consumer[d].publisher,
                      consumer[c].publisher # NoPeer,
                      consumer[c].recvMid # NoMid, consumer[d].recvMid # NoMid
               PROVE  c = d
    BY DEF OneDeliveringConsumer
  <2>1. c <= d /\ d <= c
    BY DEF RouterInv, HeapInv, OldestBound
  <2> QED
    BY <2>1, LiveInRange DEF RouterInv
<1> QED
  BY <1>1, InvHolds, PTL

(* A packet is forwarded from a stale snapshot only to consumers still       *)
(* subscribed to its stream.                                                 *)
THEOREM InFlight == Spec => []InFlightPacketIsSubscribed
<1>1. RouterInv => InFlightPacketIsSubscribed
  BY DEF RouterInv
<1> QED
  BY <1>1, InvHolds, PTL

(* RouteTable never names a peer without a Producer for the SSRC.            *)
THEOREM RouteTableCorrect == Spec => []RouteTableSound
<1>1. RouterInv => RouteTableSound
  BY DEF RouterInv, HeapInv
<1> QED
  BY <1>1, InvHolds, PTL
=============================================================================
