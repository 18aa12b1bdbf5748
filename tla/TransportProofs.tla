-------------------------- MODULE TransportProofs --------------------------
(***************************************************************************)
(* Proofs about Transport, for any number of browsers and endpoints: a Peer  *)
(* is bound to one endpoint and has SRTP exactly when its DTLS handshake is  *)
(* over; the keys under an endpoint are those of the browser there; there    *)
(* are Peers enough for all browsers that have not been heard from.          *)
(***************************************************************************)
EXTENDS Transport, FiniteSetTheorems, TLAPS

(* A Peer that waits in _pendingPeers, or has yet to be registered, has      *)
(* never been bound; a Peer made for an endpoint is bound to no other.       *)
UnboundPeers ==
    /\ \A b \in Browsers : call[b] = "out" => b \notin pendingPeers /\ remoteEp[b] = Nothing
    /\ \A b \in pendingPeers : remoteEp[b] = Nothing
    /\ \A e \in Endpoints : remoteEp[e] \in {Nothing, e}

TransportInv == TypeOK /\ UnboundPeers /\ OneEndpointPerPeer

(* What the packet handlers may take as the Peer of an endpoint.             *)
LEMMA CandidatesArePeers ==
    ASSUME TypeOK, NEW e \in Endpoints, NEW p \in Candidates(e)
    PROVE  /\ p \in Peers
           /\ \/ peerMap[e] = p
              \/ peerMap[e] = Nothing /\ (p \in pendingPeers \/ p = e)
  BY TransportAssumption DEF Candidates, TypeOK, Peers

(* Binding an endpoint keeps the table of endpoints consistent.              *)
LEMMA BindInv ==
    ASSUME TransportInv, NEW e \in Endpoints, NEW p \in Candidates(e), Bind(e, p), call' = call
    PROVE  /\ UnboundPeers'
           /\ OneEndpointPerPeer'
           /\ peerMap' \in [Endpoints -> Peers \cup {Nothing}]
           /\ remoteEp' \in [Peers -> Endpoints \cup {Nothing}]
           /\ pendingPeers' \subseteq Browsers
<1>1. p \in Peers /\ \/ peerMap[e] = p
                     \/ peerMap[e] = Nothing /\ (p \in pendingPeers \/ p = e)
  BY CandidatesArePeers DEF TransportInv
<1>2. CASE peerMap[e] = p
  <2>1. peerMap' = peerMap /\ remoteEp' = remoteEp
    BY <1>1, <1>2 DEF Bind, TransportInv, TypeOK
  <2>2. pendingPeers' \subseteq pendingPeers
    BY DEF Bind
  <2> QED
    BY <2>1, <2>2 DEF TransportInv, TypeOK, UnboundPeers, OneEndpointPerPeer
<1>3. CASE peerMap[e] = Nothing /\ (p \in pendingPeers \/ p = e)
  <2>1. p # Nothing
    BY <1>1, TransportAssumption DEF Peers
  <2>2. /\ peerMap' = [peerMap EXCEPT ![e] = p]
        /\ remoteEp' = [remoteEp EXCEPT ![p] = e]
        /\ pendingPeers' = pendingPeers \ {p}
    BY <1>3, <2>1 DEF Bind
  <2>3. \A f \in Endpoints : peerMap[f] = p => f = e
    <3> SUFFICES ASSUME NEW f \in Endpoints, peerMap[f] = p PROVE f = e
      OBVIOUS
    <3>1. remoteEp[p] = f
      BY <2>1 DEF TransportInv, OneEndpointPerPeer
    <3>2. f # Nothing
      BY TransportAssumption
    <3>3. p \notin pendingPeers
      BY <3>1, <3>2 DEF TransportInv, UnboundPeers
    <3> QED
      BY <1>3, <3>1, <3>2, <3>3 DEF TransportInv, UnboundPeers
  <2>4. OneEndpointPerPeer'
    BY <1>1, <2>2, <2>3 DEF TransportInv, TypeOK, OneEndpointPerPeer
  <2>5. UnboundPeers'
    <3>1. \A b \in Browsers : b = p => b \in pendingPeers
      BY <1>3, TransportAssumption
    <3> QED
      BY <1>1, <1>3, <2>2, <3>1, TransportAssumption
      DEF TransportInv, TypeOK, UnboundPeers, Peers
  <2> QED
    BY <1>1, <2>2, <2>4, <2>5 DEF TransportInv, TypeOK
<1> QED
  BY <1>1, <1>2, <1>3

(* A packet of the network is a packet of its type.                          *)
LEMMA UpType ==
    ASSUME TypeOK, NEW b \in Browsers, NEW e \in Endpoints,
           NEW t \in {"clientHello", "clientFinished", "srtp"}
    PROVE  toServer \cup {Up(b, e, t)} \subseteq ToServerPackets
  BY DEF TypeOK, Up, ToServerPackets

(* What DtlsContext::handlePacket returns: a context's state, and sets of     *)
(* flights; a context that is done stays done.                               *)
LEMMA HandlePacketType ==
    ASSUME TypeOK, NEW p \in Peers, NEW m \in ToServerPackets
    PROVE  /\ HandlePacket(p, m).state \in {"accept", "hello", "done"}
           /\ \A flights \in HandlePacket(p, m).sends :
                 flights \subseteq {"serverHello", "serverFinished"}
           /\ dtls[p] = "done" => HandlePacket(p, m).state = "done"
<1>1. CASE dtls[p] = "done"
  BY <1>1 DEF HandlePacket
<1>2. CASE dtls[p] # "done"
  <2> DEFINE state == IF dtls[p] = "none" THEN "accept" ELSE dtls[p]
  <2>1. state \in {"accept", "hello"}
    BY <1>2 DEF TypeOK
  <2>2. HandlePacket(p, m) \in {
           [state |-> "hello", sends |-> {{"serverHello"}}],
           [state |-> "done", sends |-> {{"serverFinished"}}],
           [state |-> "hello", sends |-> {{}, {"serverHello"}}],
           [state |-> state, sends |-> {{}}]}
    BY <1>2 DEF HandlePacket, Handshake
  <2> HIDE DEF state
  <2> QED
    BY <1>2, <2>1, <2>2
<1> QED
  BY <1>1, <1>2

(* handleDtls keeps the invariant.                                           *)
LEMMA InvDtls ==
    ASSUME TransportInv, NEW m \in toServer, HandleDtls(m)
    PROVE  TransportInv'
<1>1. m \in ToServerPackets /\ m.ep \in Endpoints /\ m.from \in Browsers
  BY DEF TransportInv, TypeOK, ToServerPackets
<1>2. PICK p \in Candidates(m.ep) :
        LET r == HandlePacket(p, m)
        IN /\ Bind(m.ep, p)
           /\ dtls' = [dtls EXCEPT ![p] = r.state]
           /\ session' = IF r.state = "hello" /\ dtls[p] # "hello"
                         THEN [session EXCEPT ![p] = m.from] ELSE session
           /\ \E flights \in r.sends :
                 toBrowser' = toBrowser \cup {Down(m.from, m.ep, t) : t \in flights}
           /\ IF dtls[p] # "done" /\ r.state = "done" THEN SrtpInit(p, m)
              ELSE UNCHANGED <<srtp, keyframes, initFailures>>
  BY DEF HandleDtls
<1> DEFINE r == HandlePacket(p, m)
<1>3. p \in Peers
  BY <1>1, CandidatesArePeers DEF TransportInv
<1>4. /\ r.state \in {"accept", "hello", "done"}
      /\ \A flights \in r.sends : flights \subseteq {"serverHello", "serverFinished"}
      /\ dtls[p] = "done" => r.state = "done"
  BY <1>1, <1>3, HandlePacketType DEF TransportInv
<1> HIDE DEF r
<1>5. /\ toServer' \subseteq toServer
      /\ UNCHANGED <<peers, producing, call, home, hs, moves>>
  BY DEF HandleDtls, browser
<1>6. UnboundPeers' /\ OneEndpointPerPeer' /\ pendingPeers' \subseteq Browsers
      /\ peerMap' \in [Endpoints -> Peers \cup {Nothing}]
      /\ remoteEp' \in [Peers -> Endpoints \cup {Nothing}]
  BY <1>1, <1>2, <1>5, BindInv
<1>7. toBrowser' \subseteq ToBrowserPackets
  <2>1. PICK flights \in r.sends :
          toBrowser' = toBrowser \cup {Down(m.from, m.ep, t) : t \in flights}
    BY <1>2 DEF r
  <2>2. \A t \in flights : Down(m.from, m.ep, t) \in ToBrowserPackets
    BY <1>1, <1>4 DEF Down, ToBrowserPackets
  <2> QED
    BY <2>1, <2>2 DEF TransportInv, TypeOK
<1>8. /\ dtls' \in [Peers -> {"none", "accept", "hello", "done"}]
      /\ session' \in [Peers -> Browsers \cup {Nothing}]
  BY <1>1, <1>2, <1>3, <1>4 DEF r, TransportInv, TypeOK
<1>9. /\ srtp' \in [Peers -> Browsers \cup {Nothing, Failed}]
      /\ \A q \in Peers : srtp'[q] # Nothing <=> dtls'[q] = "done"
      /\ keyframes' \subseteq Peers
      /\ initFailures' \in 0..MaxInitFailures
  <2>1. dtls' = [dtls EXCEPT ![p] = r.state]
    BY <1>2 DEF r
  <2>2. CASE dtls[p] # "done" /\ r.state = "done"
    <3>1. SrtpInit(p, m)
      BY <1>2, <2>2 DEF r
    <3>2. AskedForKeyframe(p) \subseteq Peers
      BY DEF AskedForKeyframe, TransportInv, TypeOK
    <3>3. m.from # Nothing /\ Failed # Nothing
      BY <1>1, TransportAssumption
    <3>4. \E v \in Browsers \cup {Failed} : srtp' = [srtp EXCEPT ![p] = v]
      BY <1>1, <3>1 DEF SrtpInit
    <3>5. keyframes' \subseteq Peers /\ initFailures' \in 0..MaxInitFailures
      BY <3>1, <3>2, TransportAssumption DEF SrtpInit, TransportInv, TypeOK
    <3>6. \A v \in Browsers \cup {Failed} : v # Nothing
      BY TransportAssumption
    <3> QED
      BY <1>3, <2>1, <2>2, <3>4, <3>5, <3>6 DEF TransportInv, TypeOK
  <2>3. CASE ~(dtls[p] # "done" /\ r.state = "done")
    <3>1. UNCHANGED <<srtp, keyframes, initFailures>>
      BY <1>2, <2>3 DEF r
    <3>2. \A q \in Peers : dtls'[q] = "done" <=> dtls[q] = "done"
      BY <1>3, <1>4, <2>1, <2>3 DEF TransportInv, TypeOK
    <3> QED
      BY <3>1, <3>2 DEF TransportInv, TypeOK
  <2> QED
    BY <2>2, <2>3
<1> QED
  BY <1>5, <1>6, <1>7, <1>8, <1>9 DEF TransportInv, TypeOK

(* handleSrtp keeps the invariant.                                           *)
LEMMA InvSrtp ==
    ASSUME TransportInv, NEW m \in toServer, HandleSrtp(m)
    PROVE  TransportInv'
<1>1. m.ep \in Endpoints
  BY DEF TransportInv, TypeOK, ToServerPackets
<1>2. PICK p \in Candidates(m.ep) :
        /\ Bind(m.ep, p)
        /\ producing' = IF srtp[p] = m.from THEN producing \cup {p} ELSE producing
  BY DEF HandleSrtp
<1>3. p \in Peers
  BY <1>1, CandidatesArePeers DEF TransportInv
<1>4. /\ toServer' \subseteq toServer
      /\ UNCHANGED <<peers, dtls, session, srtp, keyframes, initFailures, call, home, hs, moves,
                     toBrowser>>
  BY DEF HandleSrtp, browser
<1>5. UnboundPeers' /\ OneEndpointPerPeer' /\ pendingPeers' \subseteq Browsers
      /\ peerMap' \in [Endpoints -> Peers \cup {Nothing}]
      /\ remoteEp' \in [Peers -> Endpoints \cup {Nothing}]
  BY <1>1, <1>2, <1>4, BindInv
<1> QED
  BY <1>2, <1>3, <1>4, <1>5 DEF TransportInv, TypeOK

(* AddPeer and RemovePeer keep the invariant.                                *)
LEMMA InvGrpc ==
    ASSUME TransportInv, NEW b \in Browsers, AddPeer(b) \/ RemovePeer(b)
    PROVE  TransportInv'
<1>1. CASE AddPeer(b)
  BY <1>1 DEF AddPeer, server, network, TransportInv, TypeOK, UnboundPeers, OneEndpointPerPeer
<1>2. CASE RemovePeer(b)
  BY <1>2 DEF RemovePeer, network, TransportInv, TypeOK, UnboundPeers, OneEndpointPerPeer
<1> QED
  BY <1>1, <1>2

(* The steps of browsers and of the network keep the invariant: they change   *)
(* nothing it says of the server.                                            *)
LEMMA InvBrowser ==
    ASSUME TransportInv,
           \/ \E b \in Browsers : Retransmit(b) \/ SendMedia(b)
           \/ \E b \in Browsers, e \in Endpoints : StartDtls(b, e) \/ Move(b, e)
           \/ \E m \in toBrowser : BrowserReceives(m)
           \/ \E m \in toServer \cup toBrowser : Lose(m)
    PROVE  TransportInv'
<1> USE DEF TransportInv
<1>0. ASSUME UNCHANGED <<peers, pendingPeers, server, call>>,
             home' \in [Browsers -> Endpoints \cup {Nothing}],
             hs' \in [Browsers -> {"none", "hello", "finished", "done"}],
             moves' \in 0..MaxMoves,
             toServer' \subseteq ToServerPackets, toBrowser' \subseteq ToBrowserPackets
      PROVE  TransportInv'
  BY <1>0 DEF server, TypeOK, UnboundPeers, OneEndpointPerPeer
<1>1. CASE \E b \in Browsers : Retransmit(b) \/ SendMedia(b)
  <2>1. PICK b \in Browsers : Retransmit(b) \/ SendMedia(b)
    BY <1>1
  <2>2. home[b] \in Endpoints
    BY <2>1 DEF Retransmit, SendMedia, TypeOK
  <2>3. Flight(b) \in {"clientHello", "clientFinished", "srtp"}
    BY DEF Flight
  <2>4. toServer' \subseteq ToServerPackets
    BY <2>1, <2>2, <2>3, UpType DEF Retransmit, SendMedia
  <2> QED
    BY <1>0, <2>1, <2>4 DEF Retransmit, SendMedia, browser, TypeOK
<1>2. CASE \E b \in Browsers, e \in Endpoints : StartDtls(b, e) \/ Move(b, e)
  <2>1. PICK b \in Browsers, e \in Endpoints : StartDtls(b, e) \/ Move(b, e)
    BY <1>2
  <2>2. CASE StartDtls(b, e)
    <3>1. toServer' \subseteq ToServerPackets
      BY <2>2, UpType DEF StartDtls
    <3> QED
      BY <1>0, <2>2, <3>1 DEF StartDtls, TypeOK
  <2>3. CASE Move(b, e)
    BY <1>0, <2>3, TransportAssumption DEF Move, network, TypeOK
  <2> QED
    BY <2>1, <2>2, <2>3
<1>3. CASE \E m \in toBrowser : BrowserReceives(m)
  <2>1. PICK m \in toBrowser : BrowserReceives(m)
    BY <1>3
  <2>2. m.to \in Browsers /\ m.ep \in Endpoints
    BY DEF TypeOK, ToBrowserPackets
  <2>3. toServer' \subseteq ToServerPackets
    BY <2>1, <2>2, UpType DEF BrowserReceives, TypeOK
  <2>4. hs' \in [Browsers -> {"none", "hello", "finished", "done"}]
    BY <2>1, <2>2 DEF BrowserReceives, TypeOK
  <2>5. toBrowser' \subseteq ToBrowserPackets /\ UNCHANGED <<peers, pendingPeers, server, call, home, moves>>
    BY <2>1 DEF BrowserReceives, TypeOK
  <2> QED
    BY <1>0, <2>3, <2>4, <2>5 DEF TypeOK
<1>4. CASE \E m \in toServer \cup toBrowser : Lose(m)
  BY <1>0, <1>4 DEF Lose, browser, TypeOK
<1> QED
  BY <1>1, <1>2, <1>3, <1>4

(* The invariant is inductive.                                               *)
LEMMA InvHolds == Spec => []TransportInv
<1>1. Init => TransportInv
  BY TransportAssumption
  DEF Init, TransportInv, TypeOK, UnboundPeers, OneEndpointPerPeer, Peers
<1>2. TransportInv /\ [Next]_vars => TransportInv'
  <2> SUFFICES ASSUME TransportInv, [Next]_vars PROVE TransportInv'
    OBVIOUS
  <2>1. CASE Next
    BY <2>1, InvDtls, InvSrtp, InvGrpc, InvBrowser DEF Next
  <2>2. CASE UNCHANGED vars
    BY <2>2 DEF vars, server, browser, network, TransportInv, TypeOK, UnboundPeers,
                OneEndpointPerPeer
  <2> QED
    BY <2>1, <2>2
<1> QED
  BY <1>1, <1>2, PTL DEF Spec

(* Every variable keeps its type, and a Peer has an SRTP context (or one     *)
(* that failed to initialise) exactly when its DTLS handshake is over.       *)
THEOREM TransportTypeCorrect == Spec => []TypeOK
  BY InvHolds, PTL DEF TransportInv

(* A Peer is bound to one endpoint, the one remoteEp names: no two endpoints *)
(* share the keys and the replies of a Peer.                                 *)
THEOREM BoundToOneEndpoint == Spec => []OneEndpointPerPeer
  BY InvHolds, PTL DEF TransportInv
-----------------------------------------------------------------------------
(* Whose keys an endpoint has, and whether there is a Peer for it.           *)

(* At a time one browser sends from an endpoint, and every packet from there *)
(* that is on its way is that browser's.                                     *)
OwnEndpoint ==
    /\ \A b, c \in Browsers : home[b] = home[c] /\ home[b] # Nothing => b = c
    /\ \A m \in toServer, b \in Browsers : home[b] = m.ep => m.from = b
    /\ \A m, n \in toServer : m.ep = n.ep => m.from = n.from

(* The handshake of the Peer bound to an endpoint is with the browser there. *)
OwnSession ==
    \A e \in Endpoints : peerMap[e] # Nothing /\ session[peerMap[e]] # Nothing =>
        /\ \A b \in Browsers : home[b] = e => session[peerMap[e]] = b
        /\ \A m \in toServer : m.ep = e => session[peerMap[e]] = m.from

(* remoteEp of a Peer is an endpoint that leads to it.                       *)
BoundBack == \A p \in Peers : remoteEp[p] # Nothing => peerMap[remoteEp[p]] = p

(* Keys are those of the handshake, and a Peer not bound has neither.        *)
KeysOfSession ==
    \A p \in Peers : /\ srtp[p] \in Browsers => session[p] = srtp[p]
                     /\ remoteEp[p] = Nothing => session[p] = Nothing /\ dtls[p] = "none"

(* The server has finished the handshake with browser b at endpoint e.       *)
FinishedAt(b, e) ==
    peerMap[e] # Nothing /\ dtls[peerMap[e]] = "done" /\ session[peerMap[e]] = b

(* A browser learns that its handshake is over only from the server.         *)
FinishedKnown ==
    /\ \A m \in toBrowser : m.type = "serverFinished" => FinishedAt(m.to, m.ep)
    /\ \A b \in Browsers : hs[b] = "done" /\ home[b] # Nothing /\ moves = 0
                              => FinishedAt(b, home[b])

(* Who has an endpoint is in a call and has begun a handshake.               *)
Calling ==
    /\ \A b \in Browsers : home[b] # Nothing => call[b] = "in" /\ hs[b] # "none"
    /\ \A b \in Browsers : call[b] = "out" => hs[b] = "none"
    /\ \A m \in toServer : call[m.from] # "out" /\ hs[m.from] # "none"

(* Without moves a browser sends from one endpoint until it leaves.          *)
OneHome ==
    moves = 0 =>
        /\ \A b \in Browsers : call[b] = "in" /\ hs[b] # "none" => home[b] # Nothing
        /\ \A m \in toServer : home[m.from] \in {Nothing, m.ep}
        /\ \A m, n \in toServer : m.from = n.from => m.ep = n.ep

(* Browsers for whose first packet getOrCreatePeer will need a Peer: those   *)
(* in a call, and those that left while their packets are on the way.        *)
Waiting == UnboundBrowsers \cup {m.from : m \in {n \in toServer : peerMap[n.ep] = Nothing}}

EnoughForAll ==
    /\ IsFiniteSet(pendingPeers) /\ IsFiniteSet(Waiting)
    /\ moves = 0 => Cardinality(Waiting) <= Cardinality(pendingPeers)

KeysInv == /\ OwnEndpoint /\ OwnSession /\ BoundBack /\ KeysOfSession /\ FinishedKnown
           /\ Calling /\ OneHome

(* The endpoint of a packet gets or has a Peer, and no other endpoint's       *)
(* binding changes: what both packet handlers do.                            *)
LEMMA BoundPeer ==
    ASSUME TransportInv, KeysInv, NEW e \in Endpoints, NEW p \in Candidates(e), Bind(e, p)
    PROVE  /\ p \in Peers /\ p # Nothing
           /\ peerMap'[e] = p
           /\ \A f \in Endpoints : f # e => peerMap'[f] = peerMap[f] /\ peerMap[f] # p
           /\ peerMap[e] # Nothing => peerMap[e] = p
           /\ peerMap[e] = Nothing => session[p] = Nothing /\ dtls[p] = "none"
           /\ \A q \in Peers : q # p => remoteEp'[q] = remoteEp[q]
           /\ remoteEp'[p] = e
<1>1. /\ p \in Peers
      /\ \/ peerMap[e] = p
         \/ peerMap[e] = Nothing /\ (p \in pendingPeers \/ p = e)
  BY CandidatesArePeers DEF TransportInv
<1>2. p # Nothing
  BY <1>1, TransportAssumption DEF Peers
<1>3. peerMap[e] = p => remoteEp[p] = e
  BY <1>2 DEF TransportInv, OneEndpointPerPeer
<1>4. peerMap[e] = Nothing => remoteEp[p] = Nothing
  <2> SUFFICES ASSUME peerMap[e] = Nothing PROVE remoteEp[p] = Nothing
    OBVIOUS
  <2>1. CASE p \in pendingPeers
    BY <2>1 DEF TransportInv, UnboundPeers
  <2>2. CASE p = e
    <3> SUFFICES ASSUME remoteEp[e] = e PROVE FALSE
      BY <2>2 DEF TransportInv, UnboundPeers
    <3> QED
      BY <1>1, <1>2, <2>2 DEF KeysInv, BoundBack
  <2> QED
    BY <1>1, <1>2, <2>1, <2>2
<1>5. \A f \in Endpoints : f # e => peerMap[f] # p
  BY <1>1, <1>2, <1>3, <1>4, TransportAssumption DEF TransportInv, OneEndpointPerPeer
<1>6. remoteEp' = [remoteEp EXCEPT ![p] = e] /\ peerMap' = [peerMap EXCEPT ![e] = p]
  BY <1>1, <1>2, <1>3 DEF Bind
<1> QED
  BY <1>1, <1>2, <1>4, <1>5, <1>6 DEF KeysInv, KeysOfSession, TransportInv, TypeOK

(* What handling packet m with Peer p may do to the contexts and to what is  *)
(* on its way to browsers.                                                   *)
Handled(m, p) ==
    /\ Bind(m.ep, p) /\ p \in Peers
    /\ \A q \in Peers : q # p => /\ session'[q] = session[q] /\ dtls'[q] = dtls[q]
                                  /\ srtp'[q] = srtp[q]
    /\ session'[p] \in {session[p], m.from}
    /\ dtls[p] = "done" => /\ dtls'[p] = "done" /\ session'[p] = session[p]
                           /\ srtp'[p] = srtp[p]
    /\ srtp'[p] \in Browsers => srtp'[p] = srtp[p] \/ srtp'[p] = session'[p]
    /\ srtp'[p] \in Browsers /\ srtp[p] \in Browsers => session'[p] = session[p]
    /\ \A n \in toBrowser' : n \in toBrowser \/
          /\ n.to = m.from /\ n.ep = m.ep
          /\ n.type = "serverFinished" => /\ dtls'[p] = "done"
                                          /\ session'[p] = m.from
    /\ toServer' \subseteq toServer
    /\ UNCHANGED <<call, home, hs, moves>>

(* What handleDtls does to the contexts and to the network: a session begins *)
(* with the browser at the endpoint, and keys and "serverFinished" come of a  *)
(* handshake with it.                                                        *)
LEMMA DtlsEffect ==
    ASSUME TransportInv, KeysInv, NEW m \in toServer, HandleDtls(m)
    PROVE  \E p \in Candidates(m.ep) :
             Handled(m, p)
<1>1. m \in ToServerPackets /\ m.ep \in Endpoints /\ m.from \in Browsers
  BY DEF TransportInv, TypeOK, ToServerPackets
<1>2. PICK p \in Candidates(m.ep) :
        LET r == HandlePacket(p, m)
        IN /\ Bind(m.ep, p)
           /\ dtls' = [dtls EXCEPT ![p] = r.state]
           /\ session' = IF r.state = "hello" /\ dtls[p] # "hello"
                         THEN [session EXCEPT ![p] = m.from] ELSE session
           /\ \E flights \in r.sends :
                 toBrowser' = toBrowser \cup {Down(m.from, m.ep, t) : t \in flights}
           /\ IF dtls[p] # "done" /\ r.state = "done" THEN SrtpInit(p, m)
              ELSE UNCHANGED <<srtp, keyframes, initFailures>>
  BY DEF HandleDtls
<1> DEFINE r == HandlePacket(p, m)
<1>3. p \in Peers
  BY <1>1, CandidatesArePeers DEF TransportInv
<1>4. /\ r.state = "done" /\ dtls[p] # "done" => session[p] = m.from
      /\ \A flights \in r.sends :
            "serverFinished" \in flights => r.state = "done" /\ session[p] = m.from
      /\ dtls[p] = "done" => r.state = "done"
  <2>1. CASE dtls[p] = "done"
    BY <2>1 DEF HandlePacket
  <2>2. CASE dtls[p] # "done"
    <3> DEFINE state == IF dtls[p] = "none" THEN "accept" ELSE dtls[p]
    <3>1. state # "done"
      BY <2>2
    <3>2. \/ r \in {[state |-> "hello", sends |-> {{"serverHello"}}],
                    [state |-> "hello", sends |-> {{}, {"serverHello"}}],
                    [state |-> state, sends |-> {{}}]}
          \/ r = [state |-> "done", sends |-> {{"serverFinished"}}] /\ session[p] = m.from
      BY <2>2 DEF HandlePacket, Handshake
    <3> HIDE DEF state, r
    <3> QED
      BY <2>2, <3>1, <3>2
  <2> QED
    BY <2>1, <2>2
<1> HIDE DEF r
<1>5. /\ dtls' = [dtls EXCEPT ![p] = r.state]
      /\ session' = IF r.state = "hello" /\ dtls[p] # "hello"
                    THEN [session EXCEPT ![p] = m.from] ELSE session
  BY <1>2 DEF r
<1>6. /\ srtp' = srtp \/ /\ dtls[p] # "done" /\ r.state = "done"
                         /\ \E v \in {m.from, Failed} : srtp' = [srtp EXCEPT ![p] = v]
  BY <1>2 DEF r, SrtpInit
<1>7. \A n \in toBrowser' : n \in toBrowser \/
         /\ n.to = m.from /\ n.ep = m.ep
         /\ n.type = "serverFinished" => r.state = "done" /\ session[p] = m.from
  <2>1. PICK flights \in r.sends :
           toBrowser' = toBrowser \cup {Down(m.from, m.ep, t) : t \in flights}
    BY <1>2 DEF r
  <2> QED
    BY <1>4, <2>1 DEF Down
<1>8. /\ dtls \in [Peers -> {"none", "accept", "hello", "done"}]
      /\ session \in [Peers -> Browsers \cup {Nothing}]
      /\ srtp \in [Peers -> Browsers \cup {Nothing, Failed}]
      /\ srtp[p] # Nothing <=> dtls[p] = "done"
  BY <1>3 DEF TransportInv, TypeOK
<1>9. Failed \notin Browsers /\ Nothing \notin Browsers
  BY TransportAssumption
<1>10. /\ session'[p] \in {session[p], m.from}
       /\ r.state # "hello" => session'[p] = session[p]
  BY <1>3, <1>5, <1>8
<1>11. dtls[p] = "done" => /\ dtls'[p] = "done" /\ session'[p] = session[p]
                           /\ srtp'[p] = srtp[p]
  BY <1>3, <1>4, <1>5, <1>6, <1>8, <1>10
<1>12. srtp'[p] \in Browsers => srtp'[p] = srtp[p] \/ srtp'[p] = session'[p]
  BY <1>3, <1>4, <1>6, <1>8, <1>9, <1>10
<1>13. srtp'[p] \in Browsers /\ srtp[p] \in Browsers => session'[p] = session[p]
  BY <1>8, <1>9, <1>11
<1>14. \A q \in Peers : q # p => /\ session'[q] = session[q] /\ dtls'[q] = dtls[q]
                                 /\ srtp'[q] = srtp[q]
  BY <1>3, <1>5, <1>6, <1>8
<1>15. \A n \in toBrowser' : n \in toBrowser \/
         /\ n.to = m.from /\ n.ep = m.ep
         /\ n.type = "serverFinished" => dtls'[p] = "done" /\ session'[p] = m.from
  BY <1>3, <1>5, <1>7, <1>8, <1>10
<1>16. toServer' \subseteq toServer /\ UNCHANGED <<call, home, hs, moves>>
  BY DEF HandleDtls, browser
<1> QED
  BY <1>2, <1>3, <1>10, <1>11, <1>12, <1>13, <1>14, <1>15, <1>16 DEF Handled

(* handleSrtp changes no context and sends nothing to a browser.             *)
LEMMA SrtpEffect ==
    ASSUME TransportInv, NEW m \in toServer, HandleSrtp(m)
    PROVE  \E p \in Candidates(m.ep) : Handled(m, p)
<1>1. m.ep \in Endpoints
  BY DEF TransportInv, TypeOK, ToServerPackets
<1>2. PICK p \in Candidates(m.ep) : Bind(m.ep, p)
  BY DEF HandleSrtp
<1>3. p \in Peers
  BY <1>1, CandidatesArePeers DEF TransportInv
<1>4. UNCHANGED <<session, dtls, srtp, toBrowser, call, home, hs, moves>> /\ toServer' \subseteq toServer
  BY DEF HandleSrtp, browser
<1> QED
  BY <1>2, <1>3, <1>4 DEF Handled

(* A packet handler keeps endpoints, sessions and keys together.             *)
LEMMA KeysHandled ==
    ASSUME TransportInv, KeysInv, NEW m \in toServer, NEW p \in Candidates(m.ep), Handled(m, p)
    PROVE  KeysInv'
<1> DEFINE e == m.ep
<1>1. e \in Endpoints /\ m.from \in Browsers
  BY DEF TransportInv, TypeOK, ToServerPackets
<1>2. Bind(e, p) /\ toServer' \subseteq toServer /\ UNCHANGED <<call, home, hs, moves>>
  BY DEF Handled
<1>3. /\ p \in Peers /\ p # Nothing
      /\ peerMap'[e] = p
      /\ \A f \in Endpoints : f # e => peerMap'[f] = peerMap[f] /\ peerMap[f] # p
      /\ peerMap[e] # Nothing => peerMap[e] = p
      /\ peerMap[e] = Nothing => session[p] = Nothing /\ dtls[p] = "none"
      /\ \A q \in Peers : q # p => remoteEp'[q] = remoteEp[q]
      /\ remoteEp'[p] = e
  BY <1>1, <1>2, BoundPeer
<1> HIDE DEF e
<1>4. \A q \in Peers : q # p => session'[q] = session[q] /\ dtls'[q] = dtls[q] /\ srtp'[q] = srtp[q]
  BY DEF Handled
<1>5. \A f \in Endpoints : peerMap[f] # Nothing => peerMap[f] \in Peers
  BY DEF TransportInv, TypeOK
<1>6. OwnEndpoint'
  BY <1>2 DEF KeysInv, OwnEndpoint
<1>7. OwnSession'
  <2> SUFFICES ASSUME NEW f \in Endpoints, peerMap'[f] # Nothing, session'[peerMap'[f]] # Nothing
               PROVE  /\ \A b \in Browsers : home[b] = f => session'[peerMap'[f]] = b
                      /\ \A n \in toServer : n.ep = f => session'[peerMap'[f]] = n.from
    BY <1>2 DEF OwnSession
  <2>1. CASE f # e
    BY <1>3, <1>4, <1>5, <2>1 DEF KeysInv, OwnSession
  <2>2. CASE f = e
    <3>1. CASE session'[p] = m.from
      BY <1>3, <2>2, <3>1 DEF e, KeysInv, OwnEndpoint
    <3>2. CASE session'[p] = session[p]
      BY <1>1, <1>3, <2>2, <3>2 DEF KeysInv, OwnSession
    <3> QED
      BY <3>1, <3>2 DEF Handled
  <2> QED
    BY <2>1, <2>2
<1>8. BoundBack'
  <2> SUFFICES ASSUME NEW q \in Peers, remoteEp'[q] # Nothing
               PROVE  peerMap'[remoteEp'[q]] = q
    BY DEF BoundBack
  <2>1. CASE q = p
    BY <1>3, <2>1
  <2>2. CASE q # p
    <3>1. remoteEp'[q] = remoteEp[q] /\ remoteEp[q] \in Endpoints /\ peerMap[remoteEp[q]] = q
      BY <1>3, <2>2 DEF KeysInv, BoundBack, TransportInv, TypeOK
    <3>2. q # Nothing
      BY TransportAssumption DEF Peers
    <3>3. remoteEp[q] # e
      BY <1>3, <2>2, <3>1, <3>2
    <3> QED
      BY <1>3, <3>1, <3>3
  <2> QED
    BY <2>1, <2>2
<1>9. KeysOfSession'
  <2> SUFFICES ASSUME NEW q \in Peers
               PROVE  /\ srtp'[q] \in Browsers => session'[q] = srtp'[q]
                      /\ remoteEp'[q] = Nothing => session'[q] = Nothing /\ dtls'[q] = "none"
    BY DEF KeysOfSession
  <2>1. CASE q # p
    BY <1>3, <1>4, <2>1 DEF KeysInv, KeysOfSession
  <2>2. CASE q = p
    <3>1. remoteEp'[q] # Nothing
      BY <1>1, <1>3, <2>2, TransportAssumption
    <3>2. srtp'[p] \in Browsers => session'[p] = srtp'[p]
      BY <1>3 DEF Handled, KeysInv, KeysOfSession
    <3> QED
      BY <2>2, <3>1, <3>2
  <2> QED
    BY <2>1, <2>2
<1>10. \A b \in Browsers, f \in Endpoints : FinishedAt(b, f) => FinishedAt(b, f)'
  <2> SUFFICES ASSUME NEW b \in Browsers, NEW f \in Endpoints, FinishedAt(b, f)
               PROVE  /\ peerMap'[f] # Nothing /\ dtls'[peerMap'[f]] = "done"
                      /\ session'[peerMap'[f]] = b
    BY DEF FinishedAt
  <2>1. CASE f # e
    BY <1>3, <1>4, <1>5, <2>1 DEF FinishedAt
  <2>2. CASE f = e
    BY <1>3, <2>2 DEF FinishedAt, Handled
  <2> QED
    BY <2>1, <2>2
<1>11. FinishedKnown'
  <2>1. \A n \in toBrowser' : n.type = "serverFinished" => FinishedAt(n.to, n.ep)'
    <3> SUFFICES ASSUME NEW n \in toBrowser', n.type = "serverFinished"
                 PROVE  FinishedAt(n.to, n.ep)'
      OBVIOUS
    <3>1. CASE n \in toBrowser
      <4>1. n.to \in Browsers /\ n.ep \in Endpoints /\ FinishedAt(n.to, n.ep)
        BY <3>1 DEF KeysInv, FinishedKnown, TransportInv, TypeOK, ToBrowserPackets
      <4> QED
        BY <4>1, <1>10
    <3>2. CASE n \notin toBrowser
      <4>1. n.to = m.from /\ n.ep = e /\ dtls'[p] = "done" /\ session'[p] = m.from
        BY <3>2 DEF Handled, e
      <4> QED
        BY <4>1, <1>3 DEF FinishedAt
    <3> QED
      BY <3>1, <3>2
  <2>2. \A b \in Browsers : hs'[b] = "done" /\ home'[b] # Nothing /\ moves' = 0
                              => FinishedAt(b, home[b])'
    <3> SUFFICES ASSUME NEW b \in Browsers, hs[b] = "done", home[b] # Nothing, moves = 0
                 PROVE  FinishedAt(b, home[b])'
      BY <1>2
    <3>1. home[b] \in Endpoints /\ FinishedAt(b, home[b])
      BY DEF KeysInv, FinishedKnown, TransportInv, TypeOK
    <3>2. home'[b] = home[b]
      BY <1>2
    <3> QED
      BY <3>1, <3>2, <1>10 DEF FinishedAt
  <2> QED
    BY <2>1, <2>2 DEF FinishedKnown
<1>12. Calling' /\ OneHome'
  BY <1>2 DEF KeysInv, Calling, OneHome
<1> QED
  BY <1>6, <1>7, <1>8, <1>9, <1>11, <1>12 DEF KeysInv

(* AddPeer and RemovePeer take no endpoint's keys, and a browser that leaves *)
(* gives its endpoint up.                                                    *)
LEMMA KeysGrpc ==
    ASSUME TransportInv, KeysInv, NEW b \in Browsers, AddPeer(b) \/ RemovePeer(b)
    PROVE  KeysInv'
<1>1. /\ UNCHANGED <<peerMap, remoteEp, dtls, session, srtp, hs, moves, toServer, toBrowser>>
      /\ \A c \in Browsers : home'[c] \in {home[c], Nothing}
      /\ \A c \in Browsers : c # b => home'[c] = home[c] /\ call'[c] = call[c]
      /\ call[b] = "out" => home'[b] = home[b] /\ call'[b] = "in"
      /\ call[b] # "out" => home'[b] = Nothing /\ call'[b] = "left"
  BY DEF AddPeer, RemovePeer, server, network, TransportInv, TypeOK
<1>2. Nothing \notin Endpoints
  BY TransportAssumption
<1>3. \A m \in toServer : m.ep \in Endpoints /\ m.from \in Browsers
  BY DEF TransportInv, TypeOK, ToServerPackets
<1>4. OwnEndpoint' /\ OwnSession'
  BY <1>1, <1>2, <1>3 DEF KeysInv, OwnEndpoint, OwnSession
<1>5. BoundBack' /\ KeysOfSession'
  BY <1>1 DEF KeysInv, BoundBack, KeysOfSession
<1>6. \A c, e : FinishedAt(c, e)' <=> FinishedAt(c, e)
  BY <1>1 DEF FinishedAt
<1>7. FinishedKnown'
  <2>1. \A c \in Browsers : home'[c] # Nothing => home'[c] = home[c]
    BY <1>1
  <2> QED
    BY <1>1, <2>1 DEF KeysInv, FinishedKnown, FinishedAt
<1>8. Calling'
  BY <1>1, <1>3 DEF KeysInv, Calling, TransportInv, TypeOK
<1>9. OneHome'
  BY <1>1, <1>3 DEF KeysInv, Calling, OneHome, TransportInv, TypeOK
<1> QED
  BY <1>4, <1>5, <1>7, <1>8, <1>9 DEF KeysInv

(* Browsers and the network: a packet is sent from the browser's own         *)
(* endpoint, and a new endpoint is one that nobody used.                     *)
LEMMA KeysBrowser ==
    ASSUME TransportInv, KeysInv,
           \/ \E b \in Browsers : Retransmit(b) \/ SendMedia(b)
           \/ \E b \in Browsers, e \in Endpoints : StartDtls(b, e) \/ Move(b, e)
           \/ \E m \in toBrowser : BrowserReceives(m)
           \/ \E m \in toServer \cup toBrowser : Lose(m)
    PROVE  KeysInv'
<1>0. /\ Nothing \notin Endpoints
      /\ \A m \in toServer : m.ep \in Endpoints /\ m.from \in Browsers
      /\ \A m \in toBrowser : m.ep \in Endpoints /\ m.to \in Browsers
  BY TransportAssumption DEF TransportInv, TypeOK, ToServerPackets, ToBrowserPackets
<1>1. ASSUME UNCHANGED <<peerMap, remoteEp, dtls, session, srtp>>
      PROVE  /\ BoundBack' /\ KeysOfSession'
             /\ \A c, e : FinishedAt(c, e)' <=> FinishedAt(c, e)
  BY <1>1 DEF KeysInv, BoundBack, KeysOfSession, FinishedAt
<1>2. ASSUME NEW b \in Browsers, home[b] # Nothing, NEW t,
             toServer' \subseteq toServer \cup {Up(b, home[b], t)},
             toBrowser' \subseteq toBrowser, UNCHANGED <<server, call, home, moves>>,
             \/ hs' = hs
             \/ hs' = [hs EXCEPT ![b] = "finished"]
             \/ hs' = [hs EXCEPT ![b] = "done"] /\ FinishedAt(b, home[b])
      PROVE  KeysInv'
  <2>1. \A m \in toServer' : m \in toServer \/ (m.from = b /\ m.ep = home[b])
    BY <1>2 DEF Up
  <2>2. UNCHANGED <<peerMap, remoteEp, dtls, session, srtp, call, home, moves>>
    BY <1>2 DEF server
  <2>3. home[b] \in Endpoints
    BY <1>2 DEF TransportInv, TypeOK
  <2>4. OwnEndpoint'
    BY <1>0, <2>1, <2>2, <1>2 DEF KeysInv, OwnEndpoint
  <2>5. OwnSession'
    BY <1>0, <2>1, <2>2, <2>3, <1>2 DEF KeysInv, OwnSession
  <2>6. \A c \in Browsers : hs'[c] = "done" => hs[c] = "done" \/ (c = b /\ FinishedAt(b, home[b]))
    BY <1>2 DEF TransportInv, TypeOK
  <2>7. FinishedKnown'
    BY <1>1, <1>2, <2>2, <2>6 DEF KeysInv, FinishedKnown, FinishedAt
  <2>8. hs[b] # "none" /\ call[b] = "in"
    BY <1>2 DEF KeysInv, Calling
  <2>9. \A c \in Browsers : hs'[c] = "none" <=> hs[c] = "none"
    BY <1>2, <2>8 DEF TransportInv, TypeOK
  <2>10. Calling'
    BY <1>0, <2>1, <2>2, <2>8, <2>9 DEF KeysInv, Calling
  <2>11. OneHome'
    BY <1>0, <1>2, <2>1, <2>2, <2>3, <2>9 DEF KeysInv, OneHome
  <2> QED
    BY <1>1, <2>2, <2>4, <2>5, <2>7, <2>10, <2>11 DEF KeysInv
<1>3. CASE \E b \in Browsers : Retransmit(b) \/ SendMedia(b)
  <2>1. PICK b \in Browsers : Retransmit(b) \/ SendMedia(b)
    BY <1>3
  <2>2. \E t : toServer' = toServer \cup {Up(b, home[b], t)}
    BY <2>1 DEF Retransmit, SendMedia
  <2>3. home[b] # Nothing /\ UNCHANGED <<server, call, home, hs, moves, toBrowser>>
    BY <2>1 DEF Retransmit, SendMedia, browser
  <2> QED
    BY <1>2, <2>2, <2>3
<1>4. ASSUME NEW b \in Browsers, NEW e \in Endpoints, StartDtls(b, e)
      PROVE  KeysInv'
  <2>1. /\ UNCHANGED <<peerMap, remoteEp, dtls, session, srtp, call, moves, toBrowser>>
        /\ home' = [home EXCEPT ![b] = e] /\ hs' = [hs EXCEPT ![b] = "hello"]
        /\ \A m \in toServer' : m \in toServer \/ (m.from = b /\ m.ep = e)
        /\ call[b] = "in" /\ hs[b] = "none"
        /\ peerMap[e] = Nothing /\ \A m \in toServer : m.ep # e
        /\ \A c \in Browsers : home[c] # e
    BY <1>4 DEF StartDtls, Fresh, server, Up
  <2>2. /\ home'[b] = e /\ hs'[b] = "hello"
        /\ \A c \in Browsers : c # b => home'[c] = home[c] /\ hs'[c] = hs[c]
    BY <2>1 DEF TransportInv, TypeOK
  <2>3. home[b] = Nothing /\ \A m \in toServer : m.from # b
    BY <2>1 DEF KeysInv, Calling
  <2>4. OwnEndpoint'
    BY <1>0, <2>1, <2>2 DEF KeysInv, OwnEndpoint
  <2>5. OwnSession'
    BY <1>0, <2>1, <2>2 DEF KeysInv, OwnSession
  <2>6. FinishedKnown'
    BY <1>1, <2>1, <2>2 DEF KeysInv, FinishedKnown, FinishedAt
  <2>7. Calling'
    BY <1>0, <2>1, <2>2 DEF KeysInv, Calling
  <2>8. OneHome'
    BY <1>0, <2>1, <2>2, <2>3 DEF KeysInv, OneHome
  <2> QED
    BY <1>1, <2>1, <2>4, <2>5, <2>6, <2>7, <2>8 DEF KeysInv
<1>5. ASSUME NEW b \in Browsers, NEW e \in Endpoints, Move(b, e)
      PROVE  KeysInv'
  <2>1. /\ UNCHANGED <<peerMap, remoteEp, dtls, session, srtp, call, hs, toServer, toBrowser>>
        /\ home' = [home EXCEPT ![b] = e] /\ moves' = moves + 1
        /\ home[b] # Nothing
        /\ peerMap[e] = Nothing /\ \A m \in toServer : m.ep # e
        /\ \A c \in Browsers : home[c] # e
    BY <1>5 DEF Move, Fresh, server, network
  <2>2. home'[b] = e /\ \A c \in Browsers : c # b => home'[c] = home[c]
    BY <2>1 DEF TransportInv, TypeOK
  <2>3. moves' # 0
    BY <2>1, TransportAssumption DEF TransportInv, TypeOK
  <2>4. OwnEndpoint'
    BY <1>0, <2>1, <2>2 DEF KeysInv, OwnEndpoint
  <2>5. OwnSession'
    BY <1>0, <2>1, <2>2 DEF KeysInv, OwnSession
  <2>6. FinishedKnown'
    BY <1>1, <2>1, <2>3 DEF KeysInv, FinishedKnown, FinishedAt
  <2>7. Calling' /\ OneHome'
    BY <1>0, <2>1, <2>2, <2>3 DEF KeysInv, Calling, OneHome
  <2> QED
    BY <1>1, <2>1, <2>4, <2>5, <2>6, <2>7 DEF KeysInv
<1>6. ASSUME UNCHANGED <<server, browser>>, toServer' \subseteq toServer, toBrowser' \subseteq toBrowser
      PROVE  KeysInv'
  <2>1. UNCHANGED <<peerMap, remoteEp, dtls, session, srtp, call, home, hs, moves>>
    BY <1>6 DEF server, browser
  <2> QED
    BY <1>1, <1>6, <2>1
    DEF KeysInv, OwnEndpoint, OwnSession, FinishedKnown, FinishedAt, Calling, OneHome
<1>7. ASSUME NEW m \in toBrowser, BrowserReceives(m)
      PROVE  KeysInv'
  <2> DEFINE b == m.to
  <2>1. CASE home[b] = m.ep
    <3>1. b \in Browsers /\ home[b] # Nothing
      BY <1>0, <1>7, <2>1
    <3>2. /\ toServer' \subseteq toServer \cup {Up(b, home[b], "clientFinished")}
          /\ toBrowser' \subseteq toBrowser /\ UNCHANGED <<server, call, home, moves>>
      BY <1>7, <2>1 DEF BrowserReceives
    <3>3. \/ hs' = [hs EXCEPT ![b] = hs[b]]
          \/ hs' = [hs EXCEPT ![b] = "finished"]
          \/ hs' = [hs EXCEPT ![b] = "done"] /\ m.type = "serverFinished"
      BY <1>7, <2>1 DEF BrowserReceives
    <3>4. m.type = "serverFinished" => FinishedAt(b, home[b])
      BY <1>7, <2>1 DEF KeysInv, FinishedKnown
    <3>5. [hs EXCEPT ![b] = hs[b]] = hs
      BY DEF TransportInv, TypeOK
    <3> HIDE DEF b
    <3> QED
      BY <1>2, <3>1, <3>2, <3>3, <3>4, <3>5
  <2>2. CASE home[b] # m.ep
    BY <1>6, <1>7, <2>2 DEF BrowserReceives, browser
  <2> QED
    BY <2>1, <2>2
<1>8. CASE \E m \in toServer \cup toBrowser : Lose(m)
  BY <1>6, <1>8 DEF Lose
<1> QED
  BY <1>3, <1>4, <1>5, <1>7, <1>8

-----------------------------------------------------------------------------
(* How many Peers are pending.                                               *)

(* Fewer that wait, as many Peers.                                           *)
LEMMA FewerWait ==
    ASSUME EnoughForAll, Waiting' \subseteq Waiting, pendingPeers' = pendingPeers,
           moves' = 0 => moves = 0
    PROVE  EnoughForAll'
<1>1. IsFiniteSet(Waiting') /\ Cardinality(Waiting') <= Cardinality(Waiting)
  BY FS_Subset DEF EnoughForAll
<1>2. Cardinality(Waiting) \in Nat /\ Cardinality(Waiting') \in Nat /\ Cardinality(pendingPeers) \in Nat
  BY <1>1, FS_CardinalityType DEF EnoughForAll
<1> QED
  BY <1>1, <1>2 DEF EnoughForAll

(* AddPeer: one more browser to be heard from, and one more Peer pending.     *)
LEMMA EnoughAddPeer ==
    ASSUME TransportInv, KeysInv, EnoughForAll, NEW b \in Browsers, AddPeer(b)
    PROVE  EnoughForAll'
<1>1. /\ call[b] = "out" /\ pendingPeers' = pendingPeers \cup {b}
      /\ UNCHANGED <<peerMap, home, moves, toServer>>
      /\ \A c \in Browsers : c # b => call'[c] = call[c]
  BY DEF AddPeer, server, network, TransportInv, TypeOK
<1>2. b \notin pendingPeers
  BY <1>1 DEF TransportInv, UnboundPeers
<1>3. b \notin Waiting
  BY <1>1 DEF Waiting, UnboundBrowsers, KeysInv, Calling
<1>4. Waiting' \subseteq Waiting \cup {b}
  BY <1>1 DEF Waiting, UnboundBrowsers
<1>5. /\ IsFiniteSet(Waiting \cup {b}) /\ IsFiniteSet(pendingPeers')
      /\ Cardinality(Waiting \cup {b}) = Cardinality(Waiting) + 1
      /\ Cardinality(pendingPeers') = Cardinality(pendingPeers) + 1
  BY <1>1, <1>2, <1>3, FS_AddElement DEF EnoughForAll
<1>6. IsFiniteSet(Waiting') /\ Cardinality(Waiting') <= Cardinality(Waiting \cup {b})
  BY <1>4, <1>5, FS_Subset
<1>7. Cardinality(Waiting) \in Nat /\ Cardinality(Waiting') \in Nat /\ Cardinality(pendingPeers) \in Nat
  BY <1>6, FS_CardinalityType DEF EnoughForAll
<1> QED
  BY <1>1, <1>5, <1>6, <1>7 DEF EnoughForAll

(* The first packet of an endpoint takes one Peer, and the browser that sent *)
(* it waits no longer; no other browser sends from there.                    *)
LEMMA EnoughHandled ==
    ASSUME TransportInv, KeysInv, EnoughForAll,
           NEW m \in toServer, NEW p \in Candidates(m.ep), Handled(m, p)
    PROVE  EnoughForAll'
<1> DEFINE e == m.ep
           b == m.from
<1>1. e \in Endpoints /\ b \in Browsers /\ Nothing \notin Endpoints
  BY TransportAssumption DEF TransportInv, TypeOK, ToServerPackets
<1>2. Bind(e, p) /\ toServer' \subseteq toServer /\ UNCHANGED <<call, home, hs, moves>>
  BY DEF Handled
<1>3. /\ peerMap'[e] # Nothing
      /\ \A f \in Endpoints : f # e => peerMap'[f] = peerMap[f]
      /\ peerMap[e] # Nothing => peerMap[e] = p /\ peerMap'[e] = peerMap[e]
  BY <1>1, <1>2, BoundPeer
<1>4. \A n \in toServer : n.ep \in Endpoints
  BY DEF TransportInv, TypeOK, ToServerPackets
<1>5. \A c \in Browsers : home[c] \in Endpoints \cup {Nothing}
  BY DEF TransportInv, TypeOK
<1>6. Waiting' \subseteq Waiting
  <2>1. UnboundBrowsers' \subseteq UnboundBrowsers
    BY <1>2, <1>3, <1>5 DEF UnboundBrowsers
  <2>2. \A n \in toServer' : peerMap'[n.ep] = Nothing => n \in toServer /\ peerMap[n.ep] = Nothing
    BY <1>2, <1>3, <1>4
  <2> QED
    BY <2>1, <2>2 DEF Waiting
<1>7. pendingPeers' = pendingPeers \ {p}
  BY <1>2 DEF Bind
<1>8. CASE peerMap[e] # Nothing
  <2>1. p \notin pendingPeers
    BY <1>1, <1>3, <1>8, TransportAssumption
    DEF TransportInv, UnboundPeers, OneEndpointPerPeer
  <2> QED
    BY <1>2, <1>6, <1>7, <2>1, FewerWait
<1>9. CASE peerMap[e] = Nothing
  <2>1. /\ IsFiniteSet(Waiting \ {b}) /\ IsFiniteSet(pendingPeers \ {p})
        /\ Cardinality(Waiting \ {b}) = IF b \in Waiting THEN Cardinality(Waiting) - 1
                                                          ELSE Cardinality(Waiting)
        /\ Cardinality(pendingPeers \ {p}) = IF p \in pendingPeers THEN Cardinality(pendingPeers) - 1
                                                                   ELSE Cardinality(pendingPeers)
    BY FS_RemoveElement DEF EnoughForAll
  <2>2. /\ IsFiniteSet(Waiting') /\ Cardinality(Waiting') \in Nat
        /\ Cardinality(Waiting) \in Nat /\ Cardinality(pendingPeers) \in Nat
    BY <1>6, FS_Subset, FS_CardinalityType DEF EnoughForAll
  <2>3. b \in Waiting
    BY <1>9 DEF Waiting
  <2>4. ASSUME moves = 0
        PROVE  Cardinality(Waiting') <= Cardinality(pendingPeers')
    <3>1. b \notin UnboundBrowsers'
      <4>1. home[b] \in {Nothing, e}
        BY <2>4 DEF KeysInv, OneHome
      <4>2. home[b] = Nothing => call[b] # "in"
        BY <1>1, <2>4 DEF KeysInv, OneHome, Calling
      <4> QED
        BY <1>1, <1>2, <1>3, <4>1, <4>2 DEF UnboundBrowsers
    <3>2. \A n \in toServer' : n.from = b => peerMap'[n.ep] # Nothing
      BY <1>2, <1>3, <2>4 DEF KeysInv, OneHome
    <3>3. Waiting' \subseteq Waiting \ {b}
      BY <1>6, <3>1, <3>2 DEF Waiting
    <3>4. Cardinality(Waiting') <= Cardinality(Waiting) - 1
      BY <2>1, <2>3, <3>3, FS_Subset
    <3>5. pendingPeers # {}
      BY <2>2, <2>4, <3>4, FS_EmptySet DEF EnoughForAll
    <3>6. p \in pendingPeers
      BY <1>9, <3>5 DEF Candidates
    <3> QED
      BY <1>7, <2>1, <2>2, <2>4, <3>4, <3>6 DEF EnoughForAll
  <2> QED
    BY <1>2, <1>7, <2>1, <2>2, <2>4 DEF EnoughForAll
<1> QED
  BY <1>8, <1>9

(* Leaving and the browsers' own steps make nobody wait who did not.         *)
LEMMA EnoughOther ==
    ASSUME TransportInv, KeysInv, EnoughForAll,
           \/ \E b \in Browsers : RemovePeer(b) \/ Retransmit(b) \/ SendMedia(b)
           \/ \E b \in Browsers, e \in Endpoints : StartDtls(b, e) \/ Move(b, e)
           \/ \E m \in toBrowser : BrowserReceives(m)
           \/ \E m \in toServer \cup toBrowser : Lose(m)
    PROVE  EnoughForAll'
<1>1. \A m \in toBrowser : m.ep \in Endpoints /\ m.to \in Browsers
  BY DEF TransportInv, TypeOK, ToBrowserPackets
<1>2. ASSUME NEW b \in Browsers, home[b] # Nothing, NEW t,
             toServer' \subseteq toServer \cup {Up(b, home[b], t)},
             UNCHANGED <<pendingPeers, peerMap, call, home, moves>>
      PROVE  EnoughForAll'
  <2>1. \A m \in toServer' : m \in toServer \/ (m.from = b /\ m.ep = home[b])
    BY <1>2 DEF Up
  <2>2. call[b] = "in"
    BY <1>2 DEF KeysInv, Calling
  <2>3. Waiting' \subseteq Waiting
    BY <1>2, <2>1, <2>2 DEF Waiting, UnboundBrowsers
  <2> QED
    BY <1>2, <2>3, FewerWait
<1>3. ASSUME NEW b \in Browsers, Retransmit(b) \/ SendMedia(b)
      PROVE  EnoughForAll'
  <2>1. \E t : toServer' = toServer \cup {Up(b, home[b], t)}
    BY <1>3 DEF Retransmit, SendMedia
  <2>2. home[b] # Nothing /\ UNCHANGED <<pendingPeers, peerMap, call, home, moves>>
    BY <1>3 DEF Retransmit, SendMedia, server, browser
  <2> QED
    BY <1>2, <2>1, <2>2
<1>4. ASSUME NEW b \in Browsers, RemovePeer(b)
      PROVE  EnoughForAll'
  <2>1. /\ UNCHANGED <<pendingPeers, peerMap, moves, toServer>>
        /\ call'[b] = "left"
        /\ \A c \in Browsers : c # b => call'[c] = call[c] /\ home'[c] = home[c]
    BY <1>4 DEF RemovePeer, network, TransportInv, TypeOK
  <2>2. Waiting' \subseteq Waiting
    BY <2>1 DEF Waiting, UnboundBrowsers
  <2> QED
    BY <2>1, <2>2, FewerWait
<1>5. ASSUME NEW b \in Browsers, NEW e \in Endpoints, StartDtls(b, e)
      PROVE  EnoughForAll'
  <2>1. /\ UNCHANGED <<pendingPeers, peerMap, moves, call>>
        /\ call[b] = "in" /\ hs[b] = "none"
        /\ \A m \in toServer' : m \in toServer \/ m.from = b
        /\ \A c \in Browsers : c # b => home'[c] = home[c]
    BY <1>5 DEF StartDtls, server, Up, TransportInv, TypeOK
  <2>2. b \in UnboundBrowsers
    BY <2>1 DEF UnboundBrowsers, KeysInv, Calling
  <2>3. Waiting' \subseteq Waiting
    BY <2>1, <2>2 DEF Waiting, UnboundBrowsers
  <2> QED
    BY <2>1, <2>3, FewerWait
<1>6. ASSUME NEW b \in Browsers, NEW e \in Endpoints, Move(b, e)
      PROVE  EnoughForAll'
  <2>1. /\ UNCHANGED <<pendingPeers, peerMap, toServer, call>>
        /\ moves' = moves + 1 /\ moves \in Nat
        /\ \A c \in Browsers : c # b => home'[c] = home[c]
    BY <1>6, TransportAssumption DEF Move, server, network, TransportInv, TypeOK
  <2>2. moves' # 0
    BY <2>1
  <2>3. Waiting' \subseteq Waiting \cup {b}
    BY <2>1 DEF Waiting, UnboundBrowsers
  <2>4. IsFiniteSet(Waiting')
    BY <2>3, FS_AddElement, FS_Subset DEF EnoughForAll
  <2> QED
    BY <2>1, <2>2, <2>4 DEF EnoughForAll
<1>7. ASSUME NEW m \in toBrowser, BrowserReceives(m)
      PROVE  EnoughForAll'
  <2> DEFINE b == m.to
  <2>1. UNCHANGED <<pendingPeers, peerMap, call, home, moves>>
    BY <1>7 DEF BrowserReceives, server
  <2>2. CASE home[b] = m.ep
    <3>1. b \in Browsers /\ home[b] # Nothing
      BY <1>1, <1>7, <2>2, TransportAssumption
    <3>2. toServer' \subseteq toServer \cup {Up(b, home[b], "clientFinished")}
      BY <1>7, <2>2 DEF BrowserReceives
    <3> QED
      BY <1>2, <2>1, <3>1, <3>2
  <2>3. CASE home[b] # m.ep
    <3>1. toServer' = toServer
      BY <1>7, <2>3 DEF BrowserReceives
    <3>2. Waiting' = Waiting
      BY <2>1, <3>1 DEF Waiting, UnboundBrowsers
    <3> QED
      BY <2>1, <3>2, FewerWait
  <2> QED
    BY <2>2, <2>3
<1>8. CASE \E m \in toServer \cup toBrowser : Lose(m)
  <2>1. toServer' \subseteq toServer /\ UNCHANGED <<pendingPeers, peerMap, call, home, moves>>
    BY <1>8 DEF Lose, server, browser
  <2>2. Waiting' \subseteq Waiting
    BY <2>1 DEF Waiting, UnboundBrowsers
  <2> QED
    BY <2>1, <2>2, FewerWait
<1> QED
  BY <1>3, <1>4, <1>5, <1>6, <1>7, <1>8

(* The whole invariant is inductive.                                         *)
LEMMA KeysHold == Spec => [](TransportInv /\ KeysInv /\ EnoughForAll)
<1>1. Init => KeysInv /\ EnoughForAll
  <2> SUFFICES ASSUME Init PROVE KeysInv /\ EnoughForAll
    OBVIOUS
  <2>1. KeysInv
    BY TransportAssumption
    DEF Init, KeysInv, OwnEndpoint, OwnSession, BoundBack, KeysOfSession, FinishedKnown, Calling,
        OneHome
  <2>2. Waiting = {} /\ pendingPeers = {}
    BY DEF Init, Waiting, UnboundBrowsers
  <2> QED
    BY <2>1, <2>2, FS_EmptySet DEF EnoughForAll
<1>2. TransportInv /\ KeysInv /\ EnoughForAll /\ [Next]_vars => (KeysInv /\ EnoughForAll)'
  <2> SUFFICES ASSUME TransportInv, KeysInv, EnoughForAll, [Next]_vars
               PROVE  KeysInv' /\ EnoughForAll'
    OBVIOUS
  <2>1. ASSUME NEW m \in toServer, HandleDtls(m) \/ HandleSrtp(m)
        PROVE  KeysInv' /\ EnoughForAll'
    <3>1. PICK p \in Candidates(m.ep) : Handled(m, p)
      BY <2>1, DtlsEffect, SrtpEffect
    <3> QED
      BY <3>1, KeysHandled, EnoughHandled
  <2>2. ASSUME NEW b \in Browsers, AddPeer(b) PROVE KeysInv' /\ EnoughForAll'
    BY <2>2, KeysGrpc, EnoughAddPeer
  <2>3. ASSUME NEW b \in Browsers, RemovePeer(b) PROVE KeysInv' /\ EnoughForAll'
    BY <2>3, KeysGrpc, EnoughOther
  <2>4. CASE \/ \E b \in Browsers : Retransmit(b) \/ SendMedia(b)
             \/ \E b \in Browsers, e \in Endpoints : StartDtls(b, e) \/ Move(b, e)
             \/ \E m \in toBrowser : BrowserReceives(m)
             \/ \E m \in toServer \cup toBrowser : Lose(m)
    BY <2>4, KeysBrowser, EnoughOther
  <2>5. CASE UNCHANGED vars
    <3>1. UNCHANGED <<pendingPeers, peerMap, remoteEp, dtls, session, srtp, call, home, hs, moves,
                      toServer, toBrowser>>
      BY <2>5 DEF vars, server, browser, network
    <3>2. Waiting' = Waiting
      BY <3>1 DEF Waiting, UnboundBrowsers
    <3> QED
      BY <3>1, <3>2
      DEF KeysInv, OwnEndpoint, OwnSession, BoundBack, KeysOfSession, FinishedKnown, FinishedAt,
          Calling, OneHome, EnoughForAll
  <2> QED
    BY <2>1, <2>2, <2>3, <2>4, <2>5 DEF Next
<1> QED
  BY <1>1, <1>2, InvHolds, PTL DEF Spec

(* PacketRouter::getOrCreatePeer binds by order of arrival, so a browser may *)
(* get the Peer of another; still the keys under an endpoint are never those *)
(* of a browser other than the one that sends from there.                    *)
THEOREM KeysNeverForeign == Spec => []NoForeignKeys
<1>1. TransportInv /\ KeysInv => NoForeignKeys
  <2> SUFFICES ASSUME TransportInv, KeysInv, NEW b \in Browsers, home[b] # Nothing,
                      peerMap[home[b]] # Nothing
               PROVE  srtp[peerMap[home[b]]] \in {b, Nothing, Failed}
    BY DEF NoForeignKeys
  <2>1. home[b] \in Endpoints /\ peerMap[home[b]] \in Peers
    BY DEF TransportInv, TypeOK
  <2>2. srtp[peerMap[home[b]]] \in Browsers \cup {Nothing, Failed}
    BY <2>1 DEF TransportInv, TypeOK
  <2>3. Nothing \notin Browsers
    BY TransportAssumption
  <2> QED
    BY <2>1, <2>2, <2>3 DEF KeysInv, KeysOfSession, OwnSession
<1> QED
  BY <1>1, KeysHold, PTL

(* DtlsContext::handlePacket and handleDtls: a browser whose handshake is    *)
(* over and that stays at its endpoint has its keys there, or                *)
(* SrtpContext::init has failed, whatever was lost, repeated or late.        *)
THEOREM MediaCanBeDecrypted == Spec => []MediaDecryptable
<1>1. TransportInv /\ KeysInv => MediaDecryptable
  <2> SUFFICES ASSUME TransportInv, KeysInv, NEW b \in Browsers, hs[b] = "done",
                      home[b] # Nothing, moves = 0
               PROVE  /\ peerMap[home[b]] # Nothing
                      /\ srtp[peerMap[home[b]]] \in {b, Failed}
    BY DEF MediaDecryptable
  <2> DEFINE p == peerMap[home[b]]
  <2>1. p # Nothing /\ dtls[p] = "done" /\ session[p] = b
    BY DEF KeysInv, FinishedKnown, FinishedAt
  <2>2. p \in Peers
    BY <2>1 DEF TransportInv, TypeOK
  <2>3. srtp[p] # Nothing /\ srtp[p] \in Browsers \cup {Nothing, Failed}
    BY <2>1, <2>2 DEF TransportInv, TypeOK
  <2>4. srtp[p] \in Browsers => srtp[p] = b
    BY <2>1, <2>2 DEF KeysInv, KeysOfSession
  <2> QED
    BY <2>1, <2>3, <2>4
<1> QED
  BY <1>1, KeysHold, PTL

(* PacketRouter::registerPeer and getOrCreatePeer: while no browser changes  *)
(* its endpoint there is a registered Peer for every browser that has not    *)
(* been heard from, although Peers of browsers that left are handed out too. *)
THEOREM PeersEnough == Spec => []EnoughPending
<1>1. EnoughForAll => EnoughPending
  <2> SUFFICES ASSUME EnoughForAll, moves = 0
               PROVE  Cardinality(UnboundBrowsers) <= Cardinality(pendingPeers)
    BY DEF EnoughPending
  <2>1. UnboundBrowsers \subseteq Waiting
    BY DEF Waiting
  <2>2. /\ Cardinality(UnboundBrowsers) <= Cardinality(Waiting)
        /\ Cardinality(UnboundBrowsers) \in Nat /\ Cardinality(Waiting) \in Nat
        /\ Cardinality(pendingPeers) \in Nat
    BY <2>1, FS_Subset, FS_CardinalityType DEF EnoughForAll
  <2> QED
    BY <2>2 DEF EnoughForAll
<1> QED
  BY <1>1, KeysHold, PTL

=============================================================================
