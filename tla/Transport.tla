----------------------------- MODULE Transport -----------------------------
(***************************************************************************)
(* media-svc/transport: how PacketRouter ties UDP endpoints to the Peers    *)
(* that AddPeer has registered, and how DtlsContext and SrtpContext make an *)
(* endpoint able to send media, over a network that loses, repeats and      *)
(* reorders packets.                                                        *)
(*                                                                          *)
(* UdpServer re-arms its single receive only after the callback returns, so *)
(* the handling of a packet is one step; gRPC threads interleave with it.   *)
(* A browser and the Peer registered for it have the same name.  A Peer     *)
(* that getOrCreatePeer makes for an endpoint because none is pending has   *)
(* the name of that endpoint.                                               *)
(***************************************************************************)
EXTENDS Naturals, FiniteSets

CONSTANTS
    Browsers,       \* browsers, and the Peers registered for them
    Endpoints,      \* UDP addresses of browsers
    MaxMoves,       \* bound: how often a browser continues from another endpoint
    MaxInitFailures,\* bound: how often SrtpContext::init fails
    Nothing,        \* a null pointer, and no endpoint
    Failed          \* SrtpContext::init returned false

ASSUME TransportAssumption ==
    /\ Browsers \cap Endpoints = {}
    /\ {Nothing, Failed} \cap (Browsers \cup Endpoints) = {}
    /\ Nothing # Failed
    /\ MaxMoves \in Nat /\ MaxInitFailures \in Nat

VARIABLES
    peers,          \* MediaServiceImpl::_peers
    pendingPeers,   \* PacketRouter::_pendingPeers
    peerMap,        \* PacketRouter::_peerMap
    remoteEp,       \* Peer::remoteEp
    dtls,           \* Peer::dtls: "none", "accept", "hello" or "done"
    session,        \* the browser a DtlsContext is shaking hands with
    srtp,           \* Peer::srtp: the browser whose keys it has, or not ready
    producing,      \* Peers the Router has Producers for
    keyframes,      \* Peers whose key frame was requested with a PLI
    call,           \* browser: "out", "in" (AddPeer has returned) or "left"
    home,           \* browser: the endpoint it sends from
    hs,             \* browser: its DTLS handshake, "none", "hello", "finished", "done"
    toServer,       \* packets on their way to the media server
    toBrowser,      \* packets on their way to browsers
    moves,          \* endpoint changes so far
    initFailures    \* failed SrtpContext::init so far

server == <<peerMap, remoteEp, dtls, session, srtp, producing, keyframes, initFailures>>
browser == <<call, home, hs, moves>>
network == <<toServer, toBrowser>>
vars == <<peers, pendingPeers, server, browser, network>>

Peers == Browsers \cup Endpoints

Up(b, e, t) == [from |-> b, ep |-> e, type |-> t]
Down(b, e, t) == [to |-> b, ep |-> e, type |-> t]

ToServerPackets == [from : Browsers, ep : Endpoints, type : {"clientHello", "clientFinished", "srtp"}]
ToBrowserPackets == [to : Browsers, ep : Endpoints, type : {"serverHello", "serverFinished"}]

Init ==
    /\ peers = {} /\ pendingPeers = {}
    /\ peerMap = [e \in Endpoints |-> Nothing]
    /\ remoteEp = [p \in Peers |-> Nothing]
    /\ dtls = [p \in Peers |-> "none"]
    /\ session = [p \in Peers |-> Nothing]
    /\ srtp = [p \in Peers |-> Nothing]
    /\ producing = {} /\ keyframes = {}
    /\ call = [b \in Browsers |-> "out"]
    /\ home = [b \in Browsers |-> Nothing]
    /\ hs = [b \in Browsers |-> "none"]
    /\ toServer = {} /\ toBrowser = {}
    /\ moves = 0 /\ initFailures = 0

-----------------------------------------------------------------------------
(* gRPC threads. *)

(* Faulty variant: the Peer is not handed to the PacketRouter. *)
AddPeer_NotRegistered(b) ==
    /\ call[b] = "out"
    /\ peers' = peers \cup {b}
    /\ call' = [call EXCEPT ![b] = "in"]
    /\ UNCHANGED <<pendingPeers, server, home, hs, moves, network>>

(* MediaServiceImpl::AddPeer; the browser is told of its Peer afterwards. *)
AddPeer(b) ==
    /\ call[b] = "out"
    /\ peers' = peers \cup {b}
    /\ pendingPeers' = pendingPeers \cup {b}
    /\ call' = [call EXCEPT ![b] = "in"]
    /\ UNCHANGED <<server, home, hs, moves, network>>

(* The browser ends its call and MediaServiceImpl::RemovePeer is called: the *)
(* Router forgets the Peer's Producers, the PacketRouter forgets nothing.    *)
RemovePeer(b) ==
    /\ call[b] = "in"
    /\ call' = [call EXCEPT ![b] = "left"]
    /\ home' = [home EXCEPT ![b] = Nothing]
    /\ peers' = peers \ {b}
    /\ producing' = producing \ {b}
    /\ UNCHANGED <<pendingPeers, peerMap, remoteEp, dtls, session, srtp, keyframes, initFailures,
                   hs, moves, network>>

-----------------------------------------------------------------------------
(* Browsers (external): RTCPeerConnection. *)

(* A port that no browser uses, and that the server has not heard and will   *)
(* not hear of from an earlier user.                                         *)
Fresh(e) ==
    /\ peerMap[e] = Nothing
    /\ \A b \in Browsers : home[b] # e
    /\ \A m \in toServer : m.ep # e

(* ICE has succeeded and the browser, as DTLS client, opens the handshake. *)
StartDtls(b, e) ==
    /\ call[b] = "in" /\ hs[b] = "none" /\ Fresh(e)
    /\ home' = [home EXCEPT ![b] = e]
    /\ hs' = [hs EXCEPT ![b] = "hello"]
    /\ toServer' = toServer \cup {Up(b, e, "clientHello")}
    /\ UNCHANGED <<peers, pendingPeers, server, call, moves, toBrowser>>

Flight(b) == IF hs[b] = "hello" THEN "clientHello" ELSE "clientFinished"

(* The handshake timer expires: the browser repeats its last flight. *)
Retransmit(b) ==
    /\ home[b] # Nothing /\ hs[b] \in {"hello", "finished"}
    /\ toServer' = toServer \cup {Up(b, home[b], Flight(b))}
    /\ UNCHANGED <<peers, pendingPeers, server, browser, toBrowser>>

SendMedia(b) ==
    /\ home[b] # Nothing /\ hs[b] = "done"
    /\ toServer' = toServer \cup {Up(b, home[b], "srtp")}
    /\ UNCHANGED <<peers, pendingPeers, server, browser, toBrowser>>

(* An ICE restart or a new NAT binding: the same session goes on from e. *)
Move(b, e) ==
    /\ home[b] # Nothing /\ hs[b] = "done" /\ Fresh(e) /\ moves < MaxMoves
    /\ home' = [home EXCEPT ![b] = e]
    /\ moves' = moves + 1
    /\ UNCHANGED <<peers, pendingPeers, server, call, hs, network>>

BrowserReceives(m) ==
    /\ m \in toBrowser
    /\ toBrowser' \in {toBrowser, toBrowser \ {m}}
    /\ LET b == m.to
           next == CASE m.type = "serverHello" /\ hs[b] = "hello" -> "finished"
                     [] m.type = "serverFinished" /\ hs[b] = "finished" -> "done"
                     [] OTHER -> hs[b]
       IN IF home[b] = m.ep
          THEN /\ hs' = [hs EXCEPT ![b] = next]
               /\ toServer' = IF next = "finished" /\ hs[b] = "hello"
                              THEN toServer \cup {Up(b, m.ep, "clientFinished")} ELSE toServer
          ELSE UNCHANGED <<hs, toServer>>
    /\ UNCHANGED <<peers, pendingPeers, server, call, home, moves>>

Lose(m) ==
    /\ m \in toServer \cup toBrowser
    /\ toServer' = toServer \ {m}
    /\ toBrowser' = toBrowser \ {m}
    /\ UNCHANGED <<peers, pendingPeers, server, browser>>

-----------------------------------------------------------------------------
(* The packet handlers. *)

(* Faulty variant: the endpoint table is not looked up first. *)
Candidates_NoLookup(e) == IF pendingPeers # {} THEN pendingPeers ELSE {e}

(* The Peers that getOrCreatePeer may return for endpoint e: the one bound,  *)
(* else the first in the iteration order of an unordered_map, else a new one. *)
Candidates(e) ==
    IF peerMap[e] # Nothing THEN {peerMap[e]}
    ELSE IF pendingPeers # {} THEN pendingPeers
    ELSE {e}

(* Faulty variant: the Peer stays among those pending. *)
Bind_StaysPending(e, p) ==
    /\ peerMap' = [peerMap EXCEPT ![e] = p]
    /\ remoteEp' = [remoteEp EXCEPT ![p] = IF peerMap[e] = p THEN @ ELSE e]
    /\ UNCHANGED pendingPeers

(* getOrCreatePeer returns Peer p; a Peer bound before is left as it is. *)
Bind(e, p) ==
    /\ peerMap' = [peerMap EXCEPT ![e] = p]
    /\ remoteEp' = [remoteEp EXCEPT ![p] = IF peerMap[e] = p THEN @ ELSE e]
    /\ pendingPeers' = pendingPeers \ {p}

(* SSL_do_handshake (external) of an unfinished context with packet m: the   *)
(* context's next state, and the flights it may send.  A flight is repeated  *)
(* when a packet arrives after the timer has expired.                        *)
Handshake(p, m) ==
    LET state == IF dtls[p] = "none" THEN "accept" ELSE dtls[p]
        mine == session[p] = m.from
    IN CASE state = "accept" /\ m.type = "clientHello" ->
              [state |-> "hello", sends |-> {{"serverHello"}}]
         [] state = "hello" /\ m.type = "clientFinished" /\ mine ->
              [state |-> "done", sends |-> {{"serverFinished"}}]
         [] state = "hello" -> [state |-> "hello", sends |-> {{}, {"serverHello"}}]
         [] OTHER -> [state |-> state, sends |-> {{}}]

(* Faulty variant: a context that is done still runs the handshake of a new   *)
(* client and exports its keys.                                              *)
HandlePacket_Restarts(p, m) ==
    IF dtls[p] = "done" /\ m.type = "clientHello"
    THEN [state |-> "hello", sends |-> {{"serverHello"}}]
    ELSE IF dtls[p] = "done" THEN [state |-> "done", sends |-> {{}}] ELSE Handshake(p, m)

(* DtlsContext::handlePacket: a finished context ignores what it receives. *)
HandlePacket(p, m) ==
    IF dtls[p] = "done" THEN [state |-> "done", sends |-> {{}}] ELSE Handshake(p, m)

(* sendPLItoAllPeers: a PLI to every other Peer that sends media and has SRTP. *)
AskedForKeyframe(newPeer) == {p \in producing \ {newPeer} : srtp[p] \in Browsers}

(* The keys are exported and SrtpContext::init succeeds or fails. *)
SrtpInit(p, m) ==
    \/ /\ srtp' = [srtp EXCEPT ![p] = m.from]
       /\ keyframes' = keyframes \cup AskedForKeyframe(p)
       /\ UNCHANGED initFailures
    \/ /\ initFailures < MaxInitFailures
       /\ initFailures' = initFailures + 1
       /\ srtp' = [srtp EXCEPT ![p] = Failed]
       /\ UNCHANGED keyframes

HandleDtls(m) ==
    /\ m \in toServer /\ m.type # "srtp"
    /\ toServer' \in {toServer, toServer \ {m}}
    /\ \E p \in Candidates(m.ep) :
          LET r == HandlePacket(p, m)
          IN /\ Bind(m.ep, p)
             /\ dtls' = [dtls EXCEPT ![p] = r.state]
             /\ session' = IF r.state = "hello" /\ dtls[p] # "hello"
                           THEN [session EXCEPT ![p] = m.from] ELSE session
             /\ \E flights \in r.sends :
                   toBrowser' = toBrowser \cup {Down(m.from, m.ep, t) : t \in flights}
             /\ IF dtls[p] # "done" /\ r.state = "done" THEN SrtpInit(p, m)
                ELSE UNCHANGED <<srtp, keyframes, initFailures>>
    /\ UNCHANGED <<peers, producing, browser>>

(* handleSrtp: a packet that the Peer's keys unprotect goes to the Router,   *)
(* which makes a Producer for it.                                            *)
HandleSrtp(m) ==
    /\ m \in toServer /\ m.type = "srtp"
    /\ toServer' \in {toServer, toServer \ {m}}
    /\ \E p \in Candidates(m.ep) :
          /\ Bind(m.ep, p)
          /\ producing' = IF srtp[p] = m.from THEN producing \cup {p} ELSE producing
    /\ UNCHANGED <<peers, dtls, session, srtp, keyframes, initFailures, browser, toBrowser>>

-----------------------------------------------------------------------------
Next == \/ \E b \in Browsers :
              \/ AddPeer(b) \/ RemovePeer(b) \/ Retransmit(b) \/ SendMedia(b)
              \/ \E e \in Endpoints : StartDtls(b, e) \/ Move(b, e)
        \/ \E m \in toServer : HandleDtls(m) \/ HandleSrtp(m)
        \/ \E m \in toBrowser : BrowserReceives(m)
        \/ \E m \in toServer \cup toBrowser : Lose(m)

Spec == Init /\ [][Next]_vars

(* The delivery of what a browser's handshake waits for: its last flight to   *)
(* the server, the timer that makes OpenSSL repeat a flight having expired,  *)
(* and the server's flight to the browser.                                   *)
DeliverFlight(b) ==
    home[b] # Nothing /\ hs[b] \in {"hello", "finished"} /\ HandleDtls(Up(b, home[b], Flight(b)))

AnswerFlight(b) == DeliverFlight(b) /\ \E m \in toBrowser' : m.to = b /\ m.ep = home[b] /\
                       m.type = (IF hs[b] = "hello" THEN "serverHello" ELSE "serverFinished")

DeliverAnswer(b) ==
    home[b] # Nothing /\
    \/ hs[b] = "hello" /\ BrowserReceives(Down(b, home[b], "serverHello"))
    \/ hs[b] = "finished" /\ BrowserReceives(Down(b, home[b], "serverFinished"))

(* A browser repeats its flight until it is answered, and a packet that is    *)
(* repeated without end is delivered in the end.                             *)
FairSpec ==
    /\ Spec
    /\ \A b \in Browsers : /\ WF_vars(Retransmit(b))
                           /\ SF_vars(DeliverFlight(b))
                           /\ SF_vars(AnswerFlight(b))
                           /\ SF_vars(DeliverAnswer(b))

-----------------------------------------------------------------------------
(* Properties *)

(* Every variable has its type; a Peer has an SRTP context only when its     *)
(* DTLS handshake is over.                                                   *)
TypeOK ==
    /\ peers \subseteq Browsers /\ pendingPeers \subseteq Browsers
    /\ peerMap \in [Endpoints -> Peers \cup {Nothing}]
    /\ remoteEp \in [Peers -> Endpoints \cup {Nothing}]
    /\ dtls \in [Peers -> {"none", "accept", "hello", "done"}]
    /\ session \in [Peers -> Browsers \cup {Nothing}]
    /\ srtp \in [Peers -> Browsers \cup {Nothing, Failed}]
    /\ \A p \in Peers : srtp[p] # Nothing <=> dtls[p] = "done"
    /\ producing \subseteq Peers /\ keyframes \subseteq Peers
    /\ call \in [Browsers -> {"out", "in", "left"}]
    /\ home \in [Browsers -> Endpoints \cup {Nothing}]
    /\ hs \in [Browsers -> {"none", "hello", "finished", "done"}]
    /\ toServer \subseteq ToServerPackets /\ toBrowser \subseteq ToBrowserPackets
    /\ moves \in 0..MaxMoves /\ initFailures \in 0..MaxInitFailures

(* A Peer is bound to one endpoint, the one its replies are sent to:         *)
(* getOrCreatePeer takes a Peer out of _pendingPeers as it binds it.         *)
OneEndpointPerPeer ==
    \A e \in Endpoints : peerMap[e] # Nothing => remoteEp[peerMap[e]] = e

(* Browsers in a call whose first packet has not been handled. *)
UnboundBrowsers == {b \in Browsers : /\ call[b] = "in"
                                     /\ home[b] = Nothing \/ peerMap[home[b]] = Nothing}

(* As long as no browser changes its endpoint, getOrCreatePeer has a         *)
(* registered Peer for every new endpoint: at least as many are pending as   *)
(* browsers have not been heard from.                                        *)
EnoughPending == moves = 0 => Cardinality(UnboundBrowsers) <= Cardinality(pendingPeers)

(* When a browser's handshake is over and it has not changed its endpoint,   *)
(* the server has its keys under that endpoint (or SrtpContext::init has     *)
(* failed): its media can be unprotected.                                    *)
MediaDecryptable ==
    \A b \in Browsers : hs[b] = "done" /\ home[b] # Nothing /\ moves = 0
        => /\ peerMap[home[b]] # Nothing
           /\ srtp[peerMap[home[b]]] \in {b, Failed}

(* The keys kept under an endpoint are never those of a browser other than   *)
(* the one that sends from it, also after changes of endpoint and when the   *)
(* Peer is the one registered for somebody else.                             *)
NoForeignKeys ==
    \A b \in Browsers : home[b] # Nothing /\ peerMap[home[b]] # Nothing
        => srtp[peerMap[home[b]]] \in {b, Nothing, Failed}

(* A handshake that has begun makes the server ready for the browser's       *)
(* media, or the browser leaves, whatever packets are lost.                  *)
ServerKeysEventually ==
    \A b \in Browsers : hs[b] = "hello"
        ~> (call[b] = "left" \/ \E p \in Peers : dtls[p] = "done" /\ session[p] = b)

(* MediaServiceImpl.cpp on AddPeer: the Peer it registers is bound to the    *)
(* endpoint of its browser when the browser connects.                        *)
EndpointBoundToItsPeer ==
    \A b \in Browsers : home[b] # Nothing /\ hs[b] = "done" /\ moves = 0
        => peerMap[home[b]] = b
=============================================================================
