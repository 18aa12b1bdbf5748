----------------------------- MODULE WebClient -----------------------------
(***************************************************************************)
(* web/js/webrtc.js with the handlers of room.html: the negotiation of one   *)
(* page with the SFU.  JavaScript runs to the next await; the async          *)
(* functions that make offers are WebRTC.init, the renegotiation queue and   *)
(* _doIceRestart, and they meet in one RTCPeerConnection and in the single   *)
(* variable _answerResolver.                                                 *)
(*                                                                           *)
(* The video and audio transceivers of a remote peer are added, offered and  *)
(* retired together and count as one.  Transceiver 0 is the microphone.      *)
(***************************************************************************)
EXTENDS Naturals, Sequences, FiniteSets, FiniteSetsExt

CONSTANTS
    Others,         \* remote participants
    MaxToggles,     \* bound: camera switched on or off
    MaxRestarts,    \* bound: ICE restarts
    MaxOverlaps,    \* bound: negotiations begun while init or a restart is under way
    MaxErrors,      \* bound: offers answered with an error
    MaxRejects,     \* bound: createOffer or setLocalDescription rejected
    Nobody          \* no peer

ASSUME WebClientAssumption ==
    /\ IsFiniteSet(Others) /\ Nobody \notin Others
    /\ {MaxToggles, MaxRestarts, MaxOverlaps, MaxErrors, MaxRejects} \subseteq Nat

VARIABLES
    step,           \* what each async function awaits
    snapshot,       \* the transceivers in the offer that createOffer gave it
    resolver,       \* _answerResolver: the function whose promise it resolves
    queue,          \* length of _renegotiateQueue
    renegotiating,  \* _renegotiating
    needs,          \* _needsRenegotiate
    aborted,        \* history: a rejection has ended the loop, and renegotiate() was
                    \* not called since
    pending,        \* _pendingTransceivers, as pairs of transceiver and peer
    pool,           \* _inactivePool
    midPeer,        \* _midPeerMap, by transceiver; NullMid for one without a mid
    opened,         \* the RTCPeerConnection has been created
    created,        \* its transceivers
    mids,           \* those that an offer has given a mid
    local,          \* those in the local description
    stable,         \* signalingState is "stable"
    tooLate,        \* history: those added between a createOffer and its
                    \* setLocalDescription, until an offer gives them a mid
    camera,         \* _cameraEnabled
    existing,       \* existing_peers of "joined"
    arrived, left,  \* participants announced with "renegotiate", "peer-left"
    uplink,         \* offers the server has not handled
    downlink,       \* answers and errors the page has not handled
    toggles, restarts, overlaps, errors, rejects

pcVars == <<opened, created, mids, local, stable, tooLate>>
queueVars == <<queue, renegotiating, needs, aborted>>
midVars == <<pending, pool, midPeer>>
wire == <<uplink, downlink>>
counters == <<toggles, restarts, overlaps, errors, rejects>>
vars == <<step, snapshot, resolver, queueVars, midVars, pcVars, camera, existing, arrived, left,
          wire, counters>>

Tasks == {"init", "queue", "ice"}
Transceivers == 0..(Cardinality(Others) + MaxToggles)
NullMid == Cardinality(Others) + MaxToggles + 1
NoTask == "none"

Init ==
    /\ step = [t \in Tasks |-> "off"]
    /\ snapshot = [t \in Tasks |-> {}]
    /\ resolver = NoTask
    /\ queue = 0 /\ renegotiating = FALSE /\ needs = FALSE /\ aborted = FALSE
    /\ pending = {} /\ pool = {}
    /\ midPeer = [m \in Transceivers \cup {NullMid} |-> Nobody]
    /\ opened = FALSE /\ created = {} /\ mids = {} /\ local = {} /\ stable = TRUE
    /\ tooLate = {}
    /\ camera = FALSE
    /\ existing \in SUBSET Others
    /\ arrived = {} /\ left = {}
    /\ uplink = <<>> /\ downlink = <<>>
    /\ toggles = 0 /\ restarts = 0 /\ overlaps = 0 /\ errors = 0 /\ rejects = 0

-----------------------------------------------------------------------------
(* The renegotiation queue.  "from" is step as the caller leaves it. *)

(* Faulty variant: _renegotiating is not reset when the loop ends. *)
RunQueue_KeepsFlag(n, pend, need, from) ==
    LET runs == n > 0 /\ (pend # {} \/ need)
    IN /\ queue' = IF runs THEN n - 1 ELSE 0
       /\ renegotiating' = (runs \/ renegotiating)
       /\ aborted' = FALSE
       /\ step' = [from EXCEPT !["queue"] = IF runs THEN "create" ELSE "off"]

(* _runRenegotiateQueue from the head of its loop, with n requests queued,   *)
(* up to createOffer or its end: requests with nothing to offer are skipped. *)
RunQueue(n, pend, need, from) ==
    LET runs == n > 0 /\ (pend # {} \/ need)
    IN /\ queue' = IF runs THEN n - 1 ELSE 0
       /\ renegotiating' = runs
       /\ aborted' = FALSE
       /\ step' = [from EXCEPT !["queue"] = IF runs THEN "create" ELSE "off"]

(* Faulty variant: a request is dropped while a negotiation is under way. *)
Renegotiate_Drops(pend, need, from) ==
    IF renegotiating
    THEN step' = from /\ aborted' = FALSE /\ UNCHANGED <<queue, renegotiating>>
    ELSE RunQueue(queue + 1, pend, need, from)

(* renegotiate(), given the pending transceivers and _needsRenegotiate. *)
Renegotiate(pend, need, from) ==
    IF renegotiating
    THEN queue' = queue + 1 /\ step' = from /\ aborted' = FALSE /\ UNCHANGED renegotiating
    ELSE RunQueue(queue + 1, pend, need, from)

(* The function awaits nothing: it has not been called, or has ended. *)
Idle(t) == step[t] \in {"off", "failed"}

(* A negotiation may begin while init or an ICE restart is under way. *)
Begins ==
    IF Idle("init") /\ Idle("ice") THEN UNCHANGED overlaps
    ELSE overlaps < MaxOverlaps /\ overlaps' = overlaps + 1

-----------------------------------------------------------------------------
(* Transceivers. *)

NextNew == Max(created \cup {0}) + 1

(* The transceivers addRecvTransceiver can take for peers ps: those of the   *)
(* inactive pool first, then new ones.                                       *)
Allocations(ps) ==
    LET reused == Min({Cardinality(ps), Cardinality(pool)})
        new == NextNew..(NextNew + Cardinality(ps) - reused - 1)
    IN {f \in [ps -> pool \cup new] :
          /\ \A p, q \in ps : f[p] = f[q] => p = q
          /\ new \subseteq {f[p] : p \in ps}}

(* addRecvTransceiver for every peer of ps, and renegotiate(). *)
AddRecvTransceivers(ps, from) ==
    \E f \in Allocations(ps) :
       LET tcs == {f[p] : p \in ps}
           added == {<<f[p], p>> : p \in ps}
       IN /\ pending' = pending \cup added
          /\ pool' = pool \ tcs
          /\ created' = created \cup tcs
          /\ tooLate' = IF step["queue"] = "local" THEN tooLate \cup (tcs \ mids)
                        ELSE tooLate \ tcs
          /\ Renegotiate(pending \cup added, needs, from)

(* What the "joined" handler does when init has returned. *)
AfterInit(from) ==
    IF existing = {}
    THEN step' = from /\ UNCHANGED <<pending, pool, created, tooLate, queue, renegotiating, aborted>>
    ELSE AddRecvTransceivers(existing, from)

MidOf(tc, withMid) == IF tc \in withMid THEN tc ELSE NullMid

(* markTransceiverInactive: the transceivers whose mid maps to p; of those   *)
(* without a mid only the first is found, for its entry is deleted.          *)
Marked(p) ==
    LET nulls == created \ mids
    IN {tc \in mids : midPeer[tc] = p}
       \cup (IF midPeer[NullMid] = p /\ nulls # {} THEN {Min(nulls)} ELSE {})

-----------------------------------------------------------------------------
(* Messages from the signaling server, and the user. *)

(* "joined": init creates the RTCPeerConnection and asks for the microphone. *)
Joined ==
    /\ ~opened
    /\ opened' = TRUE
    /\ step' = [step EXCEPT !["init"] = "media"]
    /\ UNCHANGED <<snapshot, resolver, queueVars, midVars, created, mids, local, stable, tooLate,
                   camera, existing, arrived, left, wire, counters>>

(* "renegotiate": a participant has joined. *)
PeerJoins(p) ==
    /\ opened /\ p \notin existing \cup arrived
    /\ Begins
    /\ arrived' = arrived \cup {p}
    /\ AddRecvTransceivers({p}, step)
    /\ UNCHANGED <<snapshot, resolver, needs, midPeer, opened, mids, local, stable, camera,
                   existing, left, wire, toggles, restarts, errors, rejects>>

(* "peer-left". *)
PeerLeaves(p) ==
    /\ opened /\ p \in (existing \cup arrived) \ left
    /\ Begins
    /\ left' = left \cup {p}
    /\ pool' = pool \cup Marked(p)
    /\ LET freed == {MidOf(tc, mids) : tc \in Marked(p)}
       IN midPeer' = [m \in DOMAIN midPeer |-> IF m \in freed THEN Nobody ELSE midPeer[m]]
    /\ Renegotiate(pending, needs, step)
    /\ UNCHANGED <<snapshot, resolver, needs, pending, pcVars, camera, existing, arrived, wire,
                   toggles, restarts, errors, rejects>>

(* enableCamera and disableCamera; without the microphone's stream the first *)
(* throws and is caught.                                                     *)
ToggleCamera ==
    /\ 0 \in created /\ toggles < MaxToggles
    /\ Begins
    /\ toggles' = toggles + 1
    /\ camera' = ~camera
    /\ created' = IF camera THEN created ELSE created \cup {NextNew}
    /\ tooLate' = IF ~camera /\ "local" \in {step["queue"], step["ice"]}
                  THEN tooLate \cup {NextNew} ELSE tooLate
    /\ needs' = TRUE
    /\ Renegotiate(pending, TRUE, step)
    /\ UNCHANGED <<snapshot, resolver, midVars, opened, mids, local, stable, existing, arrived,
                   left, wire, restarts, errors, rejects>>

(* _doIceRestart, when the connection is lost. *)
IceRestart ==
    /\ local # {} /\ step["ice"] = "off" /\ restarts < MaxRestarts
    /\ IF \A t \in Tasks : Idle(t) THEN UNCHANGED overlaps
       ELSE overlaps < MaxOverlaps /\ overlaps' = overlaps + 1
    /\ restarts' = restarts + 1
    /\ step' = [step EXCEPT !["ice"] = "create"]
    /\ UNCHANGED <<snapshot, resolver, queueVars, midVars, pcVars, camera, existing, arrived,
                   left, wire, toggles, errors, rejects>>

-----------------------------------------------------------------------------
(* The async functions. *)

(* getUserMedia has given the microphone's track, or has failed. *)
MediaReady ==
    /\ step["init"] = "media"
    /\ step' = [step EXCEPT !["init"] = "create"]
    /\ created' \in {created, created \cup {0}}
    /\ UNCHANGED <<snapshot, resolver, queueVars, midVars, opened, mids, local, stable, tooLate,
                   camera, existing, arrived, left, wire, counters>>

(* createOffer is over (external): the offer has a line per transceiver. *)
OfferCreated(t) ==
    /\ step[t] = "create"
    /\ step' = [step EXCEPT ![t] = "local"]
    /\ snapshot' = [snapshot EXCEPT ![t] = created]
    /\ UNCHANGED <<resolver, queueVars, midVars, pcVars, camera, existing, arrived, left, wire,
                   counters>>

(* setLocalDescription is over: the transceivers of the offer have mids. *)
LocalSet(t) ==
    /\ step[t] = "local"
    /\ mids' = mids \cup snapshot[t]
    /\ local' = snapshot[t]
    /\ stable' = FALSE
    /\ UNCHANGED <<opened, camera, existing, arrived, left, downlink, counters>>

(* Faulty variant: the promise's resolve function is not kept. *)
SendOffer_NoResolver(t) ==
    /\ resolver' = NoTask
    /\ uplink' = Append(uplink, snapshot[t])
    /\ step' = [step EXCEPT ![t] = "answer"]
    /\ snapshot' = [snapshot EXCEPT ![t] = {}]

(* _sendOffer: the promise that the next answer resolves is the caller's. *)
SendOffer(t) ==
    /\ resolver' = t
    /\ uplink' = Append(uplink, snapshot[t])
    /\ step' = [step EXCEPT ![t] = "answer"]
    /\ snapshot' = [snapshot EXCEPT ![t] = {}]

(* init: an offer without audio is not sent. *)
InitLocalSet ==
    /\ LocalSet("init")
    /\ \/ /\ snapshot["init"] # {}
          /\ SendOffer("init")
          /\ tooLate' = tooLate \ snapshot["init"]
          /\ UNCHANGED <<created, pending, pool, queue, renegotiating, aborted>>
       \/ /\ snapshot["init"] = {}
          /\ AfterInit([step EXCEPT !["init"] = "off"])
          /\ UNCHANGED <<resolver, uplink, snapshot>>
    /\ UNCHANGED <<midPeer, needs>>

(* The queue takes what is pending and records the mids, a missing one too. *)
QueueLocalSet ==
    /\ LocalSet("queue")
    /\ LET mapped == {x \in pending : x[1] \in mids'}
           nulls == {x[2] : x \in pending \ mapped}
       IN \E q \in IF nulls = {} THEN {midPeer[NullMid]} ELSE nulls :
             midPeer' = [m \in DOMAIN midPeer |->
                           IF m = NullMid THEN q
                           ELSE IF \E x \in mapped : x[1] = m
                           THEN (CHOOSE x \in mapped : x[1] = m)[2]
                           ELSE midPeer[m]]
    /\ pending' = {}
    /\ needs' = FALSE
    /\ SendOffer("queue")
    /\ tooLate' = tooLate \ snapshot["queue"]
    /\ UNCHANGED <<created, pool, queue, renegotiating, aborted>>

IceLocalSet ==
    /\ LocalSet("ice")
    /\ needs' = FALSE
    /\ SendOffer("ice")
    /\ tooLate' = tooLate \ snapshot["ice"]
    /\ UNCHANGED <<created, midVars, queue, renegotiating, aborted>>

(* createOffer or setLocalDescription is rejected (external), for instance   *)
(* because another function has called createOffer since.                    *)
Rejected(t) ==
    /\ step[t] \in {"create", "local"} /\ rejects < MaxRejects
    /\ rejects' = rejects + 1
    /\ snapshot' = [snapshot EXCEPT ![t] = {}]
    /\ UNCHANGED <<resolver, queue, needs, midVars, pcVars, camera, existing, arrived, left, wire,
                   toggles, restarts, overlaps, errors>>

(* init throws, and with it the "joined" handler: nothing is added for the   *)
(* participants that were there before.                                      *)
InitRejected ==
    /\ Rejected("init")
    /\ step' = [step EXCEPT !["init"] = "failed"]
    /\ UNCHANGED <<renegotiating, aborted>>

(* The loop is left through its finally: what is pending and the requests    *)
(* stay, and nothing takes them up before renegotiate() is called again.     *)
QueueRejected ==
    /\ Rejected("queue")
    /\ step' = [step EXCEPT !["queue"] = "off"]
    /\ renegotiating' = FALSE
    /\ aborted' = TRUE

(* _doIceRestart catches the rejection and gives up. *)
IceRejected ==
    /\ Rejected("ice")
    /\ step' = [step EXCEPT !["ice"] = "off"]
    /\ UNCHANGED <<renegotiating, aborted>>

(* handleOffer of the signaling server. *)
ServerAnswers ==
    /\ uplink # <<>>
    /\ uplink' = Tail(uplink)
    /\ \/ /\ downlink' = Append(downlink, [type |-> "answer", lines |-> Head(uplink)])
          /\ UNCHANGED errors
       \/ /\ errors < MaxErrors
          /\ errors' = errors + 1
          /\ downlink' = Append(downlink, [type |-> "error", lines |-> {}])
    /\ UNCHANGED <<step, snapshot, resolver, queueVars, midVars, pcVars, camera, existing,
                   arrived, left, toggles, restarts, overlaps, rejects>>

(* setRemoteDescription (external) takes an answer line for line. *)
Fits(m) == ~stable /\ m.lines = local

(* setAnswer: whether or not the answer was taken, the promise of whoever    *)
(* called _sendOffer last is resolved, and that function goes on.            *)
SetAnswer ==
    /\ downlink # <<>> /\ Head(downlink).type = "answer"
    /\ downlink' = Tail(downlink)
    /\ stable' = (stable \/ Fits(Head(downlink)))
    /\ resolver' = NoTask
    /\ \/ /\ resolver = "queue"
          /\ RunQueue(queue, pending, needs, step)
          /\ UNCHANGED <<pending, pool, created, tooLate>>
       \/ /\ resolver = "init"
          /\ AfterInit([step EXCEPT !["init"] = "off"])
       \/ /\ resolver \in {"ice", NoTask}
          /\ step' = [t \in Tasks |-> IF t = resolver THEN "off" ELSE step[t]]
          /\ UNCHANGED <<queue, renegotiating, aborted, pending, pool, created, tooLate>>
    /\ UNCHANGED <<snapshot, needs, midPeer, opened, mids, local, camera, existing, arrived,
                   left, uplink, counters>>

(* The "error" handler of room.html only shows an alert. *)
ShowError ==
    /\ downlink # <<>> /\ Head(downlink).type = "error"
    /\ downlink' = Tail(downlink)
    /\ UNCHANGED <<step, snapshot, resolver, queueVars, midVars, pcVars, camera, existing,
                   arrived, left, uplink, counters>>

-----------------------------------------------------------------------------
(* What is under way goes on without the user or other participants. *)
Progress == \/ MediaReady
            \/ \E t \in Tasks : OfferCreated(t)
            \/ InitLocalSet \/ QueueLocalSet \/ IceLocalSet
            \/ ServerAnswers \/ SetAnswer \/ ShowError

Next == \/ Joined
        \/ \E p \in Others : PeerJoins(p) \/ PeerLeaves(p)
        \/ ToggleCamera
        \/ IceRestart
        \/ InitRejected \/ QueueRejected \/ IceRejected
        \/ Progress

Spec == Init /\ [][Next]_vars

(* Promises of the browser are settled and the server answers. *)
FairSpec == Spec /\ WF_vars(Progress)

-----------------------------------------------------------------------------
(* Properties *)

(* Every variable has its type; _renegotiating is set exactly while the      *)
(* queue's loop awaits something.                                            *)
TypeOK ==
    /\ step \in [Tasks -> {"off", "media", "create", "local", "answer", "failed"}]
    /\ snapshot \in [Tasks -> SUBSET Transceivers]
    /\ resolver \in Tasks \cup {NoTask}
    /\ queue \in Nat
    /\ renegotiating = (step["queue"] # "off")
    /\ aborted => step["queue"] = "off"
    /\ needs \in BOOLEAN /\ camera \in BOOLEAN /\ stable \in BOOLEAN /\ opened \in BOOLEAN
    /\ pending \subseteq Transceivers \X Others
    /\ pool \subseteq created
    /\ midPeer \in [Transceivers \cup {NullMid} -> Others \cup {Nobody}]
    /\ created \subseteq Transceivers
    /\ mids \subseteq created /\ local \subseteq mids /\ tooLate \subseteq created \ mids
    /\ existing \subseteq Others /\ arrived \subseteq Others /\ left \subseteq Others
    /\ uplink \in Seq(SUBSET Transceivers)
    /\ downlink \in Seq([type : {"answer", "error"}, lines : SUBSET Transceivers])
    /\ toggles <= MaxToggles /\ restarts <= MaxRestarts
    /\ overlaps <= MaxOverlaps /\ errors <= MaxErrors /\ rejects <= MaxRejects

(* The loop of the queue is about to make an offer, or will when its answer  *)
(* has come; after a rejection the next renegotiate() makes it go on.        *)
LoopOffers ==
    step["queue"] = "create" \/ (step["queue"] = "answer" /\ queue > 0) \/ aborted

(* What the page wants to negotiate is not lost between the queue, its       *)
(* awaits, rejections and other offers.  While a transceiver is pending or a *)
(* camera was switched, the loop will make an offer or is about to record    *)
(* one; and a transceiver without a mid is in the offer that the loop sets,  *)
(* or is still wanted when the loop makes its next one.  The exception is    *)
(* what handlers add, or switch, between a createOffer and its               *)
(* setLocalDescription: the code takes that off its list, or forgets the     *)
(* switch, without having offered it.  0 is the microphone, init's offer.    *)
PendingIsScheduled ==
    /\ pending # {} \/ needs => LoopOffers \/ step["queue"] = "local"
    /\ \A tc \in created \ (mids \cup tooLate \cup {0}) :
          \/ tc \in snapshot["queue"]
          \/ LoopOffers /\ (needs \/ \E p \in Others : <<tc, p>> \in pending)

(* Liveness is promised while negotiations do not overlap, no offer is       *)
(* answered with an error and the browser rejects nothing: the first two     *)
(* leave a promise that nothing resolves, the third ends its function.       *)
Undisturbed == overlaps = 0 /\ errors = 0 /\ rejects = 0

(* The queue does not stop: a negotiation under way comes to its end.        *)
QueueDrains == renegotiating ~> (~renegotiating \/ ~Undisturbed)

(* The "joined" handler goes on to add transceivers for the participants     *)
(* that were there before: the answer to init's offer resolves its promise.  *)
JoinedHandlerFinishes == opened ~> (step["init"] = "off" \/ ~Undisturbed)
=============================================================================
