-------------------------------- MODULE Sdp ---------------------------------
(***************************************************************************)
(* media-svc/sdp/SdpParser with MediaServiceImpl::SendOffer: what the        *)
(* answers tell one subscribing page about the SSRCs its mids will carry,    *)
(* and what the payload types of everybody's offers make the Router take a   *)
(* packet for.                                                               *)
(*                                                                           *)
(* The page is webrtc.js without overlapping offers (WebClient has those)    *)
(* and joins do not overlap (Signaling has that).  A Consumer's outgoing     *)
(* SSRC is its place in the subscriber's vector; 0 is no SSRC.               *)
(***************************************************************************)
EXTENDS Integers, Sequences, FiniteSets, FiniteSetsExt, SequencesExt

CONSTANTS
    Publishers,     \* the other participants; each joins at most once
    Offered,        \* payload types of a publisher's sections, by kind
    SubscriberPTs,  \* payload types of the subscriber's video sections
    MaxLate,        \* bound: announcements handled before init has finished
    Nobody          \* a null Peer*

Kinds == {"video", "audio"}

ASSUME SdpAssumption ==
    /\ IsFiniteSet(Publishers) /\ Nobody \notin Publishers
    /\ Offered \in [Publishers -> [Kinds -> SUBSET Nat]]
    /\ \A p \in Publishers : Offered[p]["video"] \cap Offered[p]["audio"] = {}
    /\ SubscriberPTs \subseteq Nat
    /\ MaxLate \in Nat

VARIABLES
    videoPTs,       \* SdpParser::videoPTs, static
    consumers,      \* Peer::consumers of the subscriber
    streams,        \* the Producers: what the Router takes each stream for
    presence,       \* publisher: "out", "announced", "in" or "gone"
    offering,       \* publishers whose own offer has been answered
    existing,       \* those of existing_peers of "joined" without transceivers yet
    adding,         \* init has finished and the loop over existing_peers runs
    transceivers,   \* the page's receiving transceivers; a mid is an index
    pending,        \* _pendingTransceivers, as pairs of mid and publisher
    remote,         \* the SSRC that the last answer names for each mid
    inbox,          \* messages of the signaling server to the page
    offer,          \* the offer that is unanswered
    late            \* announcements handled before init has finished

server == <<videoPTs, consumers, streams, offering>>
page == <<existing, adding, transceivers, pending, remote, late>>
vars == <<server, presence, page, inbox, offer>>

Mids == 1..(2 * Cardinality(Publishers))
Mic == 0
NoOffer == [sections |-> <<>>, recvMids |-> {}]

NewConsumer(p, k) == [publisher |-> p, kind |-> k, recvMid |-> 0, attached |-> FALSE,
                      active |-> TRUE]

(* The Consumers that SetupConsumers makes of the subscriber for the         *)
(* publishers in the order ps, none of which has sent anything.              *)
ConsumersFor(ps) ==
    [i \in 1..(2 * Len(ps)) |-> NewConsumer(ps[(i + 1) \div 2], IF i % 2 = 1 THEN "video" ELSE "audio")]

Init ==
    /\ videoPTs = {} /\ offering = {}
    /\ streams = [s \in Publishers \X Kinds |-> "none"]
    /\ existing \in SUBSET Publishers /\ adding = FALSE
    /\ presence = [p \in Publishers |-> IF p \in existing THEN "in" ELSE "out"]
    /\ \E ps \in SetToSeqs(existing) : consumers = ConsumersFor(ps)
    /\ transceivers = <<>> /\ pending = {}
    /\ remote = [m \in Mids |-> 0]
    /\ inbox = <<>> /\ offer = NoOffer /\ late = 0

-----------------------------------------------------------------------------
(* SdpParser *)

(* Faulty variant: only the first payload type of a section is recorded. *)
parseOffer_MainPT(pts) == videoPTs \cup (IF pts = {} THEN {} ELSE {Min(pts)})

(* parseOffer: the payload types of the video sections of an offer are added *)
(* to the static set that all calls share.                                   *)
parseOffer(pts) == videoPTs \cup pts

(* The direction of an answer's section. *)
answerDir(offerDir) == CASE offerDir = "sendrecv" -> "sendrecv"
                         [] offerDir = "sendonly" -> "recvonly"
                         [] offerDir = "recvonly" -> "sendonly"
                         [] OTHER -> "inactive"

(* generateAnswer: the sections of the offer mirrored, with an a=ssrc in     *)
(* those the page wants to receive on.  The pages' offers are well formed:   *)
(* the empty answer to one that parseOffer refuses is left out.              *)
generateAnswer(sections, midSsrc) ==
    [m \in DOMAIN sections |->
       [dir |-> answerDir(sections[m]),
        ssrc |-> IF sections[m] = "recvonly" THEN midSsrc[m] ELSE 0]]

-----------------------------------------------------------------------------
(* MediaServiceImpl::SendOffer *)

(* The Consumer that bindConsumerByMid finds for an entry of recv_mids, the  *)
(* first that fits, or 0.                                                    *)
Bindable(rm) ==
    LET fit == {i \in DOMAIN consumers : /\ consumers[i].kind = rm.kind
                                         /\ consumers[i].publisher = rm.publisher}
    IN IF fit = {} THEN 0 ELSE Min(fit)

(* bindConsumerByMid for every entry. *)
Bound(recvMids) ==
    [i \in DOMAIN consumers |->
       IF \E rm \in recvMids : Bindable(rm) = i
       THEN [consumers[i] EXCEPT !.recvMid = (CHOOSE rm \in recvMids : Bindable(rm) = i).mid]
       ELSE consumers[i]]

(* Router::getAllBoundSsrcs: where two Consumers have the mid, the later one *)
(* overwrites the entry.                                                     *)
getAllBoundSsrcs(cs) == [m \in Mids \cup {Mic} |->
                           Max({0} \cup {i \in DOMAIN cs : m # 0 /\ cs[i].recvMid = m})]

(* Faulty variant: only the mids of this offer are named. *)
midToSsrc_OnlyNew(recvMids) ==
    [m \in Mids \cup {Mic} |-> Max({0} \cup {Bindable(rm) : rm \in {x \in recvMids : x.mid = m}})]

(* Faulty variant: the first Consumer with the mid keeps the entry. *)
midToSsrc_FirstWins(recvMids) ==
    LET cs == Bound(recvMids)
    IN [m \in Mids \cup {Mic} |->
          LET holders == {i \in DOMAIN cs : m # 0 /\ cs[i].recvMid = m}
          IN IF holders = {} THEN 0 ELSE Min(holders)]

(* What SendOffer has collected when it generates the answer: the SSRCs just *)
(* bound, overwritten by those of all Consumers with a mid.                  *)
midToSsrc(recvMids) == getAllBoundSsrcs(Bound(recvMids))

SendOffer ==
    /\ offer # NoOffer
    /\ videoPTs' = parseOffer(SubscriberPTs)
    /\ consumers' = Bound(offer.recvMids)
    /\ inbox' = Append(inbox, [type |-> "answer", publisher |-> Nobody,
                               answer |-> generateAnswer(offer.sections, midToSsrc(offer.recvMids))])
    /\ offer' = NoOffer
    /\ UNCHANGED <<streams, offering, presence, page>>

(* The offer of a publisher's page that has its camera on. *)
PublisherOffers(p) ==
    /\ presence[p] = "in" /\ p \notin offering
    /\ videoPTs' = parseOffer(Offered[p]["video"])
    /\ offering' = offering \cup {p}
    /\ UNCHANGED <<consumers, streams, presence, page, inbox, offer>>

-----------------------------------------------------------------------------
(* Joining, sending and leaving *)

(* handleJoin announces the participant... *)
Announce(p) ==
    /\ presence[p] = "out" /\ \A q \in Publishers : presence[q] # "announced"
    /\ presence' = [presence EXCEPT ![p] = "announced"]
    /\ inbox' = Append(inbox, [type |-> "join", publisher |-> p, answer |-> <<>>])
    /\ UNCHANGED <<server, page, offer>>

(* addConsumer: attached at once if the publisher already sends the kind. *)
addConsumer(c) ==
    [c EXCEPT !.attached = \E k \in Kinds : streams[<<c.publisher, k>>] = c.kind]

(* ... and SetupConsumers then subscribes everybody to everybody, again.     *)
SetupConsumers(p) ==
    /\ presence[p] = "announced"
    /\ presence' = [presence EXCEPT ![p] = "in"]
    /\ \E ps \in SetToSeqs({q \in Publishers : presence'[q] = "in"}) :
          LET made == ConsumersFor(ps)
          IN consumers' = consumers \o [i \in DOMAIN made |-> addConsumer(made[i])]
    /\ UNCHANGED <<videoPTs, streams, offering, page, inbox, offer>>

(* Router::onRtpPacket for the first packet of a stream: the Producer's kind *)
(* is what the payload type says, and waiting Consumers of it are attached.  *)
onRtpPacket(p, k, pt) ==
    /\ presence[p] = "in" /\ p \in offering /\ streams[<<p, k>>] = "none"
    /\ pt \in Offered[p][k]
    /\ LET isVideo == pt \in videoPTs
           kind == IF isVideo THEN "video" ELSE "audio"
       IN /\ streams' = [streams EXCEPT ![<<p, k>>] = kind]
          /\ consumers' = [i \in DOMAIN consumers |->
                LET c == consumers[i]
                IN [c EXCEPT !.attached = @ \/ (c.publisher = p /\ c.kind = kind)]]
    /\ UNCHANGED <<videoPTs, offering, presence, page, inbox, offer>>

(* RemovePeer orphans the Consumers attached to the leaver's Producers, which *)
(* keep their mids, and handleLeave tells the page.                          *)
RemovePeer(p) ==
    /\ presence[p] = "in"
    /\ presence' = [presence EXCEPT ![p] = "gone"]
    /\ consumers' = [i \in DOMAIN consumers |->
          LET c == consumers[i]
          IN IF c.publisher = p /\ c.attached
             THEN [c EXCEPT !.publisher = Nobody, !.active = FALSE] ELSE c]
    /\ streams' = [s \in DOMAIN streams |-> IF s[1] = p THEN "none" ELSE streams[s]]
    /\ inbox' = Append(inbox, [type |-> "left", publisher |-> p, answer |-> <<>>])
    /\ UNCHANGED <<videoPTs, offering, page, offer>>

-----------------------------------------------------------------------------
(* The page *)

(* What addRecvTransceiver may make of the transceivers and of what is       *)
(* pending for a peer and one kind: a pooled transceiver of the kind is      *)
(* taken, in any order of the pool, else a new one.                          *)
addRecvTransceiver(acc, p, k) ==
    LET pooled == {m \in DOMAIN acc.tcs : acc.tcs[m].kind = k /\ acc.tcs[m].dir = "inactive"}
        tc == [kind |-> k, dir |-> "recvonly", publisher |-> Nobody]
    IN {[tcs  |-> IF pooled = {} THEN Append(acc.tcs, tc) ELSE [acc.tcs EXCEPT ![mid] = tc],
         pend |-> acc.pend \cup {<<mid, p>>}]
        : mid \in IF pooled = {} THEN {Len(acc.tcs) + 1} ELSE pooled}

AddBoth(p) ==
    \E one \in addRecvTransceiver([tcs |-> transceivers, pend |-> pending], p, "video") :
    \E both \in addRecvTransceiver(one, p, "audio") :
       transceivers' = both.tcs /\ pending' = both.pend

(* Bound: until init has finished only so many messages are handled. *)
Early == IF existing = {} THEN UNCHANGED late ELSE late < MaxLate /\ late' = late + 1

(* init has returned: a turn of the loop over existing_peers, during which   *)
(* the page does nothing else.                                               *)
AddExisting(p) ==
    /\ p \in existing
    /\ existing' = existing \ {p}
    /\ adding' = (existing # {p})
    /\ AddBoth(p)
    /\ UNCHANGED <<server, presence, remote, late, inbox, offer>>

HandleJoin ==
    /\ ~adding /\ inbox # <<>> /\ Head(inbox).type = "join"
    /\ Early
    /\ AddBoth(Head(inbox).publisher)
    /\ inbox' = Tail(inbox)
    /\ UNCHANGED <<server, presence, existing, adding, remote, offer>>

(* markTransceiverInactive *)
HandleLeft ==
    /\ ~adding /\ inbox # <<>> /\ Head(inbox).type = "left"
    /\ Early
    /\ transceivers' = [m \in DOMAIN transceivers |->
          IF transceivers[m].publisher = Head(inbox).publisher
          THEN [transceivers[m] EXCEPT !.dir = "inactive", !.publisher = Nobody]
          ELSE transceivers[m]]
    /\ inbox' = Tail(inbox)
    /\ UNCHANGED <<server, presence, existing, adding, pending, remote, offer>>

(* setAnswer *)
HandleAnswer ==
    /\ ~adding /\ inbox # <<>> /\ Head(inbox).type = "answer"
    /\ LET answer == Head(inbox).answer
       IN remote' = [m \in Mids |-> IF m \in DOMAIN answer THEN answer[m].ssrc ELSE remote[m]]
    /\ inbox' = Tail(inbox)
    /\ UNCHANGED <<server, presence, existing, adding, transceivers, pending, late, offer>>

Unanswered == offer # NoOffer \/ \E i \in DOMAIN inbox : inbox[i].type = "answer"

(* _runRenegotiateQueue up to the sending of the offer. *)
Negotiate ==
    /\ ~adding /\ pending # {} /\ ~Unanswered
    /\ transceivers' = [m \in DOMAIN transceivers |->
          IF \E p \in Publishers : <<m, p>> \in pending
          THEN [transceivers[m] EXCEPT !.publisher = CHOOSE p \in Publishers : <<m, p>> \in pending]
          ELSE transceivers[m]]
    /\ offer' = [sections |-> [m \in DOMAIN transceivers \cup {Mic} |->
                                 IF m = Mic THEN "sendrecv" ELSE transceivers[m].dir],
                 recvMids |-> {[mid |-> x[1], publisher |-> x[2],
                                kind |-> transceivers[x[1]].kind] : x \in pending}]
    /\ pending' = {}
    /\ UNCHANGED <<server, presence, existing, adding, remote, late, inbox>>

-----------------------------------------------------------------------------
Next == \/ SendOffer \/ HandleJoin \/ HandleLeft \/ HandleAnswer \/ Negotiate
        \/ \E p \in Publishers :
              \/ Announce(p) \/ SetupConsumers(p) \/ PublisherOffers(p) \/ RemovePeer(p)
              \/ AddExisting(p)
              \/ \E k \in Kinds : \E pt \in Offered[p][k] : onRtpPacket(p, k, pt)

Spec == Init /\ [][Next]_vars

-----------------------------------------------------------------------------
(* Properties *)

(* Once a negotiation is over, whatever the Router forwards to the page      *)
(* carries the SSRC that the answers name for its mid: of two Consumers with *)
(* the same mid, one of them left over from a departed publisher, SendOffer  *)
(* names the one that delivers.  This holds with MaxLate = 0 only: when      *)
(* announcements are handled before init has finished, the left-over         *)
(* Consumer may be the later one (see OverwrittenWithSameValue).             *)
ForwardedIsExpected ==
    ~Unanswered =>
       \A i \in DOMAIN consumers :
          LET c == consumers[i]
          IN c.active /\ c.recvMid # 0 /\ presence[c.publisher] = "in" => remote[c.recvMid] = i

(* An SSRC that an answer has named for a publisher's mid is named by every  *)
(* later answer, though later offers list only the mids that are new: the    *)
(* browser drops media whose SSRC the last answer does not name.             *)
AnswerKeepsSsrcs ==
    [][\A m \in DOMAIN transceivers :
          LET p == transceivers[m].publisher
          IN /\ remote[m] # 0 /\ p # Nobody
             /\ consumers[remote[m]].publisher = p /\ presence[p] = "in"
             => remote'[m] = remote[m]]_vars

(* Video is never taken for audio, whichever payload type of its section a   *)
(* browser sends, and audio is taken for video only when some page offers    *)
(* its payload type in a video section: videoPTs is shared by all pages.     *)
KindsByOffers ==
    \A p \in Publishers, k \in Kinds : streams[<<p, k>>] \in {k, "none"}
       \/ /\ k = "audio"
          /\ \E pts \in {SubscriberPTs} \cup {Offered[q]["video"] : q \in offering} :
                pts \cap Offered[p]["audio"] # {}

(* MediaServiceImpl.cpp on SendOffer: what getAllBoundSsrcs says of a mid    *)
(* just bound overwrites its entry with the same value.                      *)
OverwrittenWithSameValue ==
    \A rm \in offer.recvMids : Bindable(rm) # 0 => midToSsrc(offer.recvMids)[rm.mid] = Bindable(rm)
=============================================================================
