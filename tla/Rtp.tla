-------------------------------- MODULE Rtp --------------------------------
(***************************************************************************)
(* One media stream through the SFU: the numbers in its RTP headers, which  *)
(* Router::rewriteRtpHeader maps for each Consumer, and the RTCP feedback,  *)
(* which Router::onRtcpPacket maps back, over a network that loses, repeats *)
(* and reorders.  libsrtp (external) stands between: srtp_unprotect drops   *)
(* what it has seen or what is too old, and srtp_protect refuses to send    *)
(* such a packet, for SrtpContext::init sets allow_repeat_tx = 0.           *)
(*                                                                          *)
(* Packets are numbered by the publisher, 0, 1, ...; a sequence number has  *)
(* SeqMod values (2^16 in the code) and a timestamp TsMod (2^32).  Each     *)
(* subscriber has one Consumer of the stream, and its own SSRC for reports. *)
(* Which objects exist and who holds them is the subject of module Router.  *)
(***************************************************************************)
EXTENDS Integers, Rtcp

CONSTANTS
    Subscribers,
    OutSsrc, OwnSsrc, PubSsrc,   \* rewrittenSsrc; the subscriber's own; publisherSsrc
    SeqMod, TsMod,               \* numbers of values of a sequence number, a timestamp
    FirstSeq, TsStep,            \* the publisher's first sequence number; ticks per packet
    ReplayWindow,                \* window_size of the SRTP policies
    BlpBits,                     \* packets that the BLP of a NACK can name
    MaxPackets,                  \* bound: packets the publisher sends
    MaxFeedback                  \* bound: feedback that subscribers send

ASSUME RtpAssumption ==
    /\ SeqMod \in Nat \ {0} /\ TsMod \in Nat \ {0}
    /\ FirstSeq \in Nat /\ TsStep \in Nat
    /\ MaxPackets \in Nat /\ MaxFeedback \in Nat

VARIABLES
    sent,       \* how many packets the publisher has sent
    accepted,   \* those srtp_unprotect let through
    consumer,   \* the Consumer of each subscriber
    protected,  \* indices srtp_protect has used, by subscriber
    refused,    \* what srtp_protect refused, as <<subscriber, packet>>
    got,        \* what each subscriber has received
    toSfu,      \* RTCP on its way to the SFU
    toPub,      \* RTCP sent to the publisher
    feedbacks   \* how many compounds subscribers have sent

media == <<sent, accepted, consumer, protected, refused, got>>
vars == <<media, toSfu, toPub, feedbacks>>

-----------------------------------------------------------------------------
(* The publisher's packets.  The first two bytes hold version, padding,      *)
(* extension, CSRC count; marker and payload type.                           *)

SeqOf(n) == (FirstSeq + n) % SeqMod
TsOf(n) == (n * TsStep) % TsMod

Packet(n) == [byte0 |-> IF n % 3 = 0 THEN 144 ELSE 129,
              byte1 |-> IF n % 2 = 0 THEN 96 ELSE 224,
              seq |-> SeqOf(n), ts |-> TsOf(n), ssrc |-> PubSsrc]

(* RtpHeader::parse *)
parse(buf) == [version |-> (buf.byte0 \div 64) % 4, padding |-> (buf.byte0 \div 32) % 2,
               extension |-> (buf.byte0 \div 16) % 2, csrcCount |-> buf.byte0 % 16,
               marker |-> (buf.byte1 \div 128) % 2, payloadType |-> buf.byte1 % 128,
               sequenceNumber |-> buf.seq, timestamp |-> buf.ts, ssrc |-> buf.ssrc]

(* RtpHeader::writeFixedHeader *)
writeFixedHeader(hdr) ==
    [byte0 |-> hdr.version * 64 + hdr.padding * 32 + hdr.extension * 16 + hdr.csrcCount,
     byte1 |-> hdr.marker * 128 + hdr.payloadType,
     seq |-> hdr.sequenceNumber, ts |-> hdr.timestamp, ssrc |-> hdr.ssrc]

-----------------------------------------------------------------------------
(* A sum or difference of two values below m, as an unsigned number of that  *)
(* width holds it.                                                           *)
Narrow(x, m) == IF x < 0 THEN x + m ELSE IF x >= m THEN x - m ELSE x

NewConsumer == [bound |-> FALSE, seqInitialized |-> FALSE, lastSentSeq |-> 0,
                lastSentTimestamp |-> 0, seqDelta |-> 0, tsDelta |-> 0]

(* Faulty variants: the Consumer counts what it sends; the sequence number of *)
(* the packet before is written.                                              *)
newSentSeq_Gapless(c, seq) == Narrow(c.lastSentSeq + 1, SeqMod)
newSentSeq_Previous(c, seq) == c.lastSentSeq

(* Faulty variant: the sum is kept in a wider number. *)
newSentTs_NoWrap(c, ts) == c.lastSentTimestamp + Narrow(ts - c.lastSentTimestamp, TsMod)

(* The two lines of rewriteRtpHeader that continue a sequence. *)
newSentSeq(c, seq) == Narrow(c.lastSentSeq + Narrow(seq - c.lastSentSeq, SeqMod), SeqMod)
newSentTs(c, ts) == Narrow(c.lastSentTimestamp + Narrow(ts - c.lastSentTimestamp, TsMod), TsMod)

(* The numbers rewriteRtpHeader gives a packet. *)
OutSeq(c, hdr) == IF c.seqInitialized THEN newSentSeq(c, hdr.sequenceNumber) ELSE hdr.sequenceNumber
OutTs(c, hdr) == IF c.seqInitialized THEN newSentTs(c, hdr.timestamp) ELSE hdr.timestamp

Renumbered(hdr, ssrc, seq, ts) ==
    [hdr EXCEPT !.ssrc = ssrc, !.sequenceNumber = seq, !.timestamp = ts]

(* Router::rewriteRtpHeader: the packet sent for Consumer c ... *)
Rewritten(c, ssrc, buf) ==
    LET hdr == parse(buf)
    IN writeFixedHeader(Renumbered(hdr, ssrc, OutSeq(c, hdr), OutTs(c, hdr)))

(* ... and the Consumer afterwards. *)
Advanced(c, buf) ==
    LET hdr == parse(buf)
    IN [bound |-> c.bound, seqInitialized |-> TRUE,
        lastSentSeq |-> OutSeq(c, hdr), lastSentTimestamp |-> OutTs(c, hdr),
        seqDelta |-> OutSeq(c, hdr) - hdr.sequenceNumber,
        tsDelta |-> OutTs(c, hdr) - hdr.timestamp]

-----------------------------------------------------------------------------
(* Counting on past the wrap (external): libsrtp and receivers take the      *)
(* number closest to the highest they know.                                  *)
Highest(S) == CHOOSE x \in S : \A y \in S : y <= x
Lowest(S) == CHOOSE x \in S : \A y \in S : x <= y

Index(seq, known) ==
    IF known = {} THEN seq
    ELSE CHOOSE i \in (Highest(known) - SeqMod \div 2 + 1) .. (Highest(known) + SeqMod \div 2) :
            i % SeqMod = seq

(* The replay check of libsrtp (external). *)
NotReplayed(i, known) == i \notin known /\ \A k \in known : k - i < ReplayWindow

Init == /\ sent = 0 /\ accepted = {}
        /\ consumer = [c \in Subscribers |-> NewConsumer]
        /\ protected = [c \in Subscribers |-> {}]
        /\ refused = {}
        /\ got = [c \in Subscribers |-> {}]
        /\ toSfu = {} /\ toPub = {} /\ feedbacks = 0

Send == /\ sent < MaxPackets
        /\ sent' = sent + 1
        /\ UNCHANGED <<accepted, consumer, protected, refused, got, toSfu, toPub, feedbacks>>

(* SendOffer binds the Consumer to a mid: from now on it is forwarded to. *)
bindConsumerByMid(c) ==
    /\ ~consumer[c].bound
    /\ consumer' = [consumer EXCEPT ![c].bound = TRUE]
    /\ UNCHANGED <<sent, accepted, protected, refused, got, toSfu, toPub, feedbacks>>

(* What subscriber c has received of its copies, by number. *)
Received(c) == {g.n : g \in got[c]}
Indices(c) == {g.index : g \in got[c]}

(* The packet and its fate when protect is called for Consumer c. *)
Out(c, n) == Rewritten(consumer[c], OutSsrc[c], Packet(n))
ProtectIndex(c, n) == Index(Out(c, n).seq, protected[c])
Protects(c, n) == NotReplayed(ProtectIndex(c, n), protected[c])

(* handleSrtp and Router::onRtpPacket, for any packet sent so far: the network *)
(* may lose it or deliver it late or again, and the publisher sends it again  *)
(* when a NACK names it (with RTX, in a stream of its own).  One that         *)
(* unprotect refuses is not RTCP either and is dropped.  The packet goes to   *)
(* every bound Consumer, and from there reaches the subscriber or is lost.    *)
onRtpPacket(n, lost) ==
    LET bound == {c \in Subscribers : consumer[c].bound}
        sends == {c \in bound : Protects(c, n)}
    IN /\ NotReplayed(n, accepted)
       /\ accepted' = accepted \cup {n}
       /\ consumer' = [c \in Subscribers |->
                         IF c \in bound THEN Advanced(consumer[c], Packet(n)) ELSE consumer[c]]
       /\ protected' = [c \in Subscribers |->
                          protected[c] \cup (IF c \in sends THEN {ProtectIndex(c, n)} ELSE {})]
       /\ refused' = refused \cup {<<c, n>> : c \in bound \ sends}
       /\ got' = [c \in Subscribers |->
                    got[c] \cup (IF c \in sends \ lost
                                 THEN {[n |-> n, index |-> Index(Out(c, n).seq, Indices(c)),
                                        packet |-> Out(c, n)]}
                                 ELSE {})]
       /\ UNCHANGED <<sent, toSfu, toPub, feedbacks>>

-----------------------------------------------------------------------------
(* Feedback.  A compound begins with a report; a browser that sends media    *)
(* itself makes it a sender report with a CNAME.                             *)

SfuSsrc == 0

Reports(c) ==
    {<<Header(RR, 1, 2), SsrcWord(OwnSsrc[c]), SsrcWord(OutSsrc[c])>>,
     sendSR(OwnSsrc[c], 0, 0, 0, 0, 0) \o
        <<Header(SDES, 1, 2), SsrcWord(OwnSsrc[c]), CnameWord("browser")>>}

Missing(c) == (Lowest(Indices(c)) .. Highest(Indices(c))) \ Indices(c)

(* The NACK of a receiver: the oldest packet it misses, those the BLP can    *)
(* name with it, and a second pair for others.                               *)
NackFor(c) ==
    LET pid == Lowest(Missing(c))
        blp == {d \in 1 .. BlpBits : pid + d \in Missing(c)}
        rest == {i \in Missing(c) : i > pid + BlpBits}
        one == sendNACK(OwnSsrc[c], OutSsrc[c], pid % SeqMod, blp)
    IN IF rest = {} THEN one
       ELSE [one EXCEPT ![1].len = 4] \o <<FciWord(Lowest(rest) % SeqMod, {})>>

SendFeedback(c, buf, lost) ==
    /\ feedbacks < MaxFeedback
    /\ feedbacks' = feedbacks + 1
    /\ toSfu' = toSfu \cup {[buf |-> buf, lost |-> lost]}
    /\ UNCHANGED <<media, toPub>>

SendNack(c) ==
    /\ got[c] # {} /\ Missing(c) # {}
    /\ \E report \in Reports(c) :
          SendFeedback(c, report \o NackFor(c),
                       (Lowest(Received(c)) .. Highest(Received(c))) \ Received(c))

SendPli(c) ==
    /\ got[c] # {}
    /\ \E report \in Reports(c) :
          SendFeedback(c, report \o sendPLI(OwnSsrc[c], OutSsrc[c]), {})

(* Faulty variant: the packet after PID is asked for. *)
handleNACK_NextPacket(c, call) ==
    sendNACK(SfuSsrc, PubSsrc, Narrow(call.pid + 1, SeqMod), call.blp)

(* handlePLI, handleNACK, handleRR: the packet made for the publisher. *)
handlePLI == sendPLI(SfuSsrc, PubSsrc)
handleNACK(c, call) ==
    sendNACK(SfuSsrc, PubSsrc,
             Narrow(call.pid - Narrow(consumer[c].seqDelta, SeqMod), SeqMod), call.blp)
handleRR(call) ==
    IF Len(call.packet) >= 3 THEN [call.packet EXCEPT ![3] = SsrcWord(PubSsrc)] ELSE call.packet

Translated(c, call) ==
    CASE call.type = "pli" -> handlePLI
      [] call.type = "nack" -> handleNACK(c, call)
      [] call.type = "rr" -> handleRR(call)

(* Router::onRtcpPacket, once for each compound, for unprotectRtcp refuses a  *)
(* repeated one.  Each handler looks a Consumer up by the SSRC it was given   *)
(* and does nothing when there is none.                                       *)
onRtcpPacket(m) ==
    LET calls == HandlerCalls(m.buf)
    IN /\ toSfu' = toSfu \ {m}
       /\ toPub' = toPub \cup UNION {{[buf |-> Translated(c, calls[i]), lost |-> m.lost] :
                                         c \in {d \in Subscribers : OutSsrc[d] = calls[i].ssrc}} :
                                     i \in DOMAIN calls}
       /\ UNCHANGED <<media, feedbacks>>

(* The packets that a NACK asks the publisher (external) for: it looks for   *)
(* the newest with those sequence numbers.                                   *)
Named(call) ==
    {n \in 0 .. sent - 1 : /\ n + SeqMod >= sent
                           /\ \E d \in {0} \cup call.blp : SeqOf(n) = (call.pid + d) % SeqMod}

-----------------------------------------------------------------------------
Next == \/ Send
        \/ \E n \in 0 .. sent - 1, lost \in SUBSET Subscribers : onRtpPacket(n, lost)
        \/ \E c \in Subscribers : bindConsumerByMid(c) \/ SendNack(c) \/ SendPli(c)
        \/ \E m \in toSfu : onRtcpPacket(m)

Spec == Init /\ [][Next]_vars
-----------------------------------------------------------------------------
(* Properties *)

ConsumerRec == [bound : BOOLEAN, seqInitialized : BOOLEAN,
                lastSentSeq : 0 .. SeqMod - 1, lastSentTimestamp : 0 .. TsMod - 1,
                seqDelta : Int, tsDelta : Int]

(* Every variable has its type; what a Consumer sent last fits its width.    *)
TypeOK ==
    /\ sent \in 0 .. MaxPackets
    /\ accepted \subseteq 0 .. sent - 1
    /\ consumer \in [Subscribers -> ConsumerRec]
    /\ DOMAIN got = Subscribers /\ \A c \in Subscribers : Received(c) \subseteq accepted
    /\ feedbacks \in 0 .. MaxFeedback

(* Router.cpp rewriteRtpHeader "keeps the outgoing side continuous": for all *)
(* its bookkeeping, what a subscriber receives has the publisher's sequence  *)
(* number, timestamp and flags, whenever the Consumer was bound, whatever    *)
(* was lost, repeated or reordered before, and across the wrap.              *)
TimelineKept ==
    \A c \in Subscribers : \A g \in got[c] :
        g.packet = [Packet(g.n) EXCEPT !.ssrc = OutSsrc[c]]

(* SrtpContext::init with allow_repeat_tx = 0 and one window for both        *)
(* directions: srtp_protect never refuses, and so silently drops, a packet    *)
(* that srtp_unprotect let in, for any Consumer, late ones included.         *)
ProtectNeverRefuses == refused = {}

(* handleNACK translates a sequence number with the offset of a later moment: *)
(* still the publisher is asked for the oldest packet that was missing when  *)
(* the subscriber asked, and for no packet it had.                           *)
NackNamesLostPackets ==
    \A m \in toPub : \A i \in DOMAIN Callbacks(m.buf) :
        LET call == Callbacks(m.buf)[i]
        IN call.type = "nack" => /\ call.ssrc = PubSsrc
                                 /\ Lowest(m.lost) \in Named(call)
                                 /\ Named(call) \subseteq m.lost

IsFeedback(call) == call.type \in {"pli", "nack"}

(* The two parsers of RTCP find the same requests, in the same order, in every *)
(* compound that subscribers send and in every packet the Router makes.       *)
ParsersAgree ==
    \A m \in toSfu \cup toPub :
        SelectSeq(HandlerCalls(m.buf), IsFeedback) = SelectSeq(Callbacks(m.buf), IsFeedback)
=============================================================================
