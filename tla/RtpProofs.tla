----------------------------- MODULE RtpProofs -----------------------------
(***************************************************************************)
(* For every width of sequence numbers and timestamps, any number of        *)
(* packets and any losses, repetitions and reorderings: the mapping that    *)
(* Router::rewriteRtpHeader maintains changes nothing but the SSRC.         *)
(***************************************************************************)
EXTENDS Rtp, TLAPS

(* A difference added back, both in unsigned arithmetic, gives the value again. *)
LEMMA NarrowedSum ==
    ASSUME NEW m \in Nat \ {0}, NEW a \in 0 .. m - 1, NEW b \in 0 .. m - 1
    PROVE  Narrow(a + Narrow(b - a, m), m) = b
BY DEF Narrow

(* The publisher's numbers fit their widths. *)
LEMMA NumbersFit ==
    ASSUME NEW n \in Nat
    PROVE  SeqOf(n) \in 0 .. SeqMod - 1 /\ TsOf(n) \in 0 .. TsMod - 1
<1>1. FirstSeq + n \in Nat /\ n * TsStep \in Nat
  BY RtpAssumption
<1>2. QED
  BY <1>1, RtpAssumption DEF SeqOf, TsOf

(* The numbers rewriteRtpHeader writes are those it read. *)
LEMMA SameNumbers ==
    ASSUME NEW c \in ConsumerRec, NEW n \in Nat
    PROVE  /\ OutSeq(c, parse(Packet(n))) = SeqOf(n)
           /\ OutTs(c, parse(Packet(n))) = TsOf(n)
<1>1. parse(Packet(n)).sequenceNumber = SeqOf(n) /\ parse(Packet(n)).timestamp = TsOf(n)
  BY DEF parse, Packet
<1>2. c.lastSentSeq \in 0 .. SeqMod - 1 /\ c.lastSentTimestamp \in 0 .. TsMod - 1
  BY DEF ConsumerRec
<1>3. newSentSeq(c, SeqOf(n)) = SeqOf(n)
  BY <1>2, NumbersFit, NarrowedSum, RtpAssumption DEF newSentSeq
<1>4. newSentTs(c, TsOf(n)) = TsOf(n)
  BY <1>2, NumbersFit, NarrowedSum, RtpAssumption DEF newSentTs
<1>5. QED
  BY <1>1, <1>3, <1>4 DEF OutSeq, OutTs

(* Parsing a header and writing it back keeps its first two bytes. *)
LEMMA FlagsKept ==
    ASSUME NEW n \in Nat, NEW ssrc, NEW s, NEW t
    PROVE  writeFixedHeader(Renumbered(parse(Packet(n)), ssrc, s, t))
             = [byte0 |-> Packet(n).byte0, byte1 |-> Packet(n).byte1,
                seq |-> s, ts |-> t, ssrc |-> ssrc]
<1> DEFINE b0 == Packet(n).byte0
           b1 == Packet(n).byte1
           hdr == parse(Packet(n))
           new == Renumbered(hdr, ssrc, s, t)
<1>1. (b0 = 144 \/ b0 = 129) /\ (b1 = 96 \/ b1 = 224)
  BY DEF Packet
<1>2. /\ hdr.version = (b0 \div 64) % 4 /\ hdr.padding = (b0 \div 32) % 2
      /\ hdr.extension = (b0 \div 16) % 2 /\ hdr.csrcCount = b0 % 16
      /\ hdr.marker = (b1 \div 128) % 2 /\ hdr.payloadType = b1 % 128
  BY DEF parse
<1>3. /\ new.version = hdr.version /\ new.padding = hdr.padding
      /\ new.extension = hdr.extension /\ new.csrcCount = hdr.csrcCount
      /\ new.marker = hdr.marker /\ new.payloadType = hdr.payloadType
      /\ new.sequenceNumber = s /\ new.timestamp = t /\ new.ssrc = ssrc
  BY DEF parse, Renumbered
<1> HIDE DEF b0, b1, hdr, new
<1>4. hdr.version * 64 + hdr.padding * 32 + hdr.extension * 16 + hdr.csrcCount = b0
  <2>1. CASE b0 = 144
    BY <2>1, <1>2
  <2>2. CASE b0 = 129
    BY <2>2, <1>2
  <2>3. QED
    BY <1>1, <2>1, <2>2
<1>5. hdr.marker * 128 + hdr.payloadType = b1
  <2>1. CASE b1 = 96
    BY <2>1, <1>2
  <2>2. CASE b1 = 224
    BY <2>2, <1>2
  <2>3. QED
    BY <1>1, <2>1, <2>2
<1>6. writeFixedHeader(new) = [byte0 |-> b0, byte1 |-> b1, seq |-> s, ts |-> t, ssrc |-> ssrc]
  BY <1>3, <1>4, <1>5 DEF writeFixedHeader
<1>7. QED
  BY <1>6 DEF b0, b1, hdr, new

(* What is sent for a Consumer differs from what was received in its SSRC only. *)
LEMMA OnlySsrcChanges ==
    ASSUME NEW c \in ConsumerRec, NEW n \in Nat, NEW ssrc
    PROVE  Rewritten(c, ssrc, Packet(n)) = [Packet(n) EXCEPT !.ssrc = ssrc]
<1>1. Rewritten(c, ssrc, Packet(n)) =
        writeFixedHeader(Renumbered(parse(Packet(n)), ssrc, SeqOf(n), TsOf(n)))
  BY SameNumbers DEF Rewritten
<1>2. Rewritten(c, ssrc, Packet(n)) = [byte0 |-> Packet(n).byte0, byte1 |-> Packet(n).byte1,
                                       seq |-> SeqOf(n), ts |-> TsOf(n), ssrc |-> ssrc]
  BY <1>1, FlagsKept
<1>3. QED
  BY <1>2 DEF Packet

(* A Consumer that has sent a packet is still well formed, with offsets zero. *)
LEMMA AdvancedConsumer ==
    ASSUME NEW c \in ConsumerRec, NEW n \in Nat
    PROVE  /\ Advanced(c, Packet(n)) \in ConsumerRec
           /\ Advanced(c, Packet(n)).seqDelta = 0 /\ Advanced(c, Packet(n)).tsDelta = 0
<1>1. parse(Packet(n)).sequenceNumber = SeqOf(n) /\ parse(Packet(n)).timestamp = TsOf(n)
  BY DEF parse, Packet
<1>2. Advanced(c, Packet(n)) = [bound |-> c.bound, seqInitialized |-> TRUE,
            lastSentSeq |-> SeqOf(n), lastSentTimestamp |-> TsOf(n),
            seqDelta |-> SeqOf(n) - SeqOf(n), tsDelta |-> TsOf(n) - TsOf(n)]
  BY <1>1, SameNumbers DEF Advanced
<1>3. SeqOf(n) - SeqOf(n) = 0 /\ TsOf(n) - TsOf(n) = 0
  BY NumbersFit, RtpAssumption
<1>4. Advanced(c, Packet(n)) = [bound |-> c.bound, seqInitialized |-> TRUE,
            lastSentSeq |-> SeqOf(n), lastSentTimestamp |-> TsOf(n), seqDelta |-> 0, tsDelta |-> 0]
  BY <1>2, <1>3
<1>5. c.bound \in BOOLEAN
  BY DEF ConsumerRec
<1>6. QED
  BY <1>4, <1>5, NumbersFit DEF ConsumerRec

-----------------------------------------------------------------------------
(* The offsets kept for the translation of NACKs are zero. *)
OffsetsZero == \A c \in Subscribers : consumer[c].seqDelta = 0 /\ consumer[c].tsDelta = 0

(* The inductive invariant. *)
RtpInv == TypeOK /\ TimelineKept /\ OffsetsZero

(* Consumers begin unbound, with offsets zero, and nothing has been received. *)
LEMMA RtpInitially == Init => RtpInv
<1> SUFFICES ASSUME Init PROVE RtpInv
  OBVIOUS
<1>1. NewConsumer \in ConsumerRec
  BY RtpAssumption DEF NewConsumer, ConsumerRec
<1>2. TypeOK
  BY <1>1, RtpAssumption DEF Init, TypeOK, Received
<1>3. TimelineKept /\ OffsetsZero
  BY DEF Init, TimelineKept, OffsetsZero, NewConsumer
<1>4. QED
  BY <1>2, <1>3 DEF RtpInv

(* Router::onRtpPacket keeps the invariant: each Consumer the packet is       *)
(* forwarded for moves to the packet's own numbers.                           *)
LEMMA RtpForward ==
    ASSUME RtpInv, NEW n \in 0 .. sent - 1, NEW lost \in SUBSET Subscribers, onRtpPacket(n, lost)
    PROVE  RtpInv'
<1> DEFINE bound == {c \in Subscribers : consumer[c].bound}
           sends == {c \in bound : Protects(c, n)}
           copy(c) == [n |-> n, index |-> Index(Out(c, n).seq, Indices(c)), packet |-> Out(c, n)]
<1>1. /\ sent' = sent /\ feedbacks' = feedbacks /\ accepted' = accepted \cup {n}
      /\ consumer' = [c \in Subscribers |->
                         IF c \in bound THEN Advanced(consumer[c], Packet(n)) ELSE consumer[c]]
      /\ got' = [c \in Subscribers |->
                    got[c] \cup (IF c \in sends \ lost THEN {copy(c)} ELSE {})]
  BY DEF onRtpPacket
<1>2. n \in Nat /\ consumer \in [Subscribers -> ConsumerRec]
  BY DEF RtpInv, TypeOK
<1>3. consumer' \in [Subscribers -> ConsumerRec] /\ OffsetsZero'
  BY <1>1, <1>2, AdvancedConsumer DEF RtpInv, OffsetsZero
<1>4. ASSUME NEW c \in Subscribers, NEW g \in got'[c]
      PROVE  g \in got[c] \/ (g.n = n /\ g.packet = Out(c, n))
  BY <1>1
<1>5. TypeOK'
  <2>1. ASSUME NEW c \in Subscribers PROVE Received(c)' \subseteq accepted'
    BY <1>1, <1>4 DEF RtpInv, TypeOK, Received
  <2>2. DOMAIN got' = Subscribers
    BY <1>1
  <2>3. QED
    BY <1>1, <1>3, <2>1, <2>2 DEF RtpInv, TypeOK
<1>6. TimelineKept'
  <2> SUFFICES ASSUME NEW c \in Subscribers, NEW g \in got'[c]
               PROVE  g.packet = [Packet(g.n) EXCEPT !.ssrc = OutSsrc[c]]
    BY DEF TimelineKept, Packet, SeqOf, TsOf
  <2>1. Out(c, n) = [Packet(n) EXCEPT !.ssrc = OutSsrc[c]]
    BY <1>2, OnlySsrcChanges DEF Out
  <2>2. QED
    BY <1>4, <2>1 DEF RtpInv, TimelineKept
<1>7. QED
  BY <1>3, <1>5, <1>6 DEF RtpInv

(* Every step keeps the invariant; only onRtpPacket moves a Consumer's        *)
(* numbers, bindConsumerByMid leaves them alone.                              *)
LEMMA RtpStep == RtpInv /\ [Next]_vars => RtpInv'
<1> SUFFICES ASSUME RtpInv, [Next]_vars PROVE RtpInv'
  OBVIOUS
<1>1. ASSUME Send PROVE RtpInv'
  BY <1>1, RtpAssumption
  DEF Send, RtpInv, TypeOK, TimelineKept, OffsetsZero, Received, Packet, SeqOf, TsOf
<1>2. ASSUME NEW n \in 0 .. sent - 1, NEW lost \in SUBSET Subscribers, onRtpPacket(n, lost)
      PROVE  RtpInv'
  BY <1>2, RtpForward
<1>3. ASSUME NEW c \in Subscribers, bindConsumerByMid(c) PROVE RtpInv'
  <2>1. consumer' \in [Subscribers -> ConsumerRec] /\ OffsetsZero'
    BY <1>3 DEF bindConsumerByMid, RtpInv, TypeOK, OffsetsZero, ConsumerRec
  <2>2. QED
    BY <1>3, <2>1
    DEF bindConsumerByMid, RtpInv, TypeOK, TimelineKept, Received, Packet, SeqOf, TsOf
<1>4. ASSUME NEW c \in Subscribers, SendNack(c) \/ SendPli(c) PROVE RtpInv'
  <2>1. UNCHANGED media /\ feedbacks < MaxFeedback /\ feedbacks' = feedbacks + 1
    BY <1>4 DEF SendNack, SendPli, SendFeedback
  <2>2. QED
    BY <2>1, RtpAssumption
    DEF media, RtpInv, TypeOK, TimelineKept, OffsetsZero, Received, Packet, SeqOf, TsOf
<1>5. ASSUME NEW m \in toSfu, onRtcpPacket(m) PROVE RtpInv'
  <2>1. UNCHANGED <<media, feedbacks>>
    BY <1>5 DEF onRtcpPacket
  <2>2. QED
    BY <2>1 DEF media, RtpInv, TypeOK, TimelineKept, OffsetsZero, Received, Packet, SeqOf, TsOf
<1>6. CASE UNCHANGED vars
  BY <1>6 DEF vars, media, RtpInv, TypeOK, TimelineKept, OffsetsZero, Received, Packet, SeqOf, TsOf
<1>7. QED
  BY <1>1, <1>2, <1>3, <1>4, <1>5, <1>6 DEF Next

(* Rtp's variables keep their types: the counters of a Consumer fit 16 and 32 bits. *)
THEOREM RtpTypeCorrect == Spec => []TypeOK
<1>1. RtpInv => TypeOK
  BY DEF RtpInv
<1>2. QED
  BY <1>1, RtpInitially, RtpStep, PTL DEF Spec

(* Every packet that reaches a subscriber is the publisher's with another SSRC: *)
(* rewriteRtpHeader shifts neither sequence numbers nor timestamps.             *)
THEOREM TimelineTransparent == Spec => []TimelineKept
<1>1. RtpInv => TimelineKept
  BY DEF RtpInv
<1>2. QED
  BY <1>1, RtpInitially, RtpStep, PTL DEF Spec

(* The offset that handleNACK subtracts is always zero, so that a NACK delayed *)
(* past any number of packets is translated as it would have been at once.     *)
THEOREM NackOffsetZero == Spec => []OffsetsZero
<1>1. RtpInv => OffsetsZero
  BY DEF RtpInv
<1>2. QED
  BY <1>1, RtpInitially, RtpStep, PTL DEF Spec

-----------------------------------------------------------------------------
(* Arithmetic of the wrap *)

LEMMA Division ==
    ASSUME NEW m \in Nat \ {0}, NEW a \in Int
    PROVE  a % m \in 0 .. m - 1 /\ a \div m \in Int /\ a = m * (a \div m) + (a % m)
OBVIOUS

LEMMA Remainder ==
    ASSUME NEW m \in Nat \ {0}, NEW q \in Int, NEW r \in 0 .. m - 1
    PROVE  (m * q + r) % m = r
OBVIOUS

(* Two numbers less than a wrap apart with the same remainder are equal. *)
LEMMA CloseAndCongruent ==
    ASSUME NEW m \in Nat \ {0}, NEW a \in Int, NEW b \in Int,
           a % m = b % m, a - b < m, b - a < m
    PROVE  a = b
<1> DEFINE p == a \div m
           q == b \div m
<1>1. /\ p \in Int /\ a = m * p + (a % m) /\ a % m \in Int
      /\ q \in Int /\ b = m * q + (b % m) /\ b % m \in Int
  BY Division
<1> HIDE DEF p, q
<1>2. a - b = m * (p - q)
  <2>1. PICK r \in Int : a = m * p + r /\ b = m * q + r
    BY <1>1
  <2>2. QED
    BY <1>1, <2>1
<1>3. ASSUME NEW d \in Int, m * d < m, -m < m * d PROVE d = 0
  BY <1>3
<1>4. p - q = 0
  BY <1>1, <1>2, <1>3
<1>5. QED
  BY <1>2, <1>4

(* Adding the same number keeps two numbers congruent. *)
LEMMA CongruentSums ==
    ASSUME NEW m \in Nat \ {0}, NEW a \in Int, NEW b \in Int, NEW n \in Int, a % m = b % m
    PROVE  (a + n) % m = (b + n) % m
<1> DEFINE r == (b + n) % m
           k == (a \div m) - (b \div m)
           s == (b + n) \div m
<1>1. r \in 0 .. m - 1 /\ s \in Int /\ b + n = m * s + r
  BY Division
<1>2. k \in Int /\ a - b = m * (a \div m) - m * (b \div m)
  BY Division
<1>3. a - b = m * k
  BY <1>2, Division
<1> HIDE DEF r, s, k
<1>4. a + n = m * (s + k) + r
  BY <1>1, <1>2, <1>3
<1>5. (m * (s + k) + r) % m = r
  <2>1. s + k \in Int
    BY <1>1, <1>2
  <2>2. QED
    BY <1>1, <2>1, Remainder
<1>6. QED
  BY <1>4, <1>5 DEF r

-----------------------------------------------------------------------------
(* srtp_protect never refuses.  libsrtp counts the copies for a subscriber on *)
(* past the wrap from the first that it protected: the indices are the        *)
(* publisher's packet numbers, shifted by one base for each subscriber, so    *)
(* that the replay check of srtp_protect answers as srtp_unprotect's did.     *)

(* The highest index exists, and all belong to packets that were accepted. *)
ShiftInv ==
    /\ refused = {}
    /\ protected \in [Subscribers -> SUBSET Int]
    /\ \A c \in Subscribers :
          /\ \E base \in Int : /\ base % SeqMod = FirstSeq % SeqMod
                               /\ \A i \in protected[c] : i - base \in accepted
          /\ protected[c] # {} => \E i \in protected[c] : \A j \in protected[c] : j <= i

(* The index that libsrtp finds for a copy, when packets are less than half  *)
(* a wrap apart.                                                             *)
LEMMA IndexFound ==
    ASSUME NEW known \in SUBSET Int, NEW top \in known, \A j \in known : j <= top,
           NEW i \in Int, i - top < SeqMod \div 2, top - i < SeqMod \div 2
    PROVE  Index(i % SeqMod, known) = i
<1> DEFINE half == SeqMod \div 2
           window == (Highest(known) - half + 1) .. (Highest(known) + half)
<1>1. half \in Nat /\ 2 * half <= SeqMod /\ SeqMod \in Nat \ {0}
  BY RtpAssumption
<1> HIDE DEF half
<1>2. Highest(known) = top
  <2>1. Highest(known) \in known /\ \A j \in known : j <= Highest(known)
    BY DEF Highest
  <2>2. Highest(known) \in Int /\ Highest(known) <= top /\ top <= Highest(known)
    BY <2>1
  <2>3. QED
    BY <2>2
<1>3. i \in window
  BY <1>1, <1>2 DEF half
<1>4. ASSUME NEW j \in window, j % SeqMod = i % SeqMod PROVE j = i
  <2>1. j \in Int /\ j - i < SeqMod /\ i - j < SeqMod
    BY <1>1, <1>2, <1>3
  <2>2. QED
    BY <1>1, <1>4, <2>1, CloseAndCongruent
<1> HIDE DEF window
<1>5. (CHOOSE j \in window : j % SeqMod = i % SeqMod) = i
  BY <1>3, <1>4
<1>6. QED
  BY <1>5 DEF Index, window, half

(* Sequence numbers tell all packets of the run apart, and which of two is    *)
(* the later one.  With 16 bits these are 2^15 packets.                       *)
HalfWrap == MaxPackets <= SeqMod \div 2

(* A packet that srtp_unprotect has let in passes srtp_protect, and its index *)
(* has the base of the earlier ones.                                          *)
LEMMA CopyProtected ==
    ASSUME HalfWrap, RtpInv, ShiftInv, NEW n \in 0 .. sent - 1, NotReplayed(n, accepted),
           NEW c \in Subscribers
    PROVE  /\ Protects(c, n) /\ ProtectIndex(c, n) \in Int
           /\ \E base \in Int :
                 /\ base % SeqMod = FirstSeq % SeqMod
                 /\ \A i \in protected[c] \cup {ProtectIndex(c, n)} : i - base \in accepted \cup {n}
<1> DEFINE known == protected[c]
           index == ProtectIndex(c, n)
<1>1. /\ sent \in Nat /\ sent <= SeqMod \div 2 /\ accepted \subseteq 0 .. sent - 1
      /\ SeqMod \in Nat \ {0} /\ FirstSeq \in Nat /\ n \in Nat /\ known \subseteq Int
      /\ SeqMod \div 2 \in Nat
  BY RtpAssumption DEF HalfWrap, RtpInv, TypeOK, ShiftInv
<1>2. index = Index((FirstSeq + n) % SeqMod, known)
  <2>1. Out(c, n) = [Packet(n) EXCEPT !.ssrc = OutSsrc[c]]
    BY <1>1, OnlySsrcChanges DEF Out, RtpInv, TypeOK
  <2>2. Out(c, n).seq = (FirstSeq + n) % SeqMod
    BY <2>1 DEF Packet, SeqOf
  <2>3. QED
    BY <2>2 DEF ProtectIndex
<1>3. CASE known = {}
  <2> DEFINE base == index - n
  <2>1. index = (FirstSeq + n) % SeqMod
    BY <1>2, <1>3 DEF Index
  <2>2. FirstSeq + n \in Int /\ index \in 0 .. SeqMod - 1
    BY <1>1, <2>1
  <2>3. index % SeqMod = (FirstSeq + n) % SeqMod
    BY <1>1, <2>1, <2>2
  <2> HIDE DEF index
  <2>4. -n \in Int /\ index \in Int
    BY <1>1, <2>2
  <2>5. (index + (-n)) % SeqMod = ((FirstSeq + n) + (-n)) % SeqMod
    BY <1>1, <2>2, <2>3, <2>4, CongruentSums
  <2>6. index + (-n) = base /\ (FirstSeq + n) + (-n) = FirstSeq /\ base \in Int /\ index - base = n
    BY <1>1, <2>4
  <2>7. base % SeqMod = FirstSeq % SeqMod
    BY <2>5, <2>6
  <2>8. \A i \in known \cup {index} : i - base \in accepted \cup {n}
    BY <1>3, <2>6
  <2>9. Protects(c, n)
    BY <1>3 DEF Protects, NotReplayed
  <2> HIDE DEF base
  <2>10. QED
    BY <2>4, <2>6, <2>7, <2>8, <2>9 DEF index
<1>4. CASE known # {}
  <2>1. PICK base \in Int : /\ base % SeqMod = FirstSeq % SeqMod
                            /\ \A i \in known : i - base \in accepted
    BY DEF ShiftInv
  <2>2. PICK top \in known : \A j \in known : j <= top
    BY <1>4 DEF ShiftInv
  <2>3. (base + n) % SeqMod = (FirstSeq + n) % SeqMod
    <3>1. FirstSeq \in Int /\ n \in Int
      BY <1>1
    <3>2. QED
      BY <1>1, <2>1, <3>1, CongruentSums, Zenon
  <2>4. base + n \in Int /\ top \in Int /\ top - base \in 0 .. sent - 1
    BY <1>1, <2>1, <2>2
  <2>5. (base + n) - top < SeqMod \div 2 /\ top - (base + n) < SeqMod \div 2
    BY <1>1, <2>4
  <2>6. Index((base + n) % SeqMod, known) = base + n
    BY <1>1, <2>2, <2>4, <2>5, IndexFound
  <2>7. index = base + n
    BY <1>2, <2>3, <2>6
  <2> HIDE DEF index
  <2>8. index - base = n
    BY <1>1, <2>7
  <2>9. n \notin accepted /\ \A k \in accepted : k - n < ReplayWindow
    BY DEF NotReplayed
  <2>10. \A k \in known : k - index = (k - base) - n
    BY <1>1, <2>1, <2>7
  <2>11. NotReplayed(index, known)
    BY <2>1, <2>8, <2>9, <2>10 DEF NotReplayed
  <2>12. QED
    BY <2>1, <2>4, <2>7, <2>8, <2>11 DEF Protects, index
<1>5. QED
  BY <1>3, <1>4

LEMMA ShiftForward ==
    ASSUME HalfWrap, RtpInv, ShiftInv, NEW n \in 0 .. sent - 1, NEW lost \in SUBSET Subscribers,
           onRtpPacket(n, lost)
    PROVE  ShiftInv'
<1> DEFINE bound == {c \in Subscribers : consumer[c].bound}
<1>1. NotReplayed(n, accepted) /\ accepted' = accepted \cup {n}
  BY DEF onRtpPacket
<1>2. \A c \in Subscribers : Protects(c, n) /\ ProtectIndex(c, n) \in Int
  BY <1>1, CopyProtected
<1>3. /\ refused' = refused
      /\ protected' = [c \in Subscribers |->
                         protected[c] \cup (IF c \in bound THEN {ProtectIndex(c, n)} ELSE {})]
  BY <1>2 DEF onRtpPacket
<1>4. refused' = {} /\ protected' \in [Subscribers -> SUBSET Int]
  BY <1>2, <1>3 DEF ShiftInv
<1>5. ASSUME NEW c \in Subscribers
      PROVE  /\ \E base \in Int : /\ base % SeqMod = FirstSeq % SeqMod
                                  /\ \A i \in protected'[c] : i - base \in accepted'
             /\ protected'[c] # {} => \E i \in protected'[c] : \A j \in protected'[c] : j <= i
  <2>1. PICK index \in Int : index = ProtectIndex(c, n)
    BY <1>2
  <2>2. protected'[c] = protected[c] \/ protected'[c] = protected[c] \cup {index}
    BY <1>3, <2>1
  <2>3. \E base \in Int : /\ base % SeqMod = FirstSeq % SeqMod
                          /\ \A i \in protected[c] \cup {index} : i - base \in accepted \cup {n}
    BY <1>1, <2>1, CopyProtected
  <2>4. \E base \in Int : /\ base % SeqMod = FirstSeq % SeqMod
                          /\ \A i \in protected'[c] : i - base \in accepted'
    BY <1>1, <2>2, <2>3
  <2>5. protected[c] \subseteq Int
    BY DEF ShiftInv
  <2>6. \E i \in protected[c] \cup {index} : \A j \in protected[c] \cup {index} : j <= i
    <3>1. CASE protected[c] = {}
      BY <3>1
    <3>2. CASE protected[c] # {}
      <4>1. PICK i \in protected[c] : \A j \in protected[c] : j <= i
        BY <3>2 DEF ShiftInv
      <4>2. CASE index <= i
        BY <4>1, <4>2
      <4>3. CASE i <= index
        BY <2>5, <4>1, <4>3
      <4>4. QED
        BY <2>5, <4>2, <4>3
    <3>3. QED
      BY <3>1, <3>2
  <2>7. protected'[c] # {} => \E i \in protected'[c] : \A j \in protected'[c] : j <= i
    BY <2>2, <2>6 DEF ShiftInv
  <2>8. QED
    BY <2>4, <2>7
<1>6. QED
  BY <1>4, <1>5 DEF ShiftInv

LEMMA ShiftStep ==
    ASSUME HalfWrap
    PROVE  RtpInv /\ ShiftInv /\ [Next]_vars => ShiftInv'
<1> SUFFICES ASSUME RtpInv, ShiftInv, [Next]_vars PROVE ShiftInv'
  OBVIOUS
<1>1. ASSUME NEW n \in 0 .. sent - 1, NEW lost \in SUBSET Subscribers, onRtpPacket(n, lost)
      PROVE  ShiftInv'
  BY <1>1, ShiftForward
<1>2. CASE UNCHANGED <<accepted, protected, refused>>
  BY <1>2 DEF ShiftInv
<1>3. QED
  BY <1>1, <1>2 DEF Next, Send, bindConsumerByMid, SendNack, SendPli, SendFeedback,
                    onRtcpPacket, vars, media

(* What srtp_unprotect has let in is never refused by srtp_protect, however   *)
(* late a Consumer was bound and in whatever order packets come, while the    *)
(* sequence numbers tell the packets apart.                                   *)
THEOREM ForwardedIsProtected ==
    ASSUME HalfWrap
    PROVE  Spec => []ProtectNeverRefuses
<1>1. Init => ShiftInv
  <2> SUFFICES ASSUME Init PROVE ShiftInv
    OBVIOUS
  <2>1. FirstSeq \in Int /\ FirstSeq % SeqMod = FirstSeq % SeqMod
    BY RtpAssumption
  <2>2. QED
    BY <2>1 DEF Init, ShiftInv
<1>2. RtpInv /\ ShiftInv /\ [Next]_vars => ShiftInv'
  BY ShiftStep
<1>3. ShiftInv => ProtectNeverRefuses
  BY DEF ShiftInv, ProtectNeverRefuses
<1>4. QED
  BY <1>1, <1>2, <1>3, RtpInitially, RtpStep, PTL DEF Spec
=============================================================================
