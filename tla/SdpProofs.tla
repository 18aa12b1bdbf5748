----------------------------- MODULE SdpProofs ------------------------------
(***************************************************************************)
(* Sdp for all participants, offers and payload types, in three parts: the   *)
(* kind the Router gives a stream (KindsByOffers), what later answers say of *)
(* a mid (AnswerKeepsSsrcs), and which of the Consumers with the same mid    *)
(* the answers name (ForwardedIsExpected).                                   *)
(*                                                                           *)
(* KindsByOffers is not inductive: that a publisher's own video payload      *)
(* types are in videoPTs before it sends, and that nothing else is there     *)
(* than what somebody has offered, must be known of every state.             *)
(***************************************************************************)
EXTENDS Sdp, FiniteSetTheorems, WellFoundedInduction, TLAPS

(* The static set holds the video payload types of all offers handled, and   *)
(* no others than those offered.                                             *)
PTsInv == /\ \A p \in offering : p \in Publishers /\ Offered[p]["video"] \subseteq videoPTs
          /\ \A pt \in videoPTs : \/ pt \in SubscriberPTs
                                  \/ \E q \in offering : pt \in Offered[q]["video"]

(* A stream is taken for audio, for video, or has not begun. *)
StreamsType == streams \in [Publishers \X Kinds -> Kinds \cup {"none"}]

(* The inductive invariant. *)
KindsInv == PTsInv /\ StreamsType /\ KindsByOffers

(* No offer has been handled in an initial state. *)
LEMMA KindsInitially == Init => KindsInv
BY DEF Init, KindsInv, PTsInv, StreamsType, KindsByOffers, Kinds

(* A stream that starts is given the kind of its section, unless its payload *)
(* type is in a video section of some offer.                                 *)
LEMMA KindsStream ==
    ASSUME KindsInv, NEW p \in Publishers, NEW k \in Kinds, NEW pt, onRtpPacket(p, k, pt)
    PROVE  KindsInv'
<1>1. PTsInv' /\ UNCHANGED <<videoPTs, offering>>
  BY DEF KindsInv, PTsInv, onRtpPacket
<1> DEFINE kind == IF pt \in videoPTs THEN "video" ELSE "audio"
<1>2. streams' = [streams EXCEPT ![<<p, k>>] = kind]
  BY DEF onRtpPacket
<1>3. StreamsType'
  BY <1>2 DEF KindsInv, StreamsType, Kinds
<1>4. ASSUME NEW q \in Publishers, NEW j \in Kinds
      PROVE  streams'[<<q, j>>] \in {j, "none"}
             \/ /\ j = "audio"
                /\ \E pts \in {SubscriberPTs} \cup {Offered[r]["video"] : r \in offering} :
                      pts \cap Offered[q]["audio"] # {}
  <2>1. CASE <<q, j>> # <<p, k>>
    BY <1>2, <2>1 DEF KindsInv, StreamsType, KindsByOffers
  <2>2. CASE q = p /\ j = k
    <3>1. streams'[<<q, j>>] = kind
      BY <1>2, <2>2 DEF KindsInv, StreamsType
    <3>2. CASE k = "video"
      <4>1. pt \in videoPTs
        BY <3>2 DEF onRtpPacket, KindsInv, PTsInv
      <4> QED BY <3>1, <3>2, <4>1, <2>2
    <3>3. CASE k = "audio" /\ pt \in videoPTs
      <4>1. pt \in Offered[p]["audio"]
        BY <3>3 DEF onRtpPacket
      <4>2. \E pts \in {SubscriberPTs} \cup {Offered[r]["video"] : r \in offering} : pt \in pts
        BY <3>3 DEF KindsInv, PTsInv
      <4> QED BY <3>3, <4>1, <4>2, <2>2
    <3>4. CASE k = "audio" /\ pt \notin videoPTs
      BY <3>1, <3>4, <2>2
    <3> QED BY <3>2, <3>3, <3>4 DEF Kinds
  <2> QED BY <2>1, <2>2
<1>5. KindsByOffers'
  BY <1>1, <1>4 DEF KindsByOffers
<1> QED BY <1>1, <1>3, <1>5 DEF KindsInv

(* An offer adds its payload types, and those who offered stay known. *)
LEMMA KindsOffer ==
    ASSUME KindsInv, SendOffer \/ \E p \in Publishers : PublisherOffers(p)
    PROVE  KindsInv'
<1>1. UNCHANGED streams
  BY DEF SendOffer, PublisherOffers
<1>2. offering \subseteq offering'
  BY DEF SendOffer, PublisherOffers
<1>3. KindsByOffers'
  BY <1>1, <1>2 DEF KindsInv, KindsByOffers
<1>4. CASE SendOffer
  BY <1>1, <1>3, <1>4 DEF SendOffer, parseOffer, KindsInv, PTsInv, StreamsType
<1>5. ASSUME NEW p \in Publishers, PublisherOffers(p) PROVE KindsInv'
  <2>1. videoPTs' = videoPTs \cup Offered[p]["video"] /\ offering' = offering \cup {p}
    BY <1>5 DEF PublisherOffers, parseOffer
  <2>2. PTsInv'
    BY <2>1 DEF KindsInv, PTsInv
  <2> QED BY <1>1, <1>3, <2>2 DEF KindsInv, StreamsType
<1> QED BY <1>4, <1>5

(* Every step keeps the invariant. *)
LEMMA KindsStep == KindsInv /\ [Next]_vars => KindsInv'
<1> SUFFICES ASSUME KindsInv, [Next]_vars PROVE KindsInv'
  OBVIOUS
<1>1. CASE SendOffer \/ \E p \in Publishers : PublisherOffers(p)
  BY <1>1, KindsOffer
<1>2. ASSUME NEW p \in Publishers, NEW k \in Kinds, NEW pt, onRtpPacket(p, k, pt)
      PROVE  KindsInv'
  BY <1>2, KindsStream
<1>3. ASSUME NEW p \in Publishers, RemovePeer(p) PROVE KindsInv'
  <2>1. UNCHANGED <<videoPTs, offering>>
    BY <1>3 DEF RemovePeer
  <2>2. streams' = [s \in DOMAIN streams |-> IF s[1] = p THEN "none" ELSE streams[s]]
    BY <1>3 DEF RemovePeer
  <2>3. DOMAIN streams = Publishers \X Kinds
    BY DEF KindsInv, StreamsType
  <2>4. StreamsType'
    BY <2>2, <2>3 DEF KindsInv, StreamsType
  <2>5. \A s \in Publishers \X Kinds : streams'[s] \in {streams[s], "none"}
    BY <2>2, <2>3
  <2>6. KindsByOffers'
    BY <2>1, <2>5 DEF KindsInv, KindsByOffers
  <2> QED BY <2>1, <2>4, <2>6 DEF KindsInv, PTsInv
<1>4. CASE UNCHANGED <<videoPTs, streams, offering>>
  BY <1>4 DEF KindsInv, PTsInv, StreamsType, KindsByOffers
<1>5. CASE UNCHANGED vars
  BY <1>4, <1>5 DEF vars, server
<1>6. CASE HandleJoin \/ HandleLeft \/ HandleAnswer \/ Negotiate
  BY <1>4, <1>6 DEF HandleJoin, HandleLeft, HandleAnswer, Negotiate, server
<1>7. ASSUME NEW p \in Publishers, Announce(p) \/ SetupConsumers(p) \/ AddExisting(p)
      PROVE  KindsInv'
  BY <1>4, <1>7 DEF Announce, SetupConsumers, AddExisting, server
<1> QED BY <1>1, <1>2, <1>3, <1>5, <1>6, <1>7 DEF Next

(* Whatever payload types the browsers use, video is never taken for audio,  *)
(* and audio for video only when its payload type is in a video section of   *)
(* an offer: SdpParser::videoPTs against the test in Router::onRtpPacket.    *)
THEOREM KindsCorrect == Spec => []KindsByOffers
<1>1. KindsInv => KindsByOffers
  BY DEF KindsInv
<1> QED BY <1>1, KindsInitially, KindsStep, PTL DEF Spec

-----------------------------------------------------------------------------
(***************************************************************************)
(* What the answers say of the mids of a page, for any number of             *)
(* participants.  A publisher's join is waited for, then its transceivers    *)
(* wait for an offer, then they are in the offer, then its Consumers have    *)
(* their mids: in every stage the mids of the page's older publishers must   *)
(* be known to be out of the way.                                            *)
(***************************************************************************)

Consumer == [publisher : Publishers \cup {Nobody}, kind : Kinds, recvMid : Nat,
             attached : BOOLEAN, active : BOOLEAN]
Transceiver == [kind : Kinds, dir : {"recvonly", "inactive"}, publisher : Publishers \cup {Nobody}]
Section == [dir : {"sendrecv", "recvonly", "sendonly", "inactive"}, ssrc : Nat]
Message == [type : {"join", "left"}, publisher : Publishers, answer : {<<>>}]
           \cup [type : {"answer"}, publisher : {Nobody},
                 answer : UNION {[D -> Section] : D \in SUBSET (Mids \cup {Mic})}]

(* The state's types; every mid that is mentioned has a transceiver. *)
PageType ==
    /\ consumers \in Seq(Consumer)
    /\ \A i \in DOMAIN consumers : /\ consumers[i].recvMid \in {0} \cup DOMAIN transceivers
                                   /\ consumers[i].active => consumers[i].publisher # Nobody
    /\ presence \in [Publishers -> {"out", "announced", "in", "gone"}]
    /\ existing \subseteq Publishers
    /\ transceivers \in Seq(Transceiver)
    /\ pending \subseteq (DOMAIN transceivers) \X Publishers
    /\ remote \in [Mids -> Nat]
    /\ inbox \in Seq(Message)
    /\ DOMAIN offer.sections \subseteq DOMAIN transceivers \cup {Mic}
    /\ offer.recvMids \subseteq [mid : DOMAIN transceivers, publisher : Publishers, kind : Kinds]

JoinAt(p, a) == a \in DOMAIN inbox /\ inbox[a].type = "join" /\ inbox[a].publisher = p
LeftAt(p, a) == a \in DOMAIN inbox /\ inbox[a].type = "left" /\ inbox[a].publisher = p
AnswerAt(a) == a \in DOMAIN inbox /\ inbox[a].type = "answer"

(* The stages of a publisher: the page has no transceivers for it, they are  *)
(* pending, they are in the offer, or its Consumers have mids.               *)
Waiting == {p \in Publishers : \/ presence[p] = "out" \/ p \in existing
                               \/ \E a \in DOMAIN inbox : JoinAt(p, a)}
Wanted == {p \in Publishers : \E x \in pending : x[2] = p}
Asked == {p \in Publishers : \E rm \in offer.recvMids : rm.publisher = p}
Served == {p \in Publishers : \E i \in DOMAIN consumers :
                                 consumers[i].recvMid # 0 /\ consumers[i].publisher = p}

(* No publisher is in two of the stages. *)
Stages == /\ Waiting \cap (Wanted \cup Asked \cup Served) = {}
          /\ Wanted \cap (Asked \cup Served) = {}
          /\ Asked \cap Served = {}

(* A publisher waits for one reason, and is announced once. *)
JoinsOnce ==
    /\ \A p \in Publishers, a, b \in DOMAIN inbox :
          JoinAt(p, a) => /\ presence[p] # "out" /\ p \notin existing
                          /\ JoinAt(p, b) => a = b
    /\ \A p \in existing : presence[p] # "out"

(* Each publisher costs two mids at most. *)
FewMids == Len(transceivers) + 2 * Cardinality(Waiting) <= 2 * Cardinality(Publishers)

(* A transceiver with a publisher receives; one that waits for an offer has  *)
(* no publisher, and is meant for one.                                       *)
Pool ==
    /\ \A m \in DOMAIN transceivers :
          transceivers[m].dir = "inactive" => transceivers[m].publisher = Nobody
    /\ \A x \in pending : /\ transceivers[x[1]].dir = "recvonly"
                          /\ transceivers[x[1]].publisher = Nobody
                          /\ \A y \in pending : x[1] = y[1] => x = y

(* An unanswered offer names the publishers the transceivers have got, and   *)
(* its sections receive on all transceivers with a publisher.                *)
OfferFits ==
    /\ \A x, y \in offer.recvMids : x.mid = y.mid => x = y
    /\ \A x \in offer.recvMids : transceivers[x.mid].publisher \in {x.publisher, Nobody}
    /\ offer # NoOffer =>
          \A m \in DOMAIN transceivers :
             transceivers[m].publisher # Nobody =>
                m \in DOMAIN offer.sections /\ offer.sections[m] = "recvonly"

(* The last Consumer with the mid m is the one at i. *)
LastOf(cs, m, i) == /\ i \in DOMAIN cs /\ cs[i].recvMid = m
                    /\ \A j \in DOMAIN cs : cs[j].recvMid = m => j <= i

(* One answer at most is under way, and names the last Consumer of each mid. *)
AnswerFits ==
    /\ \A a, b \in DOMAIN inbox : AnswerAt(a) => offer = NoOffer /\ (AnswerAt(b) => a = b)
    /\ \A a \in DOMAIN inbox : AnswerAt(a) =>
          \A m \in (DOMAIN inbox[a].answer) \cap Mids :
             inbox[a].answer[m].ssrc # 0 => LastOf(consumers, m, inbox[a].answer[m].ssrc)

(* The Consumer that the page knows for the mid is its publisher's. *)
Known(m) == /\ m \in DOMAIN transceivers /\ remote[m] # 0
            /\ transceivers[m].publisher # Nobody
            /\ consumers[remote[m]].publisher = transceivers[m].publisher

(* The page knows Consumers by the mids they have; one that is its           *)
(* publisher's is the last of its mid, and the answer under way names it.    *)
RemoteFits ==
    /\ \A m \in Mids : remote[m] # 0 => /\ remote[m] \in DOMAIN consumers
                                        /\ consumers[remote[m]].recvMid = m
    /\ \A m \in Mids : Known(m) =>
          /\ LastOf(consumers, m, remote[m])
          /\ \A a \in DOMAIN inbox :
                AnswerAt(a) /\ m \in DOMAIN inbox[a].answer => inbox[a].answer[m].ssrc = remote[m]

(* The inductive invariant of AnswerKeepsSsrcs. *)
PageInv == /\ PageType /\ Stages /\ JoinsOnce /\ FewMids /\ Pool /\ OfferFits /\ AnswerFits /\ RemoteFits

-----------------------------------------------------------------------------
(* With existing_peers dealt with before any message: the order of the       *)
(* Consumers against the order of the messages.                              *)

(* The page has not yet been told that the publisher left; nor is it told    *)
(* before the message at a.                                                  *)
Here(p) == presence[p] # "gone" \/ \E b \in DOMAIN inbox : LeftAt(p, b)
HereAfter(p, a) == presence[p] # "gone" \/ \E b \in DOMAIN inbox : LeftAt(p, b) /\ a < b

(* The Consumer j was made with or after the first one of the publisher p. *)
Since(p, j) == \E i \in DOMAIN consumers : i <= j /\ consumers[i].publisher = p

(* A publisher leaves once; it has no Consumers before it is in the room. *)
Leaves ==
    /\ \A p \in Publishers, a, b \in DOMAIN inbox :
          LeftAt(p, a) => presence[p] = "gone" /\ (LeftAt(p, b) => a = b)
    /\ \A p \in Publishers, i \in DOMAIN consumers :
          presence[p] \in {"out", "announced"} => consumers[i].publisher # p

(* Nothing is negotiated while existing_peers waits. *)
FirstExisting ==
    /\ late = 0
    /\ adding => existing # {}
    /\ existing # {} => /\ offer = NoOffer
                        /\ ~adding => pending = {}
                        /\ \A i \in DOMAIN consumers : consumers[i].recvMid = 0

(* The mids of a publisher that the page knows to be here are its own. *)
Owns ==
    /\ \A rm \in offer.recvMids :
          Here(rm.publisher) => transceivers[rm.mid].publisher = rm.publisher
    /\ \A i \in DOMAIN consumers :
          /\ consumers[i].recvMid # 0 /\ consumers[i].publisher # Nobody
          /\ Here(consumers[i].publisher)
          => transceivers[consumers[i].recvMid].publisher = consumers[i].publisher

(* While p is announced to the page: whoever has a Consumer as late as p's   *)
(* first leaves after p's message, so the mids of such Consumers are taken.  *)
Order ==
    \A p \in Publishers, a \in DOMAIN inbox : JoinAt(p, a) =>
       \A j \in DOMAIN consumers : Since(p, j) =>
          /\ consumers[j].publisher # Nobody => HereAfter(consumers[j].publisher, a)
          /\ consumers[j].recvMid # 0 =>
                LET q == transceivers[consumers[j].recvMid].publisher
                IN q # Nobody /\ HereAfter(q, a)

(* The mid of a publisher that is not yet served has earlier Consumers only, *)
(* and so has one that the unanswered offer gives to somebody else.          *)
Earlier ==
    /\ \A x \in pending, j \in DOMAIN consumers : consumers[j].recvMid = x[1] => ~Since(x[2], j)
    /\ \A x \in offer.recvMids, j \in DOMAIN consumers :
          consumers[j].recvMid = x.mid => ~Since(x.publisher, j)
    /\ \A x \in pending, y \in offer.recvMids, j \in DOMAIN consumers :
          x[1] = y.mid /\ consumers[j].publisher = y.publisher => ~Since(x[2], j)

(* The Consumers that deliver are the ones the page knows, or that the       *)
(* answer under way names.                                                   *)
Delivers(i) == /\ consumers[i].publisher # Nobody /\ consumers[i].recvMid # 0
               /\ presence[consumers[i].publisher] = "in"
Named ==
    \A i \in DOMAIN consumers : Delivers(i) =>
       LET m == consumers[i].recvMid
       IN /\ (\A a \in DOMAIN inbox : ~AnswerAt(a)) => remote[m] = i
          /\ \A a \in DOMAIN inbox : AnswerAt(a) =>
                m \in DOMAIN inbox[a].answer /\ inbox[a].answer[m].ssrc = i

(* The inductive invariant of ForwardedIsExpected. *)
ForwardInv == PageInv /\ Leaves /\ FirstExisting /\ Owns /\ Order /\ Earlier /\ Named

-----------------------------------------------------------------------------
(* Smallest and largest members, and the places of a sequence. *)

(* A set of natural numbers has its Min among its members. *)
LEMMA MinIsMember ==
    ASSUME NEW S \in SUBSET Nat, S # {}
    PROVE  Min(S) \in S /\ \A y \in S : Min(S) <= y
<1>1. PICK x \in S : \A y \in S : ~(<<y, x>> \in OpToRel(<, Nat))
  BY NatLessThanWellFounded, WFMin
<1>2. \A y \in S : ~(y < x)
  <2>1. OpToRel(<, Nat) = {ss \in Nat \X Nat : ss[1] < ss[2]}
    BY DEF OpToRel
  <2> QED BY <1>1, <2>1
<1>3. \A y \in S : x <= y
  BY <1>2
<1> QED BY <1>3 DEF Min

(* A set of natural numbers with a bound has its Max among its members. *)
LEMMA MaxIsMember ==
    ASSUME NEW n \in Nat, NEW S \in SUBSET (0..n), S # {}
    PROVE  Max(S) \in S /\ \A y \in S : Max(S) >= y
<1> DEFINE T == {n - x : x \in S}
<1>1. T \in SUBSET Nat /\ T # {}
  <2>1. \A x \in S : n - x \in Nat
    OBVIOUS
  <2>2. \A t \in T : t \in Nat
    BY <2>1
  <2> QED BY <2>2
<1>2. Min(T) \in T /\ \A y \in T : Min(T) <= y
  BY <1>1, MinIsMember
<1>3. PICK x \in S : Min(T) = n - x
  BY <1>2
<1>4. ASSUME NEW y \in S PROVE x >= y
  <2>1. n - x <= n - y
    BY <1>2, <1>3
  <2> QED BY <2>1
<1> QED BY <1>4 DEF Max

(* A message is put at the end; the places of the others stay. *)
LEMMA AppendPlaces ==
    ASSUME NEW S, NEW s \in Seq(S), NEW x \in S
    PROVE  /\ Append(s, x) \in Seq(S)
           /\ DOMAIN Append(s, x) = DOMAIN s \cup {Len(s) + 1}
           /\ DOMAIN s = 1..Len(s) /\ Len(s) \in Nat /\ (Len(s) + 1) \notin DOMAIN s
           /\ Append(s, x)[Len(s) + 1] = x
           /\ \A a \in DOMAIN s : Append(s, x)[a] = s[a]
OBVIOUS

(* The first message is taken; the others move up. *)
LEMMA TailPlaces ==
    ASSUME NEW S, NEW s \in Seq(S), s # <<>>
    PROVE  /\ Tail(s) \in Seq(S) /\ Head(s) = s[1] /\ 1 \in DOMAIN s
           /\ \A a \in DOMAIN Tail(s) : /\ a \in Nat /\ a > 0 /\ a + 1 \in DOMAIN s
                                        /\ Tail(s)[a] = s[a + 1]
           /\ \A b \in DOMAIN s : b \in Nat /\ (b # 1 => b - 1 \in DOMAIN Tail(s))
OBVIOUS

(* The number of mids is a natural number. *)
LEMMA MidsCount == Cardinality(Publishers) \in Nat
BY SdpAssumption, FS_CardinalityType

(* Every transceiver has a place among the mids. *)
LEMMA MidsOfPage ==
    ASSUME PageType, FewMids
    PROVE  DOMAIN transceivers \subseteq Mids /\ Cardinality(Waiting) \in Nat
<1>1. IsFiniteSet(Waiting)
  <2>1. Waiting \subseteq Publishers
    BY DEF Waiting
  <2> QED BY <2>1, SdpAssumption, FS_Subset
<1>2. Cardinality(Waiting) \in Nat
  BY <1>1, FS_CardinalityType
<1>3. Len(transceivers) <= 2 * Cardinality(Publishers)
  <2> DEFINE c == Cardinality(Publishers)
             w == Cardinality(Waiting)
             n == Len(transceivers)
  <2>1. c \in Nat /\ w \in Nat /\ n \in Nat /\ n + 2 * w <= 2 * c
    BY MidsCount, <1>2 DEF PageType, FewMids
  <2> HIDE DEF c, w, n
  <2>2. n <= 2 * c
    BY <2>1
  <2> QED BY <2>2 DEF c, n
<1> QED BY <1>2, <1>3, MidsCount DEF Mids, PageType

(* What getAllBoundSsrcs names for a mid is the last Consumer with the mid.  *)
LEMMA BoundSsrcs ==
    ASSUME NEW cs \in Seq(Consumer), NEW m \in Mids
    PROVE  LET s == getAllBoundSsrcs(cs)[m]
           IN /\ s \in Nat
              /\ s # 0 => s \in DOMAIN cs /\ cs[s].recvMid = m
              /\ \A j \in DOMAIN cs : cs[j].recvMid = m => j <= s
<1> DEFINE S == {0} \cup {i \in DOMAIN cs : m # 0 /\ cs[i].recvMid = m}
<1>1. m # 0 /\ m \in Nat
  BY MidsCount DEF Mids
<1>2. S \in SUBSET (0..Len(cs)) /\ S # {} /\ Len(cs) \in Nat
  OBVIOUS
<1>3. Max(S) \in S /\ \A y \in S : Max(S) >= y
  BY <1>2, MaxIsMember
<1>4. getAllBoundSsrcs(cs)[m] = Max(S)
  BY DEF getAllBoundSsrcs
<1>5. \A j \in DOMAIN cs : cs[j].recvMid = m => j <= Max(S)
  BY <1>1, <1>2, <1>3
<1>6. Max(S) \in Nat /\ (Max(S) # 0 => Max(S) \in DOMAIN cs /\ cs[Max(S)].recvMid = m)
  BY <1>2, <1>3
<1> HIDE DEF S
<1> QED BY <1>4, <1>5, <1>6

-----------------------------------------------------------------------------
(* PageInv holds initially. *)

(* The Consumers that SetupConsumers makes have no mids. *)
LEMMA NewConsumers ==
    ASSUME NEW S \in SUBSET Publishers, NEW ps \in SetToSeqs(S)
    PROVE  /\ ConsumersFor(ps) \in Seq(Consumer)
           /\ \A i \in DOMAIN ConsumersFor(ps) :
                 /\ ConsumersFor(ps)[i].recvMid = 0 /\ ConsumersFor(ps)[i].active = TRUE
                 /\ ConsumersFor(ps)[i].publisher \in S /\ ConsumersFor(ps)[i].attached = FALSE
<1>1. IsFiniteSet(S)
  BY SdpAssumption, FS_Subset
<1>2. Cardinality(S) \in Nat
  BY <1>1, FS_CardinalityType
<1> DEFINE n == Cardinality(S)
<1>3. ps \in [1..n -> S]
  BY DEF SetToSeqs
<1>4. Len(ps) = n
  BY <1>2, <1>3
<1>5. \A i \in 1..(2 * n) : (i + 1) \div 2 \in 1..n
  BY <1>2
<1>6. \A i \in 1..(2 * n) : ConsumersFor(ps)[i] =
         NewConsumer(ps[(i + 1) \div 2], IF i % 2 = 1 THEN "video" ELSE "audio")
  BY <1>4 DEF ConsumersFor
<1>7. DOMAIN ConsumersFor(ps) = 1..(2 * n)
  BY <1>4 DEF ConsumersFor
<1>8. \A i \in 1..(2 * n) : ps[(i + 1) \div 2] \in S
  BY <1>3, <1>5
<1>9. \A i \in 1..(2 * n) :
         /\ ConsumersFor(ps)[i] \in Consumer /\ ConsumersFor(ps)[i].recvMid = 0
         /\ ConsumersFor(ps)[i].active = TRUE /\ ConsumersFor(ps)[i].publisher \in S
         /\ ConsumersFor(ps)[i].attached = FALSE
  <2> SUFFICES ASSUME NEW i \in 1..(2 * n)
               PROVE  /\ ConsumersFor(ps)[i] \in Consumer /\ ConsumersFor(ps)[i].recvMid = 0
                      /\ ConsumersFor(ps)[i].active = TRUE /\ ConsumersFor(ps)[i].publisher \in S
                      /\ ConsumersFor(ps)[i].attached = FALSE
    OBVIOUS
  <2> DEFINE k == IF i % 2 = 1 THEN "video" ELSE "audio"
             q == ps[(i + 1) \div 2]
  <2>1. q \in S /\ q \in Publishers \cup {Nobody} /\ k \in Kinds
    BY <1>8 DEF Kinds
  <2>2. ConsumersFor(ps)[i] = NewConsumer(q, k)
    BY <1>6
  <2> HIDE DEF k, q
  <2>3. NewConsumer(q, k) \in Consumer
    BY <2>1 DEF NewConsumer, Consumer
  <2> QED BY <2>1, <2>2, <2>3 DEF NewConsumer
<1>10. ConsumersFor(ps) \in [1..(2 * n) -> Consumer]
  BY <1>4, <1>9 DEF ConsumersFor
<1>11. ConsumersFor(ps) \in Seq(Consumer)
  BY <1>2, <1>10
<1> QED BY <1>7, <1>9, <1>11

(* Nobody has been negotiated with. *)
LEMMA PageInitially == Init => PageInv
<1> SUFFICES ASSUME Init PROVE PageInv
  OBVIOUS
<1>1. PICK ps \in SetToSeqs(existing) : consumers = ConsumersFor(ps)
  BY DEF Init
<1>2. existing \in SUBSET Publishers
  BY DEF Init
<1>3. /\ consumers \in Seq(Consumer)
      /\ \A i \in DOMAIN consumers : /\ consumers[i].recvMid = 0 /\ consumers[i].active = TRUE
                                     /\ consumers[i].publisher \in existing
  BY <1>1, <1>2, NewConsumers
<1>4. transceivers = <<>> /\ pending = {} /\ inbox = <<>> /\ remote = [m \in Mids |-> 0]
      /\ offer.sections = <<>> /\ offer.recvMids = {} /\ offer = NoOffer
  BY DEF Init, NoOffer
<1>5. presence = [p \in Publishers |-> IF p \in existing THEN "in" ELSE "out"]
  BY DEF Init
<1>6. PageType
  BY <1>2, <1>3, <1>4, <1>5, SdpAssumption DEF PageType
<1>7. Stages
  BY <1>3, <1>4 DEF Stages, Wanted, Asked, Served
<1>8. JoinsOnce
  BY <1>2, <1>4, <1>5 DEF JoinsOnce
<1>9. FewMids
  <2>1. Waiting = Publishers
    BY <1>5 DEF Waiting
  <2>2. Len(transceivers) = 0
    BY <1>4
  <2> QED BY <2>1, <2>2, MidsCount DEF FewMids
<1>10. Pool /\ OfferFits
  BY <1>4 DEF Pool, OfferFits
<1>11. AnswerFits /\ RemoteFits
  BY <1>4 DEF AnswerFits, RemoteFits, AnswerAt, Known
<1> QED BY <1>6, <1>7, <1>8, <1>9, <1>10, <1>11 DEF PageInv

-----------------------------------------------------------------------------
(* PageInv and the steps of the others. *)

(* A step outside the page: Consumers are added without mids, or lose their  *)
(* publisher, and a message that is no answer may be sent.                   *)
Outside ==
    /\ UNCHANGED <<existing, transceivers, pending, remote, offer>>
    /\ consumers' \in Seq(Consumer)
    /\ \A i \in DOMAIN consumers' : consumers'[i].active => consumers'[i].publisher # Nobody
    /\ \A i \in DOMAIN consumers : /\ i \in DOMAIN consumers'
                                   /\ consumers'[i].recvMid = consumers[i].recvMid
                                   /\ consumers'[i].publisher \in {consumers[i].publisher, Nobody}
    /\ \A i \in DOMAIN consumers' : i \notin DOMAIN consumers => consumers'[i].recvMid = 0
    /\ presence' \in [Publishers -> {"out", "announced", "in", "gone"}]
    /\ \/ inbox' = inbox
       \/ \E msg \in Message : msg.type # "answer" /\ inbox' = Append(inbox, msg)

(* Such a step keeps the invariant if it announces nobody twice. *)
LEMMA PageOutside ==
    ASSUME PageInv, Outside, Waiting' = Waiting, JoinsOnce'
    PROVE  PageInv'
<1>1. inbox \in Seq(Message)
  BY DEF PageInv, PageType
<1>2. inbox' \in Seq(Message)
  BY <1>1 DEF Outside
<1>3. /\ DOMAIN inbox \subseteq DOMAIN inbox'
      /\ \A a \in DOMAIN inbox : inbox'[a] = inbox[a]
      /\ \A a \in DOMAIN inbox' : a \notin DOMAIN inbox => inbox'[a].type # "answer"
  BY <1>1, AppendPlaces DEF Outside
<1>4. PageType'
  BY <1>2 DEF PageInv, PageType, Outside
<1>5. Wanted' = Wanted /\ Asked' = Asked
  BY DEF Wanted, Asked, Outside
<1>6. Served' \subseteq Served
  <2>1. Nobody \notin Publishers
    BY SdpAssumption
  <2> QED BY <2>1 DEF Served, Outside
<1>7. Stages'
  BY <1>5, <1>6 DEF PageInv, Stages
<1>8. FewMids'
  BY DEF PageInv, FewMids, Outside
<1>9. Pool' /\ OfferFits'
  BY DEF PageInv, Pool, OfferFits, Outside
<1>10. ASSUME NEW m \in Mids, NEW i, LastOf(consumers, m, i) PROVE LastOf(consumers', m, i)
  <2>1. m # 0
    BY MidsCount DEF Mids
  <2> QED BY <1>10, <2>1 DEF LastOf, Outside
<1>11. \A a \in DOMAIN inbox' : AnswerAt(a)' => a \in DOMAIN inbox /\ AnswerAt(a)
  BY <1>3 DEF AnswerAt
<1>12. AnswerFits'
  <2>1. \A a, b \in DOMAIN inbox' : AnswerAt(a)' => offer' = NoOffer /\ (AnswerAt(b)' => a = b)
    BY <1>11 DEF PageInv, AnswerFits, Outside
  <2>2. \A a \in DOMAIN inbox' : AnswerAt(a)' =>
          \A m \in (DOMAIN inbox'[a].answer) \cap Mids :
             inbox'[a].answer[m].ssrc # 0 => LastOf(consumers', m, inbox'[a].answer[m].ssrc)
    BY <1>3, <1>10, <1>11 DEF PageInv, AnswerFits
  <2> QED BY <2>1, <2>2 DEF AnswerFits
<1>13. RemoteFits'
  <2>1. \A m \in Mids : remote'[m] # 0 => /\ remote'[m] \in DOMAIN consumers'
                                          /\ consumers'[remote'[m]].recvMid = m
    BY DEF PageInv, RemoteFits, Outside
  <2>2. ASSUME NEW m \in Mids, Known(m)' PROVE Known(m)
    BY <2>2 DEF PageInv, RemoteFits, Known, Outside
  <2>3. \A m \in Mids : Known(m)' => LastOf(consumers', m, remote'[m])
    BY <2>2, <1>10 DEF PageInv, RemoteFits, Outside
  <2>4. \A m \in Mids : Known(m)' => \A a \in DOMAIN inbox' :
           AnswerAt(a)' /\ m \in DOMAIN inbox'[a].answer => inbox'[a].answer[m].ssrc = remote'[m]
    BY <2>2, <1>3, <1>11 DEF PageInv, RemoteFits, Outside
  <2> QED BY <2>1, <2>3, <2>4 DEF RemoteFits
<1> QED BY <1>4, <1>7, <1>8, <1>9, <1>12, <1>13 DEF PageInv


(* What a step outside the page does to each Consumer is given pointwise. *)
LEMMA PointwiseConsumers ==
    ASSUME PageType, NEW cs, DOMAIN cs = DOMAIN consumers,
           cs = [i \in DOMAIN cs |-> cs[i]],
           \A i \in DOMAIN consumers : cs[i] \in Consumer
    PROVE  cs \in Seq(Consumer)
<1>1. DOMAIN consumers = 1..Len(consumers) /\ Len(consumers) \in Nat
  BY DEF PageType
<1>2. cs \in [1..Len(consumers) -> Consumer]
  BY <1>1
<1> QED BY <1>1, <1>2

(* Who waits and who is announced depends on presence and the inbox. *)
LEMMA SameWaiting ==
    ASSUME PageInv, UNCHANGED <<existing, inbox>>,
           \A p \in Publishers : presence[p] = "out" <=> presence'[p] = "out"
    PROVE  Waiting' = Waiting /\ JoinsOnce'
<1>1. \A p, a : JoinAt(p, a)' <=> JoinAt(p, a)
  BY DEF JoinAt
<1>2. Waiting' = Waiting
  BY <1>1 DEF Waiting
<1>3. existing \subseteq Publishers
  BY DEF PageInv, PageType
<1> QED BY <1>1, <1>2, <1>3 DEF PageInv, JoinsOnce

(* handleJoin announces a publisher of whom the page knows nothing. *)
LEMMA OutsideAnnounce ==
    ASSUME PageInv, NEW p \in Publishers, Announce(p)
    PROVE  Outside /\ Waiting' = Waiting /\ JoinsOnce'
<1> DEFINE msg == [type |-> "join", publisher |-> p, answer |-> <<>>]
<1>1. /\ presence[p] = "out" /\ presence' = [presence EXCEPT ![p] = "announced"]
      /\ inbox' = Append(inbox, msg)
      /\ UNCHANGED <<consumers, existing, transceivers, pending, remote, offer>>
  BY DEF Announce, server, page
<1>2. msg \in Message /\ msg.type # "answer"
  BY DEF Message
<1>3. inbox \in Seq(Message) /\ presence \in [Publishers -> {"out", "announced", "in", "gone"}]
      /\ existing \subseteq Publishers
  BY DEF PageInv, PageType
<1>4. /\ DOMAIN inbox' = DOMAIN inbox \cup {Len(inbox) + 1} /\ (Len(inbox) + 1) \notin DOMAIN inbox
      /\ inbox'[Len(inbox) + 1] = msg
      /\ \A a \in DOMAIN inbox : inbox'[a] = inbox[a]
  BY <1>1, <1>2, <1>3, AppendPlaces
<1>5. Outside
  BY <1>1, <1>2, <1>3 DEF Outside, PageInv, PageType
<1>6. \A q, a : JoinAt(q, a)' <=> JoinAt(q, a) \/ (q = p /\ a = Len(inbox) + 1)
  BY <1>4 DEF JoinAt
<1>7. \A a : ~JoinAt(p, a) /\ p \notin existing
  BY <1>1 DEF PageInv, JoinsOnce, JoinAt
<1>8. \A q \in Publishers : q # p => presence'[q] = presence[q]
  BY <1>1, <1>3
<1>9. presence'[p] # "out"
  BY <1>1, <1>3
<1>10. Waiting' = Waiting
  <2>1. p \in Waiting /\ p \in Waiting'
    BY <1>1, <1>4, <1>6 DEF Waiting
  <2>2. \A q \in Publishers : q # p => (q \in Waiting <=> q \in Waiting')
    BY <1>1, <1>4, <1>6, <1>8 DEF Waiting, JoinAt
  <2> QED BY <2>1, <2>2 DEF Waiting
<1>11. JoinsOnce'
  <2>1. \A q \in Publishers, a, b \in DOMAIN inbox' :
          JoinAt(q, a)' => /\ presence'[q] # "out" /\ q \notin existing'
                           /\ JoinAt(q, b)' => a = b
    <3>1. \A q, a : JoinAt(q, a) => a \in DOMAIN inbox
      BY DEF JoinAt
    <3> QED BY <1>1, <1>6, <1>7, <1>8, <1>9, <3>1 DEF PageInv, JoinsOnce
  <2>2. \A q \in existing' : presence'[q] # "out"
    BY <1>1, <1>3, <1>8, <1>9 DEF PageInv, JoinsOnce
  <2> QED BY <2>1, <2>2 DEF JoinsOnce
<1> QED BY <1>5, <1>10, <1>11

(* SetupConsumers appends Consumers for those in the room. *)
LEMMA SetupEffect ==
    ASSUME PageInv, NEW p \in Publishers, SetupConsumers(p)
    PROVE  /\ UNCHANGED <<page, inbox, offer>>
           /\ presence[p] = "announced" /\ presence' = [presence EXCEPT ![p] = "in"]
           /\ consumers' \in Seq(Consumer)
           /\ \A i \in DOMAIN consumers : i \in DOMAIN consumers' /\ consumers'[i] = consumers[i]
           /\ \A i \in DOMAIN consumers' : i \notin DOMAIN consumers =>
                 /\ consumers'[i].recvMid = 0 /\ consumers'[i].publisher \in Publishers
                 /\ presence'[consumers'[i].publisher] = "in"
                 /\ \A j \in DOMAIN consumers : j < i
<1>1. /\ presence[p] = "announced" /\ presence' = [presence EXCEPT ![p] = "in"]
      /\ UNCHANGED <<page, inbox, offer>>
  BY DEF SetupConsumers
<1> DEFINE S == {q \in Publishers : presence'[q] = "in"}
<1>2. PICK ps \in SetToSeqs(S) :
         consumers' = consumers \o [i \in DOMAIN ConsumersFor(ps) |-> addConsumer(ConsumersFor(ps)[i])]
  BY DEF SetupConsumers
<1> DEFINE new == ConsumersFor(ps)
           made == [i \in DOMAIN new |-> addConsumer(new[i])]
<1>3. /\ new \in Seq(Consumer)
      /\ \A i \in DOMAIN new : new[i].recvMid = 0 /\ new[i].publisher \in S
  BY NewConsumers, S \in SUBSET Publishers
<1> HIDE DEF S, new
<1>4. \A i \in DOMAIN new : /\ made[i] \in Consumer /\ made[i].recvMid = 0
                            /\ made[i].publisher \in S
  <2> SUFFICES ASSUME NEW i \in DOMAIN new
               PROVE  /\ made[i] \in Consumer /\ made[i].recvMid = 0
                      /\ made[i].publisher \in S
    OBVIOUS
  <2>1. new[i] \in Consumer
    BY <1>3
  <2>2. (\E k \in Kinds : streams[<<new[i].publisher, k>>] = new[i].kind) \in BOOLEAN
    OBVIOUS
  <2>3. made[i] = [new[i] EXCEPT !.attached =
                      \E k \in Kinds : streams[<<new[i].publisher, k>>] = new[i].kind]
    BY DEF addConsumer
  <2> QED BY <1>3, <2>1, <2>2, <2>3 DEF Consumer
<1>5. made \in Seq(Consumer) /\ DOMAIN made = DOMAIN new
  <2>1. Len(new) \in Nat /\ DOMAIN new = 1..Len(new)
    BY <1>3
  <2>2. made \in [1..Len(new) -> Consumer]
    BY <1>4, <2>1
  <2> QED BY <2>1, <2>2
<1>6. consumers' = consumers \o made
  BY <1>2 DEF new
<1> HIDE DEF made
<1>7. consumers \in Seq(Consumer)
  BY DEF PageInv, PageType
<1>8. /\ consumers' \in Seq(Consumer) /\ DOMAIN consumers = 1..Len(consumers)
      /\ Len(consumers) \in Nat /\ DOMAIN consumers' = 1..(Len(consumers) + Len(made))
      /\ DOMAIN made = 1..Len(made) /\ Len(made) \in Nat
  BY <1>5, <1>6, <1>7
<1>9. \A i \in DOMAIN consumers : i \in DOMAIN consumers' /\ consumers'[i] = consumers[i]
  BY <1>5, <1>6, <1>7, <1>8
<1>10. ASSUME NEW i \in DOMAIN consumers', i \notin DOMAIN consumers
       PROVE  /\ consumers'[i].recvMid = 0 /\ consumers'[i].publisher \in S
              /\ \A j \in DOMAIN consumers : j < i
  <2>1. i - Len(consumers) \in DOMAIN made /\ consumers'[i] = made[i - Len(consumers)]
    BY <1>5, <1>6, <1>7, <1>8, <1>10
  <2>2. consumers'[i].recvMid = 0 /\ consumers'[i].publisher \in S
    BY <1>4, <1>5, <2>1
  <2>3. \A j \in DOMAIN consumers : j < i
    BY <1>8, <1>10
  <2> QED BY <2>2, <2>3
<1> QED BY <1>1, <1>8, <1>9, <1>10 DEF S


(* The first packet of a stream attaches Consumers and changes nothing else *)
(* of them.                                                                  *)
LEMMA PacketEffect ==
    ASSUME PageInv, NEW p \in Publishers, NEW k \in Kinds, NEW pt, onRtpPacket(p, k, pt)
    PROVE  /\ UNCHANGED <<presence, page, inbox, offer>>
           /\ consumers' \in Seq(Consumer) /\ DOMAIN consumers' = DOMAIN consumers
           /\ \A i \in DOMAIN consumers : /\ consumers'[i].recvMid = consumers[i].recvMid
                                          /\ consumers'[i].publisher = consumers[i].publisher
                                          /\ consumers'[i].active = consumers[i].active
<1> DEFINE kind == IF pt \in videoPTs THEN "video" ELSE "audio"
<1>1. consumers' = [i \in DOMAIN consumers |->
         [consumers[i] EXCEPT !.attached = @ \/ (consumers[i].publisher = p /\ consumers[i].kind = kind)]]
  BY DEF onRtpPacket
<1>2. consumers \in Seq(Consumer)
  BY DEF PageInv, PageType
<1> HIDE DEF kind
<1>3. ASSUME NEW i \in DOMAIN consumers
      PROVE  /\ consumers'[i] \in Consumer /\ consumers'[i].recvMid = consumers[i].recvMid
             /\ consumers'[i].publisher = consumers[i].publisher
             /\ consumers'[i].active = consumers[i].active
  <2>1. consumers[i] \in Consumer
    BY <1>2
  <2>2. (consumers[i].attached \/ (consumers[i].publisher = p /\ consumers[i].kind = kind)) \in BOOLEAN
    OBVIOUS
  <2> QED BY <1>1, <2>1, <2>2 DEF Consumer
<1>4. consumers' \in Seq(Consumer)
  BY <1>1, <1>3, PointwiseConsumers DEF PageInv
<1> QED BY <1>1, <1>3, <1>4 DEF onRtpPacket

(* RemovePeer takes Consumers their publisher, never their mids. *)
LEMMA RemoveEffect ==
    ASSUME PageInv, NEW p \in Publishers, RemovePeer(p)
    PROVE  /\ UNCHANGED <<page, offer>>
           /\ presence[p] = "in" /\ presence' = [presence EXCEPT ![p] = "gone"]
           /\ inbox' = Append(inbox, [type |-> "left", publisher |-> p, answer |-> <<>>])
           /\ consumers' \in Seq(Consumer) /\ DOMAIN consumers' = DOMAIN consumers
           /\ \A i \in DOMAIN consumers :
                 /\ consumers'[i].recvMid = consumers[i].recvMid
                 /\ consumers'[i].publisher \in {consumers[i].publisher, Nobody}
                 /\ consumers'[i].active => consumers'[i].publisher # Nobody
<1>1. consumers' = [i \in DOMAIN consumers |->
         IF consumers[i].publisher = p /\ consumers[i].attached
         THEN [consumers[i] EXCEPT !.publisher = Nobody, !.active = FALSE] ELSE consumers[i]]
  BY DEF RemovePeer
<1>2. consumers \in Seq(Consumer)
  BY DEF PageInv, PageType
<1>3. ASSUME NEW i \in DOMAIN consumers
      PROVE  /\ consumers'[i] \in Consumer /\ consumers'[i].recvMid = consumers[i].recvMid
             /\ consumers'[i].publisher \in {consumers[i].publisher, Nobody}
             /\ consumers'[i].active => consumers'[i].publisher # Nobody
  <2>1. consumers[i] \in Consumer /\ (consumers[i].active => consumers[i].publisher # Nobody)
    BY <1>2 DEF PageInv, PageType
  <2> QED BY <1>1, <2>1 DEF Consumer
<1>4. consumers' \in Seq(Consumer)
  BY <1>1, <1>3, PointwiseConsumers DEF PageInv
<1> QED BY <1>1, <1>3, <1>4 DEF RemovePeer

(* The steps of the server and of the publishers keep the invariant. *)
LEMMA PageOthers ==
    ASSUME PageInv, NEW p \in Publishers,
           \/ Announce(p) \/ SetupConsumers(p) \/ PublisherOffers(p) \/ RemovePeer(p)
           \/ \E k \in Kinds : \E pt \in Offered[p][k] : onRtpPacket(p, k, pt)
    PROVE  PageInv'
<1>1. CASE Announce(p)
  BY <1>1, OutsideAnnounce, PageOutside
<1>2. CASE SetupConsumers(p)
  <2>1. /\ UNCHANGED <<existing, transceivers, pending, remote, inbox, offer>>
        /\ presence[p] = "announced" /\ presence' = [presence EXCEPT ![p] = "in"]
    BY <1>2, SetupEffect DEF page
  <2>2. presence \in [Publishers -> {"out", "announced", "in", "gone"}]
    BY DEF PageInv, PageType
  <2>3. /\ presence' \in [Publishers -> {"out", "announced", "in", "gone"}]
        /\ \A q \in Publishers : presence[q] = "out" <=> presence'[q] = "out"
    BY <2>1, <2>2
  <2>4. \A i \in DOMAIN consumers' : consumers'[i].active => consumers'[i].publisher # Nobody
    BY <1>2, SetupEffect, SdpAssumption DEF PageInv, PageType
  <2>5. Outside
    BY <1>2, <2>1, <2>3, <2>4, SetupEffect DEF Outside
  <2> QED BY <2>1, <2>3, <2>5, SameWaiting, PageOutside
<1>3. CASE PublisherOffers(p)
  <2>1. UNCHANGED <<consumers, presence, existing, transceivers, pending, remote, inbox, offer>>
    BY <1>3 DEF PublisherOffers, page
  <2>2. Outside
    BY <2>1 DEF Outside, PageInv, PageType
  <2> QED BY <2>1, <2>2, SameWaiting, PageOutside
<1>4. CASE RemovePeer(p)
  <2> DEFINE msg == [type |-> "left", publisher |-> p, answer |-> <<>>]
  <2>1. /\ UNCHANGED <<existing, transceivers, pending, remote, offer>>
        /\ presence[p] = "in" /\ presence' = [presence EXCEPT ![p] = "gone"]
        /\ inbox' = Append(inbox, msg)
    BY <1>4, RemoveEffect DEF page
  <2>2. /\ presence \in [Publishers -> {"out", "announced", "in", "gone"}]
        /\ inbox \in Seq(Message) /\ existing \subseteq Publishers
    BY DEF PageInv, PageType
  <2>3. /\ presence' \in [Publishers -> {"out", "announced", "in", "gone"}]
        /\ \A q \in Publishers : presence[q] = "out" <=> presence'[q] = "out"
    BY <2>1, <2>2
  <2>4. msg \in Message /\ msg.type = "left"
    BY DEF Message
  <2>5. Outside
    <3>1. \E x \in Message : x.type # "answer" /\ inbox' = Append(inbox, x)
      BY <2>1, <2>4
    <3> QED BY <1>4, <2>1, <2>3, <3>1, RemoveEffect DEF Outside
  <2>6. /\ DOMAIN inbox' = DOMAIN inbox \cup {Len(inbox) + 1}
        /\ inbox'[Len(inbox) + 1] = msg
        /\ \A a \in DOMAIN inbox : inbox'[a] = inbox[a]
    BY <2>1, <2>2, <2>4, AppendPlaces
  <2>7. \A q, a : JoinAt(q, a)' <=> JoinAt(q, a)
    BY <2>4, <2>6 DEF JoinAt
  <2>8. Waiting' = Waiting
    BY <2>1, <2>3, <2>6, <2>7 DEF Waiting, JoinAt
  <2>9. JoinsOnce'
    <3>1. \A q, a : JoinAt(q, a) => a \in DOMAIN inbox
      BY DEF JoinAt
    <3> QED BY <2>1, <2>2, <2>3, <2>7, <3>1 DEF PageInv, JoinsOnce
  <2> QED BY <2>5, <2>8, <2>9, PageOutside
<1>5. ASSUME NEW k \in Kinds, NEW pt, onRtpPacket(p, k, pt) PROVE PageInv'
  <2>1. UNCHANGED <<presence, existing, transceivers, pending, remote, inbox, offer>>
    BY <1>5, PacketEffect DEF page
  <2>2. Outside
    BY <1>5, <2>1, PacketEffect DEF Outside, PageInv, PageType
  <2> QED BY <2>1, <2>2, SameWaiting, PageOutside
<1> QED BY <1>1, <1>2, <1>3, <1>4, <1>5


-----------------------------------------------------------------------------
(* PageInv and SendOffer. *)

(* A Consumer that bindConsumerByMid finds is of the publisher of the entry. *)
LEMMA BindableFits ==
    ASSUME PageType, NEW rm, Bindable(rm) # 0
    PROVE  Bindable(rm) \in DOMAIN consumers /\ consumers[Bindable(rm)].publisher = rm.publisher
<1> DEFINE fit == {i \in DOMAIN consumers : /\ consumers[i].kind = rm.kind
                                            /\ consumers[i].publisher = rm.publisher}
<1>1. fit # {} /\ Bindable(rm) = Min(fit)
  BY DEF Bindable
<1>2. fit \in SUBSET Nat
  BY DEF PageType
<1>3. Min(fit) \in fit
  BY <1>1, <1>2, MinIsMember
<1> QED BY <1>1, <1>3

(* SendOffer gives Consumers the mids of their publisher's entries. *)
LEMMA BoundEffect ==
    ASSUME PageInv, SendOffer
    PROVE  /\ consumers' \in Seq(Consumer) /\ DOMAIN consumers' = DOMAIN consumers
           /\ \A i \in DOMAIN consumers :
                 /\ consumers'[i].publisher = consumers[i].publisher
                 /\ consumers'[i].active = consumers[i].active
                 /\ \/ consumers'[i].recvMid = consumers[i].recvMid
                    \/ \E rm \in offer.recvMids :
                          /\ Bindable(rm) = i /\ consumers'[i].recvMid = rm.mid
                          /\ rm.publisher = consumers[i].publisher
<1>1. consumers' = Bound(offer.recvMids)
  BY DEF SendOffer
<1>2. /\ consumers \in Seq(Consumer) /\ transceivers \in Seq(Transceiver)
      /\ \A rm \in offer.recvMids : rm.mid \in DOMAIN transceivers
  BY DEF PageInv, PageType
<1>3. \A rm \in offer.recvMids : rm.mid \in Nat
  BY <1>2
<1>4. ASSUME NEW i \in DOMAIN consumers
      PROVE  /\ consumers'[i] \in Consumer
             /\ consumers'[i].publisher = consumers[i].publisher
             /\ consumers'[i].active = consumers[i].active
             /\ \/ consumers'[i].recvMid = consumers[i].recvMid
                \/ \E rm \in offer.recvMids :
                      /\ Bindable(rm) = i /\ consumers'[i].recvMid = rm.mid
                      /\ rm.publisher = consumers[i].publisher
  <2>1. consumers[i] \in Consumer /\ i # 0
    BY <1>2
  <2>2. CASE \E rm \in offer.recvMids : Bindable(rm) = i
    <3> DEFINE rm == CHOOSE rm \in offer.recvMids : Bindable(rm) = i
    <3>1. rm \in offer.recvMids /\ Bindable(rm) = i
      BY <2>2
    <3>2. consumers'[i] = [consumers[i] EXCEPT !.recvMid = rm.mid]
      BY <1>1, <2>2 DEF Bound
    <3> HIDE DEF rm
    <3>3. rm.publisher = consumers[i].publisher
      BY <2>1, <3>1, BindableFits DEF PageInv
    <3>4. rm.mid \in Nat
      BY <1>3, <3>1
    <3>5. /\ consumers'[i] \in Consumer /\ consumers'[i].recvMid = rm.mid
          /\ consumers'[i].publisher = consumers[i].publisher
          /\ consumers'[i].active = consumers[i].active
      BY <2>1, <3>2, <3>4 DEF Consumer
    <3> QED BY <3>1, <3>3, <3>5
  <2>3. CASE ~\E rm \in offer.recvMids : Bindable(rm) = i
    BY <1>1, <2>1, <2>3 DEF Bound
  <2> QED BY <2>2, <2>3
<1>5. DOMAIN consumers' = DOMAIN consumers
  BY <1>1 DEF Bound
<1>6. consumers' = [i \in DOMAIN consumers' |-> consumers'[i]]
  BY <1>1 DEF Bound
<1>7. consumers' \in Seq(Consumer)
  BY <1>4, <1>5, <1>6, PointwiseConsumers DEF PageInv
<1> QED BY <1>4, <1>5, <1>7

(* The answer names the last Consumer of each mid the page receives on. *)
LEMMA AnswerEffect ==
    ASSUME PageInv, SendOffer
    PROVE  \E msg \in Message :
              /\ inbox' = Append(inbox, msg) /\ msg.type = "answer"
              /\ DOMAIN msg.answer = DOMAIN offer.sections
              /\ \A m \in (DOMAIN msg.answer) \cap Mids :
                    /\ msg.answer[m].ssrc # 0 => LastOf(consumers', m, msg.answer[m].ssrc)
                    /\ \A i : offer.sections[m] = "recvonly" /\ LastOf(consumers', m, i)
                          => msg.answer[m].ssrc = i
<1> DEFINE ssrcs == getAllBoundSsrcs(consumers')
           answer == generateAnswer(offer.sections, ssrcs)
           msg == [type |-> "answer", publisher |-> Nobody, answer |-> answer]
<1>1. inbox' = Append(inbox, msg)
  BY DEF SendOffer, midToSsrc
<1>2. consumers' \in Seq(Consumer)
  BY BoundEffect
<1>3. DOMAIN transceivers \subseteq Mids
  BY MidsOfPage DEF PageInv
<1>4. DOMAIN offer.sections \subseteq Mids \cup {Mic}
  BY <1>3 DEF PageInv, PageType
<1>5. ASSUME NEW m \in Mids
      PROVE  /\ ssrcs[m] \in Nat
             /\ ssrcs[m] # 0 => LastOf(consumers', m, ssrcs[m])
             /\ \A i : LastOf(consumers', m, i) => ssrcs[m] = i
  <2>1. /\ ssrcs[m] \in Nat
        /\ ssrcs[m] # 0 => ssrcs[m] \in DOMAIN consumers' /\ consumers'[ssrcs[m]].recvMid = m
        /\ \A j \in DOMAIN consumers' : consumers'[j].recvMid = m => j <= ssrcs[m]
    BY <1>2, BoundSsrcs
  <2>2. DOMAIN consumers' \subseteq Nat \ {0}
    BY <1>2
  <2> HIDE DEF ssrcs
  <2>3. ASSUME NEW i, LastOf(consumers', m, i) PROVE ssrcs[m] = i
    <3>1. i \in DOMAIN consumers' /\ i \in Nat /\ i # 0 /\ i <= ssrcs[m]
      BY <2>1, <2>2, <2>3 DEF LastOf
    <3>2. ssrcs[m] # 0
      BY <2>1, <3>1
    <3>3. ssrcs[m] <= i
      BY <2>1, <2>3, <3>2 DEF LastOf
    <3> QED BY <2>1, <3>1, <3>3
  <2> QED BY <2>1, <2>3 DEF LastOf
<1>6. ssrcs[Mic] \in Nat
  <2>1. ssrcs[Mic] = Max({0} \cup {i \in DOMAIN consumers' : Mic # 0 /\ consumers'[i].recvMid = Mic})
    BY DEF getAllBoundSsrcs
  <2>2. {0} \cup {i \in DOMAIN consumers' : Mic # 0 /\ consumers'[i].recvMid = Mic} = {0}
    BY DEF Mic
  <2>3. Max({0}) \in {0}
    BY MaxIsMember, {0} \in SUBSET (0..0)
  <2> QED BY <2>1, <2>2, <2>3
<1> HIDE DEF ssrcs
<1>7. DOMAIN answer = DOMAIN offer.sections
      /\ answer = [m \in DOMAIN offer.sections |-> answer[m]]
  BY DEF generateAnswer
<1>8. \A m \in DOMAIN offer.sections :
         /\ answer[m].ssrc = IF offer.sections[m] = "recvonly" THEN ssrcs[m] ELSE 0
         /\ answer[m] = [dir |-> answerDir(offer.sections[m]), ssrc |-> answer[m].ssrc]
  BY DEF generateAnswer
<1> HIDE DEF answer
<1>9. answer \in [DOMAIN offer.sections -> Section]
  <2>1. \A d : answerDir(d) \in {"sendrecv", "recvonly", "sendonly", "inactive"}
    BY DEF answerDir
  <2>2. \A m \in Mids \cup {Mic} : ssrcs[m] \in Nat
    BY <1>5, <1>6
  <2>3. ASSUME NEW m \in DOMAIN offer.sections PROVE answer[m] \in Section
    <3> DEFINE d == answerDir(offer.sections[m])
               n == answer[m].ssrc
    <3>1. n \in Nat
      <4>1. ssrcs[m] \in Nat
        BY <1>4, <2>2
      <4>2. n = IF offer.sections[m] = "recvonly" THEN ssrcs[m] ELSE 0
        BY <1>8
      <4> HIDE DEF n
      <4> QED BY <4>1, <4>2
    <3>2. d \in {"sendrecv", "recvonly", "sendonly", "inactive"}
      BY <2>1
    <3>3. answer[m] = [dir |-> d, ssrc |-> n]
      BY <1>8
    <3> HIDE DEF d, n
    <3> QED BY <3>1, <3>2, <3>3 DEF Section
  <2> QED BY <1>7, <2>3
<1>10. \A m \in (DOMAIN answer) \cap Mids :
          /\ answer[m].ssrc # 0 => LastOf(consumers', m, answer[m].ssrc)
          /\ \A i : offer.sections[m] = "recvonly" /\ LastOf(consumers', m, i) => answer[m].ssrc = i
  BY <1>5, <1>7, <1>8
<1>11. answer \in UNION {[D -> Section] : D \in SUBSET (Mids \cup {Mic})}
  BY <1>4, <1>9
<1>12. msg \in Message /\ msg.type = "answer" /\ msg.answer = answer
  BY <1>11 DEF Message
<1> HIDE DEF msg
<1> QED BY <1>1, <1>7, <1>10, <1>12


(* A Consumer that has a mid keeps it. *)
LEMMA MidsStay ==
    ASSUME PageInv, SendOffer, NEW i \in DOMAIN consumers, consumers[i].recvMid # 0
    PROVE  consumers'[i].recvMid = consumers[i].recvMid
<1> SUFFICES ASSUME NEW rm \in offer.recvMids, rm.publisher = consumers[i].publisher
             PROVE  FALSE
  BY BoundEffect
<1>1. rm.publisher \in Publishers
  BY DEF PageInv, PageType
<1>2. rm.publisher \in Asked
  BY <1>1 DEF Asked
<1>3. rm.publisher \in Served
  BY <1>1 DEF Served
<1> QED BY <1>2, <1>3 DEF PageInv, Stages

(* A mid whose Consumer the page knows gets no other. *)
LEMMA KnownStays ==
    ASSUME PageInv, SendOffer, NEW m \in Mids, Known(m)
    PROVE  LastOf(consumers', m, remote[m])
<1>1. LastOf(consumers, m, remote[m]) /\ m # 0
  BY MidsCount DEF PageInv, RemoteFits, Mids
<1>2. remote[m] \in DOMAIN consumers' /\ consumers'[remote[m]].recvMid = m
  BY <1>1, MidsStay, BoundEffect DEF LastOf
<1>3. ASSUME NEW j \in DOMAIN consumers', consumers'[j].recvMid = m PROVE j <= remote[m]
  <2>1. CASE consumers[j].recvMid = m
    BY <1>1, <2>1, BoundEffect DEF LastOf
  <2>2. CASE consumers[j].recvMid # m
    <3>1. PICK rm \in offer.recvMids : rm.mid = m /\ rm.publisher = consumers[j].publisher
      BY <1>3, <2>2, BoundEffect
    <3>2. rm.publisher = transceivers[m].publisher /\ rm.publisher \in Publishers
      BY <3>1 DEF PageInv, OfferFits, Known, PageType
    <3>3. rm.publisher \in Asked
      BY <3>2 DEF Asked
    <3>4. rm.publisher \in Served
      BY <1>1, <3>2 DEF Served, Known, LastOf
    <3> QED BY <3>3, <3>4 DEF PageInv, Stages
  <2> QED BY <2>1, <2>2
<1> QED BY <1>2, <1>3 DEF LastOf

(* SendOffer keeps the invariant. *)
LEMMA PageSendOffer ==
    ASSUME PageInv, SendOffer
    PROVE  PageInv'
<1>1. /\ offer # NoOffer /\ offer' = NoOffer
      /\ UNCHANGED <<presence, existing, transceivers, pending, remote>>
  BY DEF SendOffer, page
<1>2. offer'.sections = <<>> /\ offer'.recvMids = {}
  BY <1>1 DEF NoOffer
<1>3. PICK msg \in Message :
         /\ inbox' = Append(inbox, msg) /\ msg.type = "answer"
         /\ DOMAIN msg.answer = DOMAIN offer.sections
         /\ \A m \in (DOMAIN msg.answer) \cap Mids :
               /\ msg.answer[m].ssrc # 0 => LastOf(consumers', m, msg.answer[m].ssrc)
               /\ \A i : offer.sections[m] = "recvonly" /\ LastOf(consumers', m, i)
                     => msg.answer[m].ssrc = i
  BY AnswerEffect
<1>4. inbox \in Seq(Message)
  BY DEF PageInv, PageType
<1>5. /\ inbox' \in Seq(Message)
      /\ DOMAIN inbox' = DOMAIN inbox \cup {Len(inbox) + 1} /\ (Len(inbox) + 1) \notin DOMAIN inbox
      /\ inbox'[Len(inbox) + 1] = msg
      /\ \A a \in DOMAIN inbox : inbox'[a] = inbox[a]
  BY <1>3, <1>4, AppendPlaces
<1>6. PageType'
  <2>1. \A i \in DOMAIN consumers' :
           /\ consumers'[i].recvMid \in {0} \cup DOMAIN transceivers
           /\ consumers'[i].active => consumers'[i].publisher # Nobody
    BY BoundEffect DEF PageInv, PageType
  <2>2. consumers' \in Seq(Consumer)
    BY BoundEffect
  <2> QED BY <1>1, <1>2, <1>5, <2>1, <2>2 DEF PageInv, PageType
<1>7. \A p, a : JoinAt(p, a)' <=> JoinAt(p, a)
  BY <1>3, <1>5 DEF JoinAt
<1>8. Waiting' = Waiting
  BY <1>1, <1>5, <1>7 DEF Waiting, JoinAt
<1>9. Stages'
  <2>1. Wanted' = Wanted /\ Asked' = {}
    BY <1>1, <1>2 DEF Wanted, Asked
  <2>2. Served' \subseteq Served \cup Asked
    BY BoundEffect DEF Served, Asked
  <2> QED BY <1>8, <2>1, <2>2 DEF PageInv, Stages
<1>10. JoinsOnce'
  <2>1. \A p, a : JoinAt(p, a) => a \in DOMAIN inbox
    BY DEF JoinAt
  <2> QED BY <1>1, <1>7, <2>1 DEF PageInv, JoinsOnce
<1>11. FewMids' /\ Pool' /\ OfferFits'
  BY <1>1, <1>2, <1>8 DEF PageInv, FewMids, Pool, OfferFits
<1>12. \A a : AnswerAt(a)' <=> a = Len(inbox) + 1
  <2>1. \A a : ~AnswerAt(a)
    BY <1>1 DEF PageInv, AnswerFits, AnswerAt
  <2> QED BY <1>3, <1>5, <2>1 DEF AnswerAt
<1>13. AnswerFits'
  <2>1. \A a, b \in DOMAIN inbox' : AnswerAt(a)' => offer' = NoOffer /\ (AnswerAt(b)' => a = b)
    BY <1>1, <1>12
  <2>2. \A a \in DOMAIN inbox' : AnswerAt(a)' =>
          \A m \in (DOMAIN inbox'[a].answer) \cap Mids :
             inbox'[a].answer[m].ssrc # 0 => LastOf(consumers', m, inbox'[a].answer[m].ssrc)
    BY <1>3, <1>5, <1>12
  <2> QED BY <2>1, <2>2 DEF AnswerFits
<1>14. RemoteFits'
  <2>1. \A m \in Mids : remote'[m] # 0 => /\ remote'[m] \in DOMAIN consumers'
                                          /\ consumers'[remote'[m]].recvMid = m
    <3>1. \A m \in Mids : m # 0
      BY MidsCount DEF Mids
    <3> QED BY <1>1, <3>1, MidsStay, BoundEffect DEF PageInv, RemoteFits
  <2>2. ASSUME NEW m \in Mids, Known(m)' PROVE Known(m)
    BY <1>1, <2>2, BoundEffect DEF PageInv, RemoteFits, Known
  <2>3. \A m \in Mids : Known(m)' => LastOf(consumers', m, remote'[m])
    BY <1>1, <2>2, KnownStays
  <2>4. ASSUME NEW m \in Mids, Known(m)', NEW a \in DOMAIN inbox', AnswerAt(a)',
               m \in DOMAIN inbox'[a].answer
        PROVE  inbox'[a].answer[m].ssrc = remote'[m]
    <3>1. inbox'[a] = msg
      BY <1>5, <1>12, <2>4
    <3>2. offer.sections[m] = "recvonly"
      BY <1>1, <2>2, <2>4 DEF PageInv, OfferFits, Known
    <3>3. LastOf(consumers', m, remote'[m])
      BY <2>3, <2>4
    <3> QED BY <1>3, <2>4, <3>1, <3>2, <3>3
  <2> QED BY <2>1, <2>3, <2>4 DEF RemoteFits
<1> QED BY <1>6, <1>9, <1>10, <1>11, <1>13, <1>14 DEF PageInv


-----------------------------------------------------------------------------
(* PageInv and the steps of the page. *)

(* A mid that is new or inactive receives, and no other transceiver changes. *)
AddsOne(tcs, new, mid) ==
    /\ mid \in DOMAIN new /\ Len(new) <= Len(tcs) + 1
    /\ DOMAIN new = DOMAIN tcs \cup {mid}
    /\ mid \in DOMAIN tcs => tcs[mid].dir = "inactive"
    /\ new[mid].dir = "recvonly" /\ new[mid].publisher = Nobody
    /\ \A m \in DOMAIN tcs : m # mid => new[m] = tcs[m]

(* addRecvTransceiver does so. *)
LEMMA AddOne ==
    ASSUME NEW tcs \in Seq(Transceiver), NEW pend, NEW p, NEW k \in Kinds,
           NEW res \in addRecvTransceiver([tcs |-> tcs, pend |-> pend], p, k)
    PROVE  \E mid \in Nat, new \in Seq(Transceiver) :
              /\ res = [tcs |-> new, pend |-> pend \cup {<<mid, p>>}]
              /\ AddsOne(tcs, new, mid)
<1> DEFINE pooled == {m \in DOMAIN tcs : tcs[m].kind = k /\ tcs[m].dir = "inactive"}
           tc == [kind |-> k, dir |-> "recvonly", publisher |-> Nobody]
<1>0. PICK mid \in IF pooled = {} THEN {Len(tcs) + 1} ELSE pooled :
         res = [tcs  |-> IF pooled = {} THEN Append(tcs, tc) ELSE [tcs EXCEPT ![mid] = tc],
                pend |-> pend \cup {<<mid, p>>}]
  BY DEF addRecvTransceiver
<1> DEFINE new == IF pooled = {} THEN Append(tcs, tc) ELSE [tcs EXCEPT ![mid] = tc]
<1>1. res = [tcs |-> new, pend |-> pend \cup {<<mid, p>>}]
  BY <1>0
<1>2. tc \in Transceiver /\ tc.dir = "recvonly" /\ tc.publisher = Nobody
  BY DEF Transceiver
<1>3. CASE pooled = {}
  <2>1. mid = Len(tcs) + 1 /\ new = Append(tcs, tc)
    BY <1>0, <1>3
  <2> HIDE DEF new, tc, pooled
  <2>2. /\ new \in Seq(Transceiver) /\ DOMAIN new = DOMAIN tcs \cup {mid} /\ mid \notin DOMAIN tcs
        /\ new[mid] = tc /\ \A m \in DOMAIN tcs : new[m] = tcs[m]
    BY <1>2, <2>1, AppendPlaces
  <2>3. Len(new) <= Len(tcs) + 1 /\ mid \in Nat
    BY <1>2, <2>1
  <2>4. AddsOne(tcs, new, mid)
    BY <1>2, <2>2, <2>3 DEF AddsOne
  <2> QED BY <1>1, <2>2, <2>3, <2>4
<1>4. CASE pooled # {}
  <2>1. mid \in pooled /\ new = [tcs EXCEPT ![mid] = tc]
    BY <1>0, <1>4
  <2>2. mid \in Nat /\ mid \in DOMAIN tcs /\ tcs[mid].dir = "inactive"
    BY <2>1
  <2> HIDE DEF new, tc, pooled
  <2>3. /\ DOMAIN new = DOMAIN tcs /\ new[mid] = tc /\ \A m \in DOMAIN tcs : m # mid => new[m] = tcs[m]
    BY <2>1, <2>2
  <2>4. new \in Seq(Transceiver) /\ Len(new) = Len(tcs)
    BY <1>2, <2>1, <2>2
  <2>5. Len(new) <= Len(tcs) + 1
    BY <2>4
  <2>6. AddsOne(tcs, new, mid)
    BY <1>2, <2>2, <2>3, <2>5 DEF AddsOne
  <2> QED BY <1>1, <2>2, <2>4, <2>6
<1> QED BY <1>3, <1>4

(* The two transceivers of a peer. *)
AddsTwo(p, m1, m2) ==
    /\ m1 # m2 /\ transceivers' \in Seq(Transceiver) /\ Len(transceivers') <= Len(transceivers) + 2
    /\ DOMAIN transceivers' = DOMAIN transceivers \cup {m1, m2}
    /\ \A m \in {m1, m2} : /\ m \in DOMAIN transceivers => transceivers[m].dir = "inactive"
                           /\ transceivers'[m].dir = "recvonly" /\ transceivers'[m].publisher = Nobody
    /\ \A m \in DOMAIN transceivers : m \notin {m1, m2} => transceivers'[m] = transceivers[m]
    /\ pending' = pending \cup {<<m1, p>>, <<m2, p>>}

(* addRecvTransceiver, called for audio and for video of one publisher: both  *)
(* are noted as pending, on two mids that were pooled or are new.             *)
LEMMA AddBothEffect ==
    ASSUME PageType, NEW p \in Publishers, AddBoth(p)
    PROVE  \E m1, m2 : AddsTwo(p, m1, m2)
<1>1. PICK one \in addRecvTransceiver([tcs |-> transceivers, pend |-> pending], p, "video") :
      \E two \in addRecvTransceiver(one, p, "audio") :
         transceivers' = two.tcs /\ pending' = two.pend
  BY DEF AddBoth
<1>2. transceivers \in Seq(Transceiver)
  BY DEF PageType
<1>3. "video" \in Kinds /\ "audio" \in Kinds
  BY DEF Kinds
<1>4. PICK m1 \in Nat, new1 \in Seq(Transceiver) :
         /\ one = [tcs |-> new1, pend |-> pending \cup {<<m1, p>>}]
         /\ AddsOne(transceivers, new1, m1)
  BY <1>2, <1>3, AddOne
<1> DEFINE pend1 == pending \cup {<<m1, p>>}
<1>5. PICK m2 \in Nat, new2 \in Seq(Transceiver) :
         /\ transceivers' = new2 /\ pending' = pend1 \cup {<<m2, p>>}
         /\ AddsOne(new1, new2, m2)
  <2>1. PICK two \in addRecvTransceiver([tcs |-> new1, pend |-> pend1], p, "audio") :
           transceivers' = two.tcs /\ pending' = two.pend
    BY <1>1, <1>4
  <2> HIDE DEF pend1
  <2>2. \E m2 \in Nat, new2 \in Seq(Transceiver) :
         /\ two = [tcs |-> new2, pend |-> pend1 \cup {<<m2, p>>}]
         /\ AddsOne(new1, new2, m2)
    BY <1>3, AddOne
  <2> QED BY <2>1, <2>2
<1>6. transceivers' = new2 /\ pending' = pending \cup {<<m1, p>>, <<m2, p>>}
  BY <1>5
<1>7. m1 # m2
  BY <1>4, <1>5 DEF AddsOne
<1>8. Len(new2) <= Len(transceivers) + 2
  <2>1. Len(new2) \in Nat /\ Len(new1) \in Nat /\ Len(transceivers) \in Nat
    BY <1>2
  <2> QED BY <1>4, <1>5, <2>1 DEF AddsOne
<1>9. \A m \in {m1, m2} : /\ m \in DOMAIN transceivers => transceivers[m].dir = "inactive"
                          /\ new2[m].dir = "recvonly" /\ new2[m].publisher = Nobody
  BY <1>4, <1>5, <1>7 DEF AddsOne
<1>10. \A m \in DOMAIN transceivers : m \notin {m1, m2} => new2[m] = transceivers[m]
  BY <1>4, <1>5 DEF AddsOne
<1>11. DOMAIN new2 = DOMAIN transceivers \cup {m1, m2}
  BY <1>4, <1>5 DEF AddsOne
<1> QED BY <1>6, <1>7, <1>8, <1>9, <1>10, <1>11 DEF AddsTwo

(* The messages are those from the place d + 1 on. *)
Shifted(d) == /\ inbox' \in Seq(Message)
              /\ \A a \in DOMAIN inbox' : a + d \in DOMAIN inbox /\ inbox'[a] = inbox[a + d]

(* What is left of the inbox has one answer at most, and those of before. *)
LEMMA ShiftedAnswers ==
    ASSUME PageInv, NEW d \in {0, 1}, Shifted(d),
           offer' = NoOffer \/ offer' = offer \/ \A a : ~AnswerAt(a)
    PROVE  /\ \A a \in DOMAIN inbox' : AnswerAt(a)' => AnswerAt(a + d) /\ inbox'[a] = inbox[a + d]
           /\ \A a, b \in DOMAIN inbox' : AnswerAt(a)' => offer' = NoOffer /\ (AnswerAt(b)' => a = b)
<1>1. \A a \in DOMAIN inbox' : AnswerAt(a)' => AnswerAt(a + d) /\ inbox'[a] = inbox[a + d]
  BY DEF Shifted, AnswerAt
<1>2. \A a \in DOMAIN inbox' : a \in Nat
  BY DEF Shifted
<1>3. \A a \in DOMAIN inbox : AnswerAt(a) => offer = NoOffer /\ \A b \in DOMAIN inbox : AnswerAt(b) => a = b
  BY DEF PageInv, AnswerFits
<1>4. \A a : AnswerAt(a) => a \in DOMAIN inbox
  BY DEF AnswerAt
<1>5. ASSUME NEW a \in DOMAIN inbox', NEW b \in DOMAIN inbox', AnswerAt(a)', AnswerAt(b)'
      PROVE  a = b
  <2>1. a + d = b + d
    BY <1>1, <1>3, <1>4, <1>5
  <2>2. a \in Nat /\ b \in Nat /\ d \in Nat
    BY <1>2
  <2> QED BY <2>1, <2>2
<1>6. \A a \in DOMAIN inbox' : AnswerAt(a)' => offer' = NoOffer
  BY <1>1, <1>3, <1>4
<1> QED BY <1>1, <1>5, <1>6


(* A waiting publisher gets its transceivers. *)
LEMMA PageAdd ==
    ASSUME PageInv, NEW p \in Publishers, p \in Waiting, AddBoth(p),
           UNCHANGED <<consumers, presence, remote, offer>>,
           existing' \subseteq Publishers, NEW d \in {0, 1}, Shifted(d),
           Waiting' = Waiting \ {p}, JoinsOnce'
    PROVE  PageInv'
<1>1. PICK m1, m2 : AddsTwo(p, m1, m2)
  BY AddBothEffect DEF PageInv
<1>2. PageType'
  <2>1. DOMAIN transceivers \subseteq DOMAIN transceivers' /\ transceivers' \in Seq(Transceiver)
    BY <1>1 DEF AddsTwo
  <2>2. pending' \subseteq (DOMAIN transceivers') \X Publishers
    BY <1>1 DEF AddsTwo, PageInv, PageType
  <2> QED BY <2>1, <2>2 DEF PageInv, PageType, Shifted
<1>3. Stages'
  <2>1. Wanted' = Wanted \cup {p}
    <3>1. pending' = pending \cup {<<m1, p>>, <<m2, p>>}
      BY <1>1 DEF AddsTwo
    <3>2. \A q : (\E x \in pending' : x[2] = q) <=> (\E x \in pending : x[2] = q) \/ q = p
      <4>1. <<m1, p>>[2] = p /\ <<m2, p>>[2] = p
        OBVIOUS
      <4> QED BY <3>1, <4>1
    <3> QED BY <3>2 DEF Wanted
  <2>2. Asked' = Asked /\ Served' = Served
    BY DEF Asked, Served
  <2> QED BY <2>1, <2>2 DEF PageInv, Stages
<1>4. FewMids'
  <2>1. IsFiniteSet(Waiting)
    <3>1. Waiting \subseteq Publishers
      BY DEF Waiting
    <3> QED BY <3>1, SdpAssumption, FS_Subset
  <2>2. Cardinality(Waiting') = Cardinality(Waiting) - 1
    BY <2>1, FS_RemoveElement
  <2> DEFINE c == Cardinality(Publishers)
             w == Cardinality(Waiting)
             n == Len(transceivers)
             n1 == Len(transceivers')
  <2>3. c \in Nat /\ w \in Nat /\ n \in Nat /\ n1 \in Nat /\ n + 2 * w <= 2 * c /\ n1 <= n + 2
    BY <1>1, MidsCount, MidsOfPage DEF PageInv, PageType, FewMids, AddsTwo
  <2> HIDE DEF c, w, n, n1
  <2>4. n1 + 2 * (w - 1) <= 2 * c
    BY <2>3
  <2> QED BY <2>2, <2>4 DEF FewMids, c, w, n1
<1>5. Pool'
  <2>1. \A m \in DOMAIN transceivers' :
           transceivers'[m].dir = "inactive" => transceivers'[m].publisher = Nobody
    BY <1>1 DEF AddsTwo, PageInv, Pool
  <2>2. \A x \in pending : x[1] \in DOMAIN transceivers /\ x[1] \notin {m1, m2}
                           /\ transceivers'[x[1]] = transceivers[x[1]]
    BY <1>1 DEF AddsTwo, PageInv, PageType, Pool
  <2>3. \A x \in pending' : \/ x \in pending
                            \/ x[1] = m1 /\ x = <<m1, p>>
                            \/ x[1] = m2 /\ x = <<m2, p>>
    BY <1>1 DEF AddsTwo
  <2>4. \A x \in pending' : /\ transceivers'[x[1]].dir = "recvonly"
                            /\ transceivers'[x[1]].publisher = Nobody
    BY <1>1, <2>2, <2>3 DEF AddsTwo, PageInv, Pool
  <2>5. \A x, y \in pending' : x[1] = y[1] => x = y
    BY <1>1, <2>2, <2>3 DEF AddsTwo, PageInv, Pool
  <2> QED BY <2>1, <2>4, <2>5 DEF Pool
<1>6. \A m \in DOMAIN transceivers' : transceivers'[m].publisher # Nobody =>
         m \in DOMAIN transceivers /\ transceivers'[m] = transceivers[m]
  BY <1>1 DEF AddsTwo
<1>7. OfferFits'
  <2>1. \A x \in offer.recvMids : x.mid \in DOMAIN transceivers'
    BY <1>1 DEF AddsTwo, PageInv, PageType
  <2>2. \A x \in offer'.recvMids : transceivers'[x.mid].publisher \in {x.publisher, Nobody}
    BY <1>6, <2>1 DEF PageInv, OfferFits
  <2> QED BY <1>6, <2>2 DEF PageInv, OfferFits
<1>8. /\ \A a \in DOMAIN inbox' : AnswerAt(a)' => AnswerAt(a + d) /\ inbox'[a] = inbox[a + d]
      /\ \A a, b \in DOMAIN inbox' : AnswerAt(a)' => offer' = NoOffer /\ (AnswerAt(b)' => a = b)
  BY ShiftedAnswers
<1>9. \A a : AnswerAt(a) => a \in DOMAIN inbox
  BY DEF AnswerAt
<1>10. AnswerFits'
  BY <1>8, <1>9 DEF PageInv, AnswerFits
<1>11. \A m : Known(m)' => Known(m)
  BY <1>6 DEF Known
<1>12. RemoteFits'
  BY <1>8, <1>9, <1>11 DEF PageInv, RemoteFits
<1> QED BY <1>2, <1>3, <1>4, <1>5, <1>7, <1>10, <1>12 DEF PageInv

(* A turn of the loop over existing_peers. *)
LEMMA PageAddExisting ==
    ASSUME PageInv, NEW p \in Publishers, AddExisting(p)
    PROVE  PageInv'
<1>1. /\ p \in existing /\ existing' = existing \ {p} /\ AddBoth(p)
      /\ UNCHANGED <<consumers, presence, remote, offer, inbox>>
  BY DEF AddExisting, server
<1>2. existing \subseteq Publishers /\ inbox \in Seq(Message)
  BY DEF PageInv, PageType
<1>3. \A q, a : JoinAt(q, a)' <=> JoinAt(q, a)
  BY <1>1 DEF JoinAt
<1>4. p \in Waiting /\ Waiting' = Waiting \ {p}
  <2>1. p \in Waiting
    BY <1>1 DEF Waiting
  <2>2. presence[p] # "out" /\ \A a \in DOMAIN inbox : ~JoinAt(p, a)
    BY <1>1 DEF PageInv, JoinsOnce
  <2>3. p \notin Waiting'
    BY <1>1, <1>3, <2>2 DEF Waiting
  <2>4. \A q \in Publishers : q # p => (q \in Waiting <=> q \in Waiting')
    BY <1>1, <1>3 DEF Waiting
  <2> QED BY <2>1, <2>3, <2>4 DEF Waiting
<1>5. JoinsOnce'
  BY <1>1, <1>3 DEF PageInv, JoinsOnce
<1>6. Shifted(0)
  BY <1>1, <1>2 DEF Shifted
<1> QED BY <1>1, <1>2, <1>4, <1>5, <1>6, PageAdd

(* The first message is taken from the inbox. *)
LEMMA TakeMessage ==
    ASSUME PageInv, inbox # <<>>, inbox' = Tail(inbox)
    PROVE  /\ Shifted(1) /\ Head(inbox) = inbox[1] /\ 1 \in DOMAIN inbox /\ inbox[1] \in Message
           /\ \A a \in DOMAIN inbox' : a \in Nat /\ a > 0
           /\ \A b \in DOMAIN inbox : b # 1 => b \in Nat /\ b - 1 \in DOMAIN inbox' /\ b = (b - 1) + 1
<1>1. inbox \in Seq(Message)
  BY DEF PageInv, PageType
<1> QED BY <1>1, TailPlaces DEF Shifted

(* Messages move up: who else is announced stays announced. *)
LEMMA MovedUp ==
    ASSUME PageInv, inbox # <<>>, inbox' = Tail(inbox), UNCHANGED <<presence, existing>>
    PROVE  /\ \A q, a : JoinAt(q, a)' => JoinAt(q, a + 1) /\ a \in Nat /\ a > 0
           /\ \A q, b : JoinAt(q, b) /\ b # 1 => JoinAt(q, b - 1)'
           /\ JoinsOnce'
<1>1. \A q, a : JoinAt(q, a)' => JoinAt(q, a + 1) /\ a \in Nat /\ a > 0
  BY TakeMessage DEF JoinAt, Shifted
<1>2. \A q, b : JoinAt(q, b) /\ b # 1 => JoinAt(q, b - 1)'
  <2> SUFFICES ASSUME NEW q, NEW b, JoinAt(q, b), b # 1 PROVE JoinAt(q, b - 1)'
    OBVIOUS
  <2>1. b \in DOMAIN inbox
    BY DEF JoinAt
  <2>2. b - 1 \in DOMAIN inbox' /\ b = (b - 1) + 1
    BY <2>1, TakeMessage
  <2>3. inbox'[b - 1] = inbox[b]
    BY <2>2, TakeMessage DEF Shifted
  <2> QED BY <2>2, <2>3 DEF JoinAt
<1>3. JoinsOnce'
  <2>1. ASSUME NEW q \in Publishers, NEW a \in DOMAIN inbox', NEW b \in DOMAIN inbox', JoinAt(q, a)'
        PROVE  presence'[q] # "out" /\ q \notin existing' /\ (JoinAt(q, b)' => a = b)
    <3>1. JoinAt(q, a + 1) /\ a \in Nat /\ a + 1 \in DOMAIN inbox
      BY <1>1, <2>1 DEF JoinAt
    <3>2. presence[q] # "out" /\ q \notin existing
      BY <3>1 DEF PageInv, JoinsOnce
    <3>3. ASSUME JoinAt(q, b)' PROVE a = b
      <4>1. JoinAt(q, b + 1) /\ b \in Nat /\ b + 1 \in DOMAIN inbox
        BY <1>1, <3>3 DEF JoinAt
      <4>2. a + 1 = b + 1
        BY <3>1, <4>1 DEF PageInv, JoinsOnce
      <4> QED BY <3>1, <4>1, <4>2
    <3> QED BY <3>2, <3>3
  <2> QED BY <2>1 DEF PageInv, JoinsOnce
<1> QED BY <1>1, <1>2, <1>3

(* The page hears of a publisher. *)
LEMMA PageHandleJoin ==
    ASSUME PageInv, HandleJoin
    PROVE  PageInv'
<1>1. /\ inbox # <<>> /\ Head(inbox).type = "join" /\ inbox' = Tail(inbox)
      /\ AddBoth(Head(inbox).publisher)
      /\ UNCHANGED <<consumers, presence, existing, remote, offer>>
  BY DEF HandleJoin, server
<1>2. PICK p \in Publishers : AddBoth(p) /\ JoinAt(p, 1) /\ 1 \in DOMAIN inbox
  <2>1. Head(inbox) = inbox[1] /\ inbox[1] \in Message /\ 1 \in DOMAIN inbox
    BY <1>1, TakeMessage
  <2> QED BY <1>1, <2>1 DEF Message, JoinAt
<1>3. /\ \A q, a : JoinAt(q, a)' => JoinAt(q, a + 1) /\ a \in Nat /\ a > 0
      /\ \A q, b : JoinAt(q, b) /\ b # 1 => JoinAt(q, b - 1)'
      /\ JoinsOnce'
  BY <1>1, MovedUp
<1>4. p \in Waiting /\ Waiting' = Waiting \ {p}
  <2>1. p \in Waiting
    BY <1>2 DEF Waiting
  <2>2. presence[p] # "out" /\ p \notin existing
    BY <1>2 DEF PageInv, JoinsOnce
  <2>3. ASSUME NEW a, JoinAt(p, a)' PROVE FALSE
    <3>1. JoinAt(p, a + 1) /\ a \in Nat /\ a > 0 /\ a + 1 \in DOMAIN inbox
      BY <1>3, <2>3 DEF JoinAt
    <3>2. a + 1 = 1
      BY <1>2, <3>1 DEF PageInv, JoinsOnce
    <3> QED BY <3>1, <3>2
  <2>4. p \notin Waiting'
    BY <1>1, <2>2, <2>3 DEF Waiting
  <2>5. ASSUME NEW q \in Publishers, q # p PROVE q \in Waiting <=> q \in Waiting'
    <3>1. ~JoinAt(q, 1)
      BY <1>2, <2>5 DEF JoinAt
    <3>2. (\E a \in DOMAIN inbox : JoinAt(q, a)) <=> (\E a \in DOMAIN inbox' : JoinAt(q, a)')
      <4>1. \A a : (JoinAt(q, a) => a \in DOMAIN inbox) /\ (JoinAt(q, a)' => a \in DOMAIN inbox')
        BY DEF JoinAt
      <4> QED BY <1>3, <3>1, <4>1
    <3> QED BY <1>1, <3>2 DEF Waiting
  <2> QED BY <2>1, <2>4, <2>5 DEF Waiting
<1>5. existing' \subseteq Publishers
  BY <1>1 DEF PageInv, PageType
<1> QED BY <1>1, <1>2, <1>3, <1>4, <1>5, TakeMessage, PageAdd


(* A message that announces nobody leaves those who wait. *)
LEMMA SameWaiters ==
    ASSUME PageInv, inbox # <<>>, inbox' = Tail(inbox), Head(inbox).type # "join",
           UNCHANGED <<presence, existing>>
    PROVE  Waiting' = Waiting
<1>1. /\ \A q, a : JoinAt(q, a)' => JoinAt(q, a + 1) /\ a \in Nat /\ a > 0
      /\ \A q, b : JoinAt(q, b) /\ b # 1 => JoinAt(q, b - 1)'
  BY MovedUp
<1>2. \A q : ~JoinAt(q, 1)
  BY TakeMessage DEF JoinAt
<1>3. ASSUME NEW q
      PROVE  (\E a \in DOMAIN inbox : JoinAt(q, a)) <=> (\E a \in DOMAIN inbox' : JoinAt(q, a)')
  <2>1. \A a : (JoinAt(q, a) => a \in DOMAIN inbox) /\ (JoinAt(q, a)' => a \in DOMAIN inbox')
    BY DEF JoinAt
  <2> QED BY <1>1, <1>2, <2>1
<1> QED BY <1>3 DEF Waiting

(* markTransceiverInactive: the transceivers of the leaver are pooled. *)
LEMMA LeftEffect ==
    ASSUME PageInv, HandleLeft
    PROVE  /\ inbox # <<>> /\ inbox' = Tail(inbox) /\ Head(inbox).type = "left"
           /\ UNCHANGED <<consumers, presence, existing, adding, pending, remote, offer>>
           /\ transceivers' \in Seq(Transceiver) /\ Len(transceivers') = Len(transceivers)
           /\ DOMAIN transceivers' = DOMAIN transceivers
           /\ \E q \in Publishers : /\ LeftAt(q, 1)
                 /\ \A m \in DOMAIN transceivers :
                       IF transceivers[m].publisher = q
                       THEN transceivers'[m].dir = "inactive" /\ transceivers'[m].publisher = Nobody
                       ELSE transceivers'[m] = transceivers[m]
<1>1. /\ inbox # <<>> /\ inbox' = Tail(inbox) /\ Head(inbox).type = "left"
      /\ UNCHANGED <<consumers, presence, existing, adding, pending, remote, offer>>
      /\ transceivers' = [m \in DOMAIN transceivers |->
          IF transceivers[m].publisher = Head(inbox).publisher
          THEN [transceivers[m] EXCEPT !.dir = "inactive", !.publisher = Nobody]
          ELSE transceivers[m]]
  BY DEF HandleLeft, server
<1>2. PICK q \in Publishers : q = Head(inbox).publisher /\ LeftAt(q, 1)
  <2>1. Head(inbox) = inbox[1] /\ inbox[1] \in Message /\ 1 \in DOMAIN inbox
    BY <1>1, TakeMessage
  <2> QED BY <1>1, <2>1 DEF Message, LeftAt
<1>3. transceivers \in Seq(Transceiver)
  BY DEF PageInv, PageType
<1>4. ASSUME NEW m \in DOMAIN transceivers
      PROVE  /\ transceivers'[m] \in Transceiver
             /\ IF transceivers[m].publisher = q
                THEN transceivers'[m].dir = "inactive" /\ transceivers'[m].publisher = Nobody
                ELSE transceivers'[m] = transceivers[m]
  <2>1. transceivers[m] \in Transceiver
    BY <1>3
  <2> QED BY <1>1, <1>2, <2>1 DEF Transceiver
<1>5. DOMAIN transceivers' = DOMAIN transceivers
  BY <1>1
<1>6. transceivers' \in Seq(Transceiver) /\ Len(transceivers') = Len(transceivers)
  <2>1. DOMAIN transceivers = 1..Len(transceivers) /\ Len(transceivers) \in Nat
    BY <1>3
  <2>2. transceivers' = [m \in DOMAIN transceivers |-> transceivers'[m]]
    BY <1>1
  <2>3. \A m \in DOMAIN transceivers : transceivers'[m] \in Transceiver
    BY <1>4
  <2>4. transceivers' \in [1..Len(transceivers) -> Transceiver]
    BY <2>1, <2>2, <2>3
  <2> QED BY <2>1, <2>4
<1> QED BY <1>1, <1>2, <1>4, <1>5, <1>6

(* The page hears that a publisher left. *)
LEMMA PageHandleLeft ==
    ASSUME PageInv, HandleLeft
    PROVE  PageInv'
<1>1. /\ inbox # <<>> /\ inbox' = Tail(inbox) /\ Head(inbox).type = "left"
      /\ UNCHANGED <<consumers, presence, existing, pending, remote, offer>>
      /\ transceivers' \in Seq(Transceiver) /\ Len(transceivers') = Len(transceivers)
      /\ DOMAIN transceivers' = DOMAIN transceivers
  BY LeftEffect
<1>2. PICK q \in Publishers : \A m \in DOMAIN transceivers :
         IF transceivers[m].publisher = q
         THEN transceivers'[m].dir = "inactive" /\ transceivers'[m].publisher = Nobody
         ELSE transceivers'[m] = transceivers[m]
  BY LeftEffect
<1>3. Shifted(1) /\ JoinsOnce' /\ Waiting' = Waiting
  BY <1>1, TakeMessage, MovedUp, SameWaiters
<1>4. q # Nobody
  BY SdpAssumption
<1>5. PageType'
  BY <1>1, <1>3 DEF PageInv, PageType, Shifted
<1>6. Stages' /\ FewMids'
  <2>1. Wanted' = Wanted /\ Asked' = Asked /\ Served' = Served
    BY <1>1 DEF Wanted, Asked, Served
  <2> QED BY <1>1, <1>3, <2>1 DEF PageInv, Stages, FewMids
<1>7. Pool'
  <2>1. \A x \in pending : x[1] \in DOMAIN transceivers
    BY DEF PageInv, PageType
  <2> QED BY <1>1, <1>2, <1>4, <2>1 DEF PageInv, Pool
<1>8. \A m \in DOMAIN transceivers' : transceivers'[m].publisher # Nobody =>
         transceivers'[m] = transceivers[m]
  BY <1>1, <1>2
<1>9. OfferFits'
  <2>1. \A x \in offer.recvMids : x.mid \in DOMAIN transceivers
    BY DEF PageInv, PageType
  <2>2. \A x \in offer'.recvMids : transceivers'[x.mid].publisher \in {x.publisher, Nobody}
    BY <1>1, <1>2, <2>1 DEF PageInv, OfferFits
  <2> QED BY <1>1, <1>8, <2>2 DEF PageInv, OfferFits
<1>10. /\ \A a \in DOMAIN inbox' : AnswerAt(a)' => AnswerAt(a + 1) /\ inbox'[a] = inbox[a + 1]
       /\ \A a, b \in DOMAIN inbox' : AnswerAt(a)' => offer' = NoOffer /\ (AnswerAt(b)' => a = b)
  BY <1>1, <1>3, ShiftedAnswers
<1>11. \A a : AnswerAt(a) => a \in DOMAIN inbox
  BY DEF AnswerAt
<1>12. AnswerFits'
  BY <1>1, <1>10, <1>11 DEF PageInv, AnswerFits
<1>13. \A m : Known(m)' => Known(m)
  BY <1>1, <1>8 DEF Known
<1>14. RemoteFits'
  BY <1>1, <1>10, <1>11, <1>13 DEF PageInv, RemoteFits
<1> QED BY <1>3, <1>5, <1>6, <1>7, <1>9, <1>12, <1>14 DEF PageInv

(* setAnswer: the page takes over what the answer says, mid by mid. *)
LEMMA AnswerTaken ==
    ASSUME PageInv, HandleAnswer
    PROVE  /\ inbox # <<>> /\ inbox' = Tail(inbox) /\ Head(inbox).type = "answer" /\ AnswerAt(1)
           /\ UNCHANGED <<consumers, presence, existing, adding, transceivers, pending, offer>>
           /\ remote' \in [Mids -> Nat]
           /\ \A m \in Mids : remote'[m] = IF m \in DOMAIN inbox[1].answer
                                           THEN inbox[1].answer[m].ssrc ELSE remote[m]
           /\ \A a : ~AnswerAt(a)'
<1>1. /\ inbox # <<>> /\ inbox' = Tail(inbox) /\ Head(inbox).type = "answer"
      /\ UNCHANGED <<consumers, presence, existing, adding, transceivers, pending, offer>>
      /\ remote' = [m \in Mids |-> IF m \in DOMAIN Head(inbox).answer
                                   THEN Head(inbox).answer[m].ssrc ELSE remote[m]]
  BY DEF HandleAnswer, server
<1>2. Head(inbox) = inbox[1] /\ inbox[1] \in Message /\ 1 \in DOMAIN inbox /\ Shifted(1)
      /\ \A a \in DOMAIN inbox' : a \in Nat /\ a > 0
  BY <1>1, TakeMessage
<1>3. AnswerAt(1)
  BY <1>1, <1>2 DEF AnswerAt
<1> DEFINE answer == inbox[1].answer
<1>4. answer \in UNION {[D -> Section] : D \in SUBSET (Mids \cup {Mic})}
  BY <1>1, <1>2 DEF Message
<1> HIDE DEF answer
<1>5. \A m \in DOMAIN answer : answer[m] \in Section
  BY <1>4
<1>6. \A m \in DOMAIN answer : answer[m].ssrc \in Nat
  BY <1>5 DEF Section
<1>7. remote \in [Mids -> Nat]
  BY DEF PageInv, PageType
<1>8. remote' = [m \in Mids |-> IF m \in DOMAIN answer THEN answer[m].ssrc ELSE remote[m]]
  BY <1>1, <1>2 DEF answer
<1>9. remote' \in [Mids -> Nat]
  BY <1>6, <1>7, <1>8
<1>10. ASSUME NEW a, AnswerAt(a)' PROVE FALSE
  <2>1. a \in DOMAIN inbox' /\ a \in Nat /\ a > 0 /\ a + 1 \in DOMAIN inbox /\ AnswerAt(a + 1)
    BY <1>2, <1>10 DEF AnswerAt, Shifted
  <2>2. a + 1 = 1
    BY <1>2, <1>3, <2>1 DEF PageInv, AnswerFits
  <2> QED BY <2>1, <2>2
<1> QED BY <1>1, <1>3, <1>8, <1>9, <1>10 DEF answer

(* handleAnswer keeps the page's invariant: what was offered is served.       *)
LEMMA PageHandleAnswer ==
    ASSUME PageInv, HandleAnswer
    PROVE  PageInv'
<1>1. /\ inbox # <<>> /\ inbox' = Tail(inbox) /\ Head(inbox).type = "answer" /\ AnswerAt(1)
      /\ UNCHANGED <<consumers, presence, existing, transceivers, pending, offer>>
      /\ remote' \in [Mids -> Nat]
      /\ \A a : ~AnswerAt(a)'
  BY AnswerTaken
<1>2. \A m \in Mids : remote'[m] = IF m \in DOMAIN inbox[1].answer
                                   THEN inbox[1].answer[m].ssrc ELSE remote[m]
  BY AnswerTaken
<1>3. Shifted(1) /\ JoinsOnce' /\ Waiting' = Waiting
  BY <1>1, TakeMessage, MovedUp, SameWaiters
<1>4. PageType'
  BY <1>1, <1>3 DEF PageInv, PageType, Shifted
<1>5. Stages' /\ FewMids' /\ Pool' /\ OfferFits'
  <2>1. Wanted' = Wanted /\ Asked' = Asked /\ Served' = Served
    BY <1>1 DEF Wanted, Asked, Served
  <2> QED BY <1>1, <1>3, <2>1 DEF PageInv, Stages, FewMids, Pool, OfferFits
<1>6. AnswerFits'
  BY <1>1 DEF AnswerFits
<1>7. \A m \in Mids : m \in DOMAIN inbox[1].answer /\ remote'[m] # 0 => LastOf(consumers, m, remote'[m])
  <2>1. 1 \in DOMAIN inbox
    BY <1>1 DEF AnswerAt
  <2>2. \A m \in Mids : m \in DOMAIN inbox[1].answer /\ inbox[1].answer[m].ssrc # 0 =>
           LastOf(consumers, m, inbox[1].answer[m].ssrc)
    BY <1>1, <2>1 DEF PageInv, AnswerFits
  <2> QED BY <1>2, <2>2
<1>8. \A m \in Mids : m \notin DOMAIN inbox[1].answer => remote'[m] = remote[m] /\ (Known(m)' => Known(m))
  BY <1>1, <1>2 DEF Known
<1>9. RemoteFits'
  <2>1. \A m \in Mids : remote'[m] # 0 => /\ remote'[m] \in DOMAIN consumers'
                                          /\ consumers'[remote'[m]].recvMid = m
    BY <1>1, <1>7, <1>8 DEF PageInv, RemoteFits, LastOf
  <2>2. \A m \in Mids : Known(m)' => LastOf(consumers', m, remote'[m])
    <3>1. \A m : Known(m)' => remote'[m] # 0
      BY DEF Known
    <3> QED BY <1>1, <1>7, <1>8, <3>1 DEF PageInv, RemoteFits
  <2> QED BY <1>1, <2>1, <2>2 DEF RemoteFits
<1> QED BY <1>3, <1>4, <1>5, <1>6, <1>9 DEF PageInv


(* _runRenegotiateQueue: the transceivers that waited get their publishers,  *)
(* and the offer names them.                                                 *)
LEMMA NegotiateEffect ==
    ASSUME PageInv, Negotiate
    PROVE  /\ ~adding /\ pending # {} /\ pending' = {} /\ offer = NoOffer /\ \A a : ~AnswerAt(a)
           /\ UNCHANGED <<consumers, presence, existing, adding, remote, inbox>>
           /\ transceivers' \in Seq(Transceiver) /\ Len(transceivers') = Len(transceivers)
           /\ DOMAIN transceivers' = DOMAIN transceivers
           /\ \A m \in DOMAIN transceivers :
                 /\ transceivers'[m].dir = transceivers[m].dir
                 /\ \/ <<m, transceivers'[m].publisher>> \in pending
                    \/ /\ \A q : <<m, q>> \notin pending
                       /\ transceivers'[m] = transceivers[m]
           /\ DOMAIN offer'.sections = DOMAIN transceivers \cup {Mic}
           /\ \A m \in DOMAIN transceivers : offer'.sections[m] = transceivers[m].dir
           /\ offer'.recvMids = {[mid |-> x[1], publisher |-> x[2],
                                  kind |-> transceivers[x[1]].kind] : x \in pending}
<1>1. /\ ~adding /\ pending # {} /\ pending' = {} /\ ~Unanswered
      /\ UNCHANGED <<consumers, presence, existing, adding, remote, inbox>>
      /\ transceivers' = [m \in DOMAIN transceivers |->
          IF \E p \in Publishers : <<m, p>> \in pending
          THEN [transceivers[m] EXCEPT !.publisher = CHOOSE p \in Publishers : <<m, p>> \in pending]
          ELSE transceivers[m]]
  BY DEF Negotiate, server
<1>2. offer = NoOffer /\ \A a : ~AnswerAt(a)
  BY <1>1 DEF Unanswered, AnswerAt
<1>3. transceivers \in Seq(Transceiver) /\ \A x \in pending : x[2] \in Publishers
  BY DEF PageInv, PageType
<1>4. DOMAIN transceivers = 1..Len(transceivers) /\ Len(transceivers) \in Nat
  BY <1>3
<1>5. ASSUME NEW m \in DOMAIN transceivers
      PROVE  /\ transceivers'[m] \in Transceiver
             /\ transceivers'[m].dir = transceivers[m].dir
             /\ \/ <<m, transceivers'[m].publisher>> \in pending
                \/ (\A q : <<m, q>> \notin pending) /\ transceivers'[m] = transceivers[m]
  <2>1. transceivers[m] \in Transceiver
    BY <1>3
  <2>2. CASE \E p \in Publishers : <<m, p>> \in pending
    <3> DEFINE p == CHOOSE p \in Publishers : <<m, p>> \in pending
    <3>1. p \in Publishers /\ <<m, p>> \in pending
      BY <2>2
    <3>2. transceivers'[m] = [transceivers[m] EXCEPT !.publisher = p]
      BY <1>1, <2>2
    <3> HIDE DEF p
    <3>3. /\ transceivers'[m] \in Transceiver /\ transceivers'[m].dir = transceivers[m].dir
          /\ transceivers'[m].publisher = p
      BY <2>1, <3>1, <3>2 DEF Transceiver
    <3> QED BY <3>1, <3>3
  <2>3. CASE ~\E p \in Publishers : <<m, p>> \in pending
    <3>1. ASSUME NEW q, <<m, q>> \in pending PROVE FALSE
      <4>1. <<m, q>>[2] \in Publishers
        BY <1>3, <3>1
      <4> QED BY <2>3, <3>1, <4>1
    <3>2. transceivers'[m] = transceivers[m]
      BY <1>1, <2>3
    <3> QED BY <2>1, <3>1, <3>2
  <2> QED BY <2>2, <2>3
<1>6. transceivers' \in Seq(Transceiver) /\ Len(transceivers') = Len(transceivers)
      /\ DOMAIN transceivers' = DOMAIN transceivers
  <2>1. transceivers' = [m \in DOMAIN transceivers |-> transceivers'[m]]
    BY <1>1
  <2>2. \A m \in DOMAIN transceivers : transceivers'[m] \in Transceiver
    BY <1>5
  <2>3. transceivers' \in [1..Len(transceivers) -> Transceiver]
    BY <1>4, <2>1, <2>2
  <2> QED BY <1>4, <2>3
<1>7. /\ offer'.sections = [m \in DOMAIN transceivers \cup {Mic} |->
                              IF m = Mic THEN "sendrecv" ELSE transceivers[m].dir]
      /\ offer'.recvMids = {[mid |-> x[1], publisher |-> x[2],
                             kind |-> transceivers[x[1]].kind] : x \in pending}
  BY DEF Negotiate
<1>8. Mic \notin DOMAIN transceivers
  BY <1>4 DEF Mic
<1>9. \A m \in DOMAIN transceivers : offer'.sections[m] = transceivers[m].dir
  BY <1>7, <1>8
<1> QED BY <1>1, <1>2, <1>5, <1>6, <1>7, <1>9

(* _doNegotiate keeps it: everything pending goes into one offer.             *)
LEMMA PageNegotiate ==
    ASSUME PageInv, Negotiate
    PROVE  PageInv'
<1>1. /\ pending' = {} /\ offer = NoOffer /\ \A a : ~AnswerAt(a)
      /\ UNCHANGED <<consumers, presence, existing, remote, inbox>>
      /\ transceivers' \in Seq(Transceiver) /\ Len(transceivers') = Len(transceivers)
      /\ DOMAIN transceivers' = DOMAIN transceivers
  BY NegotiateEffect
<1>2. \A m \in DOMAIN transceivers :
         /\ transceivers'[m].dir = transceivers[m].dir
         /\ \/ <<m, transceivers'[m].publisher>> \in pending
            \/ /\ \A q : <<m, q>> \notin pending
               /\ transceivers'[m] = transceivers[m]
  BY NegotiateEffect
<1>3. /\ DOMAIN offer'.sections = DOMAIN transceivers \cup {Mic}
      /\ \A m \in DOMAIN transceivers : offer'.sections[m] = transceivers[m].dir
      /\ offer'.recvMids = {[mid |-> x[1], publisher |-> x[2],
                             kind |-> transceivers[x[1]].kind] : x \in pending}
  BY NegotiateEffect
<1>4. transceivers \in Seq(Transceiver) /\ pending \subseteq (DOMAIN transceivers) \X Publishers
  BY DEF PageInv, PageType
<1>5. \A x \in pending : /\ x[1] \in DOMAIN transceivers /\ x[2] \in Publishers /\ x = <<x[1], x[2]>>
                         /\ transceivers[x[1]].kind \in Kinds
  <2>1. \A m \in DOMAIN transceivers : transceivers[m] \in Transceiver
    BY <1>4
  <2>2. \A m \in DOMAIN transceivers : transceivers[m].kind \in Kinds
    BY <2>1 DEF Transceiver
  <2> QED BY <1>4, <2>2
<1>6. \A rm \in offer'.recvMids : \E x \in pending :
         /\ rm.mid = x[1] /\ rm.publisher = x[2] /\ rm.kind = transceivers[x[1]].kind
         /\ rm = [mid |-> x[1], publisher |-> x[2], kind |-> transceivers[x[1]].kind]
  BY <1>3
<1>7. PageType'
  <2>1. offer'.recvMids \subseteq [mid : DOMAIN transceivers, publisher : Publishers, kind : Kinds]
    BY <1>5, <1>6
  <2> QED BY <1>1, <1>3, <2>1 DEF PageInv, PageType
<1>8. \A q, a : JoinAt(q, a)' <=> JoinAt(q, a)
  BY <1>1 DEF JoinAt
<1>9. Waiting' = Waiting /\ JoinsOnce'
  BY <1>1, SameWaiting
<1>10. Stages'
  <2>1. Wanted' = {} /\ Served' = Served
    BY <1>1 DEF Wanted, Served
  <2>2. Asked' \subseteq Wanted
    BY <1>6 DEF Asked, Wanted
  <2> QED BY <1>9, <2>1, <2>2 DEF PageInv, Stages
<1>11. FewMids'
  BY <1>1, <1>9 DEF PageInv, FewMids
<1>12. \A m \in DOMAIN transceivers' : transceivers'[m].dir = "inactive" => transceivers'[m] = transceivers[m]
  <2>1. \A m, q : <<m, q>> \in pending => transceivers[m].dir = "recvonly"
    <3>1. \A m, q : <<m, q>>[1] = m
      OBVIOUS
    <3> QED BY <3>1 DEF PageInv, Pool
  <2> QED BY <1>1, <1>2, <2>1
<1>13. Pool'
  BY <1>1, <1>12 DEF PageInv, Pool
<1>14. \A m, q, r : <<m, q>> \in pending /\ <<m, r>> \in pending => q = r
  <2>1. \A m, q, r : <<m, q>>[1] = <<m, r>>[1] /\ (<<m, q>> = <<m, r>> => q = r)
    OBVIOUS
  <2> QED BY <2>1 DEF PageInv, Pool
<1>15. OfferFits'
  <2>1. ASSUME NEW x \in offer'.recvMids, NEW y \in offer'.recvMids, x.mid = y.mid PROVE x = y
    <3>1. PICK u \in pending : /\ x.mid = u[1]
            /\ x = [mid |-> u[1], publisher |-> u[2], kind |-> transceivers[u[1]].kind]
      BY <1>6
    <3>2. PICK v \in pending : /\ y.mid = v[1]
            /\ y = [mid |-> v[1], publisher |-> v[2], kind |-> transceivers[v[1]].kind]
      BY <1>6
    <3>3. u = v
      BY <2>1, <3>1, <3>2 DEF PageInv, Pool
    <3> QED BY <3>1, <3>2, <3>3
  <2>2. ASSUME NEW x \in offer'.recvMids PROVE transceivers'[x.mid].publisher = x.publisher
    <3>1. PICK u \in pending : x.mid = u[1] /\ x.publisher = u[2]
      BY <1>6
    <3>2. <<x.mid, x.publisher>> \in pending /\ x.mid \in DOMAIN transceivers
      BY <1>5, <3>1
    <3>3. <<x.mid, transceivers'[x.mid].publisher>> \in pending
      BY <1>2, <3>2
    <3> QED BY <1>14, <3>2, <3>3
  <2>3. ASSUME NEW m \in DOMAIN transceivers', transceivers'[m].publisher # Nobody
        PROVE  m \in DOMAIN offer'.sections /\ offer'.sections[m] = "recvonly"
    <3>1. transceivers'[m] \in Transceiver
      BY <1>1
    <3>2. transceivers'[m].dir # "inactive"
      BY <1>1, <1>13, <2>3 DEF Pool
    <3>3. transceivers'[m].dir = "recvonly"
      BY <3>1, <3>2 DEF Transceiver
    <3> QED BY <1>1, <1>2, <1>3, <3>3
  <2> QED BY <2>1, <2>2, <2>3 DEF OfferFits
<1>16. AnswerFits'
  BY <1>1 DEF AnswerFits, AnswerAt
<1>17. ASSUME NEW m \in Mids, Known(m)' PROVE Known(m)
  <2>1. m \in DOMAIN transceivers /\ remote[m] # 0 /\ m # 0
    BY <1>1, <1>17, MidsCount DEF Known, Mids
  <2>2. ASSUME <<m, transceivers'[m].publisher>> \in pending PROVE FALSE
    <3> DEFINE p == transceivers'[m].publisher
    <3>1. <<m, p>>[2] = p
      OBVIOUS
    <3>2. p \in Publishers
      BY <1>5, <2>2, <3>1
    <3>3. consumers[remote[m]].publisher = p
      BY <1>1, <1>17 DEF Known
    <3>4. remote[m] \in DOMAIN consumers /\ consumers[remote[m]].recvMid = m
      BY <2>1 DEF PageInv, RemoteFits
    <3> HIDE DEF p
    <3>5. p \in Served
      BY <2>1, <3>2, <3>3, <3>4 DEF Served
    <3>6. p \in Wanted
      BY <2>2, <3>1, <3>2 DEF Wanted, p
    <3> QED BY <3>5, <3>6 DEF PageInv, Stages
  <2> QED BY <1>1, <1>2, <1>17, <2>1, <2>2 DEF Known
<1>18. RemoteFits'
  BY <1>1, <1>17 DEF PageInv, RemoteFits, AnswerAt
<1> QED BY <1>7, <1>9, <1>10, <1>11, <1>13, <1>15, <1>16, <1>18 DEF PageInv

-----------------------------------------------------------------------------
(* Every step keeps the invariant. *)
LEMMA PageStep == PageInv /\ [Next]_vars => PageInv'
<1> SUFFICES ASSUME PageInv, [Next]_vars PROVE PageInv'
  OBVIOUS
<1>1. CASE SendOffer
  BY <1>1, PageSendOffer
<1>2. CASE HandleJoin \/ HandleLeft \/ HandleAnswer \/ Negotiate
  BY <1>2, PageHandleJoin, PageHandleLeft, PageHandleAnswer, PageNegotiate
<1>3. ASSUME NEW p \in Publishers,
             \/ Announce(p) \/ SetupConsumers(p) \/ PublisherOffers(p) \/ RemovePeer(p)
             \/ \E k \in Kinds : \E pt \in Offered[p][k] : onRtpPacket(p, k, pt)
      PROVE  PageInv'
  BY <1>3, PageOthers
<1>4. ASSUME NEW p \in Publishers, AddExisting(p) PROVE PageInv'
  BY <1>4, PageAddExisting
<1>5. CASE UNCHANGED vars
  <2>1. UNCHANGED <<consumers, presence, existing, transceivers, pending, remote, inbox, offer>>
    BY <1>5 DEF vars, server, page
  <2>2. Outside
    BY <2>1 DEF Outside, PageInv, PageType
  <2> QED BY <2>1, <2>2, SameWaiting, PageOutside
<1> QED BY <1>1, <1>2, <1>3, <1>4, <1>5 DEF Next

(* However many participants there are, and whatever the page handles before *)
(* init has finished: an answer never takes back the SSRC of a publisher's   *)
(* mid, though SendOffer is told only of the mids that are new.              *)
THEOREM AnswersKeep == Spec => AnswerKeepsSsrcs
<1>1. PageInv /\ [Next]_vars =>
         [\A m \in DOMAIN transceivers :
            LET p == transceivers[m].publisher
            IN /\ remote[m] # 0 /\ p # Nobody
               /\ consumers[remote[m]].publisher = p /\ presence[p] = "in"
               => remote'[m] = remote[m]]_vars
  <2> SUFFICES ASSUME PageInv, [Next]_vars, NEW m \in DOMAIN transceivers, Known(m)
               PROVE  remote'[m] = remote[m]
    BY DEF Known
  <2>1. m \in Mids
    BY MidsOfPage DEF PageInv
  <2>2. CASE HandleAnswer
    <3>1. AnswerAt(1) /\ 1 \in DOMAIN inbox
      BY <2>2, AnswerTaken DEF AnswerAt
    <3>2. remote'[m] = IF m \in DOMAIN inbox[1].answer THEN inbox[1].answer[m].ssrc ELSE remote[m]
      BY <2>1, <2>2, AnswerTaken
    <3>3. m \in DOMAIN inbox[1].answer => inbox[1].answer[m].ssrc = remote[m]
      BY <2>1, <3>1 DEF PageInv, RemoteFits
    <3> QED BY <3>2, <3>3
  <2>3. CASE UNCHANGED remote
    BY <2>3
  <2>4. CASE SendOffer \/ HandleJoin \/ HandleLeft \/ Negotiate \/ UNCHANGED vars
    BY <2>3, <2>4 DEF SendOffer, HandleJoin, HandleLeft, Negotiate, vars, page
  <2>5. ASSUME NEW p \in Publishers,
               \/ Announce(p) \/ SetupConsumers(p) \/ PublisherOffers(p) \/ RemovePeer(p)
               \/ AddExisting(p)
               \/ \E k \in Kinds : \E pt \in Offered[p][k] : onRtpPacket(p, k, pt)
        PROVE  remote'[m] = remote[m]
    BY <2>3, <2>5 DEF Announce, SetupConsumers, PublisherOffers, RemovePeer, AddExisting, onRtpPacket, page
  <2> QED BY <2>2, <2>4, <2>5 DEF Next
<1> QED BY <1>1, PageInitially, PageStep, PTL DEF Spec, AnswerKeepsSsrcs


-----------------------------------------------------------------------------
(* ForwardInv and the steps of the others. *)

LEMMA ForwardInitially == Init => ForwardInv
<1> SUFFICES ASSUME Init PROVE ForwardInv
  OBVIOUS
<1>1. PageInv
  BY PageInitially
<1>2. PICK ps \in SetToSeqs(existing) : consumers = ConsumersFor(ps)
  BY DEF Init
<1>3. \A i \in DOMAIN consumers : consumers[i].recvMid = 0 /\ consumers[i].publisher \in existing
  BY <1>2, NewConsumers DEF Init
<1>4. pending = {} /\ inbox = <<>> /\ offer = NoOffer /\ offer.recvMids = {} /\ late = 0 /\ adding = FALSE
  BY DEF Init, NoOffer
<1>5. presence = [p \in Publishers |-> IF p \in existing THEN "in" ELSE "out"]
  BY DEF Init
<1>6. Leaves
  BY <1>3, <1>4, <1>5 DEF Leaves
<1>7. FirstExisting
  BY <1>3, <1>4 DEF FirstExisting
<1>8. Owns /\ Order /\ Earlier /\ Named
  BY <1>3, <1>4 DEF Owns, Order, Earlier, Named, Delivers
<1> QED BY <1>1, <1>6, <1>7, <1>8 DEF ForwardInv

(* The publishers of Consumers and of entries are participants, and the mids *)
(* of Consumers are mids of transceivers.                                    *)
LEMMA Participants ==
    ASSUME PageType
    PROVE  /\ \A i \in DOMAIN consumers : /\ i \in Nat /\ i # 0 /\ consumers[i].publisher \in Publishers \cup {Nobody}
                                          /\ consumers[i].recvMid # 0 => consumers[i].recvMid \in DOMAIN transceivers
           /\ \A rm \in offer.recvMids : rm.publisher \in Publishers /\ rm.mid \in DOMAIN transceivers
           /\ \A x \in pending : x[1] \in DOMAIN transceivers /\ x[2] \in Publishers
           /\ \A m \in DOMAIN transceivers : transceivers[m].publisher \in Publishers \cup {Nobody}
           /\ 0 \notin DOMAIN transceivers /\ Nobody \notin Publishers
<1>1. consumers \in Seq(Consumer) /\ transceivers \in Seq(Transceiver)
  BY DEF PageType
<1>2. \A i \in DOMAIN consumers : consumers[i] \in Consumer /\ i \in Nat /\ i # 0
  BY <1>1
<1>3. \A i \in DOMAIN consumers : consumers[i].publisher \in Publishers \cup {Nobody}
  BY <1>2 DEF Consumer
<1>4. 0 \notin DOMAIN transceivers
  BY <1>1
<1>5. \A i \in DOMAIN consumers : consumers[i].recvMid # 0 => consumers[i].recvMid \in DOMAIN transceivers
  BY DEF PageType
<1>6. \A rm \in offer.recvMids : rm.publisher \in Publishers /\ rm.mid \in DOMAIN transceivers
  BY DEF PageType
<1>7. \A x \in pending : x[1] \in DOMAIN transceivers /\ x[2] \in Publishers
  BY DEF PageType
<1>8. \A m \in DOMAIN transceivers : transceivers[m] \in Transceiver
  BY <1>1
<1>9. \A m \in DOMAIN transceivers : transceivers[m].publisher \in Publishers \cup {Nobody}
  BY <1>8 DEF Transceiver
<1> QED BY <1>2, <1>3, <1>4, <1>5, <1>6, <1>7, <1>9, SdpAssumption

(* Steps that change no more of a Consumer than whether it is attached. *)
LEMMA ForwardSame ==
    ASSUME ForwardInv, PageInv', UNCHANGED <<presence, page, inbox, offer>>,
           DOMAIN consumers' = DOMAIN consumers,
           \A i \in DOMAIN consumers : /\ consumers'[i].recvMid = consumers[i].recvMid
                                       /\ consumers'[i].publisher = consumers[i].publisher
    PROVE  ForwardInv'
<1>1. UNCHANGED <<existing, adding, transceivers, pending, remote, late>>
  BY DEF page
<1>2. /\ \A p, a : (JoinAt(p, a)' <=> JoinAt(p, a)) /\ (LeftAt(p, a)' <=> LeftAt(p, a))
      /\ \A a : AnswerAt(a)' <=> AnswerAt(a)
  BY DEF JoinAt, LeftAt, AnswerAt
<1>3. \A p, a : (Here(p)' <=> Here(p)) /\ (HereAfter(p, a)' <=> HereAfter(p, a))
  BY <1>2 DEF Here, HereAfter
<1>4. \A p, j : Since(p, j)' <=> Since(p, j)
  BY DEF Since
<1>5. Leaves' /\ FirstExisting'
  BY <1>1, <1>2 DEF ForwardInv, Leaves, FirstExisting
<1>6. Owns'
  BY <1>1, <1>3 DEF ForwardInv, Owns
<1>7. Order'
  BY <1>1, <1>2, <1>3, <1>4 DEF ForwardInv, Order
<1>8. Earlier'
  BY <1>1, <1>4 DEF ForwardInv, Earlier
<1>9. Named'
  BY <1>1, <1>2 DEF ForwardInv, Named, Delivers
<1> QED BY <1>5, <1>6, <1>7, <1>8, <1>9 DEF ForwardInv

(* handleJoin announces a publisher without Consumers. *)
LEMMA ForwardAnnounce ==
    ASSUME ForwardInv, PageInv', NEW p \in Publishers, Announce(p)
    PROVE  ForwardInv'
<1> DEFINE msg == [type |-> "join", publisher |-> p, answer |-> <<>>]
<1>1. /\ presence[p] = "out" /\ presence' = [presence EXCEPT ![p] = "announced"]
      /\ inbox' = Append(inbox, msg)
      /\ UNCHANGED <<consumers, existing, adding, transceivers, pending, remote, late, offer>>
  BY DEF Announce, server, page
<1>2. msg \in Message /\ msg.type = "join" /\ msg.publisher = p
  BY DEF Message
<1>3. inbox \in Seq(Message) /\ presence \in [Publishers -> {"out", "announced", "in", "gone"}]
  BY DEF ForwardInv, PageInv, PageType
<1>4. /\ DOMAIN inbox' = DOMAIN inbox \cup {Len(inbox) + 1} /\ (Len(inbox) + 1) \notin DOMAIN inbox
      /\ inbox'[Len(inbox) + 1] = msg
      /\ \A a \in DOMAIN inbox : inbox'[a] = inbox[a]
  BY <1>1, <1>2, <1>3, AppendPlaces
<1>5. /\ \A q, a : JoinAt(q, a)' <=> JoinAt(q, a) \/ (q = p /\ a = Len(inbox) + 1)
      /\ \A q, a : LeftAt(q, a)' <=> LeftAt(q, a)
      /\ \A a : AnswerAt(a)' <=> AnswerAt(a)
  BY <1>2, <1>4 DEF JoinAt, LeftAt, AnswerAt
<1>6. \A q \in Publishers : /\ presence'[q] = "gone" <=> presence[q] = "gone"
                            /\ presence'[q] = "in" <=> presence[q] = "in"
                            /\ presence'[q] \in {"out", "announced"} => presence[q] \in {"out", "announced"}
  BY <1>1, <1>3
<1>7. /\ \A q, a : LeftAt(q, a) => a \in DOMAIN inbox
      /\ \A q, a : JoinAt(q, a) => a \in DOMAIN inbox
      /\ \A a : AnswerAt(a) => a \in DOMAIN inbox
  BY DEF LeftAt, JoinAt, AnswerAt
<1>8. \A q \in Publishers : /\ Here(q)' <=> Here(q)
                            /\ \A a : HereAfter(q, a)' <=> HereAfter(q, a)
  BY <1>4, <1>5, <1>6, <1>7 DEF Here, HereAfter
<1>9. \A q, j : Since(q, j)' <=> Since(q, j)
  BY <1>1 DEF Since
<1>10. \A j : ~Since(p, j)
  BY <1>1 DEF ForwardInv, Leaves, Since
<1>11. Leaves'
  BY <1>1, <1>5, <1>6, <1>7 DEF ForwardInv, Leaves
<1>12. FirstExisting' /\ Earlier'
  BY <1>1, <1>9 DEF ForwardInv, FirstExisting, Earlier
<1>13. PageType /\ PageType'
  BY DEF ForwardInv, PageInv
<1>14. Owns'
  BY <1>1, <1>8, <1>13, Participants DEF ForwardInv, Owns
<1>15. Order'
  <2>1. ASSUME NEW q \in Publishers, NEW a \in DOMAIN inbox', JoinAt(q, a)',
               NEW j \in DOMAIN consumers, Since(q, j)
        PROVE  /\ consumers[j].publisher # Nobody => HereAfter(consumers[j].publisher, a)
               /\ consumers[j].recvMid # 0 =>
                     /\ transceivers[consumers[j].recvMid].publisher # Nobody
                     /\ HereAfter(transceivers[consumers[j].recvMid].publisher, a)
    BY <1>5, <1>7, <1>10, <2>1 DEF ForwardInv, Order
  <2> QED BY <1>1, <1>8, <1>9, <1>13, <2>1, Participants DEF Order
<1>16. Named'
  <2>1. \A i \in DOMAIN consumers : Delivers(i)' => Delivers(i)
    BY <1>1, <1>6, <1>13, Participants DEF Delivers
  <2> QED BY <1>1, <1>4, <1>5, <1>7, <2>1 DEF ForwardInv, Named
<1> QED BY <1>11, <1>12, <1>14, <1>15, <1>16 DEF ForwardInv


(* SetupConsumers makes Consumers that are later than all others, of         *)
(* publishers who are in the room.                                           *)
LEMMA ForwardSetup ==
    ASSUME ForwardInv, PageInv', NEW p \in Publishers, SetupConsumers(p)
    PROVE  ForwardInv'
<1>1. PageInv /\ PageType /\ PageType'
  BY DEF ForwardInv, PageInv
<1>2. /\ presence[p] = "announced" /\ presence' = [presence EXCEPT ![p] = "in"]
      /\ UNCHANGED <<existing, adding, transceivers, pending, remote, late, inbox, offer>>
  BY <1>1, SetupEffect DEF page
<1>3. /\ \A i \in DOMAIN consumers : i \in DOMAIN consumers' /\ consumers'[i] = consumers[i]
      /\ \A i \in DOMAIN consumers' : i \notin DOMAIN consumers =>
            /\ consumers'[i].recvMid = 0 /\ consumers'[i].publisher \in Publishers
            /\ presence'[consumers'[i].publisher] = "in"
            /\ \A j \in DOMAIN consumers : j < i
  BY <1>1, SetupEffect
<1>4. presence \in [Publishers -> {"out", "announced", "in", "gone"}]
  BY <1>1 DEF PageType
<1>5. \A q \in Publishers : /\ presence'[q] = "gone" <=> presence[q] = "gone"
                            /\ presence'[q] \in {"out", "announced"} => presence[q] \in {"out", "announced"}
                            /\ q # p => presence'[q] = presence[q]
  BY <1>2, <1>4
<1>6. /\ \A q, a : (JoinAt(q, a)' <=> JoinAt(q, a)) /\ (LeftAt(q, a)' <=> LeftAt(q, a))
      /\ \A a : AnswerAt(a)' <=> AnswerAt(a)
  BY <1>2 DEF JoinAt, LeftAt, AnswerAt
<1>7. \A q \in Publishers : /\ Here(q)' <=> Here(q)
                            /\ \A a : HereAfter(q, a)' <=> HereAfter(q, a)
  BY <1>2, <1>5, <1>6 DEF Here, HereAfter
<1>8. ASSUME NEW q, NEW j \in DOMAIN consumers, Since(q, j)' PROVE Since(q, j)
  <2>1. PICK i \in DOMAIN consumers' : i <= j /\ consumers'[i].publisher = q
    BY <1>8 DEF Since
  <2>2. i \in Nat /\ j \in Nat
    BY <1>1, <1>3, Participants DEF PageType
  <2>3. i \in DOMAIN consumers
    BY <1>3, <2>1, <2>2
  <2> QED BY <1>3, <2>1, <2>3 DEF Since
<1>9. Leaves'
  <2>1. \A q \in Publishers, i \in DOMAIN consumers' :
           presence'[q] \in {"out", "announced"} => consumers'[i].publisher # q
    BY <1>3, <1>5 DEF ForwardInv, Leaves
  <2>2. \A q \in Publishers, a, b \in DOMAIN inbox' :
           LeftAt(q, a)' => presence'[q] = "gone" /\ (LeftAt(q, b)' => a = b)
    BY <1>2, <1>5, <1>6 DEF ForwardInv, Leaves
  <2> QED BY <2>1, <2>2 DEF Leaves
<1>10. FirstExisting'
  BY <1>2, <1>3 DEF ForwardInv, FirstExisting
<1>11. Owns'
  <2>1. \A rm \in offer'.recvMids : Here(rm.publisher)' => transceivers'[rm.mid].publisher = rm.publisher
    BY <1>1, <1>2, <1>7, Participants DEF ForwardInv, Owns
  <2>2. \A i \in DOMAIN consumers' :
          /\ consumers'[i].recvMid # 0 /\ consumers'[i].publisher # Nobody
          /\ Here(consumers[i].publisher)'
          => transceivers'[consumers'[i].recvMid].publisher = consumers'[i].publisher
    <3> SUFFICES ASSUME NEW i \in DOMAIN consumers', consumers'[i].recvMid # 0,
                        consumers'[i].publisher # Nobody, Here(consumers[i].publisher)'
                 PROVE  transceivers'[consumers'[i].recvMid].publisher = consumers'[i].publisher
      OBVIOUS
    <3>1. i \in DOMAIN consumers /\ consumers'[i] = consumers[i]
      BY <1>3
    <3>2. PICK q \in Publishers : q = consumers[i].publisher /\ Here(q)'
      BY <1>1, <3>1, Participants DEF Here, LeftAt
    <3> QED BY <1>2, <1>7, <3>1, <3>2 DEF ForwardInv, Owns
  <2> QED BY <2>1, <2>2 DEF Owns
<1>12. Order'
  <2> SUFFICES ASSUME NEW q \in Publishers, NEW a \in DOMAIN inbox, JoinAt(q, a),
                      NEW j \in DOMAIN consumers', Since(q, j)'
               PROVE  /\ consumers'[j].publisher # Nobody => HereAfter(consumers[j].publisher, a)'
                      /\ consumers'[j].recvMid # 0 =>
                            /\ transceivers'[consumers'[j].recvMid].publisher # Nobody
                            /\ HereAfter(transceivers[consumers[j].recvMid].publisher, a)'
    BY <1>2, <1>6 DEF Order
  <2>1. CASE j \in DOMAIN consumers
    <3>1. /\ consumers[j].publisher # Nobody => HereAfter(consumers[j].publisher, a)
          /\ consumers[j].recvMid # 0 =>
                /\ transceivers[consumers[j].recvMid].publisher # Nobody
                /\ HereAfter(transceivers[consumers[j].recvMid].publisher, a)
      BY <1>8, <2>1 DEF ForwardInv, Order
    <3>2. ASSUME NEW r \in Publishers, HereAfter(r, a) PROVE HereAfter(r, a)'
      BY <1>7, <3>2
    <3>3. consumers'[j] = consumers[j]
      BY <1>3, <2>1
    <3>4. consumers'[j].publisher # Nobody => HereAfter(consumers[j].publisher, a)'
      <4>1. ASSUME consumers[j].publisher # Nobody PROVE HereAfter(consumers[j].publisher, a)'
        <5>1. PICK r \in Publishers : r = consumers[j].publisher
          BY <1>1, <2>1, <4>1, Participants
        <5>2. HereAfter(r, a)'
          BY <3>1, <3>2, <4>1, <5>1
        <5> QED BY <3>3, <5>1, <5>2 DEF HereAfter, LeftAt
      <4> QED BY <3>3, <4>1
    <3>5. consumers'[j].recvMid # 0 => /\ transceivers'[consumers'[j].recvMid].publisher # Nobody
                                       /\ HereAfter(transceivers[consumers[j].recvMid].publisher, a)'
      <4>1. ASSUME consumers[j].recvMid # 0
            PROVE  /\ transceivers[consumers[j].recvMid].publisher # Nobody
                   /\ HereAfter(transceivers[consumers[j].recvMid].publisher, a)'
        <5>1. PICK r \in Publishers : r = transceivers[consumers[j].recvMid].publisher
          BY <1>1, <2>1, <3>1, <4>1, Participants
        <5>2. HereAfter(r, a)'
          BY <3>1, <3>2, <4>1, <5>1
        <5> QED BY <1>2, <3>1, <3>3, <4>1, <5>1, <5>2 DEF HereAfter, LeftAt
      <4> QED BY <1>2, <3>3, <4>1
    <3> QED BY <3>4, <3>5
  <2>2. CASE j \notin DOMAIN consumers
    BY <1>3, <2>2 DEF HereAfter
  <2> QED BY <2>1, <2>2
<1>13. Earlier'
  <2>1. \A x \in pending', j \in DOMAIN consumers' : consumers'[j].recvMid = x[1] => ~Since(x[2], j)'
    <3>1. \A x \in pending : x[1] # 0
      BY <1>1, Participants
    <3> QED BY <1>2, <1>3, <1>8, <3>1 DEF ForwardInv, Earlier
  <2>2. \A x \in offer'.recvMids, j \in DOMAIN consumers' :
          consumers'[j].recvMid = x.mid => ~Since(x.publisher, j)'
    <3>1. \A x \in offer.recvMids : x.mid # 0
      BY <1>1, Participants
    <3> QED BY <1>2, <1>3, <1>8, <3>1 DEF ForwardInv, Earlier
  <2>3. ASSUME NEW x \in pending', NEW y \in offer'.recvMids, NEW j \in DOMAIN consumers',
               x[1] = y.mid, consumers'[j].publisher = y.publisher
        PROVE  ~Since(x[2], j)'
    <3>1. CASE j \in DOMAIN consumers
      BY <1>2, <1>3, <1>8, <2>3, <3>1 DEF ForwardInv, Earlier
    <3>2. CASE j \notin DOMAIN consumers
      <4>1. y.publisher \in Publishers /\ presence[y.publisher] # "gone"
        BY <1>3, <1>5, <2>3, <3>2
      <4>2. transceivers[y.mid].publisher = y.publisher
        BY <1>2, <2>3, <4>1 DEF ForwardInv, Owns, Here
      <4>3. transceivers[x[1]].publisher = Nobody
        BY <1>1, <1>2, <2>3 DEF PageInv, Pool
      <4> QED BY <2>3, <4>1, <4>2, <4>3, SdpAssumption
    <3> QED BY <3>1, <3>2
  <2> QED BY <2>1, <2>2, <2>3 DEF Earlier
<1>14. Named'
  <2>1. ASSUME NEW i \in DOMAIN consumers', Delivers(i)' PROVE i \in DOMAIN consumers /\ Delivers(i)
    <3>1. i \in DOMAIN consumers /\ consumers'[i] = consumers[i]
      BY <1>3, <2>1 DEF Delivers
    <3>2. consumers[i].publisher \in Publishers /\ consumers[i].publisher # p
      BY <1>1, <1>2, <2>1, <3>1, Participants DEF ForwardInv, Leaves, Delivers
    <3> QED BY <1>5, <2>1, <3>1, <3>2 DEF Delivers
  <2> QED BY <1>2, <1>3, <1>6, <2>1 DEF ForwardInv, Named
<1> QED BY <1>9, <1>10, <1>11, <1>12, <1>13, <1>14 DEF ForwardInv


(* What keeps Order: no Consumer gets a publisher or a mid, and transceivers *)
(* keep a publisher that is here after somebody's announcement.              *)
LEMMA OrderStep ==
    ASSUME ForwardInv, PageType, PageType', NEW d \in {0, 1},
           \A q, a : JoinAt(q, a)' => a \in Nat /\ JoinAt(q, a + d),
           \A q \in Publishers, a \in Nat :
              a + d \in DOMAIN inbox /\ HereAfter(q, a + d) => HereAfter(q, a)',
           \A j \in DOMAIN consumers' : /\ j \in DOMAIN consumers
                                        /\ consumers'[j].recvMid = consumers[j].recvMid
                                        /\ consumers'[j].publisher \in {consumers[j].publisher, Nobody},
           \A m \in DOMAIN transceivers, a \in Nat :
              /\ transceivers[m].publisher # Nobody /\ HereAfter(transceivers[m].publisher, a + d)
              => transceivers'[m].publisher = transceivers[m].publisher
    PROVE  Order'
<1>1. ASSUME NEW q \in Publishers, NEW j, Since(q, j)' PROVE Since(q, j)
  BY <1>1, Participants DEF Since
<1>2. ASSUME NEW q \in Publishers, NEW a \in DOMAIN inbox', JoinAt(q, a)',
             NEW j \in DOMAIN consumers', Since(q, j)'
      PROVE  /\ consumers'[j].publisher # Nobody => HereAfter(consumers[j].publisher, a)'
             /\ consumers'[j].recvMid # 0 =>
                   /\ transceivers'[consumers'[j].recvMid].publisher # Nobody
                   /\ HereAfter(transceivers[consumers[j].recvMid].publisher, a)'
  <2>1. a \in Nat /\ JoinAt(q, a + d) /\ a + d \in DOMAIN inbox /\ j \in DOMAIN consumers /\ Since(q, j)
    BY <1>1, <1>2 DEF JoinAt
  <2>2. /\ consumers[j].publisher # Nobody => HereAfter(consumers[j].publisher, a + d)
        /\ consumers[j].recvMid # 0 =>
              /\ transceivers[consumers[j].recvMid].publisher # Nobody
              /\ HereAfter(transceivers[consumers[j].recvMid].publisher, a + d)
    BY <2>1 DEF ForwardInv, Order
  <2>3. ASSUME consumers'[j].publisher # Nobody PROVE HereAfter(consumers[j].publisher, a)'
    <3>1. consumers'[j].publisher = consumers[j].publisher
      BY <2>3
    <3>2. PICK r \in Publishers : r = consumers[j].publisher
      BY <2>1, <2>3, <3>1, Participants
    <3>3. HereAfter(r, a)'
      BY <2>1, <2>2, <2>3, <3>1, <3>2
    <3> QED BY <3>1, <3>2, <3>3 DEF HereAfter, LeftAt
  <2>4. ASSUME consumers'[j].recvMid # 0
        PROVE  /\ transceivers'[consumers'[j].recvMid].publisher # Nobody
               /\ HereAfter(transceivers[consumers[j].recvMid].publisher, a)'
    <3> DEFINE m == consumers[j].recvMid
    <3>1. consumers'[j].recvMid = m /\ m # 0 /\ m \in DOMAIN transceivers
      BY <2>1, <2>4, Participants
    <3>2. transceivers[m].publisher # Nobody /\ HereAfter(transceivers[m].publisher, a + d)
      BY <2>2, <3>1
    <3>3. transceivers'[m].publisher = transceivers[m].publisher
      BY <2>1, <3>1, <3>2
    <3>4. PICK r \in Publishers : r = transceivers[m].publisher
      BY <3>1, <3>2, Participants
    <3>5. HereAfter(r, a)'
      BY <2>1, <3>2, <3>4
    <3> QED BY <3>1, <3>2, <3>3, <3>4, <3>5 DEF HereAfter, LeftAt
  <2> QED BY <2>3, <2>4
<1> QED BY <1>2 DEF Order

(* RemovePeer tells the page of the leaver after everybody it has heard of. *)
LEMMA ForwardRemove ==
    ASSUME ForwardInv, PageInv', NEW p \in Publishers, RemovePeer(p)
    PROVE  ForwardInv'
<1>1. PageInv /\ PageType /\ PageType'
  BY DEF ForwardInv, PageInv
<1> DEFINE msg == [type |-> "left", publisher |-> p, answer |-> <<>>]
<1>2. /\ presence[p] = "in" /\ presence' = [presence EXCEPT ![p] = "gone"]
      /\ UNCHANGED <<existing, adding, transceivers, pending, remote, late, offer>>
      /\ inbox' = Append(inbox, msg)
  BY <1>1, RemoveEffect DEF page
<1>3. /\ DOMAIN consumers' = DOMAIN consumers
      /\ \A i \in DOMAIN consumers : /\ consumers'[i].recvMid = consumers[i].recvMid
                                     /\ consumers'[i].publisher \in {consumers[i].publisher, Nobody}
  BY <1>1, RemoveEffect
<1>4. inbox \in Seq(Message) /\ presence \in [Publishers -> {"out", "announced", "in", "gone"}]
  BY <1>1 DEF PageType
<1>5. msg \in Message /\ msg.type = "left" /\ msg.publisher = p
  BY DEF Message
<1>6. /\ DOMAIN inbox' = DOMAIN inbox \cup {Len(inbox) + 1} /\ DOMAIN inbox = 1..Len(inbox)
      /\ Len(inbox) \in Nat /\ inbox'[Len(inbox) + 1] = msg
      /\ \A a \in DOMAIN inbox : inbox'[a] = inbox[a]
  BY <1>2, <1>4, <1>5, AppendPlaces
<1>7. (Len(inbox) + 1) \notin DOMAIN inbox
  BY <1>6
<1>8. /\ \A q, a : JoinAt(q, a)' <=> JoinAt(q, a)
      /\ \A q, a : LeftAt(q, a)' <=> LeftAt(q, a) \/ (q = p /\ a = Len(inbox) + 1)
      /\ \A a : AnswerAt(a)' <=> AnswerAt(a)
  BY <1>5, <1>6, <1>7 DEF JoinAt, LeftAt, AnswerAt
<1>9. /\ \A q, a : LeftAt(q, a) => a \in DOMAIN inbox
      /\ \A q, a : JoinAt(q, a) => a \in DOMAIN inbox
      /\ \A a : AnswerAt(a) => a \in DOMAIN inbox
  BY DEF LeftAt, JoinAt, AnswerAt
<1>10. /\ presence'[p] = "gone"
       /\ \A q \in Publishers : q # p => presence'[q] = presence[q]
  BY <1>2, <1>4
<1>11. Leaves'
  <2>1. \A a : ~LeftAt(p, a)
    BY <1>2, <1>9 DEF ForwardInv, Leaves
  <2>2. \A q \in Publishers, a, b \in DOMAIN inbox' :
           LeftAt(q, a)' => presence'[q] = "gone" /\ (LeftAt(q, b)' => a = b)
    BY <1>8, <1>9, <1>10, <2>1 DEF ForwardInv, Leaves
  <2>3. \A q \in Publishers, i \in DOMAIN consumers' :
           presence'[q] \in {"out", "announced"} => consumers'[i].publisher # q
    BY <1>1, <1>3, <1>10, Participants DEF ForwardInv, Leaves
  <2> QED BY <2>2, <2>3 DEF Leaves
<1>12. FirstExisting'
  BY <1>2, <1>3 DEF ForwardInv, FirstExisting
<1>13. \A q \in Publishers : Here(q)' => Here(q)
  BY <1>2, <1>6, <1>8, <1>9, <1>10 DEF Here
<1>14. Owns'
  <2>1. \A rm \in offer'.recvMids : Here(rm.publisher)' => transceivers'[rm.mid].publisher = rm.publisher
    BY <1>1, <1>2, <1>13, Participants DEF ForwardInv, Owns
  <2>2. ASSUME NEW i \in DOMAIN consumers', consumers'[i].recvMid # 0,
               consumers'[i].publisher # Nobody, Here(consumers[i].publisher)'
        PROVE  transceivers'[consumers'[i].recvMid].publisher = consumers'[i].publisher
    <3>1. i \in DOMAIN consumers /\ consumers'[i].publisher = consumers[i].publisher
          /\ consumers'[i].recvMid = consumers[i].recvMid
      BY <1>3, <2>2
    <3>2. PICK q \in Publishers : q = consumers[i].publisher
      BY <1>1, <2>2, <3>1, Participants
    <3>3. Here(q)'
      BY <2>2, <3>1, <3>2 DEF Here, LeftAt
    <3> QED BY <1>2, <1>13, <2>2, <3>1, <3>2, <3>3 DEF ForwardInv, Owns
  <2> QED BY <2>1, <2>2 DEF Owns
<1>15. Order'
  <2>1. \A q, a : JoinAt(q, a)' => a \in Nat /\ JoinAt(q, a + 0)
    <3>1. \A a \in DOMAIN inbox : a \in Nat /\ a + 0 = a
      BY <1>6
    <3> QED BY <1>8, <1>9, <3>1
  <2>2. ASSUME NEW q \in Publishers, NEW a \in Nat, a + 0 \in DOMAIN inbox, HereAfter(q, a + 0)
        PROVE  HereAfter(q, a)'
    <3>1. CASE q = p
      <4>1. PICK n \in DOMAIN inbox' : n = Len(inbox) + 1 /\ LeftAt(p, n)'
        BY <1>6, <1>8
      <4>2. a < n
        BY <1>6, <2>2, <4>1
      <4> QED BY <3>1, <4>1, <4>2 DEF HereAfter
    <3>2. CASE q # p
      <4>1. a + 0 = a
        OBVIOUS
      <4> QED BY <1>6, <1>8, <1>10, <2>2, <3>2, <4>1 DEF HereAfter
    <3> QED BY <3>1, <3>2
  <2> QED BY <1>1, <1>2, <1>3, <2>1, <2>2, OrderStep
<1>16. \A q \in Publishers : \A j : Since(q, j)' => Since(q, j)
  BY <1>1, <1>3, Participants DEF Since
<1>17. Earlier'
  BY <1>1, <1>2, <1>3, <1>16, Participants DEF ForwardInv, Earlier
<1>18. Named'
  <2>1. ASSUME NEW i \in DOMAIN consumers', Delivers(i)' PROVE i \in DOMAIN consumers /\ Delivers(i)
    <3>1. i \in DOMAIN consumers /\ consumers'[i].publisher = consumers[i].publisher
          /\ consumers[i].publisher \in Publishers /\ consumers'[i].recvMid = consumers[i].recvMid
      BY <1>1, <1>3, <2>1, Participants DEF Delivers
    <3> QED BY <1>10, <2>1, <3>1 DEF Delivers
  <2> QED BY <1>2, <1>3, <1>6, <1>8, <1>9, <2>1 DEF ForwardInv, Named
<1> QED BY <1>11, <1>12, <1>14, <1>15, <1>17, <1>18 DEF ForwardInv


-----------------------------------------------------------------------------
(* ForwardInv and SendOffer. *)

(* A mid that SendOffer gives is given once, and all others that have it are *)
(* earlier.                                                                  *)
LEMMA BoundIsLast ==
    ASSUME ForwardInv, SendOffer, NEW rm \in offer.recvMids, NEW i \in DOMAIN consumers,
           Bindable(rm) = i, consumers'[i].recvMid = rm.mid
    PROVE  LastOf(consumers', rm.mid, i)
<1>1. PageInv /\ PageType
  BY DEF ForwardInv, PageInv
<1>2. DOMAIN consumers' = DOMAIN consumers
  BY <1>1, BoundEffect
<1>3. i \in Nat /\ i # 0
  BY <1>1, Participants
<1>4. consumers[i].publisher = rm.publisher
  BY <1>1, <1>3, BindableFits
<1>5. ASSUME NEW j \in DOMAIN consumers, consumers'[j].recvMid = rm.mid PROVE j <= i
  <2>1. CASE consumers[j].recvMid = rm.mid
    <3>1. ~Since(rm.publisher, j)
      BY <2>1 DEF ForwardInv, Earlier
    <3>2. ~(i <= j)
      BY <1>4, <3>1 DEF Since
    <3>3. j \in Nat
      BY <1>1, Participants
    <3> QED BY <1>3, <3>2, <3>3
  <2>2. CASE consumers[j].recvMid # rm.mid
    <3>1. PICK other \in offer.recvMids : Bindable(other) = j /\ other.mid = rm.mid
      BY <1>1, <1>5, <2>2, BoundEffect
    <3>2. other = rm
      BY <1>1, <3>1 DEF PageInv, OfferFits
    <3> QED BY <1>3, <3>1, <3>2
  <2> QED BY <2>1, <2>2
<1> QED BY <1>2, <1>5 DEF LastOf

(* SendOffer keeps the order of Consumers: a mid is bound to the last one.    *)
LEMMA ForwardSendOffer ==
    ASSUME ForwardInv, PageInv', SendOffer
    PROVE  ForwardInv'
<1>1. PageInv /\ PageType /\ PageType'
  BY DEF ForwardInv, PageInv
<1>2. /\ offer # NoOffer /\ offer' = NoOffer
      /\ UNCHANGED <<presence, existing, adding, transceivers, pending, remote, late>>
  BY DEF SendOffer, page
<1>3. offer'.recvMids = {}
  BY <1>2 DEF NoOffer
<1>4. /\ DOMAIN consumers' = DOMAIN consumers
      /\ \A i \in DOMAIN consumers :
            /\ consumers'[i].publisher = consumers[i].publisher
            /\ \/ consumers'[i].recvMid = consumers[i].recvMid
               \/ \E rm \in offer.recvMids :
                     /\ Bindable(rm) = i /\ consumers'[i].recvMid = rm.mid
                     /\ rm.publisher = consumers[i].publisher
  BY <1>1, BoundEffect
<1>5. PICK msg \in Message :
         /\ inbox' = Append(inbox, msg) /\ msg.type = "answer"
         /\ DOMAIN msg.answer = DOMAIN offer.sections
         /\ \A m \in (DOMAIN msg.answer) \cap Mids :
               \A i : offer.sections[m] = "recvonly" /\ LastOf(consumers', m, i)
                     => msg.answer[m].ssrc = i
  BY <1>1, AnswerEffect
<1>6. inbox \in Seq(Message)
  BY <1>1 DEF PageType
<1>7. /\ DOMAIN inbox' = DOMAIN inbox \cup {Len(inbox) + 1} /\ (Len(inbox) + 1) \notin DOMAIN inbox
      /\ inbox'[Len(inbox) + 1] = msg
      /\ \A a \in DOMAIN inbox : inbox'[a] = inbox[a]
  BY <1>5, <1>6, AppendPlaces
<1>8. /\ \A a : ~AnswerAt(a)
      /\ \A a : AnswerAt(a)' <=> a = Len(inbox) + 1
  <2>1. \A a : ~AnswerAt(a)
    BY <1>1, <1>2 DEF PageInv, AnswerFits, AnswerAt
  <2> QED BY <1>5, <1>7, <2>1 DEF AnswerAt
<1>9. \A q, a : (JoinAt(q, a)' <=> JoinAt(q, a)) /\ (LeftAt(q, a)' <=> LeftAt(q, a))
  BY <1>5, <1>7 DEF JoinAt, LeftAt
<1>10. \A q, a : (JoinAt(q, a) => a \in DOMAIN inbox) /\ (LeftAt(q, a) => a \in DOMAIN inbox)
  BY DEF JoinAt, LeftAt
<1>11. \A q, a : (Here(q)' <=> Here(q)) /\ (HereAfter(q, a)' <=> HereAfter(q, a))
  BY <1>2, <1>7, <1>9, <1>10 DEF Here, HereAfter
<1>12. \A q, j : Since(q, j)' <=> Since(q, j)
  BY <1>4 DEF Since
<1>13. Leaves'
  BY <1>2, <1>4, <1>9, <1>10 DEF ForwardInv, Leaves
<1>14. FirstExisting'
  BY <1>2 DEF ForwardInv, FirstExisting
<1>15. ASSUME NEW i \in DOMAIN consumers, consumers[i].publisher # Nobody,
              consumers'[i].recvMid # 0, Here(consumers[i].publisher)
       PROVE  transceivers[consumers'[i].recvMid].publisher = consumers[i].publisher
  BY <1>4, <1>15 DEF ForwardInv, Owns
<1>16. Owns'
  BY <1>2, <1>3, <1>4, <1>11, <1>15 DEF Owns
<1>17. Order'
  <2> SUFFICES ASSUME NEW q \in Publishers, NEW a \in DOMAIN inbox, JoinAt(q, a),
                      NEW j \in DOMAIN consumers, Since(q, j)
               PROVE  /\ consumers[j].publisher # Nobody => HereAfter(consumers[j].publisher, a)
                      /\ consumers'[j].recvMid # 0 =>
                            /\ transceivers[consumers'[j].recvMid].publisher # Nobody
                            /\ HereAfter(transceivers[consumers'[j].recvMid].publisher, a)
    BY <1>2, <1>4, <1>9, <1>10, <1>11, <1>12 DEF Order
  <2>1. /\ consumers[j].publisher # Nobody => HereAfter(consumers[j].publisher, a)
        /\ consumers[j].recvMid # 0 =>
              /\ transceivers[consumers[j].recvMid].publisher # Nobody
              /\ HereAfter(transceivers[consumers[j].recvMid].publisher, a)
    BY DEF ForwardInv, Order
  <2>2. CASE consumers'[j].recvMid = consumers[j].recvMid
    BY <2>1, <2>2
  <2>3. ASSUME NEW rm \in offer.recvMids, consumers'[j].recvMid = rm.mid,
               rm.publisher = consumers[j].publisher
        PROVE  /\ transceivers[consumers'[j].recvMid].publisher # Nobody
               /\ HereAfter(transceivers[consumers'[j].recvMid].publisher, a)
    <3>1. consumers[j].publisher \in Publishers /\ consumers[j].publisher # Nobody /\ rm.mid # 0
      BY <1>1, <2>3, Participants
    <3>2. HereAfter(consumers[j].publisher, a)
      BY <2>1, <3>1
    <3>3. Here(consumers[j].publisher)
      BY <3>2 DEF Here, HereAfter
    <3>4. transceivers[rm.mid].publisher = consumers[j].publisher
      BY <1>15, <2>3, <3>1, <3>3
    <3> QED BY <2>3, <3>1, <3>2, <3>4
  <2> QED BY <1>4, <2>1, <2>2, <2>3
<1>18. Earlier'
  <2> SUFFICES ASSUME NEW x \in pending, NEW j \in DOMAIN consumers, consumers'[j].recvMid = x[1]
               PROVE  ~Since(x[2], j)
    BY <1>2, <1>3, <1>4, <1>12 DEF Earlier
  <2> QED BY <1>4 DEF ForwardInv, Earlier
<1>19. Named'
  <2>1. ASSUME NEW i \in DOMAIN consumers, Delivers(i)'
        PROVE  /\ consumers'[i].recvMid \in DOMAIN msg.answer
               /\ msg.answer[consumers'[i].recvMid].ssrc = i
    <3> DEFINE p == consumers[i].publisher
               m == consumers'[i].recvMid
    <3>1. p \in Publishers /\ p # Nobody /\ m # 0 /\ presence[p] = "in"
      BY <1>1, <1>2, <1>4, <2>1, Participants DEF Delivers
    <3>2. transceivers[m].publisher = p
      BY <1>15, <3>1 DEF Here
    <3>3. m \in DOMAIN transceivers /\ m \in Mids
      <4>1. m \in DOMAIN transceivers
        BY <1>1, <1>2, <1>4, <3>1 DEF PageType
      <4> QED BY <1>1, <4>1, MidsOfPage DEF PageInv
    <3>4. m \in DOMAIN offer.sections /\ offer.sections[m] = "recvonly"
      BY <1>1, <1>2, <3>1, <3>2, <3>3 DEF PageInv, OfferFits
    <3>5. LastOf(consumers', m, i)
      <4>1. CASE consumers'[i].recvMid = consumers[i].recvMid
        <5>1. Delivers(i)
          BY <3>1, <4>1 DEF Delivers
        <5>2. remote[m] = i
          BY <1>8, <4>1, <5>1 DEF ForwardInv, Named
        <5>3. i # 0
          BY <1>1, Participants
        <5>4. Known(m)
          BY <3>1, <3>2, <3>3, <5>2, <5>3 DEF Known
        <5> QED BY <1>1, <3>3, <5>2, <5>4, KnownStays
      <4>2. ASSUME NEW rm \in offer.recvMids, Bindable(rm) = i, consumers'[i].recvMid = rm.mid
            PROVE  LastOf(consumers', m, i)
        BY <4>2, BoundIsLast
      <4> QED BY <1>4, <4>1, <4>2
    <3> HIDE DEF m
    <3>6. msg.answer[m].ssrc = i
      BY <1>5, <3>3, <3>4, <3>5
    <3> QED BY <1>5, <3>4, <3>6 DEF m
  <2>2. ~\A a \in DOMAIN inbox' : ~AnswerAt(a)'
    BY <1>7, <1>8
  <2> QED BY <1>4, <1>7, <1>8, <2>1, <2>2 DEF Named
<1> QED BY <1>13, <1>14, <1>16, <1>17, <1>18, <1>19 DEF ForwardInv


-----------------------------------------------------------------------------
(* ForwardInv and the steps of the page. *)

(* A message that is handled is not the end of anybody else's. *)
LEMMA HandledFirst ==
    ASSUME ForwardInv, inbox # <<>>, inbox' = Tail(inbox), UNCHANGED <<presence, consumers>>
    PROVE  /\ Leaves'
           /\ \A q, a : LeftAt(q, a)' => a \in Nat /\ a > 0 /\ LeftAt(q, a + 1)
           /\ \A q \in Publishers : Here(q)' => Here(q)
           /\ \A q \in Publishers, a \in Nat : HereAfter(q, a + 1) => HereAfter(q, a)'
           /\ \A q \in Publishers : LeftAt(q, 1) => ~Here(q)' /\ \A a \in Nat : ~HereAfter(q, a + 1)
<1>1. PageInv
  BY DEF ForwardInv
<1>2. \A q, a : LeftAt(q, a)' => a \in Nat /\ a > 0 /\ LeftAt(q, a + 1)
  BY <1>1, TakeMessage DEF LeftAt, Shifted
<1>3. ASSUME NEW q, NEW b, LeftAt(q, b), b # 1
      PROVE  b \in Nat /\ LeftAt(q, b - 1)' /\ b - 1 \in DOMAIN inbox'
  <2>1. b \in DOMAIN inbox
    BY <1>3 DEF LeftAt
  <2>2. b \in Nat /\ b - 1 \in DOMAIN inbox' /\ b = (b - 1) + 1
    BY <1>1, <1>3, <2>1, TakeMessage
  <2>3. inbox'[b - 1] = inbox[b]
    BY <1>1, <2>2, TakeMessage DEF Shifted
  <2> QED BY <1>3, <2>2, <2>3 DEF LeftAt
<1>4. \A q, a : LeftAt(q, a) => a \in DOMAIN inbox /\ a \in Nat /\ a > 0
  <2>1. \A a \in DOMAIN inbox : a \in Nat /\ a > 0
    BY <1>1 DEF PageInv, PageType
  <2> QED BY <2>1 DEF LeftAt
<1>5. \A q \in Publishers, a, b \in DOMAIN inbox :
         LeftAt(q, a) => presence[q] = "gone" /\ (LeftAt(q, b) => a = b)
  BY DEF ForwardInv, Leaves
<1>6. Leaves'
  <2>1. ASSUME NEW q \in Publishers, NEW a \in DOMAIN inbox', NEW b \in DOMAIN inbox', LeftAt(q, a)'
        PROVE  presence'[q] = "gone" /\ (LeftAt(q, b)' => a = b)
    <3>1. a \in Nat /\ LeftAt(q, a + 1) /\ a + 1 \in DOMAIN inbox
      BY <1>2, <1>4, <2>1
    <3>2. presence[q] = "gone"
      BY <1>5, <3>1
    <3>3. ASSUME LeftAt(q, b)' PROVE a = b
      <4>1. b \in Nat /\ LeftAt(q, b + 1) /\ b + 1 \in DOMAIN inbox
        BY <1>2, <1>4, <3>3
      <4>2. a + 1 = b + 1
        BY <1>5, <3>1, <4>1
      <4> QED BY <3>1, <4>1, <4>2
    <3> QED BY <3>2, <3>3
  <2> QED BY <2>1 DEF ForwardInv, Leaves
<1>7. \A q \in Publishers : Here(q)' => Here(q)
  BY <1>2, <1>4 DEF Here
<1>8. ASSUME NEW q \in Publishers, NEW a \in Nat, HereAfter(q, a + 1) PROVE HereAfter(q, a)'
  <2>1. CASE presence[q] # "gone"
    BY <2>1 DEF HereAfter
  <2>2. ASSUME NEW b, LeftAt(q, b), a + 1 < b PROVE HereAfter(q, a)'
    <3>1. b \in Nat /\ b # 1
      BY <1>4, <2>2
    <3>2. LeftAt(q, b - 1)' /\ b - 1 \in DOMAIN inbox'
      BY <1>3, <2>2, <3>1
    <3>3. a < b - 1
      BY <2>2, <3>1
    <3> QED BY <3>2, <3>3 DEF HereAfter
  <2> QED BY <1>8, <2>1, <2>2 DEF HereAfter
<1>9. ASSUME NEW q \in Publishers, LeftAt(q, 1)
      PROVE  ~Here(q)' /\ \A a \in Nat : ~HereAfter(q, a + 1)
  <2>1. presence[q] = "gone" /\ \A b : LeftAt(q, b) => b = 1
    BY <1>4, <1>5, <1>9
  <2>2. ASSUME NEW b, LeftAt(q, b)' PROVE FALSE
    <3>1. b \in Nat /\ b > 0 /\ b + 1 = 1
      BY <1>2, <2>1, <2>2
    <3> QED BY <3>1
  <2>3. ~Here(q)'
    BY <2>1, <2>2 DEF Here
  <2>4. \A a \in Nat : ~HereAfter(q, a + 1)
    BY <2>1 DEF HereAfter
  <2> QED BY <2>3, <2>4
<1> QED BY <1>2, <1>6, <1>7, <1>8, <1>9

(* The mids of Consumers whose publisher is here stay theirs if transceivers *)
(* keep such publishers.                                                     *)
LEMMA OwnsStep ==
    ASSUME ForwardInv, PageType, UNCHANGED <<consumers, offer>>,
           \A q \in Publishers : Here(q)' => Here(q),
           \A m \in DOMAIN transceivers, q \in Publishers :
              transceivers[m].publisher = q /\ Here(q)' => transceivers'[m].publisher = q
    PROVE  Owns'
<1>1. ASSUME NEW rm \in offer.recvMids, Here(rm.publisher)'
      PROVE  transceivers'[rm.mid].publisher = rm.publisher
  <2>1. PICK q \in Publishers : q = rm.publisher
    BY Participants
  <2>2. Here(q)' /\ rm.mid \in DOMAIN transceivers
    BY <1>1, <2>1, Participants
  <2>3. transceivers[rm.mid].publisher = q
    BY <2>1, <2>2 DEF ForwardInv, Owns
  <2> QED BY <2>1, <2>2, <2>3
<1>2. ASSUME NEW i \in DOMAIN consumers, consumers[i].recvMid # 0,
             consumers[i].publisher # Nobody, Here(consumers[i].publisher)'
      PROVE  transceivers'[consumers[i].recvMid].publisher = consumers[i].publisher
  <2>1. PICK q \in Publishers : q = consumers[i].publisher
    BY <1>2, Participants
  <2>2. Here(q)' /\ consumers[i].recvMid \in DOMAIN transceivers
    BY <1>2, <2>1, Participants DEF Here, LeftAt
  <2>3. transceivers[consumers[i].recvMid].publisher = q
    BY <1>2, <2>1, <2>2 DEF ForwardInv, Owns
  <2> QED BY <2>1, <2>2, <2>3
<1> QED BY <1>1, <1>2 DEF Owns

(* A message that is no answer leaves what is named. *)
LEMMA NamedStep ==
    ASSUME ForwardInv, inbox # <<>>, inbox' = Tail(inbox), Head(inbox).type # "answer",
           UNCHANGED <<presence, consumers, remote>>
    PROVE  Named'
<1>1. PageInv
  BY DEF ForwardInv
<1>2. /\ Shifted(1) /\ Head(inbox) = inbox[1] /\ 1 \in DOMAIN inbox
      /\ \A b \in DOMAIN inbox : b # 1 => b - 1 \in DOMAIN inbox' /\ b = (b - 1) + 1
  BY <1>1, TakeMessage
<1>3. \A a \in DOMAIN inbox' : AnswerAt(a)' => /\ AnswerAt(a + 1) /\ a + 1 \in DOMAIN inbox
                                               /\ inbox'[a] = inbox[a + 1]
  BY <1>2 DEF AnswerAt, Shifted
<1>4. ASSUME \A a \in DOMAIN inbox' : ~AnswerAt(a)', NEW b \in DOMAIN inbox, AnswerAt(b) PROVE FALSE
  <2>1. b # 1
    BY <1>2, <1>4 DEF AnswerAt
  <2>2. b - 1 \in DOMAIN inbox' /\ b = (b - 1) + 1
    BY <1>2, <2>1
  <2>3. inbox'[b - 1] = inbox[b]
    BY <1>2, <2>2 DEF Shifted
  <2> QED BY <1>4, <2>2, <2>3 DEF AnswerAt
<1>5. \A i : Delivers(i)' <=> Delivers(i)
  BY DEF Delivers
<1> QED BY <1>3, <1>4, <1>5 DEF ForwardInv, Named


(* A turn of the loop over existing_peers: nothing has been negotiated. *)
LEMMA ForwardAddExisting ==
    ASSUME ForwardInv, PageInv', NEW p \in Publishers, AddExisting(p)
    PROVE  ForwardInv'
<1>1. PageInv /\ PageType /\ PageType'
  BY DEF ForwardInv, PageInv
<1>2. /\ p \in existing /\ existing' = existing \ {p} /\ adding' = (existing # {p})
      /\ UNCHANGED <<consumers, presence, remote, late, inbox, offer>>
  BY DEF AddExisting, server
<1>3. /\ offer = NoOffer /\ late = 0
      /\ \A i \in DOMAIN consumers : consumers[i].recvMid = 0
  BY <1>2 DEF ForwardInv, FirstExisting
<1>4. offer'.recvMids = {}
  BY <1>2, <1>3 DEF NoOffer
<1>5. \A q, a : (JoinAt(q, a)' <=> JoinAt(q, a)) /\ (LeftAt(q, a)' <=> LeftAt(q, a))
  BY <1>2 DEF JoinAt, LeftAt
<1>6. \A q, a : HereAfter(q, a)' <=> HereAfter(q, a)
  BY <1>2, <1>5 DEF HereAfter
<1>7. \A q, j : Since(q, j)' <=> Since(q, j)
  BY <1>2 DEF Since
<1>8. Leaves'
  BY <1>2, <1>5 DEF ForwardInv, Leaves
<1>9. FirstExisting'
  <2>1. existing' # {} <=> existing # {p}
    BY <1>2
  <2> QED BY <1>2, <1>3, <2>1 DEF FirstExisting
<1>10. Owns'
  BY <1>2, <1>3, <1>4 DEF Owns
<1>11. Order'
  BY <1>2, <1>3, <1>5, <1>6, <1>7 DEF ForwardInv, Order
<1>12. Earlier'
  <2>1. \A x \in pending' : x[1] # 0
    BY <1>1, Participants DEF PageType
  <2> QED BY <1>2, <1>3, <1>4, <2>1 DEF Earlier
<1>13. Named'
  BY <1>2, <1>3 DEF Named, Delivers
<1> QED BY <1>8, <1>9, <1>10, <1>11, <1>12, <1>13 DEF ForwardInv

(* Messages other than answers are handled once existing_peers is done with. *)
LEMMA NothingEarly ==
    ASSUME ForwardInv, MaxLate = 0, Early
    PROVE  existing = {} /\ late' = 0
<1>1. late = 0
  BY DEF ForwardInv, FirstExisting
<1> QED BY <1>1 DEF Early

(* A publisher joins: a transceiver it takes over has served nobody whose    *)
(* Consumers are later than the publisher's own.                             *)
LEMMA ForwardHandleJoin ==
    ASSUME ForwardInv, PageInv', MaxLate = 0, HandleJoin
    PROVE  ForwardInv'
<1>1. PageInv /\ PageType /\ PageType'
  BY DEF ForwardInv, PageInv
<1>2. /\ inbox # <<>> /\ Head(inbox).type = "join" /\ inbox' = Tail(inbox) /\ ~adding /\ Early
      /\ AddBoth(Head(inbox).publisher)
      /\ UNCHANGED <<consumers, presence, existing, adding, remote, offer>>
  BY DEF HandleJoin, server
<1>3. PICK p \in Publishers : AddBoth(p) /\ JoinAt(p, 1) /\ 1 \in DOMAIN inbox
  <2>1. Head(inbox) = inbox[1] /\ inbox[1] \in Message /\ 1 \in DOMAIN inbox
    BY <1>1, <1>2, TakeMessage
  <2> QED BY <1>2, <2>1 DEF Message, JoinAt
<1>4. PICK m1, m2 : AddsTwo(p, m1, m2)
  BY <1>1, <1>3, AddBothEffect
<1>5. existing' = {} /\ late' = 0 /\ ~adding'
  BY <1>2, NothingEarly
<1>6. /\ Leaves' /\ \A q \in Publishers : Here(q)' => Here(q)
      /\ \A q \in Publishers, a \in Nat : HereAfter(q, a + 1) => HereAfter(q, a)'
  BY <1>2, HandledFirst
<1>7. \A m \in DOMAIN transceivers :
         transceivers[m].publisher # Nobody => m \notin {m1, m2} /\ transceivers'[m] = transceivers[m]
  BY <1>1, <1>4 DEF AddsTwo, PageInv, Pool
<1>8. FirstExisting'
  BY <1>5 DEF FirstExisting
<1>9. Owns'
  <2>1. \A m \in DOMAIN transceivers, q \in Publishers :
           transceivers[m].publisher = q => transceivers'[m].publisher = q
    BY <1>7, SdpAssumption
  <2> QED BY <1>1, <1>2, <1>6, <2>1, OwnsStep
<1>10. Order'
  <2>1. \A q, a : JoinAt(q, a)' => a \in Nat /\ JoinAt(q, a + 1)
    BY <1>1, <1>2, MovedUp
  <2>2. \A j \in DOMAIN consumers' : /\ j \in DOMAIN consumers
                                     /\ consumers'[j].recvMid = consumers[j].recvMid
                                     /\ consumers'[j].publisher \in {consumers[j].publisher, Nobody}
    BY <1>2
  <2>3. \A m \in DOMAIN transceivers : transceivers[m].publisher # Nobody =>
           transceivers'[m].publisher = transceivers[m].publisher
    BY <1>7
  <2> QED BY <1>1, <1>6, <2>1, <2>2, <2>3, OrderStep
<1>11. Earlier'
  <2>1. \A x \in pending' : \/ x \in pending
                            \/ x[1] \in {m1, m2} /\ x[2] = p
    BY <1>4 DEF AddsTwo
  <2>2. \A q, j : Since(q, j)' <=> Since(q, j)
    BY <1>2 DEF Since
  <2>3. \A j \in DOMAIN consumers : Since(p, j) =>
           /\ consumers[j].publisher # Nobody => HereAfter(consumers[j].publisher, 1)
           /\ consumers[j].recvMid # 0 => transceivers[consumers[j].recvMid].publisher # Nobody
    BY <1>3 DEF ForwardInv, Order
  <2>4. \A m \in {m1, m2} : m \in DOMAIN transceivers => transceivers[m].publisher = Nobody
    BY <1>1, <1>4 DEF AddsTwo, PageInv, Pool
  <2>5. ASSUME NEW j \in DOMAIN consumers, consumers[j].recvMid \in {m1, m2} PROVE ~Since(p, j)
    <3>1. consumers[j].recvMid # 0
      <4>1. m1 \in DOMAIN transceivers' /\ m2 \in DOMAIN transceivers' /\ transceivers' \in Seq(Transceiver)
        BY <1>4 DEF AddsTwo
      <4>2. 0 \notin DOMAIN transceivers'
        BY <4>1
      <4> QED BY <2>5, <4>1, <4>2
    <3>2. consumers[j].recvMid \in DOMAIN transceivers
      BY <1>1, <3>1, Participants
    <3> QED BY <2>3, <2>4, <2>5, <3>1, <3>2
  <2>6. ASSUME NEW y \in offer.recvMids, y.mid \in {m1, m2}, NEW j \in DOMAIN consumers,
               consumers[j].publisher = y.publisher
        PROVE  ~Since(p, j)
    <3>1. y.publisher \in Publishers /\ y.publisher # Nobody /\ y.mid \in DOMAIN transceivers
      BY <1>1, Participants
    <3>2. transceivers[y.mid].publisher = Nobody
      BY <2>4, <2>6, <3>1
    <3>3. ~Here(y.publisher)
      BY <3>1, <3>2 DEF ForwardInv, Owns
    <3>4. ~HereAfter(consumers[j].publisher, 1)
      BY <2>6, <3>3 DEF Here, HereAfter
    <3> QED BY <2>3, <2>6, <3>1, <3>4
  <2>7. \A x \in pending', j \in DOMAIN consumers' : consumers'[j].recvMid = x[1] => ~Since(x[2], j)'
    BY <1>2, <2>1, <2>2, <2>5 DEF ForwardInv, Earlier
  <2>8. \A x \in offer'.recvMids, j \in DOMAIN consumers' :
          consumers'[j].recvMid = x.mid => ~Since(x.publisher, j)'
    BY <1>2, <2>2 DEF ForwardInv, Earlier
  <2>9. \A x \in pending', y \in offer'.recvMids, j \in DOMAIN consumers' :
          x[1] = y.mid /\ consumers'[j].publisher = y.publisher => ~Since(x[2], j)'
    BY <1>2, <2>1, <2>2, <2>6 DEF ForwardInv, Earlier
  <2> QED BY <2>7, <2>8, <2>9 DEF Earlier
<1>12. Named'
  BY <1>2, NamedStep
<1> QED BY <1>6, <1>8, <1>9, <1>10, <1>11, <1>12 DEF ForwardInv


(* A publisher leaves: of the mids of others nothing changes. *)
LEMMA ForwardHandleLeft ==
    ASSUME ForwardInv, PageInv', MaxLate = 0, HandleLeft
    PROVE  ForwardInv'
<1>1. PageInv /\ PageType /\ PageType'
  BY DEF ForwardInv, PageInv
<1>2. /\ inbox # <<>> /\ inbox' = Tail(inbox) /\ Head(inbox).type = "left"
      /\ UNCHANGED <<consumers, presence, existing, adding, pending, remote, offer>>
  BY <1>1, LeftEffect
<1>3. PICK p \in Publishers : /\ LeftAt(p, 1)
         /\ \A m \in DOMAIN transceivers :
               transceivers[m].publisher # p => transceivers'[m] = transceivers[m]
  BY <1>1, LeftEffect
<1>4. ~adding /\ Early
  BY DEF HandleLeft
<1>5. existing' = {} /\ late' = 0 /\ ~adding'
  BY <1>2, <1>4, NothingEarly
<1>6. /\ Leaves' /\ \A q \in Publishers : Here(q)' => Here(q)
      /\ \A q \in Publishers, a \in Nat : HereAfter(q, a + 1) => HereAfter(q, a)'
      /\ ~Here(p)' /\ \A a \in Nat : ~HereAfter(p, a + 1)
  BY <1>2, <1>3, HandledFirst
<1>7. FirstExisting'
  BY <1>5 DEF FirstExisting
<1>8. Owns'
  <2>1. ASSUME NEW m \in DOMAIN transceivers, NEW q \in Publishers,
               transceivers[m].publisher = q, Here(q)'
        PROVE  transceivers'[m].publisher = q
    <3>1. q # p
      BY <1>6, <2>1
    <3> QED BY <1>3, <2>1, <3>1
  <2> QED BY <1>1, <1>2, <1>6, <2>1, OwnsStep
<1>9. Order'
  <2>1. \A q, a : JoinAt(q, a)' => a \in Nat /\ JoinAt(q, a + 1)
    BY <1>1, <1>2, MovedUp
  <2>2. \A j \in DOMAIN consumers' : /\ j \in DOMAIN consumers
                                     /\ consumers'[j].recvMid = consumers[j].recvMid
                                     /\ consumers'[j].publisher \in {consumers[j].publisher, Nobody}
    BY <1>2
  <2>3. \A m \in DOMAIN transceivers, a \in Nat :
           transceivers[m].publisher # Nobody /\ HereAfter(transceivers[m].publisher, a + 1) =>
              transceivers'[m].publisher = transceivers[m].publisher
    BY <1>3, <1>6
  <2> QED BY <1>1, <1>6, <2>1, <2>2, <2>3, OrderStep
<1>10. Earlier'
  <2>1. \A q, j : Since(q, j)' <=> Since(q, j)
    BY <1>2 DEF Since
  <2> QED BY <1>2, <2>1 DEF ForwardInv, Earlier
<1>11. Named'
  BY <1>2, NamedStep
<1> QED BY <1>6, <1>7, <1>8, <1>9, <1>10, <1>11 DEF ForwardInv

(* An answer is taken over. *)
LEMMA ForwardHandleAnswer ==
    ASSUME ForwardInv, PageInv', HandleAnswer
    PROVE  ForwardInv'
<1>1. PageInv /\ PageType /\ PageType'
  BY DEF ForwardInv, PageInv
<1>2. /\ inbox # <<>> /\ inbox' = Tail(inbox) /\ AnswerAt(1)
      /\ UNCHANGED <<consumers, presence, existing, adding, transceivers, pending, offer>>
      /\ \A a : ~AnswerAt(a)'
  BY <1>1, AnswerTaken
<1>3. \A m \in Mids : remote'[m] = IF m \in DOMAIN inbox[1].answer
                                   THEN inbox[1].answer[m].ssrc ELSE remote[m]
  BY <1>1, AnswerTaken
<1>4. late' = late
  BY DEF HandleAnswer
<1>5. /\ Leaves' /\ \A q \in Publishers : Here(q)' => Here(q)
      /\ \A q \in Publishers, a \in Nat : HereAfter(q, a + 1) => HereAfter(q, a)'
  BY <1>2, HandledFirst
<1>6. FirstExisting'
  BY <1>2, <1>4 DEF ForwardInv, FirstExisting
<1>7. Owns'
  BY <1>1, <1>2, <1>5, OwnsStep
<1>8. Order'
  <2>1. \A q, a : JoinAt(q, a)' => a \in Nat /\ JoinAt(q, a + 1)
    BY <1>1, <1>2, MovedUp
  <2> QED BY <1>1, <1>2, <1>5, <2>1, OrderStep
<1>9. Earlier'
  <2>1. \A q, j : Since(q, j)' <=> Since(q, j)
    BY <1>2 DEF Since
  <2> QED BY <1>2, <2>1 DEF ForwardInv, Earlier
<1>10. Named'
  <2>1. ASSUME NEW i \in DOMAIN consumers, Delivers(i) PROVE remote'[consumers[i].recvMid] = i
    <3>1. consumers[i].recvMid \in Mids
      BY <1>1, <2>1, Participants, MidsOfPage DEF Delivers, PageInv
    <3>2. /\ consumers[i].recvMid \in DOMAIN inbox[1].answer
          /\ inbox[1].answer[consumers[i].recvMid].ssrc = i
      BY <1>2, <2>1 DEF ForwardInv, Named, AnswerAt
    <3> QED BY <1>3, <3>1, <3>2
  <2>2. \A i : Delivers(i)' <=> Delivers(i)
    BY <1>2 DEF Delivers
  <2> QED BY <1>2, <2>1, <2>2 DEF Named
<1> QED BY <1>5, <1>6, <1>7, <1>8, <1>9, <1>10 DEF ForwardInv

(* An offer is made of what is pending. *)
LEMMA ForwardNegotiate ==
    ASSUME ForwardInv, PageInv', Negotiate
    PROVE  ForwardInv'
<1>1. PageInv /\ PageType /\ PageType'
  BY DEF ForwardInv, PageInv
<1>2. /\ ~adding /\ pending # {} /\ pending' = {} /\ \A a : ~AnswerAt(a)
      /\ UNCHANGED <<consumers, presence, existing, adding, remote, inbox>>
      /\ DOMAIN transceivers' = DOMAIN transceivers
  BY <1>1, NegotiateEffect
<1>3. \A m \in DOMAIN transceivers :
         \/ <<m, transceivers'[m].publisher>> \in pending
         \/ (\A q : <<m, q>> \notin pending) /\ transceivers'[m] = transceivers[m]
  BY <1>1, NegotiateEffect
<1>4. offer'.recvMids = {[mid |-> x[1], publisher |-> x[2],
                          kind |-> transceivers[x[1]].kind] : x \in pending}
  BY <1>1, NegotiateEffect
<1>5. late' = late
  BY DEF Negotiate
<1>6. \A rm \in offer'.recvMids : \E x \in pending : rm.mid = x[1] /\ rm.publisher = x[2]
  BY <1>4
<1>7. \A m \in DOMAIN transceivers : transceivers[m].publisher # Nobody =>
         transceivers'[m].publisher = transceivers[m].publisher
  <2>1. \A m, q : <<m, q>> \in pending => transceivers[m].publisher = Nobody
    <3>1. \A m, q : <<m, q>>[1] = m
      OBVIOUS
    <3> QED BY <1>1, <3>1 DEF PageInv, Pool
  <2> QED BY <1>3, <2>1
<1>8. /\ \A q, a : (JoinAt(q, a)' <=> JoinAt(q, a)) /\ (LeftAt(q, a)' <=> LeftAt(q, a))
      /\ \A a : AnswerAt(a)' <=> AnswerAt(a)
  BY <1>2 DEF JoinAt, LeftAt, AnswerAt
<1>9. \A q, a : (Here(q)' <=> Here(q)) /\ (HereAfter(q, a)' <=> HereAfter(q, a))
  BY <1>2, <1>8 DEF Here, HereAfter
<1>10. \A q, j : Since(q, j)' <=> Since(q, j)
  BY <1>2 DEF Since
<1>11. Leaves'
  BY <1>2, <1>8 DEF ForwardInv, Leaves
<1>12. FirstExisting'
  BY <1>2, <1>5 DEF ForwardInv, FirstExisting
<1>13. Owns'
  <2>1. ASSUME NEW rm \in offer'.recvMids PROVE transceivers'[rm.mid].publisher = rm.publisher
    <3>1. PICK x \in pending : rm.mid = x[1] /\ rm.publisher = x[2]
      BY <1>6
    <3>2. x[1] \in DOMAIN transceivers /\ x = <<x[1], x[2]>>
      BY <1>1 DEF PageType
    <3>3. <<x[1], transceivers'[x[1]].publisher>> \in pending
      BY <1>3, <3>2
    <3>4. \A q : <<x[1], q>>[1] = x[1] /\ <<x[1], q>>[2] = q
      OBVIOUS
    <3>5. <<x[1], transceivers'[x[1]].publisher>> = x
      BY <1>1, <3>3, <3>4 DEF PageInv, Pool
    <3>6. transceivers'[x[1]].publisher = x[2]
      BY <3>2, <3>5
    <3> QED BY <3>1, <3>6
  <2>2. ASSUME NEW i \in DOMAIN consumers, consumers[i].recvMid # 0,
               consumers[i].publisher # Nobody, Here(consumers[i].publisher)
        PROVE  transceivers'[consumers[i].recvMid].publisher = consumers[i].publisher
    <3>1. consumers[i].recvMid \in DOMAIN transceivers
      BY <1>1, <2>2, Participants
    <3>2. transceivers[consumers[i].recvMid].publisher = consumers[i].publisher
      BY <2>2 DEF ForwardInv, Owns
    <3> QED BY <1>7, <2>2, <3>1, <3>2
  <2> QED BY <1>2, <1>9, <2>1, <2>2 DEF Owns
<1>14. Order'
  <2>1. \A q, a : JoinAt(q, a)' => a \in Nat /\ JoinAt(q, a + 0)
    <3>1. \A a \in DOMAIN inbox : a \in Nat /\ a + 0 = a
      BY <1>1 DEF PageType
    <3>2. \A q, a : JoinAt(q, a) => a \in DOMAIN inbox
      BY DEF JoinAt
    <3> QED BY <1>8, <3>1, <3>2
  <2>2. \A q \in Publishers, a \in Nat : HereAfter(q, a + 0) => HereAfter(q, a)'
    <3>1. \A a \in Nat : a + 0 = a
      OBVIOUS
    <3> QED BY <1>9, <3>1
  <2> QED BY <1>1, <1>2, <1>7, <2>1, <2>2, OrderStep
<1>15. Earlier'
  BY <1>2, <1>6, <1>10 DEF ForwardInv, Earlier
<1>16. Named'
  BY <1>2, <1>8 DEF ForwardInv, Named, Delivers
<1> QED BY <1>11, <1>12, <1>13, <1>14, <1>15, <1>16 DEF ForwardInv

-----------------------------------------------------------------------------
(* Every step keeps the invariant. *)
LEMMA ForwardStep ==
    ASSUME MaxLate = 0
    PROVE  ForwardInv /\ [Next]_vars => ForwardInv'
<1> SUFFICES ASSUME ForwardInv, [Next]_vars PROVE ForwardInv'
  OBVIOUS
<1>1. PageInv /\ PageInv'
  BY PageStep DEF ForwardInv
<1>2. CASE SendOffer
  BY <1>1, <1>2, ForwardSendOffer
<1>3. CASE HandleJoin \/ HandleLeft \/ HandleAnswer \/ Negotiate
  BY <1>1, <1>3, ForwardHandleJoin, ForwardHandleLeft, ForwardHandleAnswer, ForwardNegotiate
<1>4. ASSUME NEW p \in Publishers, Announce(p) \/ SetupConsumers(p) \/ RemovePeer(p) \/ AddExisting(p)
      PROVE  ForwardInv'
  BY <1>1, <1>4, ForwardAnnounce, ForwardSetup, ForwardRemove, ForwardAddExisting
<1>5. ASSUME NEW p \in Publishers, PublisherOffers(p) PROVE ForwardInv'
  BY <1>1, <1>5, ForwardSame DEF PublisherOffers
<1>6. ASSUME NEW p \in Publishers, NEW k \in Kinds, NEW pt, onRtpPacket(p, k, pt) PROVE ForwardInv'
  BY <1>1, <1>6, PacketEffect, ForwardSame
<1>7. CASE UNCHANGED vars
  BY <1>1, <1>7, ForwardSame DEF vars, server
<1> QED BY <1>2, <1>3, <1>4, <1>5, <1>6, <1>7 DEF Next

(* When existing_peers is dealt with before any message, then however many   *)
(* publishers come and go: of the Consumers that share a mid, the answers    *)
(* name the one through which the Router forwards.  A page that handles      *)
(* messages before init has finished can meet two Consumers of a mid in the  *)
(* other order, as the run sdp_reuse shows, and then it does not hold.       *)
THEOREM ForwardedExpected ==
    ASSUME MaxLate = 0
    PROVE  Spec => []ForwardedIsExpected
<1>1. ForwardInv => ForwardedIsExpected
  <2> SUFFICES ASSUME ForwardInv, ~Unanswered, NEW i \in DOMAIN consumers, consumers[i].active,
                      consumers[i].recvMid # 0, presence[consumers[i].publisher] = "in"
               PROVE  remote[consumers[i].recvMid] = i
    BY DEF ForwardedIsExpected
  <2>1. consumers[i].publisher # Nobody
    BY DEF ForwardInv, PageInv, PageType
  <2>2. Delivers(i)
    BY <2>1 DEF Delivers
  <2>3. \A a \in DOMAIN inbox : ~AnswerAt(a)
    BY DEF Unanswered, AnswerAt
  <2> QED BY <2>2, <2>3 DEF ForwardInv, Named
<1> QED BY <1>1, ForwardInitially, ForwardStep, PTL DEF Spec
=============================================================================
