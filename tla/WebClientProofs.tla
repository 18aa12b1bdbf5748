-------------------------- MODULE WebClientProofs --------------------------
(***************************************************************************)
(* Proofs about the negotiation of the web page, for any number of          *)
(* participants, camera switches, restarts, overlaps, errors and            *)
(* rejections.                                                              *)
(***************************************************************************)
EXTENDS WebClient, FiniteSetTheorems, WellFoundedInduction, TLAPS

(* What an async function may await. *)
Steps == {"off", "media", "create", "local", "answer", "failed"}
LoopSteps == {"off", "create", "local", "answer"}

(* _answerResolver belongs to a function that does await its answer. *)
Awaited == \A t \in Tasks : resolver = t => step[t] = "answer"

(* As long as something is to be offered, the loop will make or is about to  *)
(* record an offer.                                                          *)
Requested == pending # {} \/ needs => LoopOffers \/ step["queue"] = "local"

(* The loop, its flag and what an abort leaves. *)
LoopInv ==
    /\ step["queue"] \in LoopSteps
    /\ queue \in Nat
    /\ renegotiating = (step["queue"] # "off")
    /\ aborted \in BOOLEAN /\ (aborted => step["queue"] = "off")
    /\ Requested

(* What the schedule of the queue rests on. *)
QueueInv ==
    /\ step \in [Tasks -> Steps]
    /\ LoopInv
    /\ Awaited

(* Participants that transceivers have been asked for: those announced later *)
(* at once, those of existing_peers when init has returned.                  *)
Allocated == arrived \cup (IF opened /\ step["init"] = "off" THEN existing ELSE {})

(* init goes on only on a page that has its RTCPeerConnection. *)
OpenFirst == step["init"] # "off" => opened

(* Transceivers are numbered from 0 without a gap, at most one for every     *)
(* participant asked for and one for every time the camera was switched.     *)
Numbered == \E k \in Transceivers : /\ k <= Cardinality(Allocated) + toggles
                                    /\ created \cup {0} = 0..k

(* The counters are numbers within their bounds. *)
Counted == /\ toggles \in Nat /\ restarts \in Nat /\ overlaps \in Nat /\ errors \in Nat
           /\ rejects \in Nat
           /\ toggles <= MaxToggles /\ restarts <= MaxRestarts
           /\ overlaps <= MaxOverlaps /\ errors <= MaxErrors /\ rejects <= MaxRejects

(* What is known of the connection's transceivers. *)
PcInv ==
    /\ Numbered
    /\ OpenFirst
    /\ existing \subseteq Others /\ arrived \subseteq Others
    /\ existing \cap arrived = {}
    /\ pool \subseteq created
    /\ mids \subseteq created /\ local \subseteq mids
    /\ snapshot \in [Tasks -> SUBSET created]
    /\ pending \subseteq Transceivers \X Others

(* What is known of the messages and the remaining variables. *)
WireInv ==
    /\ uplink \in Seq(SUBSET Transceivers)
    /\ downlink \in Seq([type : {"answer", "error"}, lines : SUBSET Transceivers])
    /\ midPeer \in [Transceivers \cup {NullMid} -> Others \cup {Nobody}]
    /\ resolver \in Tasks \cup {NoTask}
    /\ needs \in BOOLEAN /\ camera \in BOOLEAN /\ stable \in BOOLEAN /\ opened \in BOOLEAN
    /\ left \subseteq Others

(* A transceiver is to be offered. *)
Pending(tc) == \E p \in Others : <<tc, p>> \in pending
Wanted(tc) == needs \/ Pending(tc)

(* What is without a mid and was not added too late. *)
Unoffered == created \ (mids \cup tooLate \cup {0})

(* All of that is wanted, and is in the offers that are about to be set: of  *)
(* an ICE restart only what the queue does not have on its list.             *)
LateInv ==
    /\ tooLate \subseteq created \ mids
    /\ \A tc \in Unoffered :
          /\ Wanted(tc)
          /\ step["queue"] = "local" => tc \in snapshot["queue"]
          /\ step["ice"] = "local" => tc \in snapshot["ice"] \/ Pending(tc)

WebInv == QueueInv /\ Counted /\ PcInv /\ WireInv /\ LateInv

-----------------------------------------------------------------------------
(* The renegotiation queue. *)

(* What a step leaves of the queue: "from" is step as the caller leaves it,  *)
(* and only a queue that was off changes what it awaits.                     *)
QueueGoesOn(from) ==
    /\ step' \in [Tasks -> Steps]
    /\ \A t \in Tasks \ {"queue"} : step'[t] = from[t]
    /\ LoopInv'

(* The loop takes the next request unless there is nothing to offer. *)
LEMMA RunQueueEffect ==
    ASSUME NEW n \in Nat, NEW from \in [Tasks -> Steps],
           RunQueue(n, pending', needs', from), needs' \in BOOLEAN,
           pending' # {} \/ needs' => n > 0
    PROVE  QueueGoesOn(from)
<1>1. CASE n > 0 /\ (pending' # {} \/ needs')
  <2>1. /\ queue' = n - 1 /\ renegotiating' = TRUE /\ step' = [from EXCEPT !["queue"] = "create"]
        /\ aborted' = FALSE
    BY <1>1 DEF RunQueue
  <2>2. queue' \in Nat
    BY <1>1, <2>1
  <2>3. /\ step' \in [Tasks -> Steps] /\ step'["queue"] = "create"
        /\ \A t \in Tasks \ {"queue"} : step'[t] = from[t]
    BY <2>1 DEF Tasks, Steps
  <2>4. Requested'
    BY <2>3 DEF Requested, LoopOffers
  <2> QED
    BY <2>1, <2>2, <2>3, <2>4 DEF QueueGoesOn, LoopInv, LoopSteps
<1>2. CASE ~(n > 0 /\ (pending' # {} \/ needs'))
  <2>1. /\ queue' = 0 /\ renegotiating' = FALSE /\ step' = [from EXCEPT !["queue"] = "off"]
        /\ aborted' = FALSE
    BY <1>2 DEF RunQueue
  <2>2. pending' = {} /\ needs' = FALSE
    BY <1>2
  <2> QED
    BY <2>1, <2>2 DEF QueueGoesOn, LoopInv, LoopSteps, Requested, Tasks, Steps
<1> QED
  BY <1>1, <1>2

(* renegotiate() queues a request, or starts the loop. *)
LEMMA RenegotiateEffect ==
    ASSUME QueueInv, NEW from \in [Tasks -> Steps], from["queue"] = step["queue"],
           needs' \in BOOLEAN, Renegotiate(pending', needs', from)
    PROVE  /\ QueueGoesOn(from)
           /\ step["queue"] # "off" => step'["queue"] = step["queue"]
<1>1. queue \in Nat /\ renegotiating = (step["queue"] # "off") /\ step["queue"] \in LoopSteps
  BY DEF QueueInv, LoopInv
<1>2. CASE renegotiating
  <2>1. queue' = queue + 1 /\ step' = from /\ renegotiating' = renegotiating /\ aborted' = FALSE
    BY <1>2 DEF Renegotiate
  <2>2. queue' \in Nat /\ queue' > 0
    BY <1>1, <2>1
  <2>3. step["queue"] # "off" /\ step'["queue"] = step["queue"]
    BY <1>1, <1>2, <2>1
  <2>4. Requested'
    BY <1>1, <2>2, <2>3 DEF Requested, LoopOffers, LoopSteps
  <2>5. renegotiating' = (step'["queue"] # "off")
    BY <1>1, <2>1, <2>3, Zenon
  <2>6. step'["queue"] \in LoopSteps
    BY <1>1, <2>3, Zenon
  <2>7. LoopInv'
    BY <2>1, <2>2, <2>4, <2>5, <2>6, Zenon DEF LoopInv
  <2>8. QueueGoesOn(from)
    BY <2>1, <2>7, Zenon DEF QueueGoesOn
  <2> QED
    BY <2>3, <2>8
<1>3. CASE ~renegotiating
  <2>1. RunQueue(queue + 1, pending', needs', from)
    BY <1>3 DEF Renegotiate
  <2>2. queue + 1 \in Nat /\ queue + 1 > 0
    BY <1>1
  <2>3. QueueGoesOn(from)
    BY <2>1, <2>2, RunQueueEffect
  <2> QED
    BY <1>1, <1>3, <2>3
<1> QED
  BY <1>2, <1>3

(* A step that is done with the queue as QueueGoesOn says keeps QueueInv if  *)
(* _answerResolver stays with a function that awaits its answer.             *)
LEMMA QueueKept ==
    ASSUME NEW from, QueueGoesOn(from), Awaited'
    PROVE  QueueInv'
  BY DEF QueueGoesOn, QueueInv

(* While _answerResolver stays, it stays with a function that awaits. *)
LEMMA AwaitedKept ==
    ASSUME QueueInv, NEW from \in [Tasks -> Steps], QueueGoesOn(from), resolver' = resolver,
           \A t \in Tasks \ {"queue"} : resolver = t => from[t] = step[t],
           step["queue"] # "off" => step'["queue"] = step["queue"]
    PROVE  Awaited'
  BY DEF QueueInv, QueueGoesOn, Awaited, Tasks

(* renegotiate() of an event handler keeps the queue's invariant. *)
LEMMA QueueRenegotiate ==
    ASSUME QueueInv, needs' \in BOOLEAN, resolver' = resolver, Renegotiate(pending', needs', step)
    PROVE  QueueInv'
<1>1. step \in [Tasks -> Steps]
  BY DEF QueueInv
<1>2. QueueGoesOn(step) /\ (step["queue"] # "off" => step'["queue"] = step["queue"])
  BY <1>1, RenegotiateEffect
<1>3. Awaited'
  BY <1>1, <1>2, AwaitedKept
<1> QED
  BY <1>2, <1>3, QueueKept

(* The end of init: the queue is asked for existing_peers, if there are any. *)
LEMMA AfterInitEffect ==
    ASSUME QueueInv, NEW from \in [Tasks -> Steps], from["queue"] = step["queue"],
           needs \in BOOLEAN, needs' = needs, AfterInit(from)
    PROVE  /\ QueueGoesOn(from)
           /\ step["queue"] # "off" => step'["queue"] = step["queue"]
<1>1. CASE existing = {}
  <2>1. step' = from /\ UNCHANGED <<pending, queue, renegotiating, aborted>>
    BY <1>1 DEF AfterInit
  <2> QED
    BY <2>1 DEF QueueInv, QueueGoesOn, LoopInv, Requested, LoopOffers
<1>2. CASE existing # {}
  <2>1. AddRecvTransceivers(existing, from)
    BY <1>2 DEF AfterInit
  <2>2. Renegotiate(pending', needs', from)
    BY <2>1 DEF AddRecvTransceivers
  <2> QED
    BY <2>2, RenegotiateEffect
<1> QED
  BY <1>1, <1>2

(* A step that leaves the queue's variables and _answerResolver alone keeps  *)
(* the queue's invariant, whatever init or a restart go on to await.         *)
LEMMA QueueUntouched ==
    ASSUME QueueInv, UNCHANGED <<queue, renegotiating, aborted, pending>>, needs' => needs,
           needs' \in BOOLEAN,
           NEW t \in Tasks \ {"queue"}, NEW v \in Steps, step' = [step EXCEPT ![t] = v],
           resolver' # t => resolver' = resolver, resolver # t \/ v = "answer", 
           resolver' = t => v = "answer"
    PROVE  QueueInv'
<1>1. /\ step' \in [Tasks -> Steps] /\ step'["queue"] = step["queue"] /\ step'[t] = v
      /\ \A u \in Tasks \ {t} : step'[u] = step[u]
  BY DEF QueueInv, Tasks
<1>2. Awaited'
  BY <1>1 DEF QueueInv, Awaited
<1>3. LoopInv'
  BY <1>1 DEF QueueInv, LoopInv, Requested, LoopOffers
<1> QED
  BY <1>1, <1>2, <1>3 DEF QueueInv

(* The queue is kept in order by every step. *)
LEMMA QueueStep ==
    ASSUME QueueInv, OpenFirst, needs \in BOOLEAN, [Next]_vars
    PROVE  QueueInv'
<1>1. step \in [Tasks -> Steps] /\ Awaited /\ queue \in Nat /\ LoopInv
  BY DEF QueueInv, LoopInv
<1>2. \A t \in Tasks : step[t] # "answer" => resolver # t
  BY <1>1 DEF Awaited
<1>3. /\ "init" \in Tasks \ {"queue"} /\ "ice" \in Tasks \ {"queue"} /\ "queue" \in Tasks
      /\ {"off", "media", "create", "local", "answer", "failed"} \subseteq Steps
  BY DEF Tasks, Steps
<1>4. CASE Joined
  <2>1. resolver # "init" /\ step' = [step EXCEPT !["init"] = "media"]
    BY <1>2, <1>3, <1>4 DEF Joined, OpenFirst
  <2> QED
    BY <1>3, <1>4, <2>1, QueueUntouched DEF Joined, queueVars, midVars
<1>5. ASSUME NEW p \in Others, PeerJoins(p) PROVE QueueInv'
  <2>1. Renegotiate(pending', needs', step)
    BY <1>5 DEF PeerJoins, AddRecvTransceivers
  <2> QED
    BY <1>5, <2>1, QueueRenegotiate DEF PeerJoins
<1>6. ASSUME NEW p \in Others, PeerLeaves(p) PROVE QueueInv'
  <2>1. Renegotiate(pending', needs', step)
    BY <1>6 DEF PeerLeaves
  <2> QED
    BY <1>6, <2>1, QueueRenegotiate DEF PeerLeaves
<1>7. CASE ToggleCamera
  <2>1. needs' = TRUE /\ pending' = pending /\ resolver' = resolver
    BY <1>7 DEF ToggleCamera, midVars
  <2>2. Renegotiate(pending', needs', step)
    BY <1>7, <2>1 DEF ToggleCamera
  <2> QED
    BY <2>1, <2>2, QueueRenegotiate
<1>8. CASE IceRestart
  <2>1. resolver # "ice" /\ step' = [step EXCEPT !["ice"] = "create"]
    BY <1>2, <1>3, <1>8 DEF IceRestart
  <2> QED
    BY <1>3, <1>8, <2>1, QueueUntouched DEF IceRestart, queueVars, midVars
<1>9. CASE MediaReady
  <2>1. resolver # "init" /\ step' = [step EXCEPT !["init"] = "create"]
    BY <1>2, <1>3, <1>9 DEF MediaReady
  <2> QED
    BY <1>3, <1>9, <2>1, QueueUntouched DEF MediaReady, queueVars, midVars
<1>10. ASSUME NEW t \in Tasks, OfferCreated(t) PROVE QueueInv'
  <2>1. /\ step' = [step EXCEPT ![t] = "local"] /\ step[t] = "create" /\ resolver # t
        /\ UNCHANGED <<resolver, queue, renegotiating, aborted, needs, pending>>
    BY <1>2, <1>10 DEF OfferCreated, queueVars, midVars
  <2>2. CASE t = "queue"
    <3>1. /\ step' \in [Tasks -> Steps] /\ step'["queue"] = "local" /\ step["queue"] = "create"
          /\ \A u \in Tasks \ {"queue"} : step'[u] = step[u]
      BY <1>1, <1>3, <2>1, <2>2
    <3>2. Awaited'
      BY <1>1, <2>1, <2>2, <3>1 DEF Awaited
    <3>3. LoopInv'
      BY <1>1, <2>1, <3>1 DEF LoopInv, LoopSteps, Requested, LoopOffers
    <3> QED
      BY <3>1, <3>2, <3>3 DEF QueueInv
  <2>3. CASE t # "queue"
    BY <1>3, <2>1, <2>3, QueueUntouched
  <2> QED
    BY <2>2, <2>3
<1>11. CASE InitLocalSet
  <2>1. step["init"] = "local" /\ resolver # "init" /\ UNCHANGED needs
    BY <1>2, <1>3, <1>11 DEF InitLocalSet, LocalSet
  <2>2. CASE snapshot["init"] # {}
    BY <1>3, <1>11, <2>1, <2>2, QueueUntouched DEF InitLocalSet, SendOffer
  <2>3. CASE snapshot["init"] = {}
    <3> DEFINE from == [step EXCEPT !["init"] = "off"]
    <3>1. AfterInit(from) /\ UNCHANGED resolver
      BY <1>11, <2>3 DEF InitLocalSet
    <3>2. /\ from \in [Tasks -> Steps] /\ from["queue"] = step["queue"]
          /\ \A t \in Tasks \ {"queue"} : resolver = t => from[t] = step[t]
      BY <1>1, <1>3, <2>1
    <3> HIDE DEF from
    <3>3. QueueGoesOn(from) /\ (step["queue"] # "off" => step'["queue"] = step["queue"])
      BY <2>1, <3>1, <3>2, AfterInitEffect
    <3>4. Awaited'
      BY <3>1, <3>2, <3>3, AwaitedKept
    <3> QED
      BY <3>3, <3>4, QueueKept
  <2> QED
    BY <2>2, <2>3
<1>12. CASE QueueLocalSet
  <2>1. /\ step' = [step EXCEPT !["queue"] = "answer"] /\ resolver' = "queue" /\ step["queue"] = "local"
        /\ pending' = {} /\ needs' = FALSE /\ UNCHANGED <<queue, renegotiating, aborted>>
    BY <1>12 DEF QueueLocalSet, SendOffer, LocalSet
  <2>2. step' \in [Tasks -> Steps] /\ step'["queue"] = "answer"
    BY <1>1, <1>3, <2>1
  <2> QED
    BY <1>1, <2>1, <2>2 DEF QueueInv, LoopInv, LoopSteps, Awaited, Requested
<1>13. CASE IceLocalSet
  <2>1. step["ice"] = "local" /\ resolver # "ice"
    BY <1>2, <1>3, <1>13 DEF IceLocalSet, LocalSet
  <2> QED
    BY <1>3, <1>13, <2>1, QueueUntouched DEF IceLocalSet, SendOffer, midVars
<1>14. CASE ServerAnswers \/ ShowError \/ UNCHANGED vars
  <2>1. UNCHANGED <<step, resolver, queue, renegotiating, aborted, needs, pending>>
    BY <1>14 DEF ServerAnswers, ShowError, vars, queueVars, midVars
  <2> QED
    BY <2>1 DEF QueueInv, LoopInv, Awaited, Requested, LoopOffers
<1>15. CASE SetAnswer
  <2>1. resolver' = NoTask /\ needs' = needs
    BY <1>15 DEF SetAnswer
  <2>2. Awaited'
    BY <2>1 DEF Awaited, Tasks, NoTask
  <2>3. CASE resolver = "queue"
    <3>1. RunQueue(queue, pending, needs, step) /\ UNCHANGED pending
      BY <1>15, <2>3 DEF SetAnswer, NoTask
    <3>2. step["queue"] = "answer"
      BY <1>2, <1>3, <2>3
    <3>3. pending # {} \/ needs => queue > 0
      BY <1>1, <3>2 DEF LoopInv, Requested, LoopOffers
    <3>4. QueueGoesOn(step)
      BY <1>1, <2>1, <3>1, <3>3, RunQueueEffect
    <3> QED
      BY <2>2, <3>4, QueueKept
  <2>4. CASE resolver = "init"
    <3> DEFINE from == [step EXCEPT !["init"] = "off"]
    <3>1. AfterInit(from)
      BY <1>15, <2>4 DEF SetAnswer, NoTask
    <3>2. from \in [Tasks -> Steps] /\ from["queue"] = step["queue"]
      BY <1>1, <1>3
    <3> HIDE DEF from
    <3>3. QueueGoesOn(from)
      BY <2>1, <3>1, <3>2, AfterInitEffect
    <3> QED
      BY <2>2, <3>3, QueueKept
  <2>5. CASE resolver \in {"ice", NoTask}
    <3>1. /\ step' = [t \in Tasks |-> IF t = resolver THEN "off" ELSE step[t]]
          /\ UNCHANGED <<queue, renegotiating, aborted, pending>>
      BY <1>15, <2>5 DEF SetAnswer, NoTask
    <3>2. step' \in [Tasks -> Steps] /\ step'["queue"] = step["queue"]
      BY <1>1, <1>3, <2>5, <3>1 DEF NoTask
    <3> QED
      BY <2>1, <2>2, <3>1, <3>2 DEF QueueInv, LoopInv, Requested, LoopOffers
  <2> QED
    BY <1>15, <2>3, <2>4, <2>5 DEF SetAnswer
<1>16. CASE QueueRejected
  <2>1. /\ step["queue"] \in {"create", "local"} /\ step' = [step EXCEPT !["queue"] = "off"]
        /\ renegotiating' = FALSE /\ aborted' = TRUE /\ UNCHANGED <<resolver, queue, needs, pending>>
    BY <1>16 DEF QueueRejected, Rejected, midVars
  <2>2. /\ step' \in [Tasks -> Steps] /\ step'["queue"] = "off" /\ resolver # "queue"
        /\ \A t \in Tasks \ {"queue"} : step'[t] = step[t]
    BY <1>1, <1>2, <1>3, <2>1
  <2> QED
    BY <1>1, <2>1, <2>2 DEF QueueInv, LoopInv, LoopSteps, Awaited, Requested, LoopOffers
<1>17. CASE InitRejected
  <2>1. resolver # "init" /\ step' = [step EXCEPT !["init"] = "failed"]
    BY <1>2, <1>3, <1>17 DEF InitRejected, Rejected
  <2> QED
    BY <1>3, <1>17, <2>1, QueueUntouched DEF InitRejected, Rejected, midVars
<1>18. CASE IceRejected
  <2>1. resolver # "ice" /\ step' = [step EXCEPT !["ice"] = "off"]
    BY <1>2, <1>3, <1>18 DEF IceRejected, Rejected
  <2> QED
    BY <1>3, <1>18, <2>1, QueueUntouched DEF IceRejected, Rejected, midVars
<1> QED
  BY <1>4, <1>5, <1>6, <1>7, <1>8, <1>9, <1>10, <1>11, <1>12, <1>13, <1>14, <1>15, <1>16, <1>17,
     <1>18 DEF Next, Progress

-----------------------------------------------------------------------------
(* Numbers of transceivers. *)

(* A set of natural numbers has its Min among its members. *)
LEMMA MinIsMember ==
    ASSUME NEW S \in SUBSET Nat, S # {}
    PROVE  Min(S) \in S /\ \A y \in S : Min(S) <= y
<1>1. \E x \in S : \A y \in S : ~(<<y, x>> \in OpToRel(<, Nat))
  BY NatLessThanWellFounded, WFMin
<1>2. PICK x \in S : \A y \in S : ~(<<y, x>> \in OpToRel(<, Nat))
  BY <1>1
<1>3. OpToRel(<, Nat) = {ss \in Nat \X Nat : ss[1] < ss[2]}
  BY DEF OpToRel
<1>4. \A y \in S : ~(y < x)
  BY <1>2, <1>3
<1>5. \A y \in S : x <= y
  BY <1>4
<1> QED
  BY <1>5 DEF Min

(* Max of an initial segment of the natural numbers is its end. *)
LEMMA MaxOfSegment ==
    ASSUME NEW k \in Nat
    PROVE  Max(0..k) = k
<1>1. k \in 0..k /\ \A y \in 0..k : k >= y
  OBVIOUS
<1>2. \A x \in 0..k : (\A y \in 0..k : x >= y) => x = k
  BY <1>1
<1> QED
  BY <1>1, <1>2 DEF Max

(* The smaller of two numbers. *)
LEMMA MinOfTwo ==
    ASSUME NEW a \in Nat, NEW b \in Nat
    PROVE  Min({a, b}) \in Nat /\ Min({a, b}) <= a
<1>1. {a, b} \in SUBSET Nat /\ {a, b} # {}
  OBVIOUS
<1>2. Min({a, b}) \in {a, b} /\ Min({a, b}) <= a
  BY <1>1, MinIsMember
<1> QED
  BY <1>2

(* The number of the next transceiver, and the finiteness of the sets. *)
LEMMA Segment ==
    ASSUME PcInv, Counted
    PROVE  \E k \in Nat : /\ k \in Transceivers
                          /\ k <= Cardinality(Allocated) + toggles
                          /\ created \cup {0} = 0..k
                          /\ NextNew = k + 1
                          /\ IsFiniteSet(pool)
                          /\ created \subseteq Transceivers
<1>1. PICK k \in Transceivers : /\ k <= Cardinality(Allocated) + toggles
                                /\ created \cup {0} = 0..k
  BY DEF PcInv, Numbered
<1>2. Cardinality(Others) \in Nat /\ MaxToggles \in Nat
  BY WebClientAssumption, FS_CardinalityType
<1>3. k \in Nat /\ k <= Cardinality(Others) + MaxToggles
  BY <1>2 DEF Transceivers
<1>4. created \subseteq 0..k
  BY <1>1
<1>5. 0..k \subseteq Transceivers
  BY <1>2, <1>3 DEF Transceivers
<1>6. IsFiniteSet(pool)
  <2>1. IsFiniteSet(0..k)
    BY <1>3, FS_Interval
  <2>2. pool \in SUBSET (0..k)
    BY <1>4 DEF PcInv
  <2> QED
    BY <2>1, <2>2, FS_Subset
<1>7. NextNew = k + 1
  BY <1>1, <1>3, MaxOfSegment DEF NextNew
<1> QED
  BY <1>1, <1>3, <1>4, <1>5, <1>6, <1>7

(* As many transceivers as participants asked for and camera switches are    *)
(* within the numbers that Transceivers allows.                              *)
LEMMA WithinTransceivers ==
    ASSUME NEW A \in SUBSET Others, NEW n \in Nat, n <= MaxToggles, NEW k \in Nat,
           k <= Cardinality(A) + n
    PROVE  k \in Transceivers
<1>1. IsFiniteSet(Others) /\ MaxToggles \in Nat
  BY WebClientAssumption
<1>2. /\ Cardinality(A) <= Cardinality(Others)
      /\ Cardinality(A) \in Nat /\ Cardinality(Others) \in Nat
  BY <1>1, FS_Subset, FS_CardinalityType
<1> QED
  BY <1>1, <1>2 DEF Transceivers

(* addRecvTransceiver for participants nothing was asked for yet keeps the   *)
(* numbers without a gap: it takes from the pool before it makes new ones.   *)
LEMMA AllocationNumbers ==
    ASSUME PcInv, Counted, NEW ps \in SUBSET Others, ps \cap Allocated = {},
           Allocated \subseteq Others, NEW f \in Allocations(ps)
    PROVE  /\ \E j \in Transceivers : /\ j <= Cardinality(Allocated \cup ps) + toggles
                                      /\ (created \cup {f[p] : p \in ps}) \cup {0} = 0..j
           /\ {f[p] : p \in ps} \subseteq Transceivers
<1>1. PICK k \in Nat : /\ k <= Cardinality(Allocated) + toggles
                       /\ created \cup {0} = 0..k
                       /\ NextNew = k + 1
                       /\ IsFiniteSet(pool)
  BY Segment
<1>2. /\ IsFiniteSet(ps) /\ IsFiniteSet(Allocated)
      /\ Cardinality(ps) \in Nat /\ Cardinality(Allocated) \in Nat /\ Cardinality(pool) \in Nat
  BY <1>1, WebClientAssumption, FS_Subset, FS_CardinalityType
<1>3. Cardinality(Allocated \cup ps) = Cardinality(Allocated) + Cardinality(ps)
  <2>1. Allocated \cap ps = {}
    OBVIOUS
  <2>2. Cardinality(Allocated \cap ps) = 0
    BY <2>1, FS_EmptySet
  <2>3. Cardinality(Allocated \cup ps)
          = Cardinality(Allocated) + Cardinality(ps) - Cardinality(Allocated \cap ps)
    BY <1>2, FS_Union
  <2> QED
    BY <1>2, <2>2, <2>3
<1>4. PICK reused : reused = Min({Cardinality(ps), Cardinality(pool)})
  OBVIOUS
<1>5. reused \in Nat /\ reused <= Cardinality(ps)
  BY <1>2, <1>4, MinOfTwo
<1>6. PICK j : j = k + Cardinality(ps) - reused
  OBVIOUS
<1>7. j \in Nat /\ j >= k /\ j <= Cardinality(Allocated \cup ps) + toggles
  BY <1>1, <1>2, <1>3, <1>5, <1>6 DEF Counted
<1>8. NextNew..(NextNew + Cardinality(ps) - reused - 1) = (k + 1)..j
  BY <1>1, <1>2, <1>5, <1>6
<1>9. f \in [ps -> pool \cup ((k + 1)..j)] /\ (k + 1)..j \subseteq {f[p] : p \in ps}
  BY <1>4, <1>8 DEF Allocations
<1>10. pool \subseteq 0..k /\ pool \subseteq created
  BY <1>1 DEF PcInv
<1>11. {f[p] : p \in ps} \subseteq pool \cup ((k + 1)..j)
  BY <1>9
<1>12. (0..k) \cup ((k + 1)..j) = 0..j
  BY <1>7
<1>13. (created \cup {f[p] : p \in ps}) \cup {0} = 0..j
  BY <1>1, <1>9, <1>10, <1>11, <1>12
<1>14. Allocated \cup ps \in SUBSET Others
  OBVIOUS
<1>15. \A i \in 0..j : i \in Transceivers
  <2>1. Cardinality(Allocated \cup ps) \in Nat
    BY <1>2, <1>3
  <2> SUFFICES ASSUME NEW i \in 0..j PROVE i \in Transceivers
    OBVIOUS
  <2>2. i \in Nat /\ i <= Cardinality(Allocated \cup ps) + toggles
    BY <1>7, <2>1 DEF Counted
  <2> QED
    BY <1>14, <2>2, WithinTransceivers DEF Counted
<1>16. j \in Transceivers
  BY <1>7, <1>15
<1> QED
  BY <1>7, <1>13, <1>15, <1>16

-----------------------------------------------------------------------------
(* The connection. *)

(* The counters stay within their bounds. *)
LEMMA CountedStep == Counted /\ [Next]_vars => Counted'
<1> SUFFICES ASSUME Counted, [Next]_vars PROVE Counted'
  OBVIOUS
<1>0. /\ MaxToggles \in Nat /\ MaxRestarts \in Nat /\ MaxOverlaps \in Nat /\ MaxErrors \in Nat
      /\ MaxRejects \in Nat
  BY WebClientAssumption
<1>1. CASE UNCHANGED counters
  BY <1>1 DEF Counted, counters
<1>2. CASE Begins /\ UNCHANGED <<toggles, restarts, errors, rejects>>
  BY <1>0, <1>2 DEF Counted, Begins
<1>3. CASE ToggleCamera
  BY <1>0, <1>3 DEF Counted, Begins, ToggleCamera
<1>4. CASE IceRestart
  BY <1>0, <1>4 DEF Counted, IceRestart
<1>5. CASE ServerAnswers
  BY <1>0, <1>5 DEF Counted, ServerAnswers
<1>6. CASE Joined \/ UNCHANGED vars
  BY <1>1, <1>6 DEF Joined, vars
<1>7. ASSUME NEW p \in Others, PeerJoins(p) \/ PeerLeaves(p) PROVE Counted'
  BY <1>2, <1>7 DEF PeerJoins, PeerLeaves
<1>8. CASE Progress /\ ~ServerAnswers
  BY <1>1, <1>8 DEF Progress, MediaReady, OfferCreated, InitLocalSet, QueueLocalSet, IceLocalSet,
                    LocalSet, SetAnswer, ShowError
<1>9. CASE InitRejected \/ QueueRejected \/ IceRejected
  BY <1>0, <1>9 DEF Counted, InitRejected, QueueRejected, IceRejected, Rejected
<1> QED
  BY <1>3, <1>4, <1>5, <1>6, <1>7, <1>8, <1>9 DEF Next

(* A step that makes no transceiver and asks for none. *)
LEMMA PcSame ==
    ASSUME PcInv, UNCHANGED <<created, existing, arrived, toggles>>, Allocated' = Allocated,
           OpenFirst', pool' \subseteq created, mids' \subseteq created, local' \subseteq mids',
           snapshot' \in [Tasks -> SUBSET created], pending' \subseteq Transceivers \X Others
    PROVE  PcInv'
  BY DEF PcInv, Numbered

(* A step that asks for transceivers for the participants ps. *)
LEMMA PcAdds ==
    ASSUME PcInv, Counted, NEW ps \in SUBSET Others, NEW from,
           ps \cap Allocated = {}, AddRecvTransceivers(ps, from),
           Allocated' = Allocated \cup ps, UNCHANGED <<existing, toggles>>,
           OpenFirst', arrived' \subseteq Others, existing \cap arrived' = {},
           UNCHANGED snapshot, mids' \subseteq created, local' \subseteq mids'
    PROVE  PcInv'
<1>1. Allocated \subseteq Others
  BY DEF Allocated, PcInv
<1>2. PICK f \in Allocations(ps) :
         /\ pending' = pending \cup {<<f[p], p>> : p \in ps}
         /\ pool' = pool \ {f[p] : p \in ps}
         /\ created' = created \cup {f[p] : p \in ps}
  BY DEF AddRecvTransceivers
<1>3. /\ \E j \in Transceivers : /\ j <= Cardinality(Allocated \cup ps) + toggles
                                 /\ (created \cup {f[p] : p \in ps}) \cup {0} = 0..j
      /\ {f[p] : p \in ps} \subseteq Transceivers
  BY <1>1, AllocationNumbers
<1>4. Numbered'
  BY <1>2, <1>3 DEF Numbered
<1>5. pending' \subseteq Transceivers \X Others
  <2>1. \A p \in ps : f[p] \in Transceivers /\ p \in Others
    BY <1>3
  <2> QED
    BY <1>2, <2>1 DEF PcInv
<1>6. created \subseteq created' /\ pool' \subseteq created'
  BY <1>2 DEF PcInv
<1>7. snapshot' \in [Tasks -> SUBSET created']
  BY <1>6 DEF PcInv
<1> QED
  BY <1>4, <1>5, <1>6, <1>7 DEF PcInv

(* The "joined" handler's last part, after init. *)
LEMMA PcAfterInit ==
    ASSUME WebInv, NEW from, from = [step EXCEPT !["init"] = "off"], AfterInit(from),
           step["init"] # "off", UNCHANGED <<needs, existing, arrived, toggles, opened, snapshot>>,
           mids' \subseteq created, local' \subseteq mids'
    PROVE  PcInv'
<1>0. /\ QueueInv /\ Counted /\ PcInv /\ needs \in BOOLEAN /\ opened
      /\ existing \subseteq Others /\ arrived \subseteq Others /\ existing \cap arrived = {}
  BY DEF WebInv, WireInv, PcInv, OpenFirst
<1>1. from \in [Tasks -> Steps] /\ from["queue"] = step["queue"] /\ from["init"] = "off"
  BY <1>0 DEF QueueInv, Tasks, Steps
<1>2. QueueGoesOn(from)
  BY <1>0, <1>1, AfterInitEffect
<1>3. step'["init"] = "off"
  BY <1>1, <1>2 DEF QueueGoesOn, Tasks
<1>4. Allocated = arrived /\ Allocated' = arrived \cup existing /\ OpenFirst'
  BY <1>0, <1>3 DEF Allocated, OpenFirst
<1>5. CASE existing = {}
  <2>1. UNCHANGED <<pending, pool, created>>
    BY <1>5 DEF AfterInit
  <2> QED
    BY <1>0, <1>4, <1>5, <2>1, PcSame DEF PcInv
<1>6. CASE existing # {}
  <2>1. AddRecvTransceivers(existing, from)
    BY <1>6 DEF AfterInit
  <2> QED
    BY <1>0, <1>4, <2>1, PcAdds
<1> QED
  BY <1>5, <1>6

(* markTransceiverInactive finds transceivers of the connection. *)
LEMMA MarkedCreated ==
    ASSUME PcInv, Counted, NEW p
    PROVE  Marked(p) \subseteq created
<1>1. PICK k \in Nat : created \cup {0} = 0..k
  BY Segment
<1>2. created \ mids \in SUBSET Nat
  BY <1>1
<1>3. created \ mids # {} => Min(created \ mids) \in created \ mids
  BY <1>2, MinIsMember
<1> QED
  BY <1>3 DEF Marked, PcInv

(* What is known of the connection is kept by every step. *)
LEMMA PcStep == WebInv /\ [Next]_vars => PcInv'
<1> SUFFICES ASSUME WebInv, [Next]_vars PROVE PcInv'
  OBVIOUS
<1>0. /\ QueueInv /\ Counted /\ PcInv /\ needs \in BOOLEAN /\ step \in [Tasks -> Steps]
      /\ opened \in BOOLEAN
  BY DEF WebInv, WireInv, QueueInv
<1>1. /\ OpenFirst /\ pool \subseteq created /\ mids \subseteq created /\ local \subseteq mids
      /\ snapshot \in [Tasks -> SUBSET created] /\ pending \subseteq Transceivers \X Others
      /\ existing \subseteq Others /\ arrived \subseteq Others /\ existing \cap arrived = {}
  BY <1>0 DEF PcInv
<1>2. ASSUME UNCHANGED <<existing, arrived>>, opened => opened', opened' => opened,
             step'["init"] = "off" <=> step["init"] = "off"
      PROVE  Allocated' = Allocated /\ OpenFirst'
  BY <1>1, <1>2 DEF Allocated, OpenFirst
<1>3. "init" \in Tasks /\ "queue" \in Tasks /\ "ice" \in Tasks
  BY DEF Tasks
<1>4. CASE Joined
  <2>1. ~opened /\ opened' /\ step'["init"] = "media" /\ UNCHANGED <<existing, arrived>>
    BY <1>0, <1>3, <1>4 DEF Joined
  <2>2. Allocated' = Allocated /\ OpenFirst'
    BY <2>1 DEF Allocated, OpenFirst
  <2> QED
    BY <1>0, <1>1, <1>4, <2>2, PcSame DEF Joined, midVars, counters
<1>5. ASSUME NEW p \in Others, PeerJoins(p) PROVE PcInv'
  <2>1. Renegotiate(pending', needs', step) /\ needs' = needs
    BY <1>5 DEF PeerJoins, AddRecvTransceivers
  <2>2. QueueGoesOn(step)
    BY <1>0, <2>1, RenegotiateEffect
  <2>3. step'["init"] = step["init"] /\ UNCHANGED <<opened, existing>> /\ arrived' = arrived \cup {p}
    BY <1>3, <1>5, <2>2 DEF QueueGoesOn, PeerJoins
  <2>4. Allocated' = Allocated \cup {p} /\ OpenFirst' /\ {p} \cap Allocated = {}
    BY <1>1, <1>5, <2>3 DEF Allocated, OpenFirst, PeerJoins
  <2>5. arrived' \subseteq Others /\ existing \cap arrived' = {}
    BY <1>1, <1>5, <2>3 DEF PeerJoins
  <2>6. /\ AddRecvTransceivers({p}, step)
        /\ UNCHANGED <<snapshot, mids, local, toggles>>
    BY <1>5 DEF PeerJoins
  <2> QED
    BY <1>0, <1>1, <2>3, <2>4, <2>5, <2>6, PcAdds
<1>6. ASSUME NEW p \in Others, PeerLeaves(p) PROVE PcInv'
  <2>1. Renegotiate(pending', needs', step) /\ needs' = needs
    BY <1>6 DEF PeerLeaves
  <2>2. QueueGoesOn(step)
    BY <1>0, <2>1, RenegotiateEffect
  <2>3. step'["init"] = step["init"]
    BY <1>3, <2>2 DEF QueueGoesOn
  <2>4. pool' \subseteq created
    BY <1>0, <1>1, <1>6, MarkedCreated DEF PeerLeaves
  <2>5. UNCHANGED <<created, mids, local, opened, existing, arrived, toggles, snapshot, pending>>
    BY <1>6 DEF PeerLeaves, pcVars
  <2> QED
    BY <1>0, <1>1, <1>2, <2>3, <2>4, <2>5, PcSame
<1>7. CASE ToggleCamera
  <2>1. /\ Renegotiate(pending', needs', step) /\ needs' = TRUE
        /\ UNCHANGED <<snapshot, pending, pool, opened, mids, local, existing, arrived>>
        /\ toggles' = toggles + 1 /\ toggles < MaxToggles
        /\ \/ created' = created
           \/ created' = created \cup {NextNew}
    BY <1>7 DEF ToggleCamera, midVars
  <2>2. QueueGoesOn(step)
    BY <1>0, <2>1, RenegotiateEffect
  <2>3. step'["init"] = step["init"]
    BY <1>3, <2>2 DEF QueueGoesOn
  <2>4. Allocated' = Allocated /\ OpenFirst'
    BY <1>2, <2>1, <2>3
  <2>5. PICK k \in Nat : /\ k \in Transceivers /\ k <= Cardinality(Allocated) + toggles
                         /\ created \cup {0} = 0..k /\ NextNew = k + 1
    BY <1>0, Segment
  <2>6. Allocated \in SUBSET Others /\ Cardinality(Allocated) \in Nat /\ toggles \in Nat
    <3>1. Allocated \in SUBSET Others
      BY <1>1 DEF Allocated
    <3> QED
      BY <1>0, <3>1, WebClientAssumption, FS_Subset, FS_CardinalityType DEF Counted
  <2>7. Numbered'
    <3>1. CASE created' = created
      <4>1. k <= Cardinality(Allocated') + toggles'
        BY <2>1, <2>4, <2>5, <2>6
      <4> QED
        BY <2>5, <3>1, <4>1 DEF Numbered
    <3>2. CASE created' = created \cup {NextNew}
      <4>1. k + 1 \in Nat /\ k + 1 <= Cardinality(Allocated) + (toggles + 1)
        BY <2>5, <2>6
      <4>2. toggles + 1 \in Nat /\ toggles + 1 <= MaxToggles
        BY <2>1, <2>6, WebClientAssumption
      <4>3. k + 1 \in Transceivers
        BY <2>6, <4>1, <4>2, WithinTransceivers
      <4>4. created' \cup {0} = 0..(k + 1)
        <5>1. (0..k) \cup {k + 1} = 0..(k + 1)
          BY <2>5
        <5> QED
          BY <2>5, <3>2, <5>1
      <4> QED
        BY <2>1, <2>4, <4>1, <4>3, <4>4 DEF Numbered
    <3> QED
      BY <2>1, <3>1, <3>2
  <2>8. created \subseteq created'
    BY <2>1
  <2> QED
    BY <1>1, <2>1, <2>4, <2>7, <2>8 DEF PcInv
<1>8. CASE IceRestart
  <2>1. step'["init"] = step["init"]
    BY <1>0, <1>3, <1>8 DEF IceRestart
  <2> QED
    BY <1>0, <1>1, <1>2, <1>8, <2>1, PcSame DEF IceRestart, pcVars, midVars
<1>9. CASE MediaReady
  <2>1. /\ step["init"] = "media" /\ step'["init"] = "create"
        /\ UNCHANGED <<snapshot, pending, pool, opened, mids, local, existing, arrived, toggles>>
        /\ created' \in {created, created \cup {0}}
    BY <1>0, <1>3, <1>9 DEF MediaReady, midVars, counters
  <2>2. Allocated' = Allocated /\ OpenFirst'
    BY <1>2, <2>1
  <2>3. Numbered'
    BY <1>0, <2>1, <2>2 DEF Numbered, PcInv
  <2> QED
    BY <1>1, <2>1, <2>2, <2>3 DEF PcInv
<1>10. ASSUME NEW t \in Tasks, OfferCreated(t) PROVE PcInv'
  <2>1. step'["init"] = "off" <=> step["init"] = "off"
    BY <1>0, <1>3, <1>10 DEF OfferCreated
  <2>2. snapshot' \in [Tasks -> SUBSET created]
    BY <1>1, <1>10 DEF OfferCreated
  <2> QED
    BY <1>0, <1>1, <1>2, <1>10, <2>1, <2>2, PcSame DEF OfferCreated, pcVars, midVars, counters
<1>11. ASSUME NEW t \in Tasks, LocalSet(t) PROVE mids' \subseteq created /\ local' \subseteq mids'
  BY <1>1, <1>11 DEF LocalSet
<1>12. ASSUME NEW t \in Tasks, LocalSet(t), SendOffer(t), UNCHANGED <<created, pool>>,
              pending' \subseteq pending
       PROVE  PcInv'
  <2>1. step'["init"] = "off" <=> step["init"] = "off"
    BY <1>0, <1>3, <1>12 DEF LocalSet, SendOffer
  <2>2. snapshot' \in [Tasks -> SUBSET created]
    BY <1>1, <1>12 DEF SendOffer
  <2>3. UNCHANGED <<existing, arrived, opened, toggles>>
    BY <1>12 DEF LocalSet, counters
  <2> QED
    BY <1>0, <1>1, <1>2, <1>11, <1>12, <2>1, <2>2, <2>3, PcSame
<1>13. CASE InitLocalSet
  <2>1. CASE snapshot["init"] # {}
    BY <1>3, <1>12, <1>13, <2>1 DEF InitLocalSet
  <2>2. CASE snapshot["init"] = {}
    <3>1. /\ AfterInit([step EXCEPT !["init"] = "off"]) /\ step["init"] # "off"
          /\ UNCHANGED <<needs, existing, arrived, toggles, opened, snapshot>>
      BY <1>13, <2>2 DEF InitLocalSet, LocalSet, counters
    <3> QED
      BY <1>3, <1>11, <1>13, <3>1, PcAfterInit DEF InitLocalSet
  <2> QED
    BY <2>1, <2>2
<1>14. CASE QueueLocalSet \/ IceLocalSet
  BY <1>3, <1>12, <1>14 DEF QueueLocalSet, IceLocalSet, midVars
<1>15. CASE ServerAnswers \/ ShowError \/ UNCHANGED vars
  BY <1>0, <1>1, <1>2, <1>15, PcSame DEF ServerAnswers, ShowError, vars, pcVars, midVars, counters
<1>16. CASE SetAnswer
  <2>1. UNCHANGED <<snapshot, needs, opened, mids, local, existing, arrived, toggles>>
    BY <1>16 DEF SetAnswer, counters
  <2>2. CASE resolver = "init"
    <3>1. AfterInit([step EXCEPT !["init"] = "off"])
      BY <1>16, <2>2 DEF SetAnswer, NoTask
    <3>2. step["init"] # "off"
      BY <1>0, <1>3, <2>2 DEF QueueInv, Awaited
    <3> QED
      BY <1>1, <2>1, <3>1, <3>2, PcAfterInit
  <2>3. CASE resolver # "init"
    <3>1. step'["init"] = step["init"] /\ UNCHANGED <<pending, pool, created>>
      BY <1>0, <1>3, <1>16, <2>3 DEF SetAnswer, RunQueue, NoTask
    <3> QED
      BY <1>0, <1>1, <1>2, <2>1, <3>1, PcSame
  <2> QED
    BY <2>2, <2>3
<1>17. ASSUME NEW t \in Tasks, Rejected(t), step'["init"] = "off" <=> step["init"] = "off"
       PROVE  PcInv'
  <2>1. snapshot' \in [Tasks -> SUBSET created]
    BY <1>1, <1>17 DEF Rejected
  <2> QED
    BY <1>0, <1>1, <1>2, <1>17, <2>1, PcSame DEF Rejected, pcVars, midVars
<1>18. CASE InitRejected \/ QueueRejected \/ IceRejected
  <2>1. PICK t \in Tasks : Rejected(t) /\ (step'["init"] = "off" <=> step["init"] = "off")
    BY <1>0, <1>3, <1>18 DEF InitRejected, QueueRejected, IceRejected, Rejected
  <2> QED
    BY <1>17, <2>1
<1> QED
  BY <1>4, <1>5, <1>6, <1>7, <1>8, <1>9, <1>10, <1>13, <1>14, <1>15, <1>16, <1>18 DEF Next, Progress

-----------------------------------------------------------------------------
(* Messages, _midPeerMap and flags. *)

(* QueueLocalSet records a participant or nobody under every mid. *)
LEMMA MidsRecorded ==
    ASSUME midPeer \in [Transceivers \cup {NullMid} -> Others \cup {Nobody}],
           pending \subseteq Transceivers \X Others, QueueLocalSet
    PROVE  midPeer' \in [Transceivers \cup {NullMid} -> Others \cup {Nobody}]
<1> DEFINE mapped == {x \in pending : x[1] \in mids'}
           nulls == {x[2] : x \in pending \ mapped}
<1>1. PICK q \in IF nulls = {} THEN {midPeer[NullMid]} ELSE nulls :
         midPeer' = [m \in DOMAIN midPeer |->
                       IF m = NullMid THEN q
                       ELSE IF \E x \in mapped : x[1] = m THEN (CHOOSE x \in mapped : x[1] = m)[2]
                       ELSE midPeer[m]]
  BY DEF QueueLocalSet
<1>2. \A x \in pending : x[2] \in Others
  OBVIOUS
<1>3. q \in Others \cup {Nobody}
  <2>1. CASE nulls = {}
    BY <1>1, <2>1
  <2>2. CASE nulls # {}
    BY <1>1, <1>2, <2>2
  <2> QED
    BY <2>1, <2>2
<1>4. \A m : (\E x \in mapped : x[1] = m) => (CHOOSE x \in mapped : x[1] = m) \in mapped
  OBVIOUS
<1>5. \A m : (\E x \in mapped : x[1] = m) => (CHOOSE x \in mapped : x[1] = m)[2] \in Others
  BY <1>2, <1>4
<1> HIDE DEF mapped, nulls
<1>6. DOMAIN midPeer = Transceivers \cup {NullMid}
  OBVIOUS
<1> QED
  BY <1>1, <1>3, <1>5, <1>6

(* Messages carry lines of transceivers, and flags stay flags. *)
LEMMA WireStep == WebInv /\ [Next]_vars => WireInv'
<1> SUFFICES ASSUME WebInv, [Next]_vars PROVE WireInv'
  OBVIOUS
<1>0. QueueInv /\ Counted /\ PcInv /\ WireInv
  BY DEF WebInv
<1>1. created \subseteq Transceivers
  BY <1>0, Segment
<1>2. \A t \in Tasks : snapshot[t] \in SUBSET Transceivers
  BY <1>0, <1>1 DEF PcInv
<1>3. CASE Joined
  BY <1>0, <1>3 DEF Joined, WireInv, queueVars, midVars, wire
<1>4. ASSUME NEW p \in Others, PeerJoins(p) PROVE WireInv'
  BY <1>0, <1>4 DEF PeerJoins, WireInv, wire
<1>5. ASSUME NEW p \in Others, PeerLeaves(p) PROVE WireInv'
  <2>1. midPeer' \in [Transceivers \cup {NullMid} -> Others \cup {Nobody}]
    BY <1>0, <1>5 DEF PeerLeaves, WireInv
  <2> QED
    BY <1>0, <1>5, <2>1 DEF PeerLeaves, WireInv, wire, pcVars
<1>6. CASE ToggleCamera
  BY <1>0, <1>6 DEF ToggleCamera, WireInv, wire, midVars
<1>7. CASE IceRestart \/ UNCHANGED vars
  BY <1>0, <1>7 DEF IceRestart, WireInv, vars, wire, midVars, queueVars, pcVars
<1>8. CASE MediaReady
  BY <1>0, <1>8 DEF MediaReady, WireInv, wire, midVars, queueVars
<1>9. ASSUME NEW t \in Tasks, OfferCreated(t) PROVE WireInv'
  BY <1>0, <1>9 DEF OfferCreated, WireInv, wire, midVars, queueVars, pcVars
<1>10. ASSUME NEW t \in Tasks, LocalSet(t),
              \/ SendOffer(t)
              \/ UNCHANGED <<resolver, uplink>>,
              midPeer' \in [Transceivers \cup {NullMid} -> Others \cup {Nobody}],
              needs' \in BOOLEAN
       PROVE  WireInv'
  <2>1. uplink' \in Seq(SUBSET Transceivers) /\ resolver' \in Tasks \cup {NoTask}
    <3>1. uplink \in Seq(SUBSET Transceivers) /\ resolver \in Tasks \cup {NoTask}
      BY <1>0 DEF WireInv
    <3>2. snapshot[t] \in SUBSET Transceivers
      BY <1>2
    <3>3. CASE SendOffer(t)
      <4>1. uplink' = Append(uplink, snapshot[t]) /\ resolver' = t
        BY <3>3 DEF SendOffer
      <4> QED
        BY <3>1, <3>2, <4>1
    <3> QED
      BY <1>10, <3>1, <3>3
  <2> QED
    BY <1>0, <1>10, <2>1 DEF LocalSet, WireInv
<1>11. CASE InitLocalSet
  <2>1. LocalSet("init") /\ (SendOffer("init") \/ UNCHANGED <<resolver, uplink>>)
    BY <1>11 DEF InitLocalSet
  <2> QED
    BY <1>0, <1>10, <1>11, <2>1 DEF InitLocalSet, WireInv, Tasks
<1>12. CASE QueueLocalSet
  <2>1. midPeer' \in [Transceivers \cup {NullMid} -> Others \cup {Nobody}]
    BY <1>0, <1>12, MidsRecorded DEF WireInv, PcInv
  <2>2. LocalSet("queue") /\ SendOffer("queue") /\ needs' = FALSE
    BY <1>12 DEF QueueLocalSet
  <2> QED
    BY <1>10, <2>1, <2>2 DEF Tasks
<1>13. CASE IceLocalSet
  <2>1. LocalSet("ice") /\ SendOffer("ice") /\ needs' = FALSE /\ UNCHANGED midPeer
    BY <1>13 DEF IceLocalSet, midVars
  <2> QED
    BY <1>0, <1>10, <2>1 DEF WireInv, Tasks
<1>14. CASE ServerAnswers
  <2>1. /\ uplink \in Seq(SUBSET Transceivers) /\ uplink # <<>> /\ uplink' = Tail(uplink)
        /\ UNCHANGED <<resolver, needs, midPeer, stable, opened, camera, left>>
    BY <1>0, <1>14 DEF ServerAnswers, WireInv, queueVars, midVars, pcVars
  <2>2. Head(uplink) \in SUBSET Transceivers /\ uplink' \in Seq(SUBSET Transceivers)
    BY <2>1
  <2>3. \E m \in [type : {"answer", "error"}, lines : SUBSET Transceivers] :
           downlink' = Append(downlink, m)
    BY <1>14, <2>2 DEF ServerAnswers
  <2>4. downlink' \in Seq([type : {"answer", "error"}, lines : SUBSET Transceivers])
    BY <1>0, <2>3 DEF WireInv
  <2> QED
    BY <1>0, <2>1, <2>2, <2>4 DEF WireInv
<1>15. CASE SetAnswer
  <2>1. /\ downlink # <<>> /\ downlink' = Tail(downlink)
        /\ stable' \in BOOLEAN /\ resolver' = NoTask
        /\ UNCHANGED <<uplink, needs, midPeer, opened, camera, left>>
    BY <1>0, <1>15 DEF SetAnswer, WireInv
  <2>2. downlink' \in Seq([type : {"answer", "error"}, lines : SUBSET Transceivers])
    BY <1>0, <2>1 DEF WireInv
  <2> QED
    BY <1>0, <2>1, <2>2 DEF WireInv
<1>16. CASE ShowError
  <2>1. downlink' \in Seq([type : {"answer", "error"}, lines : SUBSET Transceivers])
    BY <1>0, <1>16 DEF ShowError, WireInv
  <2> QED
    BY <1>0, <1>16, <2>1 DEF ShowError, WireInv, queueVars, midVars, pcVars
<1>17. CASE InitRejected \/ QueueRejected \/ IceRejected
  <2>1. UNCHANGED <<uplink, downlink, midPeer, resolver, needs, camera, stable, opened, left>>
    BY <1>17 DEF InitRejected, QueueRejected, IceRejected, Rejected, wire, midVars, pcVars
  <2> QED
    BY <1>0, <2>1 DEF WireInv
<1> QED
  BY <1>3, <1>4, <1>5, <1>6, <1>7, <1>8, <1>9, <1>11, <1>12, <1>13, <1>14, <1>15, <1>16, <1>17
  DEF Next, Progress

-----------------------------------------------------------------------------
(* What is without a mid. *)

(* A step that adds no transceiver and takes nothing off the list, after     *)
(* which no other offer waits to be set.                                     *)
LEMMA LateSame ==
    ASSUME LateInv, UNCHANGED <<created, mids, tooLate, pending, snapshot>>, needs => needs',
           step'["queue"] = "local" => step["queue"] = "local",
           step'["ice"] = "local" => step["ice"] = "local"
    PROVE  LateInv'
  BY DEF LateInv, Unoffered, Wanted, Pending

(* The loop and the functions beside it, when renegotiate() was called. *)
LEMMA RenegotiateSteps ==
    ASSUME QueueInv, NEW from \in [Tasks -> Steps], from["queue"] = step["queue"],
           needs' \in BOOLEAN, Renegotiate(pending', needs', from)
    PROVE  /\ step'["queue"] = "local" => step["queue"] = "local"
           /\ step'["ice"] = from["ice"]
<1>1. "ice" \in Tasks \ {"queue"} /\ "queue" \in Tasks
  BY DEF Tasks
<1>2. CASE renegotiating
  BY <1>2 DEF Renegotiate
<1>3. CASE ~renegotiating
  <2>1. step' = [from EXCEPT !["queue"] = step'["queue"]] /\ step'["queue"] \in {"create", "off"}
    BY <1>1, <1>3 DEF Renegotiate, RunQueue
  <2> QED
    BY <1>1, <2>1
<1> QED
  BY <1>2, <1>3

(* Transceivers are added: they are pending, or too late for the loop.       *)
LEMMA LateAdds ==
    ASSUME QueueInv, LateInv, needs \in BOOLEAN, needs' = needs,
           NEW from \in [Tasks -> Steps], from["queue"] = step["queue"], from["ice"] = step["ice"],
           NEW ps \in SUBSET Others, AddRecvTransceivers(ps, from), UNCHANGED <<mids, snapshot>>
    PROVE  LateInv'
<1>1. PICK f \in Allocations(ps) :
         /\ pending' = pending \cup {<<f[p], p>> : p \in ps}
         /\ created' = created \cup {f[p] : p \in ps}
         /\ tooLate' = IF step["queue"] = "local" THEN tooLate \cup ({f[p] : p \in ps} \ mids)
                       ELSE tooLate \ {f[p] : p \in ps}
         /\ Renegotiate(pending', needs', from)
  BY DEF AddRecvTransceivers
<1>2. /\ step'["queue"] = "local" => step["queue"] = "local"
      /\ step'["ice"] = step["ice"]
  BY <1>1, RenegotiateSteps
<1>3. \A tc \in {f[p] : p \in ps} : \E p \in Others : <<tc, p>> \in pending'
  BY <1>1
<1>4. pending \subseteq pending'
  BY <1>1
<1> HIDE DEF Allocations
<1>5. tooLate' \subseteq created' \ mids'
  BY <1>1 DEF LateInv
<1>6. ASSUME NEW tc \in Unoffered'
      PROVE  (/\ Wanted(tc)
              /\ step["queue"] = "local" => tc \in snapshot["queue"]
              /\ step["ice"] = "local" => tc \in snapshot["ice"] \/ Pending(tc))'
  <2>1. CASE tc \in {f[p] : p \in ps}
    <3>1. step["queue"] # "local"
      BY <1>1, <1>6, <2>1 DEF Unoffered
    <3> QED
      BY <1>2, <1>3, <2>1, <3>1 DEF Wanted, Pending
  <2>2. CASE tc \notin {f[p] : p \in ps}
    <3>1. tc \in Unoffered
      BY <1>1, <1>6, <2>2 DEF Unoffered
    <3> QED
      BY <1>2, <1>4, <3>1 DEF LateInv, Wanted, Pending
  <2> QED
    BY <2>1, <2>2
<1> QED
  BY <1>5, <1>6 DEF LateInv

(* init is over: nothing is added, or transceivers for existing_peers. *)
LEMMA LateAfterInit ==
    ASSUME QueueInv, LateInv, needs \in BOOLEAN, needs' = needs, existing \subseteq Others,
           AfterInit([step EXCEPT !["init"] = "off"]), UNCHANGED <<mids, snapshot>>
    PROVE  LateInv'
<1> DEFINE from == [step EXCEPT !["init"] = "off"]
<1>1. from \in [Tasks -> Steps] /\ from["queue"] = step["queue"] /\ from["ice"] = step["ice"]
  BY DEF QueueInv, Tasks, Steps
<1>2. AfterInit(from)
  OBVIOUS
<1> HIDE DEF from
<1>3. CASE existing = {}
  <2>1. step' = from /\ UNCHANGED <<created, tooLate, pending>>
    BY <1>2, <1>3 DEF AfterInit
  <2> QED
    BY <1>1, <2>1, LateSame
<1>4. CASE existing # {}
  BY <1>1, <1>2, <1>4, LateAdds DEF AfterInit
<1> QED
  BY <1>3, <1>4

(* An offer is set: what is in it has a mid. *)
LEMMA LateSet ==
    ASSUME QueueInv, LateInv, NEW t \in Tasks, LocalSet(t), SendOffer(t), UNCHANGED created,
           tooLate' = tooLate \ snapshot[t],
           \A tc \in Unoffered \ snapshot[t] : Wanted(tc)' /\ (Pending(tc) => Pending(tc)')
    PROVE  LateInv'
<1>1. mids' = mids \cup snapshot[t]
  BY DEF LocalSet
<1>2. /\ \A u \in Tasks \ {t} : step'[u] = step[u] /\ snapshot'[u] = snapshot[u]
      /\ step'[t] = "answer"
  BY DEF SendOffer, QueueInv
<1>3. tooLate' \subseteq created' \ mids'
  BY <1>1 DEF LateInv
<1>4. Unoffered' \subseteq Unoffered \ snapshot[t]
  BY <1>1 DEF Unoffered
<1> QED
  BY <1>2, <1>3, <1>4 DEF LateInv, Tasks

(* Every step keeps it. *)
LEMMA LateStep == WebInv /\ [Next]_vars => LateInv'
<1> SUFFICES ASSUME WebInv, [Next]_vars PROVE LateInv'
  OBVIOUS
<1>0. /\ QueueInv /\ LateInv /\ needs \in BOOLEAN /\ step \in [Tasks -> Steps]
      /\ existing \subseteq Others /\ "init" \in Tasks /\ "queue" \in Tasks /\ "ice" \in Tasks
      /\ snapshot \in [Tasks -> SUBSET created] /\ mids \subseteq created
  BY DEF WebInv, QueueInv, WireInv, PcInv, Tasks
<1>1. CASE Joined
  BY <1>0, <1>1, LateSame DEF Joined, midVars, queueVars
<1>2. ASSUME NEW p \in Others, PeerJoins(p) PROVE LateInv'
  BY <1>0, <1>2, LateAdds DEF PeerJoins
<1>3. ASSUME NEW p \in Others, PeerLeaves(p) PROVE LateInv'
  <2>1. Renegotiate(pending', needs', step) /\ UNCHANGED <<created, mids, tooLate, pending, snapshot, needs>>
    BY <1>3 DEF PeerLeaves, pcVars
  <2>2. /\ step'["queue"] = "local" => step["queue"] = "local"
        /\ step'["ice"] = step["ice"]
    BY <1>0, <2>1, RenegotiateSteps
  <2> QED
    BY <1>0, <2>1, <2>2, LateSame
<1>4. CASE ToggleCamera
  <2>1. /\ Renegotiate(pending', needs', step) /\ needs' = TRUE
        /\ UNCHANGED <<snapshot, pending, mids>>
    BY <1>4 DEF ToggleCamera, midVars
  <2>2. /\ step'["queue"] = "local" => step["queue"] = "local"
        /\ step'["ice"] = step["ice"]
    BY <1>0, <2>1, RenegotiateSteps
  <2>3. NextNew \notin created
    <3>1. PICK k \in Nat : created \cup {0} = 0..k /\ NextNew = k + 1
      BY Segment DEF WebInv
    <3> QED
      BY <3>1
  <2>4. CASE camera
    <3>1. UNCHANGED <<created, tooLate>>
      BY <1>4, <2>4 DEF ToggleCamera
    <3> QED
      BY <1>0, <2>1, <2>2, <3>1, LateSame
  <2>5. CASE ~camera
    <3>1. /\ created' = created \cup {NextNew}
          /\ tooLate' = IF "local" \in {step["queue"], step["ice"]}
                        THEN tooLate \cup {NextNew} ELSE tooLate
      BY <1>4, <2>5 DEF ToggleCamera
    <3>2. tooLate' \subseteq created' \ mids'
      BY <1>0, <2>1, <2>3, <3>1 DEF LateInv
    <3>3. ASSUME NEW tc \in Unoffered', tc # NextNew PROVE tc \in Unoffered
      BY <2>1, <3>1, <3>3 DEF Unoffered
    <3>4. NextNew \in Unoffered' => step["queue"] # "local" /\ step["ice"] # "local"
      BY <3>1 DEF Unoffered
    <3>5. \A tc : Wanted(tc)' /\ (Pending(tc) => Pending(tc)')
      BY <2>1 DEF Wanted, Pending
    <3> QED
      BY <1>0, <2>1, <2>2, <3>2, <3>3, <3>4, <3>5 DEF LateInv
  <2> QED
    BY <2>4, <2>5
<1>5. CASE IceRestart
  <2>1. /\ step'["queue"] = step["queue"] /\ step'["ice"] = "create"
        /\ UNCHANGED <<created, mids, tooLate, pending, snapshot, needs>>
    BY <1>0, <1>5 DEF IceRestart, pcVars, midVars, queueVars
  <2> QED
    BY <1>0, <2>1, LateSame
<1>6. CASE MediaReady
  <2>1. /\ step'["queue"] = step["queue"] /\ step'["ice"] = step["ice"]
        /\ UNCHANGED <<mids, tooLate, pending, snapshot, needs>>
        /\ created' \in {created, created \cup {0}}
    BY <1>0, <1>6 DEF MediaReady, midVars, queueVars
  <2>2. Unoffered' = Unoffered
    BY <2>1 DEF Unoffered
  <2> QED
    BY <1>0, <2>1, <2>2 DEF LateInv, Wanted, Pending
<1>7. ASSUME NEW t \in Tasks, OfferCreated(t) PROVE LateInv'
  <2>1. /\ step' = [step EXCEPT ![t] = "local"] /\ snapshot' = [snapshot EXCEPT ![t] = created]
        /\ UNCHANGED <<created, mids, tooLate, pending, needs>>
    BY <1>7 DEF OfferCreated, pcVars, midVars, queueVars
  <2>2. \A u \in Tasks : /\ step'[u] = IF u = t THEN "local" ELSE step[u]
                         /\ snapshot'[u] = IF u = t THEN created ELSE snapshot[u]
    BY <1>0, <2>1
  <2>3. Unoffered' = Unoffered /\ Unoffered \subseteq created
    BY <2>1 DEF Unoffered
  <2>4. \A tc : (Wanted(tc)' <=> Wanted(tc)) /\ (Pending(tc)' <=> Pending(tc))
    BY <2>1 DEF Wanted, Pending
  <2> QED
    BY <1>0, <2>1, <2>2, <2>3, <2>4 DEF LateInv
<1>8. CASE InitLocalSet
  <2>1. LocalSet("init") /\ UNCHANGED needs
    BY <1>8 DEF InitLocalSet
  <2>2. CASE snapshot["init"] # {}
    <3>1. /\ SendOffer("init") /\ UNCHANGED <<created, pending>>
          /\ tooLate' = tooLate \ snapshot["init"]
      BY <1>8, <2>2 DEF InitLocalSet
    <3>2. \A tc \in Unoffered : Wanted(tc)' /\ (Pending(tc) => Pending(tc)')
      BY <1>0, <2>1, <3>1 DEF LateInv, Wanted, Pending
    <3> QED
      BY <1>0, <2>1, <3>1, <3>2, LateSet
  <2>3. CASE snapshot["init"] = {}
    <3>1. /\ AfterInit([step EXCEPT !["init"] = "off"]) /\ UNCHANGED snapshot
          /\ mids' = mids
      BY <1>8, <2>1, <2>3 DEF InitLocalSet, LocalSet
    <3> QED
      BY <1>0, <2>1, <3>1, LateAfterInit
  <2> QED
    BY <2>2, <2>3
<1>9. CASE QueueLocalSet
  <2>1. /\ LocalSet("queue") /\ SendOffer("queue") /\ UNCHANGED created
        /\ tooLate' = tooLate \ snapshot["queue"]
    BY <1>9 DEF QueueLocalSet
  <2>2. Unoffered \ snapshot["queue"] = {}
    BY <1>0, <2>1 DEF LateInv, LocalSet
  <2> QED
    BY <1>0, <2>1, <2>2, LateSet
<1>10. CASE IceLocalSet
  <2>1. /\ LocalSet("ice") /\ SendOffer("ice") /\ UNCHANGED <<created, pending>>
        /\ tooLate' = tooLate \ snapshot["ice"]
    BY <1>10 DEF IceLocalSet, midVars
  <2>2. \A tc \in Unoffered \ snapshot["ice"] : Pending(tc)
    BY <1>0, <2>1 DEF LateInv, LocalSet
  <2>3. \A tc : Pending(tc) => Pending(tc)'
    BY <2>1 DEF Pending
  <2>4. \A tc : Pending(tc)' => Wanted(tc)'
    BY DEF Wanted
  <2> QED
    BY <1>0, <2>1, <2>2, <2>3, <2>4, LateSet
<1>11. CASE ServerAnswers \/ ShowError \/ UNCHANGED vars
  <2>1. UNCHANGED <<step, created, mids, tooLate, pending, snapshot, needs>>
    BY <1>11 DEF ServerAnswers, ShowError, vars, pcVars, midVars, queueVars
  <2> QED
    BY <1>0, <2>1, LateSame
<1>12. CASE SetAnswer
  <2>1. UNCHANGED <<mids, snapshot, needs>>
    BY <1>12 DEF SetAnswer
  <2>2. CASE resolver = "init"
    <3>1. AfterInit([step EXCEPT !["init"] = "off"])
      BY <1>12, <2>2 DEF SetAnswer, NoTask
    <3> QED
      BY <1>0, <2>1, <3>1, LateAfterInit
  <2>3. CASE resolver # "init"
    <3>1. UNCHANGED <<created, tooLate, pending>>
      BY <1>12, <2>3 DEF SetAnswer
    <3>2. /\ step'["queue"] = "local" => step["queue"] = "local"
          /\ step'["ice"] = "local" => step["ice"] = "local"
      BY <1>0, <1>12, <2>3 DEF SetAnswer, RunQueue, NoTask
    <3> QED
      BY <1>0, <2>1, <3>1, <3>2, LateSame
  <2> QED
    BY <2>2, <2>3
<1>13. ASSUME NEW t \in Tasks, Rejected(t), NEW v \in {"off", "failed"}, step' = [step EXCEPT ![t] = v]
       PROVE  LateInv'
  <2>1. UNCHANGED <<created, mids, tooLate, pending, needs>> /\ snapshot' = [snapshot EXCEPT ![t] = {}]
    BY <1>13 DEF Rejected, pcVars, midVars
  <2>2. \A u \in Tasks : step'[u] = "local" => step[u] = "local" /\ snapshot'[u] = snapshot[u]
    BY <1>0, <1>13, <2>1
  <2> QED
    BY <1>0, <2>1, <2>2 DEF LateInv, Unoffered, Wanted, Pending
<1>14. CASE InitRejected \/ QueueRejected \/ IceRejected
  BY <1>0, <1>13, <1>14 DEF InitRejected, QueueRejected, IceRejected
<1> QED
  BY <1>1, <1>2, <1>3, <1>4, <1>5, <1>6, <1>7, <1>8, <1>9, <1>10, <1>11, <1>12, <1>14
  DEF Next, Progress

-----------------------------------------------------------------------------
(* The initial state satisfies the invariant. *)
LEMMA InitWebInv == Init => WebInv
<1> SUFFICES ASSUME Init PROVE WebInv
  OBVIOUS
<1>1. /\ Cardinality(Others) \in Nat
      /\ MaxToggles \in Nat /\ MaxRestarts \in Nat /\ MaxOverlaps \in Nat /\ MaxErrors \in Nat
      /\ MaxRejects \in Nat
  BY WebClientAssumption, FS_CardinalityType
<1>2. QueueInv
  BY DEF Init, QueueInv, LoopInv, LoopSteps, Awaited, Requested, Tasks, Steps, NoTask
<1>3. Counted
  BY <1>1 DEF Init, Counted
<1>4. Numbered
  <2>1. Allocated = {} /\ toggles = 0 /\ created = {}
    BY DEF Init, Allocated
  <2>2. Cardinality(Allocated) = 0
    BY <2>1, FS_EmptySet
  <2>3. 0 \in Transceivers /\ created \cup {0} = 0..0
    BY <1>1, <2>1 DEF Transceivers
  <2> QED
    BY <2>1, <2>2, <2>3 DEF Numbered
<1>5. PcInv
  BY <1>4 DEF Init, PcInv, OpenFirst, Tasks
<1>6. WireInv
  <2>1. /\ uplink \in Seq(SUBSET Transceivers)
        /\ downlink \in Seq([type : {"answer", "error"}, lines : SUBSET Transceivers])
    BY DEF Init
  <2>2. midPeer \in [Transceivers \cup {NullMid} -> Others \cup {Nobody}]
    BY DEF Init
  <2> QED
    BY <2>1, <2>2 DEF Init, WireInv
<1>7. LateInv
  BY DEF Init, LateInv, Unoffered
<1> QED
  BY <1>2, <1>3, <1>5, <1>6, <1>7 DEF WebInv

(* WebInv is inductive and holds in every reachable state. *)
LEMMA WebInvHolds == Spec => []WebInv
<1>1. WebInv /\ [Next]_vars => WebInv'
  <2> SUFFICES ASSUME WebInv, [Next]_vars PROVE WebInv'
    OBVIOUS
  <2>1. QueueInv'
    BY QueueStep DEF WebInv, PcInv, WireInv
  <2> QED
    BY <2>1, CountedStep, PcStep, WireStep, LateStep DEF WebInv
<1> QED
  BY <1>1, InitWebInv, PTL DEF Spec

(* The page's variables keep their types: the numbers of transceivers never  *)
(* run out, and _renegotiating is set exactly while the queue's loop awaits. *)
THEOREM WebTypeCorrect == Spec => []TypeOK
<1>1. WebInv => TypeOK
  <2> SUFFICES ASSUME WebInv PROVE TypeOK
    OBVIOUS
  <2>1. created \subseteq Transceivers
    BY Segment DEF WebInv
  <2>2. snapshot \in [Tasks -> SUBSET Transceivers]
    BY <2>1 DEF WebInv, PcInv
  <2> QED
    BY <2>1, <2>2 DEF WebInv, QueueInv, LoopInv, Counted, PcInv, WireInv, LateInv, TypeOK, Steps
<1> QED
  BY <1>1, WebInvHolds, PTL

(* Whatever overlaps, fails or is rejected: what is pending is taken up by   *)
(* the queue, after a rejection by the next request, and a transceiver gets  *)
(* a mid or stays wanted until the loop's next offer, unless it was added    *)
(* between a createOffer and its setLocalDescription.                        *)
THEOREM NothingForgotten == Spec => []PendingIsScheduled
<1>1. WebInv => PendingIsScheduled
  <2> SUFFICES ASSUME WebInv PROVE PendingIsScheduled
    OBVIOUS
  <2>1. Requested
    BY DEF WebInv, QueueInv, LoopInv
  <2>2. ASSUME NEW tc \in Unoffered, tc \notin snapshot["queue"]
        PROVE  LoopOffers /\ Wanted(tc)
    <3>1. Wanted(tc) /\ step["queue"] # "local"
      BY <2>2 DEF WebInv, LateInv
    <3>2. pending # {} \/ needs
      BY <3>1 DEF Wanted, Pending
    <3> QED
      BY <2>1, <3>1, <3>2 DEF Requested
  <2> QED
    BY <2>1, <2>2 DEF PendingIsScheduled, Requested, Unoffered, Wanted, Pending
<1> QED
  BY <1>1, WebInvHolds, PTL
=============================================================================
