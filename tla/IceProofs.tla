----------------------------- MODULE IceProofs ------------------------------
(***************************************************************************)
(* Proofs about the receive loop and the STUN server, for any browsers,     *)
(* addresses, cookie, layouts of the requests, threads and number of faults. *)
(***************************************************************************)
EXTENDS Ice, TLAPS, SequenceTheorems

(* A request of a browser: it comes from that browser's address, and what a  *)
(* MESSAGE-INTEGRITY has in it is keyed by the credentials of its            *)
(* transaction.                                                              *)
Signed(p) ==
    /\ p.tx.client \in Clients /\ p.from = Address[p.tx.client]
    /\ \A o \in DOMAIN p.at :
          p.at[o].type = "MESSAGE-INTEGRITY" => p.at[o].value.key = p.tx.cred

(* A response to a valid request of the browser its transaction names. *)
Answer(m) ==
    /\ m.tx.client \in Clients /\ m.xorMapped = Xored(Address[m.tx.client])
    /\ m.mi.key = m.tx.cred /\ m.length = 44

(* One callback runs at a time, and it is the only one to use the buffer:    *)
(* the request whose credentials were checked is the one that is answered.   *)
LoopInv ==
    \A t \in Threads :
       /\ thread[t] # "idle" => Signed(recvBuffer)
       /\ thread[t] = "respond" => recvBuffer.tx.cred = process
       /\ \A u \in Threads : thread[t] # "idle" /\ thread[u] # "idle" => t = u

(* What is under way: requests of browsers one way, responses to valid       *)
(* requests or garbage the other.                                            *)
PacketInv ==
    /\ \A p \in inbox : Signed(p)
    /\ \A d \in deferred : Answer(d.message)
    /\ \A p \in toClient : p.message = Garbage \/ Answer(p.message)

IceInv == TypeOK /\ LoopInv /\ PacketInv /\ CheckedAddressIsOwn

-----------------------------------------------------------------------------
(* Lemmas about requests, credentials and addresses *)

(* XOR with the cookie undoes XOR with the cookie. *)
LEMMA XorUndone == ASSUME NEW a PROVE Plain(Xored(a)) = a
  BY DEF Plain, Xored

(* The only MESSAGE-INTEGRITY of a request is the one that is computed. *)
LEMMA RequestIsSigned ==
  ASSUME NEW c \in Clients, NEW tx, tx.client = c
  PROVE  Signed(Request(c, tx))
<1> DEFINE n == Len(Shape[c])
           attrAt(o) == Fields[c][CHOOSE i \in DOMAIN Fields[c] : FieldOffsets[c][i] = o]
           miAt == FieldOffsets[c][n + 1]
           offs == {FieldOffsets[c][i] : i \in DOMAIN Fields[c]}
           named == [o \in offs |->
                       IF attrAt(o).type = "USERNAME" THEN [attrAt(o) EXCEPT !.value = tx.cred]
                       ELSE attrAt(o)]
           mac == Hmac(tx.cred, tx, Before(named, miAt), miAt + 24 - HeaderSize)
           at == [named EXCEPT ![miAt].value = mac]
           Types == STRING \cup {"MESSAGE-INTEGRITY", "FINGERPRINT"}
           Attrs == [type : Types, len : Nat, value : {0}]
           mi == Attr("MESSAGE-INTEGRITY", 20, 0)
           fp == Attr("FINGERPRINT", 4, 0)
<1>1. /\ Request(c, tx).tx = tx /\ Request(c, tx).from = Address[c] /\ Request(c, tx).at = at
  BY DEF Request
<1>2. mac.key = tx.cred
  BY DEF Hmac
<1>3. /\ Shape[c] \in Seq(Attrs) /\ n \in Nat /\ DOMAIN Shape[c] = 1..n
      /\ \A i \in 1..n : Shape[c][i].type # "MESSAGE-INTEGRITY"
  <2>1. Shape[c] \in Seq([type : STRING, len : Nat, value : {0}])
    BY IceAssumption
  <2>2. [type : STRING, len : Nat, value : {0}] \subseteq Attrs
    OBVIOUS
  <2> HIDE DEF Attrs
  <2>3. n \in Nat /\ DOMAIN Shape[c] = 1..n
    BY <2>1
  <2>4. Shape[c] \in Seq(Attrs)
    BY <2>1, <2>2, SeqMonotonic, Zenon
  <2> QED
    BY <2>3, <2>4, IceAssumption
<1>4. /\ mi \in Attrs /\ fp \in Attrs
      /\ mi.type = "MESSAGE-INTEGRITY" /\ fp.type = "FINGERPRINT"
  <2>1. "MESSAGE-INTEGRITY" \in Types /\ "FINGERPRINT" \in Types
    OBVIOUS
  <2>2. 20 \in Nat /\ 4 \in Nat /\ 0 \in {0}
    OBVIOUS
  <2> QED
    BY <2>1, <2>2, Zenon DEF Attr
<1> HIDE DEF mi, fp, Attrs
<1>5. /\ Fields[c] \in Seq(Attrs) /\ DOMAIN Fields[c] = 1..(n + 2)
      /\ \A i \in 1..(n + 2) : Fields[c][i] = IF i <= n THEN Shape[c][i]
                                              ELSE IF i = n + 1 THEN mi ELSE fp
  <2>1. Fields[c] = Shape[c] \o <<mi, fp>>
    BY DEF Fields, mi, fp
  <2>2. <<mi, fp>> \in Seq(Attrs) /\ Len(<<mi, fp>>) = 2
    BY <1>4
  <2> QED
    BY <1>3, <2>1, <2>2
<1>6. ASSUME NEW o \in offs
      PROVE  /\ attrAt(o) \in Attrs
             /\ attrAt(o).type = "MESSAGE-INTEGRITY" => o = miAt
  <2>1. PICK i \in DOMAIN Fields[c] : FieldOffsets[c][i] = o /\ attrAt(o) = Fields[c][i]
    OBVIOUS
  <2>2. Fields[c][i] \in Attrs
    BY <1>5, <2>1
  <2>3. Fields[c][i].type = "MESSAGE-INTEGRITY" => i = n + 1
    BY <1>3, <1>4, <1>5, <2>1
  <2> QED
    BY <2>1, <2>2, <2>3
<1> HIDE DEF attrAt
<1>7. ASSUME NEW o \in offs
      PROVE  /\ named[o].type = attrAt(o).type
             /\ DOMAIN named[o] = {"type", "len", "value"}
  <2>1. attrAt(o) \in [type : Types, len : Nat, value : {0}]
    BY <1>6 DEF Attrs
  <2> QED
    BY <2>1
<1>8. DOMAIN named = offs
  OBVIOUS
<1> HIDE DEF named, mac
<1>9. ASSUME NEW o \in DOMAIN at, at[o].type = "MESSAGE-INTEGRITY"
      PROVE  at[o].value.key = tx.cred
  <2>1. o \in offs
    BY <1>8
  <2>2. at[o] = IF o = miAt THEN [named[o] EXCEPT !.value = mac] ELSE named[o]
    BY <1>8, <2>1
  <2>3. at[o].type = named[o].type
    BY <1>7, <2>1, <2>2
  <2>4. o = miAt
    BY <1>6, <1>7, <1>9, <2>1, <2>3
  <2>5. at[o].value = mac
    BY <1>7, <2>1, <2>2, <2>4
  <2> QED
    BY <1>2, <2>5
<1> HIDE DEF at
<1> QED
  BY <1>1, <1>9 DEF Signed

(* A signed request that validateCredentials accepts has the credentials of  *)
(* the process that runs.                                                    *)
LEMMA ValidIsCurrent ==
  ASSUME NEW p, Signed(p), validateCredentials(p)
  PROVE  p.tx.cred = process
<1>1. \A o \in Visited(p) : o \in DOMAIN p.at
  BY DEF Visited, Complete
<1>2. PICK o \in Visited(p) : /\ p.at[o].type = "MESSAGE-INTEGRITY"
                              /\ p.at[o].value = Hmac(process, p.tx, Before(p.at, o), o + 4 + 20 - HeaderSize)
  BY DEF validateCredentials
<1>3. p.at[o].value.key = process
  BY <1>2 DEF Hmac
<1> QED
  BY <1>1, <1>2, <1>3 DEF Signed

(* The response to a valid request. *)
LEMMA ResponseAnswers ==
  ASSUME NEW p, Signed(p), p.tx.cred = process
  PROVE  Answer(sendResponse(p))
  BY DEF Signed, Answer, sendResponse, Hmac, HeaderSize

-----------------------------------------------------------------------------
(* The invariant is inductive *)

LEMMA InitIce == Init => IceInv
<1> SUFFICES ASSUME Init PROVE IceInv
  OBVIOUS
<1> USE IceAssumption
<1>1. TypeOK
  BY DEF Init, TypeOK
<1>2. LoopInv /\ PacketInv /\ CheckedAddressIsOwn
  BY DEF Init, LoopInv, PacketInv, CheckedAddressIsOwn
<1> QED
  BY <1>1, <1>2 DEF IceInv

(* The receive completes: no other callback runs, for a receive was armed. *)
LEMMA onReceiveKeeps ==
  ASSUME IceInv, NEW t \in Threads, NEW m \in inbox, onReceive(t, m)
  PROVE  IceInv'
<1> USE DEF IceInv, onReceive, client
<1>1. \A u \in Threads : thread'[u] = IF u = t THEN "dispatch" ELSE "idle"
  BY DEF TypeOK
<1>2. Signed(m)
  BY DEF PacketInv
<1>3. TypeOK'
  <2>1. thread' \in [Threads -> {"idle", "dispatch", "respond"}]
    BY DEF TypeOK
  <2>2. armed' = FALSE
    BY DEF Receiving
  <2> QED
    BY <2>1, <2>2 DEF TypeOK
<1>4. LoopInv'
  <2>1. Signed(recvBuffer)'
    BY <1>2 DEF Signed
  <2> QED
    BY <1>1, <2>1 DEF LoopInv
<1>5. PacketInv'
  BY DEF PacketInv, Signed, Answer, Xored
<1>6. CheckedAddressIsOwn'
  BY DEF CheckedAddressIsOwn
<1> QED
  BY <1>3, <1>4, <1>5, <1>6

(* The credentials of what is in the buffer are checked: the buffer has what *)
(* the browser signed, so a valid request has the running process' ones.     *)
LEMMA onStunPacketKeeps ==
  ASSUME IceInv, NEW t \in Threads, onStunPacket(t)
  PROVE  IceInv'
<1> USE DEF IceInv, onStunPacket, client
<1>1. /\ thread[t] = "dispatch" /\ Signed(recvBuffer)
      /\ \A u \in Threads : u # t => thread[u] = "idle"
  BY DEF LoopInv
<1>2. \/ /\ validateCredentials(recvBuffer) /\ armed' = armed
         /\ thread' = [thread EXCEPT ![t] = "respond"]
      \/ armed' = TRUE /\ thread' = [thread EXCEPT ![t] = "idle"]
  BY DEF Return
<1>3. ~armed
  BY <1>1 DEF TypeOK
<1>4. TypeOK'
  <2>1. thread' \in [Threads -> {"idle", "dispatch", "respond"}] /\ armed' \in BOOLEAN
    BY <1>2, <1>3 DEF TypeOK
  <2>2. armed' => \A u \in Threads : thread'[u] = "idle"
    BY <1>1, <1>2, <1>3 DEF TypeOK
  <2> QED
    BY <2>1, <2>2 DEF TypeOK
<1>5. LoopInv'
  <2>1. Signed(recvBuffer)'
    BY <1>1 DEF Signed
  <2>2. thread'[t] = "respond" => recvBuffer'.tx.cred = process'
    BY <1>1, <1>2, ValidIsCurrent DEF TypeOK
  <2>3. \A u \in Threads : u # t => thread'[u] = "idle"
    BY <1>1, <1>2 DEF TypeOK
  <2> QED
    BY <2>1, <2>2, <2>3 DEF LoopInv
<1>6. PacketInv'
  BY DEF PacketInv, Signed, Answer, Xored
<1>7. CheckedAddressIsOwn'
  BY DEF CheckedAddressIsOwn
<1> QED
  BY <1>4, <1>5, <1>6, <1>7

(* The response is built from the request that was checked, wherever the     *)
(* bytes of it end up.                                                       *)
LEMMA SendToKeeps ==
  ASSUME IceInv, NEW t \in Threads, SendTo(t)
  PROVE  IceInv'
<1> USE DEF IceInv, client
<1> DEFINE response == sendResponse(recvBuffer)
           waiting(to) == [to |-> to, thread |-> t, message |-> response]
           built == {IF d.thread = t THEN waiting(d.to) ELSE d : d \in deferred}
<1>1. /\ thread[t] = "respond" /\ Signed(recvBuffer) /\ recvBuffer.tx.cred = process
      /\ \A u \in Threads : u # t => thread[u] = "idle"
  BY DEF LoopInv, SendTo
<1>2. Answer(response)
  BY <1>1, ResponseAnswers
<1>3. /\ \A p \in toClient' : p \in toClient \/ p.message = response
      /\ \A d \in deferred' : d \in built \/ d = waiting(recvBuffer.from)
      /\ faults' \in {faults, faults + 1} /\ faults' <= MaxFaults
  BY IceAssumption DEF SendTo, TypeOK
<1>4. armed' = TRUE /\ thread' = [thread EXCEPT ![t] = "idle"]
  BY DEF SendTo, Return
<1>5. /\ process' = process /\ recvBuffer' = recvBuffer /\ inbox' = inbox
      /\ cred' = cred /\ tries' = tries /\ checked' = checked /\ mapped' = mapped
  BY DEF SendTo
<1> HIDE DEF response
<1>6. \A d \in deferred' : d.thread \in Threads /\ Answer(d.message)
  BY <1>2, <1>3 DEF TypeOK, PacketInv
<1>7. TypeOK'
  <2>1. \A d \in deferred' : d.message.length + HeaderSize <= 256
    BY <1>6 DEF Answer, HeaderSize
  <2>2. faults' \in 0..MaxFaults /\ process' \in 1..(faults' + 1)
    BY <1>3, <1>5, IceAssumption DEF TypeOK
  <2>3. thread' = [u \in Threads |-> "idle"]
    BY <1>1, <1>4 DEF TypeOK
  <2> QED
    BY <1>4, <1>5, <1>6, <2>1, <2>2, <2>3 DEF TypeOK
<1>8. LoopInv'
  BY <1>1, <1>4 DEF LoopInv, TypeOK
<1>9. PacketInv'
  BY <1>2, <1>3, <1>5, <1>6 DEF PacketInv, Signed, Answer, Xored
<1>10. CheckedAddressIsOwn'
  BY <1>5 DEF CheckedAddressIsOwn
<1> QED
  BY <1>7, <1>8, <1>9, <1>10

(* A send that waited carries an answer or garbage. *)
LEMMA SendDeferredKeeps ==
  ASSUME IceInv, NEW d \in deferred, SendDeferred(d)
  PROVE  IceInv'
<1> USE DEF IceInv, SendDeferred, client
<1>1. TypeOK'
  BY DEF TypeOK
<1>2. LoopInv'
  BY DEF LoopInv, Signed
<1>3. PacketInv'
  <2>1. \A p \in toClient' : p \in toClient \/ p.message = d.message \/ p.message = Garbage
    OBVIOUS
  <2>2. Answer(d.message) /\ \A p \in toClient : p.message = Garbage \/ Answer(p.message)
    BY DEF PacketInv
  <2> QED
    BY <2>1, <2>2 DEF PacketInv, Signed, Answer, Xored
<1>4. CheckedAddressIsOwn'
  BY DEF CheckedAddressIsOwn
<1> QED
  BY <1>1, <1>2, <1>3, <1>4

(* A receive error, or the death of the process and its new start. *)
LEMMA FaultKeeps ==
  ASSUME IceInv, ReceiveError \/ Restart
  PROVE  IceInv'
<1> USE DEF IceInv, client
<1>1. CASE ReceiveError
  <2> USE <1>1 DEF ReceiveError
  <2>1. TypeOK'
    <3>1. faults' \in 0..MaxFaults /\ process' \in 1..(faults' + 1)
      BY IceAssumption DEF TypeOK
    <3> QED
      BY <3>1 DEF TypeOK
  <2>2. LoopInv' /\ PacketInv'
    BY DEF LoopInv, PacketInv, Signed, Answer, Xored
  <2>3. CheckedAddressIsOwn'
    BY DEF CheckedAddressIsOwn
  <2> QED
    BY <2>1, <2>2, <2>3
<1>2. CASE Restart
  <2> USE <1>2 DEF Restart
  <2>1. TypeOK'
    <3>1. faults' \in 0..MaxFaults /\ process' \in 1..(faults' + 1)
      BY IceAssumption DEF TypeOK
    <3>2. 1..process \subseteq 1..process' /\ 0..process \subseteq 0..process'
      BY DEF TypeOK
    <3>3. cred' \in [Clients -> 1..process'] /\ checked' \in [Clients -> 0..process']
      BY <3>2 DEF TypeOK
    <3> QED
      BY <3>1, <3>3 DEF TypeOK
  <2>2. LoopInv' /\ PacketInv'
    BY DEF LoopInv, PacketInv, Signed, Answer, Xored
  <2>3. CheckedAddressIsOwn'
    BY DEF CheckedAddressIsOwn
  <2> QED
    BY <2>1, <2>2, <2>3
<1> QED
  BY <1>1, <1>2

(* A browser signs its check. *)
LEMMA CheckKeeps ==
  ASSUME IceInv, NEW c \in Clients, Check(c)
  PROVE  IceInv'
<1> USE DEF IceInv, Check, client, loop
<1>1. PICK q : q = Request(c, Transaction(c))
  OBVIOUS
<1>2. inbox' = inbox \cup {q}
  BY <1>1
<1>3. Signed(q)
  <2>1. Transaction(c).client = c
    BY DEF Transaction
  <2>2. \A tx : tx.client = c => Signed(Request(c, tx))
    BY RequestIsSigned
  <2> QED
    BY <1>1, <2>1, <2>2
<1>4. TypeOK'
  <2>1. \A p \in inbox' : p.from \in {Address[b] : b \in Clients}
    BY <1>2, <1>3 DEF TypeOK, Signed
  <2> QED
    BY <2>1 DEF TypeOK
<1>5. LoopInv'
  BY DEF LoopInv, Signed
<1>6. PacketInv'
  <2>1. \A p \in inbox' : Signed(p)'
    BY <1>2, <1>3 DEF PacketInv, Signed
  <2> QED
    BY <2>1 DEF PacketInv, Answer, Xored
<1>7. CheckedAddressIsOwn'
  BY DEF CheckedAddressIsOwn
<1> QED
  BY <1>4, <1>5, <1>6, <1>7

(* What a browser accepts answers a transaction of its own, so the address   *)
(* in it is the one that it sends from.                                      *)
LEMMA ClientReceivesKeeps ==
  ASSUME IceInv, NEW c \in Clients, NEW p \in toClient, ClientReceives(c, p)
  PROVE  IceInv'
<1> USE DEF IceInv, ClientReceives, client, loop
<1>1. ASSUME Accepts(c, p.message)
      PROVE  Plain(p.message.xorMapped) = Address[c]
  <2>1. Answer(p.message) /\ p.message.tx = Transaction(c)
    BY <1>1 DEF Accepts, PacketInv
  <2>2. p.message.tx.client = c
    BY <2>1 DEF Transaction
  <2>3. p.message.xorMapped = Xored(Address[c])
    BY <2>1, <2>2 DEF Answer
  <2> QED
    BY <2>3, XorUndone
<1>2. \/ checked' = checked /\ mapped' = mapped
      \/ /\ checked' = [checked EXCEPT ![c] = cred[c]]
         /\ mapped' = [mapped EXCEPT ![c] = Address[c]]
  BY <1>1
<1>3. TypeOK'
  <2>1. cred[c] \in 0..process
    BY DEF TypeOK
  <2>2. checked' \in [Clients -> 0..process]
    BY <1>2, <2>1 DEF TypeOK
  <2>3. mapped' \in [Clients -> {Address[b] : b \in Clients} \cup {{}}]
    BY <1>2 DEF TypeOK
  <2> QED
    BY <2>2, <2>3 DEF TypeOK
<1>4. LoopInv' /\ PacketInv'
  BY DEF LoopInv, PacketInv, Signed, Answer, Xored
<1>5. CheckedAddressIsOwn'
  <2> SUFFICES ASSUME NEW b \in Clients, checked'[b] # 0
               PROVE  mapped'[b] = Address[b] /\ checked'[b] <= cred'[b]
    BY DEF CheckedAddressIsOwn
  <2>1. cred'[b] = cred[b] /\ cred[b] \in Nat
    BY DEF TypeOK
  <2>2. CASE checked'[b] = checked[b] /\ mapped'[b] = mapped[b]
    BY <2>1, <2>2 DEF CheckedAddressIsOwn
  <2>3. CASE checked'[b] = cred[b] /\ mapped'[b] = Address[b]
    BY <2>1, <2>3
  <2> QED
    BY <1>2, <2>2, <2>3 DEF TypeOK
<1> QED
  BY <1>3, <1>4, <1>5

(* A new answer has the credentials of the process that runs. *)
LEMMA IceRestartKeeps ==
  ASSUME IceInv, NEW c \in Clients, IceRestart(c)
  PROVE  IceInv'
<1> USE DEF IceInv, IceRestart
<1>1. TypeOK'
  <2>1. faults' \in 0..MaxFaults /\ process' \in 1..(faults' + 1)
    BY IceAssumption DEF TypeOK
  <2>2. process \in 1..process /\ cred' \in [Clients -> 1..process']
    BY DEF TypeOK
  <2> QED
    BY <2>1, <2>2 DEF TypeOK
<1>2. LoopInv' /\ PacketInv'
  BY DEF LoopInv, PacketInv, Signed, Answer, Xored
<1>3. CheckedAddressIsOwn'
  <2> SUFFICES ASSUME NEW b \in Clients, checked[b] # 0
               PROVE  mapped[b] = Address[b] /\ checked[b] <= cred'[b]
    BY DEF CheckedAddressIsOwn
  <2>1. mapped[b] = Address[b] /\ checked[b] <= cred[b] /\ checked[b] <= process
    BY DEF CheckedAddressIsOwn, TypeOK
  <2>2. cred'[b] \in {cred[b], process}
    BY DEF TypeOK
  <2> QED
    BY <2>1, <2>2
<1> QED
  BY <1>1, <1>2, <1>3

LEMMA IceStep == IceInv /\ [Next]_vars => IceInv'
<1> SUFFICES ASSUME IceInv, [Next]_vars PROVE IceInv'
  OBVIOUS
<1>1. CASE \E t \in Threads : onStunPacket(t)
  BY <1>1, onStunPacketKeeps
<1>2. CASE \E t \in Threads : SendTo(t)
  BY <1>2, SendToKeeps
<1>3. CASE \E t \in Threads : \E m \in inbox : onReceive(t, m)
  BY <1>3, onReceiveKeeps
<1>4. CASE ReceiveError \/ Restart
  BY <1>4, FaultKeeps
<1>5. CASE \E d \in deferred : SendDeferred(d)
  BY <1>5, SendDeferredKeeps
<1>6. CASE \E c \in Clients : Check(c)
  BY <1>6, CheckKeeps
<1>7. CASE \E c \in Clients : IceRestart(c)
  BY <1>7, IceRestartKeeps
<1>8. CASE \E c \in Clients : \E p \in toClient : ClientReceives(c, p)
  BY <1>8, ClientReceivesKeeps
<1>9. CASE \E p \in inbox \cup toClient : Lose(p)
  BY <1>9 DEF Lose, loop, client, IceInv, TypeOK, LoopInv, PacketInv, CheckedAddressIsOwn,
              Signed, Answer, Xored
<1>10. CASE UNCHANGED vars
  BY <1>10 DEF vars, loop, client, IceInv, TypeOK, LoopInv, PacketInv, CheckedAddressIsOwn,
               Signed, Answer, Xored
<1> QED
  BY <1>1, <1>2, <1>3, <1>4, <1>5, <1>6, <1>7, <1>8, <1>9, <1>10 DEF Next

LEMMA IceAlways == Spec => []IceInv
  BY InitIce, IceStep, PTL DEF Spec

-----------------------------------------------------------------------------
(* The theorems *)

(* Types are kept, no receive is outstanding while a callback runs, and      *)
(* every response fits the 256 bytes of sendResponse's buffer.               *)
THEOREM IceTypeCorrect == Spec => []TypeOK
<1>1. IceInv => TypeOK
  BY DEF IceInv
<1> QED
  BY <1>1, IceAlways, PTL

(* Between the check of the credentials and the response the buffer keeps    *)
(* its request, so only requests for this process are answered, with any     *)
(* number of io_context threads and whatever the network does.               *)
THEOREM RequestsAnsweredAreValid == Spec => []OnlyValidAnswered
<1>1. IceInv => OnlyValidAnswered
  BY DEF IceInv, PacketInv, Answer, OnlyValidAnswered
<1> QED
  BY <1>1, IceAlways, PTL

(* Whatever sends wait and are overwritten, a browser never takes the        *)
(* address of another browser for its own.                                   *)
THEOREM AddressLearnedIsOwn == Spec => []CheckedAddressIsOwn
<1>1. IceInv => CheckedAddressIsOwn
  BY DEF IceInv
<1> QED
  BY <1>1, IceAlways, PTL
=============================================================================
