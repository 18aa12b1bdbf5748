-------------------------------- MODULE Ice ---------------------------------
(***************************************************************************)
(* media-svc/transport: UdpServer's receive loop on the io_context threads   *)
(* of MediaServer::run, PacketRouter's demultiplexing of what arrives, and   *)
(* the STUN server IceServer, with browsers that check connectivity over a   *)
(* network that loses, repeats and reorders, and a media server that may     *)
(* die and be started again with new ICE credentials.                        *)
(*                                                                           *)
(* A packet callback reads the receive buffer in place, so it is not one     *)
(* step.  The credentials of the nth process are the number n.  A HMAC is    *)
(* the record of what goes into it.  An address is the set of its one bits.  *)
(***************************************************************************)
EXTENDS Integers, Sequences, FiniteSets, SequencesExt

CONSTANTS
    Clients,        \* browsers
    Address,        \* the address each browser sends from
    Threads,        \* threads that run the io_context
    Shape,          \* what each browser puts before MESSAGE-INTEGRITY, in its order
    Magic,          \* STUN_MAGIC_COOKIE, the set of its one bits
    MaxFaults,      \* bound: deaths of the media server, receive errors, sends that find
                    \* the socket buffer full, and ICE restarts that come too early
    NoPacket,       \* nothing received yet
    Garbage         \* whatever a stack frame contains after its function returned

ASSUME IceAssumption ==
    /\ Address \in [Clients -> SUBSET Nat] /\ Magic \in SUBSET Nat
    /\ Shape \in [Clients -> Seq([type : STRING, len : Nat, value : {0}])]
    /\ \A c \in Clients : \A i \in DOMAIN Shape[c] : Shape[c][i].type # "MESSAGE-INTEGRITY"
    /\ MaxFaults \in Nat

VARIABLES
    process,        \* the number of the running media server process
    armed,          \* an async_receive_from is outstanding
    recvBuffer,     \* UdpServer::_recvBuffer and _remoteEp
    thread,         \* what each io_context thread executes
    deferred,       \* async_send_to operations that wait for the socket, with what
                    \* the stack of their thread contains where they point to
    inbox,          \* packets on their way to the server
    toClient,       \* packets on their way to browsers
    cred,           \* browser: the credentials of the answer it has
    tries,          \* browser: transactions started
    checked,        \* browser: the process that answered its last check, or 0
    mapped,         \* browser: the address it was told, no bits at first
    faults          \* faults so far

loop == <<armed, recvBuffer, thread, deferred, faults>>
client == <<cred, tries, checked, mapped>>
vars == <<process, loop, inbox, toClient, client>>

HeaderSize == 20

(* setupComponents has called startReceive, and run has started the threads. *)
Init ==
    /\ process = 1
    /\ armed = TRUE /\ recvBuffer = NoPacket /\ deferred = {}
    /\ thread = [t \in Threads |-> "idle"]
    /\ inbox = {} /\ toClient = {}
    /\ cred = [c \in Clients |-> 1] /\ tries = [c \in Clients |-> 1]
    /\ checked = [c \in Clients |-> 0] /\ mapped = [c \in Clients |-> {}]
    /\ faults = 0

(* An address as XOR-MAPPED-ADDRESS has it. *)
Xored(a) == (a \ Magic) \cup (Magic \ a)

-----------------------------------------------------------------------------
(* STUN messages.  An attribute has a type, a length in bytes and a value,   *)
(* and begins at a multiple of four.                                         *)

Attr(type, len, value) == [type |-> type, len |-> len, value |-> value]
Hmac(key, tx, covered, length) == [key |-> key, tx |-> tx, covered |-> covered, length |-> length]

Aligned(n) == ((n + 3) \div 4) * 4
AttrEnd(pos, a) == pos + 4 + a.len

(* The attributes of a message before offset pos. *)
Before(at, pos) == {<<o, at[o]>> : o \in {x \in DOMAIN at : x < pos}}

(* The offsets of attributes one after another, and of what follows them     *)
(* (external: RFC 5389).                                                     *)
Offsets(attrs) == FoldLeft(LAMBDA acc, a : Append(acc, Aligned(AttrEnd(Last(acc), a))),
                           <<HeaderSize>>, attrs)

Fields == [c \in Clients |->
             Shape[c] \o <<Attr("MESSAGE-INTEGRITY", 20, 0), Attr("FINGERPRINT", 4, 0)>>]
FieldOffsets == [c \in Clients |-> Offsets(Fields[c])]

(* A browser's Binding Request (external): signed with the password of the   *)
(* answer it has over everything before MESSAGE-INTEGRITY, with the length   *)
(* counted to the end of that attribute.                                     *)
Request(c, tx) ==
    LET attrAt(o) == Fields[c][CHOOSE i \in DOMAIN Fields[c] : FieldOffsets[c][i] = o]
        miAt == FieldOffsets[c][Len(Shape[c]) + 1]
        named == [o \in {FieldOffsets[c][i] : i \in DOMAIN Fields[c]} |->
                    IF attrAt(o).type = "USERNAME" THEN [attrAt(o) EXCEPT !.value = tx.cred]
                    ELSE attrAt(o)]
    IN [tx |-> tx, from |-> Address[c], len |-> Last(FieldOffsets[c]),
        at |-> [named EXCEPT ![miAt].value =
                  Hmac(tx.cred, tx, Before(named, miAt), miAt + 24 - HeaderSize)]]

Transaction(c) == [client |-> c, number |-> tries[c], cred |-> cred[c]]

-----------------------------------------------------------------------------
(* IceServer *)

(* Faulty variant: padding is not skipped. *)
NextAttr_Unpadded(valEnd) == valEnd

NextAttr(valEnd) == Aligned(valEnd)

(* The offsets where an attribute begins that is not cut off. *)
Complete(packet) ==
    {pos \in DOMAIN packet.at : pos + 4 <= packet.len /\ AttrEnd(pos, packet.at[pos]) <= packet.len}

(* Those of them that the loop of validateCredentials visits: it goes from    *)
(* one to the next and ends where no complete attribute begins.               *)
Visited(packet) ==
    LET walk[pos \in 0..(packet.len + 3)] ==
          IF pos \in Complete(packet)
          THEN {pos} \cup walk[NextAttr(AttrEnd(pos, packet.at[pos]))] ELSE {}
    IN {o \in Complete(packet) : o \in walk[HeaderSize]}

(* Every USERNAME is for this server and there is one, every                 *)
(* MESSAGE-INTEGRITY is 20 bytes long, and the last is right.                *)
validateCredentials(packet) ==
    LET visited == Visited(packet)
        names == {o \in visited : packet.at[o].type = "USERNAME"}
        macs == {o \in visited : packet.at[o].type = "MESSAGE-INTEGRITY"}
    IN /\ names # {} /\ \A o \in names : packet.at[o].value = process
       /\ \A o \in macs : packet.at[o].len = 20
       /\ \E mi \in macs :
             /\ \A o \in macs : o <= mi
             /\ packet.at[mi].value =
                   Hmac(process, packet.tx, Before(packet.at, mi), mi + 4 + 20 - HeaderSize)

(* Faulty variant: the address is not XORed. *)
sendResponse_PlainAddress(packet) ==
    LET preMiLen == HeaderSize + 12
        mi == Hmac(process, packet.tx, packet.from, preMiLen - HeaderSize + 24)
        length == preMiLen + 24 - HeaderSize + 8
    IN [tx |-> packet.tx, xorMapped |-> packet.from, mi |-> mi, length |-> length,
        fingerprint |-> <<mi, length>>]

(* The Binding Response that sendResponse builds for what is in the buffer:  *)
(* XOR-MAPPED-ADDRESS, then MESSAGE-INTEGRITY computed with the length up to *)
(* its own end, then FINGERPRINT computed with the final length.             *)
sendResponse(packet) ==
    LET preMiLen == HeaderSize + 12
        mi == Hmac(process, packet.tx, Xored(packet.from), preMiLen - HeaderSize + 24)
        length == preMiLen + 24 - HeaderSize + 8
    IN [tx |-> packet.tx, xorMapped |-> Xored(packet.from), mi |-> mi, length |-> length,
        fingerprint |-> <<mi, length>>]

-----------------------------------------------------------------------------
(* UdpServer and PacketRouter, on the io_context threads *)

(* Faulty variant: doReceive is called before the callback. *)
Receiving_Rearmed == TRUE

(* Whether a receive is outstanding while a thread runs the callback: none,  *)
(* for onReceive calls doReceive after it.                                   *)
Receiving == FALSE

(* async_receive_from completes on thread t and onReceive calls back. *)
onReceive(t, m) ==
    /\ armed /\ thread[t] = "idle" /\ m \in inbox
    /\ inbox' = inbox \ {m}
    /\ recvBuffer' = m
    /\ armed' = Receiving
    /\ thread' = [thread EXCEPT ![t] = "dispatch"]
    /\ UNCHANGED <<process, deferred, faults, toClient, client>>

(* ... or fails, and doReceive is not called again. *)
ReceiveError ==
    /\ armed /\ faults < MaxFaults
    /\ faults' = faults + 1
    /\ armed' = FALSE
    /\ UNCHANGED <<process, recvBuffer, thread, deferred, inbox, toClient, client>>

(* The callback returns and the receive is armed again. *)
Return(t) == armed' = TRUE /\ thread' = [thread EXCEPT ![t] = "idle"]

(* onPacket, handleStun, onStunPacket: a request goes on only if valid. *)
onStunPacket(t) ==
    /\ thread[t] = "dispatch"
    /\ IF validateCredentials(recvBuffer)
       THEN thread' = [thread EXCEPT ![t] = "respond"] /\ UNCHANGED armed
       ELSE Return(t)
    /\ UNCHANGED <<process, recvBuffer, deferred, faults, inbox, toClient, client>>

(* sendResponse, and sendTo: the operation keeps a pointer to the stack, and *)
(* the datagram leaves at once unless the socket buffer is full.  Operations *)
(* of the thread that still wait point to where this response is built.      *)
SendTo(t) ==
    /\ thread[t] = "respond"
    /\ LET response == sendResponse(recvBuffer)
           waiting(to) == [to |-> to, thread |-> t, message |-> response]
           built == {IF d.thread = t THEN waiting(d.to) ELSE d : d \in deferred}
       IN \/ /\ toClient' = toClient \cup {[to |-> recvBuffer.from, message |-> response]}
             /\ deferred' = built
             /\ UNCHANGED faults
          \/ /\ faults < MaxFaults
             /\ faults' = faults + 1
             /\ deferred' = built \cup {waiting(recvBuffer.from)}
             /\ UNCHANGED toClient
    /\ Return(t)
    /\ UNCHANGED <<process, recvBuffer, inbox, client>>

(* A send that waited is done; the stack may have been used for other things. *)
SendDeferred(d) ==
    /\ d \in deferred
    /\ deferred' = deferred \ {d}
    /\ \E message \in {d.message, Garbage} :
          toClient' = toClient \cup {[to |-> d.to, message |-> message]}
    /\ UNCHANGED <<process, armed, recvBuffer, thread, faults, inbox, client>>

(* The process dies, by a fault or by a signal (setupSignals leaves no       *)
(* handler behind), and is started again: the IceServer has new credentials. *)
Restart ==
    /\ faults < MaxFaults
    /\ faults' = faults + 1
    /\ process' = process + 1
    /\ armed' = TRUE /\ recvBuffer' = NoPacket /\ deferred' = {}
    /\ thread' = [t \in Threads |-> "idle"]
    /\ inbox' = {}
    /\ UNCHANGED <<toClient, client>>

-----------------------------------------------------------------------------
(* Browsers (external) *)

(* A connectivity check, or its retransmission. *)
Check(c) ==
    /\ checked[c] # cred[c]
    /\ inbox' = inbox \cup {Request(c, Transaction(c))}
    /\ UNCHANGED <<process, loop, toClient, client>>

(* The response belongs to the transaction and its integrity is right. *)
Accepts(c, r) ==
    /\ r # Garbage /\ r.tx = Transaction(c)
    /\ r.length = 44 /\ r.fingerprint = <<r.mi, r.length>>
    /\ r.mi = Hmac(cred[c], r.tx, r.xorMapped, 36)

(* The address in XOR-MAPPED-ADDRESS. *)
Plain(x) == (x \ Magic) \cup (Magic \ x)

ClientReceives(c, p) ==
    /\ p \in toClient /\ p.to = Address[c]
    /\ toClient' = toClient \ {p}
    /\ IF Accepts(c, p.message)
       THEN /\ checked' = [checked EXCEPT ![c] = cred[c]]
            /\ mapped' = [mapped EXCEPT ![c] = Plain(p.message.xorMapped)]
       ELSE UNCHANGED <<checked, mapped>>
    /\ UNCHANGED <<process, loop, inbox, cred, tries>>

(* Checks fail: _doIceRestart, and the answer has the credentials of the     *)
(* process that runs.  A browser may also lose patience too early.           *)
IceRestart(c) ==
    /\ \/ cred[c] # process /\ UNCHANGED faults
       \/ /\ cred[c] = process /\ checked[c] # process /\ faults < MaxFaults
          /\ faults' = faults + 1
    /\ cred' = [cred EXCEPT ![c] = process]
    /\ tries' = [tries EXCEPT ![c] = @ + 1]
    /\ UNCHANGED <<process, armed, recvBuffer, thread, deferred, inbox, toClient, checked, mapped>>

Lose(p) ==
    /\ p \in inbox \cup toClient
    /\ inbox' = inbox \ {p} /\ toClient' = toClient \ {p}
    /\ UNCHANGED <<process, loop, client>>

-----------------------------------------------------------------------------
Next == \/ \E t \in Threads : onStunPacket(t) \/ SendTo(t) \/ \E m \in inbox : onReceive(t, m)
        \/ ReceiveError \/ Restart
        \/ \E d \in deferred : SendDeferred(d)
        \/ \E c \in Clients : Check(c) \/ IceRestart(c) \/ \E p \in toClient : ClientReceives(c, p)
        \/ \E p \in inbox \cup toClient : Lose(p)

Spec == Init /\ [][Next]_vars

ReceiveCheck(c) ==
    \E t \in Threads, m \in inbox : m.tx = Transaction(c) /\ onReceive(t, m)
SendAtOnce(t) == SendTo(t) /\ UNCHANGED faults
AcceptResponse(c) == \E p \in toClient : Accepts(c, p.message) /\ ClientReceives(c, p)

(* The threads run; a browser repeats its check, and restarts ICE when the   *)
(* checks are not answered; what is sent again and again arrives in the end. *)
FairSpec ==
    /\ Spec
    /\ \A t \in Threads : WF_vars(onStunPacket(t)) /\ WF_vars(SendTo(t)) /\ SF_vars(SendAtOnce(t))
    /\ \A c \in Clients : /\ WF_vars(Check(c)) /\ WF_vars(cred[c] # process /\ IceRestart(c))
                          /\ SF_vars(ReceiveCheck(c)) /\ SF_vars(AcceptResponse(c))

-----------------------------------------------------------------------------
(* Properties *)

(* Every variable has its type, the response fits the 256 bytes that         *)
(* sendResponse reserves, and no receive is outstanding while a callback     *)
(* runs.                                                                     *)
TypeOK ==
    /\ faults \in 0..MaxFaults /\ process \in 1..(faults + 1)
    /\ armed \in BOOLEAN
    /\ thread \in [Threads -> {"idle", "dispatch", "respond"}]
    /\ armed => \A t \in Threads : thread[t] = "idle"
    /\ \A p \in inbox : p.from \in {Address[c] : c \in Clients}
    /\ \A d \in deferred : d.thread \in Threads /\ d.message.length + HeaderSize <= 256
    /\ cred \in [Clients -> 1..process] /\ checked \in [Clients -> 0..process]
    /\ mapped \in [Clients -> {Address[c] : c \in Clients} \cup {{}}]

(* A response is made with the credentials of its request: a request that    *)
(* was signed for an earlier process is not answered, whichever request the  *)
(* buffer held when the credentials were checked.                            *)
OnlyValidAnswered ==
    \A p \in toClient : p.message = Garbage \/ p.message.mi.key = p.message.tx.cred

(* A browser whose check has succeeded was told the address it sends from,   *)
(* and by the process whose answer it has, though sends that waited carry    *)
(* the contents of another response or none.                                 *)
CheckedAddressIsOwn ==
    \A c \in Clients : checked[c] # 0 => mapped[c] = Address[c] /\ checked[c] <= cred[c]

LoopDead == ~armed /\ \A t \in Threads : thread[t] = "idle"

(* In the end every browser has a check answered by the process that runs,   *)
(* whatever is lost and however often the process died before, unless a      *)
(* receive error has ended the receive loop.                                 *)
FinallyConnected == <>[](LoopDead \/ \A c \in Clients : checked[c] = process)
=============================================================================
