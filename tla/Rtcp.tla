-------------------------------- MODULE Rtcp --------------------------------
(***************************************************************************)
(* RTCP compound packets in media-svc, which are taken apart twice: by      *)
(* Router::onRtcpPacket, for what subscribers send, and by RtcpHandler, an  *)
(* object that MediaServer creates and nobody feeds.  Here the latter also  *)
(* stands for the parser and the builder of a browser, which follow the     *)
(* same RFCs.                                                               *)
(*                                                                          *)
(* A buffer is a sequence of 32-bit words.  The first word of each packet   *)
(* in it is a header: type, count or format, and the number of words after  *)
(* it.  The other words carry the fields that are read.                     *)
(***************************************************************************)
EXTENDS Naturals, Sequences

SR == 200
RR == 201
SDES == 202
RTPFB == 205
PSFB == 206

Header(pt, fmt, words) == [pt |-> pt, fmt |-> fmt, len |-> words]
SsrcWord(s) == [ssrc |-> s]
FciWord(pid, blp) == [pid |-> pid, blp |-> blp]
CnameWord(c) == [cname |-> c]
Value(v) == [value |-> v]

-----------------------------------------------------------------------------
(* RtcpHandler's builders.  BLP, a bit mask, is the set of the distances to  *)
(* PID of the packets it names.                                             *)

sendPLI(senderSsrc, mediaSsrc) ==
    <<Header(PSFB, 1, 2), SsrcWord(senderSsrc), SsrcWord(mediaSsrc)>>

sendNACK(senderSsrc, mediaSsrc, pid, blp) ==
    <<Header(RTPFB, 1, 3), SsrcWord(senderSsrc), SsrcWord(mediaSsrc), FciWord(pid, blp)>>

sendSR(receiverSsrc, ntpMsw, ntpLsw, rtpTs, pktCnt, octCnt) ==
    <<Header(SR, 0, 6), SsrcWord(receiverSsrc), Value(ntpMsw), Value(ntpLsw), Value(rtpTs),
      Value(pktCnt), Value(octCnt)>>

-----------------------------------------------------------------------------
(* Router::onRtcpPacket.  p is what remains of the buffer from a header on:  *)
(* the tests compare its length, not that of the packet, with the minimum.   *)

rtcpIsPLI(p) == Len(p) >= 3 /\ p[1].pt = PSFB /\ p[1].fmt = 1
rtcpIsNACK(p) == Len(p) >= 4 /\ p[1].pt = RTPFB /\ p[1].fmt = 1
rtcpIsRR(p) == Len(p) >= 2 /\ p[1].pt = RR

(* The handler that is called, with what it reads from the packet: of a NACK *)
(* only the first pair of PID and BLP.  handleRR takes the SSRC of the       *)
(* reporter for the one reported on.  A sender report calls none.            *)
HandlerCall(p, pktLen) ==
    CASE rtcpIsPLI(p) -> <<[type |-> "pli", ssrc |-> p[3].ssrc]>>
      [] rtcpIsNACK(p) -> <<[type |-> "nack", ssrc |-> p[3].ssrc,
                             pid |-> p[4].pid, blp |-> p[4].blp]>>
      [] rtcpIsRR(p) /\ pktLen >= 2 -> <<[type |-> "rr", ssrc |-> p[2].ssrc,
                                          packet |-> SubSeq(p, 1, pktLen)]>>
      [] OTHER -> <<>>

(* Faulty variant: the walk ends after the first packet. *)
HandlerCalls_FirstOnly(buf) == HandlerCall(buf, buf[1].len + 1)

(* The handler calls for a whole buffer, in order. *)
HandlerCalls(buf) ==
    LET len == Len(buf)
        walk[offset \in 0 .. len] ==
            IF offset + 1 > len THEN <<>>
            ELSE LET pktLen == buf[offset + 1].len + 1
                 IN IF offset + pktLen > len THEN <<>>
                    ELSE HandlerCall(SubSeq(buf, offset + 1, len), pktLen) \o walk[offset + pktLen]
    IN walk[0]

-----------------------------------------------------------------------------
(* RtcpHandler::onRtcpPacket: the callback for one packet p. *)
Callback(p) ==
    CASE p[1].pt = SR ->
            <<[type |-> "sr", ssrc |-> p[2].ssrc, rtpTs |-> p[5].value]>>
      [] p[1].pt = SDES /\ Len(p) >= 3 /\ p[3].cname # "" ->
            <<[type |-> "sdes", ssrc |-> p[2].ssrc, cname |-> p[3].cname]>>
      [] p[1].pt = RTPFB /\ p[1].fmt = 1 /\ Len(p) >= 4 ->
            <<[type |-> "nack", ssrc |-> p[3].ssrc, pid |-> p[4].pid, blp |-> p[4].blp]>>
      [] p[1].pt = PSFB /\ p[1].fmt = 1 /\ Len(p) >= 3 ->
            <<[type |-> "pli", ssrc |-> p[3].ssrc]>>
      [] OTHER -> <<>>

(* The callbacks for a whole buffer, in order. *)
Callbacks(buf) ==
    LET end == Len(buf)
        walk[at \in 1 .. end + 1] ==
            IF at > end \/ at + buf[at].len > end THEN <<>>
            ELSE Callback(SubSeq(buf, at, at + buf[at].len)) \o walk[at + buf[at].len + 1]
    IN walk[1]
=============================================================================
