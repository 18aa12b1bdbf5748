------------------------------- MODULE MCRtp -------------------------------
(* Instances of Rtp for TLC.  SSRCs are numbers; the first subscriber's own  *)
(* SSRC happens to be the outgoing SSRC of the last Consumer.                *)
EXTENDS Rtp, FiniteSets

MCOutSsrc == [c \in Subscribers |-> 10 + c]
MCOwnSsrc == [c \in Subscribers |-> IF c = 1 THEN 10 + Cardinality(Subscribers) ELSE 20 + c]
=============================================================================
