------------------------------- MODULE MCSdp --------------------------------
(* Sdp with publishers of two browser engines: the number 3 is an audio      *)
(* payload type for one and belongs to video for the other.                  *)
EXTENDS Sdp

CONSTANTS p1, p2

MCOffered == (p1 :> [video |-> {1, 3}, audio |-> {2}]) @@
             (p2 :> [video |-> {4}, audio |-> {3}])
MCSubscriberPTs == {4}
=============================================================================
