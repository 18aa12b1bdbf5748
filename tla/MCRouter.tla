------------------------------ MODULE MCRouter ------------------------------
(* Router on small instances; the cfg files choose the sets. *)
EXTENDS Router, TLC

MCSymmetry == Permutations(Peers) \cup Permutations(Workers)
              \cup Permutations(OutSsrcs) \cup Permutations(Mids)
=============================================================================
