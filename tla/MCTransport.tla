---------------------------- MODULE MCTransport ----------------------------
(* Instances of Transport for TLC. *)
EXTENDS Transport, TLC

MCSymmetry == Permutations(Browsers) \cup Permutations(Endpoints)
=============================================================================
