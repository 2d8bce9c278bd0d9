-------------------------- MODULE MCSessionControl --------------------------
(* Instances of SessionControl for TLC. *)
EXTENDS SessionControl, TLC

Symmetry == Permutations(Sessions) \cup Permutations(RtmpConns)
=============================================================================
