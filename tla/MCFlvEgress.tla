----------------------------- MODULE MCFlvEgress -----------------------------
(* Instances of FlvEgress for TLC. *)
EXTENDS FlvEgress
=============================================================================
