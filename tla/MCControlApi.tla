----------------------------- MODULE MCControlApi -----------------------------
(* Instances of ControlApi for TLC. *)
EXTENDS ControlApi
=============================================================================
