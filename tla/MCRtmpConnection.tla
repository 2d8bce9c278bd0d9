--------------------------- MODULE MCRtmpConnection ---------------------------
(* Instances of RtmpConnection for TLC. *)
EXTENDS RtmpConnection
=============================================================================
