--------------------------- MODULE MCRtspConnection ---------------------------
(* RtspConnection on a small instance. *)
EXTENDS RtspConnection
=============================================================================
