-------------------------------- MODULE MCHls --------------------------------
(* The HLS branches, for TLC: the sets that the configurations choose from. *)
EXTENDS Hls

AV == {"video", "audio"}
VideoOnly == {"video"}
AllFailures == FailureKinds
NoFailures == {}
=============================================================================
