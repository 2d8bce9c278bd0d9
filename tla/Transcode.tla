------------------------------ MODULE Transcode ------------------------------
(***************************************************************************)
(* TranscodeProcessor (processor/transcode.rs): decodes the MJPEG frames   *)
(* of an RTSP source and encodes them as H.264.                            *)
(*                                                                         *)
(* FFmpeg's decoder and encoder are external: whether a packet decodes,    *)
(* whether an encoder can be created or takes a frame, and what a packet   *)
(* of it contains are choices.  The decoder is rebuilt when it fails, so a *)
(* packet that does not decode leaves nothing behind.  Resolutions and the *)
(* scaler are left out.                                                    *)
(*                                                                         *)
(* fps_assumed is an f64 in the code and an exact fraction <<num, den>>    *)
(* here.  cfg.fps is None or an integer.                                   *)
(***************************************************************************)
EXTENDS FlvFile

CONSTANTS MaxPts           \* bound: largest PTS of a decoded frame, in ms

\* frames_since_init beyond this value makes no difference.
Young == 5
Grown == Young + 1

VARIABLES cfgFps,      \* cfg.fps: None or Some(frames per second)
          tc,          \* TranscodeState, encoder and emitted_seq_header
          jumped       \* history: has a PTS gone backwards?

transcodeVars == <<cfgFps, tc, jumped>>

TranscodeInit ==
  /\ tc = [encoder |-> FALSE,       \* is there an encoder?
           fresh |-> FALSE,         \* has it emitted nothing yet?
           fps |-> <<30, 1>>,       \* fps_assumed
           lastPts |-> 0,
           since |-> 0,             \* frames_since_init, up to Grown
           slot |-> None,           \* last_kept_slot; None is i64::MIN
           minDelta |-> None,
           headerDone |-> FALSE]    \* emitted_seq_header
  /\ jumped = FALSE

\* should_keep_frame: (1000.0 / fps) as i64.  Integer division is by truncation, PTS
\* are not negative.
Interval(fps) == 1000 \div fps
Slot(fps, pts) == pts \div Interval(fps)

\* Mutation: the next bucket is skipped too.
KeepsLate(pts) ==
  cfgFps # None /\ tc.since > 0 => Slot(cfgFps[1], pts) > tc.slot[1] + 1

\* should_keep_frame: the first frame, then a frame that reaches a new bucket.
Keeps(pts) ==
  cfgFps # None /\ tc.since > 0 => Slot(cfgFps[1], pts) > tc.slot[1]

\* process_frame: the smallest distance of kept frames while the encoder is young.
MinDelta(pts) ==
  LET delta == pts - tc.lastPts
  IN  IF cfgFps = None /\ tc.since \in 1 .. Young /\ delta >= 5
      THEN Some(AtMost(OrElse(tc.minDelta, delta), delta))
      ELSE tc.minDelta

\* |1000 / delta - fps| / fps <= 0.1
InTune(fps, delta) ==
  LET difference == 1000 * fps[2] - fps[1] * delta
  IN  10 * (IF difference < 0 THEN -difference ELSE difference) <= fps[1] * delta

\* Mutation: the window closes one frame early.
NewEncoderEarly(minDelta) ==
  IF ~tc.encoder THEN Some(<<OrElse(cfgFps, 30), 1>>)
  ELSE IF cfgFps = None /\ tc.since < Young /\ minDelta # None
          /\ ~InTune(tc.fps, minDelta[1])
  THEN Some(<<1000, minDelta[1]>>)
  ELSE None

\* encode_frame, maybe_recalibrate_encoder: the frame rate of the encoder that has to be
\* created for this frame, if one has to.
NewEncoder(minDelta) ==
  IF ~tc.encoder THEN Some(<<OrElse(cfgFps, 30), 1>>)
  ELSE IF cfgFps = None /\ tc.since <= Young /\ minDelta # None
          /\ ~InTune(tc.fps, minDelta[1])
  THEN Some(<<1000, minDelta[1]>>)
  ELSE None

\* process_frame before encode_frame: the state after a frame with this PTS.
Seen(pts) == [tc EXCEPT !.lastPts = pts]
Kept(pts) == [Seen(pts) EXCEPT
                !.slot = IF cfgFps = None THEN @ ELSE Some(Slot(cfgFps[1], pts)),
                !.minDelta = MinDelta(pts)]

\* ... and with the encoder that encode_frame uses.
Encoding(pts) ==
  LET fps == NewEncoder(MinDelta(pts))
  IN  IF fps = None THEN Kept(pts)
      ELSE [Kept(pts) EXCEPT !.encoder = TRUE, !.fresh = TRUE, !.fps = fps[1]]

\* The NAL units of an encoded picture; the framing of the encoder is Annex B.
H264Packet(key, pts, nals) ==
  [codec |-> "H264", header |-> FALSE, key |-> key, pts |-> Some(pts), dts |-> Some(pts),
   data |-> FlattenSeq([i \in 1 .. Len(nals) |-> StartCode \o nals[i]]), extra |-> None]

\* The synthesized AVCDecoderConfigurationRecord.
AvcHeader ==
  [codec |-> "H264", header |-> TRUE, key |-> TRUE, pts |-> None, dts |-> None,
   data |-> <<>>, extra |-> Some(<<1, 9>>)]

\* Mutation: the header is pushed instead of inserted in front.
WithHeaderLast(out, hasSps) ==
  IF tc.headerDone \/ ~\E i \in 1 .. Len(out) : out[i].key THEN out
  ELSE IF hasSps THEN Append(out, AvcHeader) ELSE out

\* maybe_emit_sequence_header: in front of the first keyframe, if that has an SPS and a
\* PPS; tried once.
WithHeader(out, hasSps) ==
  IF tc.headerDone \/ ~\E i \in 1 .. Len(out) : out[i].key THEN out
  ELSE IF hasSps THEN <<AvcHeader>> \o out ELSE out

Emits(next, out) ==
  [next EXCEPT !.headerDone = @ \/ \E i \in 1 .. Len(out) : out[i].key]

\* The PTS of a decoded frame: its own, or 33 ms after the last one.
PtsOf(stamp) == OrElse(stamp, tc.lastPts + 33)
=============================================================================
