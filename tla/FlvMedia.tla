------------------------------- MODULE FlvMedia -------------------------------
(***************************************************************************)
(* What the two ends of the pipeline do to a frame: RtmpSource turns the   *)
(* body of an RTMP message into an EncodedPacket (source/rtmp.rs), FlvMux  *)
(* turns an EncodedPacket into an FLV tag (processor/flv_mux.rs).          *)
(*                                                                         *)
(* The payload of a video packet is a list of NAL units in one of two      *)
(* framings: AVCC (each with a 4-byte length) and Annex B (each after a    *)
(* start code).  Payloads are sequences of bytes, because the framings     *)
(* are; every other field is its value.                                    *)
(*                                                                         *)
(* An Option is <<>> or <<value>>.  The widths are constants: MaxStamp is  *)
(* u32::MAX and MaxOffset 0xFFFFFF, scaled down.                           *)
(***************************************************************************)
EXTENDS Integers, Sequences, SequencesExt

CONSTANTS MaxStamp,        \* largest FLV timestamp (u32)
          MaxOffset        \* largest raw CompositionTime (24 bits)

ASSUME WidthAssumption == MaxOffset \in Nat /\ MaxStamp \in Nat /\ MaxOffset % 2 = 1

None == <<>>
Some(x) == <<x>>
OrElse(option, default) == IF option = None THEN default ELSE option[1]

AtLeast(low, x) == IF x < low THEN low ELSE x
AtMost(high, x) == IF x > high THEN high ELSE x

-----------------------------------------------------------------------------
(* NAL unit framings *)

\* The byte at offset i, counted from 0 as the code does.
Byte(data, i) == data[i + 1]
Slice(data, from, to) == SubSeq(data, from + 1, to)

LengthPrefix(n) == <<0, 0, n \div 256, n % 256>>
StartCode == <<0, 0, 0, 1>>

Avcc(nals) == FlattenSeq([i \in 1 .. Len(nals) |-> LengthPrefix(Len(nals[i])) \o nals[i]])

\* u32::from_be_bytes of the 4 bytes at pos.
NalLength(data, pos) ==
  FoldLeft(LAMBDA length, byte : length * 256 + byte, 0, Slice(data, pos, pos + 4))

\* Mutation: the last NAL unit has to end before the end of the data.
AvccToAnnexBStrict(data) ==
  LET From[pos \in 0 .. Len(data)] ==
        IF pos + 4 > Len(data) THEN <<>>
        ELSE LET end == pos + 4 + NalLength(data, pos)
             IN  IF end >= Len(data) THEN <<>>
                 ELSE StartCode \o Slice(data, pos + 4, end) \o From[end]
  IN  From[0]

\* avcc_to_annex_b: stops at a NAL unit that the data does not hold entirely.
AvccToAnnexB(data) ==
  LET From[pos \in 0 .. Len(data)] ==
        IF pos + 4 > Len(data) THEN <<>>
        ELSE LET end == pos + 4 + NalLength(data, pos)
             IN  IF end > Len(data) THEN <<>>
                 ELSE StartCode \o Slice(data, pos + 4, end) \o From[end]
  IN  From[0]

\* The length of the start code at offset i, or 0.
CodeAt(data, i) ==
  IF i + 2 >= Len(data) THEN 0
  ELSE IF Slice(data, i, i + 3) = <<0, 0, 1>> THEN 3
  ELSE IF i + 3 < Len(data) /\ Slice(data, i, i + 4) = StartCode THEN 4
  ELSE 0

\* The start codes that the scan of split_annexb finds, from left to right.
Codes(data) ==
  LET From[i \in 0 .. Len(data)] ==
        IF i + 2 >= Len(data) THEN <<>>
        ELSE IF CodeAt(data, i) = 0 THEN From[i + 1]
        ELSE <<[at |-> i, end |-> i + CodeAt(data, i)]>> \o From[i + CodeAt(data, i)]
  IN  From[0]

\* split_annexb: what lies between the start codes.
SplitAnnexB(data) ==
  LET codes == Codes(data)
  IN  [j \in 1 .. Len(codes) |->
         Slice(data, codes[j].end, IF j < Len(codes) THEN codes[j + 1].at ELSE Len(data))]

-----------------------------------------------------------------------------
(* RtmpSource: convert_frame *)

\* extract_cts: the 24-bit offset, sign extended.
Cts(raw) == IF raw > MaxOffset \div 2 THEN raw - (MaxOffset + 1) ELSE raw

\* convert_video_frame: the message's timestamp is taken as the PTS.
ConvertVideo(f) ==
  [codec |-> f.codec, header |-> f.header, key |-> f.key,
   pts |-> Some(f.stamp), dts |-> Some(f.stamp - Cts(f.offset)),
   data |-> IF f.header THEN f.body ELSE AvccToAnnexB(f.body),
   extra |-> IF f.header /\ f.body # <<>> THEN Some(f.body) ELSE None]

\* convert_audio_frame: two bytes of header are stripped and the rest is AAC, whatever
\* the sound format; only AAC has sequence headers.
ConvertAudio(f) ==
  [codec |-> "AAC", header |-> f.header /\ f.codec = "AAC", key |-> FALSE,
   pts |-> Some(f.stamp), dts |-> None,
   data |-> f.body, extra |-> None]

\* convert_frame: script data, empty messages and unknown video codecs make no packet.
ConvertFrame(f) ==
  IF f.media = "video" /\ f.codec \in {"H264", "H265"} THEN Some(ConvertVideo(f))
  ELSE IF f.media = "audio" THEN Some(ConvertAudio(f))
  ELSE None

-----------------------------------------------------------------------------
(* FlvMux *)

\* avcc_framing after a packet: an AVCDecoderConfigurationRecord (it begins with 1) says
\* that the media tags are length-prefixed.
FramingAfter(avcc, pkt) ==
  \/ avcc
  \/ /\ pkt.codec = "H264" /\ pkt.header
     /\ pkt.extra # None /\ pkt.extra[1] # <<>> /\ Byte(pkt.extra[1], 0) = 1

\* annex_b_to_avcc.
AnnexBToAvcc(avcc, data) == IF avcc THEN Avcc(SplitAnnexB(data)) ELSE data

\* Mutation: CompositionTime is the whole PTS, as if DTS were 0.
OffsetFromZero(pts, dts) == AtMost(MaxOffset, pts)

\* CompositionTime: PTS - DTS, saturating at 0 and at 24 bits.
CompositionTime(pts, dts) == AtMost(MaxOffset, AtLeast(0, pts - dts))

\* mux_video.
MuxVideo(avcc, pkt) ==
  LET pts == AtLeast(0, OrElse(pkt.pts, 0))
      dts == AtLeast(0, OrElse(pkt.dts, pts))
  IN  [media |-> "video", codec |-> pkt.codec, header |-> pkt.header, key |-> pkt.key,
       stamp |-> AtMost(MaxStamp, dts),
       offset |-> IF pkt.header THEN 0 ELSE CompositionTime(pts, dts),
       payload |-> IF pkt.header THEN OrElse(pkt.extra, <<>>)
                   ELSE AnnexBToAvcc(avcc, pkt.data)]

\* mux_audio.
MuxAudio(pkt) ==
  [media |-> "audio", codec |-> pkt.codec, header |-> pkt.header, key |-> FALSE,
   stamp |-> AtMost(MaxStamp, AtLeast(0, OrElse(pkt.pts, 0))), offset |-> 0,
   payload |-> pkt.data]

\* process: H.264, H.265 and AAC are muxed, other codecs dropped.
Mux(avcc, pkt) ==
  IF pkt.codec \in {"H264", "H265"} THEN Some(MuxVideo(FramingAfter(avcc, pkt), pkt))
  ELSE IF pkt.codec = "AAC" THEN Some(MuxAudio(pkt))
  ELSE None
=============================================================================
