-------------------------------- MODULE Media --------------------------------
(***************************************************************************)
(* The media path of one stream, from the ingest connection to the FLV     *)
(* tags that viewers get:                                                  *)
(*                                                                         *)
(*   rtmp    RtmpSource -> FlvMux                                          *)
(*   rtsp    RtpDemuxProcessor -> FlvMux                                   *)
(*   mjpeg   RtpDemuxProcessor -> TranscodeProcessor -> FlvMux             *)
(*                                                                         *)
(* One step takes one message of the connection all the way: the pads      *)
(* between the tasks keep the order (module Pipeline is about what they    *)
(* drop).  FFmpeg's RTP demuxer is external: a packet of RTP completes a   *)
(* frame, completes none, or is an error.                                  *)
(***************************************************************************)
EXTENDS Transcode

CONSTANTS Paths,           \* the paths to explore
          Nals,            \* contents of NAL units
          MaxNals,         \* bound: NAL units in a video message
          Stamps,          \* timestamps of RTMP messages
          PtsValues,       \* timestamps of RTSP frames, in ms
          FpsChoices       \* values of cfg.fps

ASSUME MediaAssumption ==
  /\ Stamps \subseteq 0 .. MaxStamp
  /\ PtsValues \subseteq 0 .. MaxPts
  /\ \A fps \in FpsChoices : fps = None \/ fps[1] \in 1 .. 1000

VARIABLES path,        \* which path the stream takes
          sdp,         \* codecs with extradata, of the streams that process has not seen
          avcc,        \* FlvMux::avcc_framing
          sent,        \* RtpDemuxProcessor::sent_seq_header
          tags,        \* the FLV tags made by the last step
          input,       \* history: what the last step was given
          opened,      \* history: a video header was made before the last step
          avccSeen,    \* history: an avcC header has been made
          lost         \* history: the one chance for a video header is gone

vars == <<path, sdp, avcc, sent, tags, input, opened, avccSeen, lost, transcodeVars>>

Nothing == [nals |-> None, stamp |-> 0, offset |-> 0, gap |-> 0, fate |-> "none"]

Init ==
  /\ path \in Paths
  /\ sdp \in (IF path = "rtmp" THEN {{}} ELSE SUBSET {"H264", "AAC"})
  /\ cfgFps \in (IF path = "mjpeg" THEN FpsChoices ELSE {None})
  /\ TranscodeInit
  /\ avcc = FALSE /\ sent = FALSE /\ tags = <<>> /\ input = Nothing
  /\ opened = FALSE /\ avccSeen = FALSE /\ lost = FALSE

IsVideoHeader(tag) == tag.media = "video" /\ tag.header
Some1(seq, Test(_)) == \E i \in 1 .. Len(seq) : Test(seq[i])

\* FlvMux muxes the packets of a step, one after the other.
Deliver(pkts, frame) ==
  LET Step(acc, pkt) == [avcc |-> FramingAfter(acc.avcc, pkt),
                         tags |-> acc.tags \o Mux(acc.avcc, pkt)]
      muxed == FoldLeft(Step, [avcc |-> avcc, tags |-> <<>>], pkts)
  IN  /\ avcc' = muxed.avcc
      /\ tags' = muxed.tags
      /\ input' = frame
      /\ opened' = (opened \/ Some1(tags, IsVideoHeader))
      /\ avccSeen' = (avccSeen \/ Some1(muxed.tags, LAMBDA t : IsVideoHeader(t)
                                   /\ t.codec = "H264" /\ t.payload # <<>>
                                   /\ Head(t.payload) = 1))

-----------------------------------------------------------------------------
(* rtmp *)

NalLists == UNION {[1 .. n -> Nals] : n \in 0 .. MaxNals}

RtmpDeliver(f, nals) ==
  /\ path = "rtmp"
  /\ Deliver(ConvertFrame(f), [Nothing EXCEPT !.nals = nals, !.stamp = f.stamp,
                                              !.offset = f.offset])
  /\ UNCHANGED <<path, sdp, sent, lost, transcodeVars>>

\* A video message whose last NAL unit may have been cut short on the way.  (Nothing here
\* depends on its keyframe flag.)
RtmpVideo ==
  \E nals \in NalLists, cut \in BOOLEAN, stamp \in Stamps, offset \in 0 .. MaxOffset,
     codec \in {"H264", "H265", "VP6"} :
    LET whole == IF cut /\ nals # <<>> THEN Front(nals) ELSE nals
        body == IF cut /\ nals # <<>> THEN Front(Avcc(nals)) ELSE Avcc(nals)
    IN  RtmpDeliver([media |-> "video", codec |-> codec, header |-> FALSE, key |-> FALSE,
                     stamp |-> stamp, offset |-> offset, body |-> body], Some(whole))

RtmpVideoHeader ==
  \E body \in {<<1, 9>>, <<>>}, stamp \in Stamps, codec \in {"H264", "H265"} :
    RtmpDeliver([media |-> "video", codec |-> codec, header |-> TRUE, key |-> TRUE,
                 stamp |-> stamp, offset |-> 0, body |-> body], None)

\* Its size is small, or around the limit of an FLV tag.
RtmpAudio ==
  \E codec \in {"AAC", "MP3"}, header \in BOOLEAN, stamp \in Stamps,
     size \in {1, MaxData - 2, MaxData - 1} :
    RtmpDeliver([media |-> "audio", codec |-> codec, header |-> header, key |-> FALSE,
                 stamp |-> stamp, offset |-> 0, body |-> [i \in 1 .. size |-> 9]], None)

RtmpScript ==
  RtmpDeliver([media |-> "script", codec |-> "AMF", header |-> FALSE, key |-> FALSE,
               stamp |-> 0, offset |-> 0, body |-> <<9>>], None)

-----------------------------------------------------------------------------
(* RtpDemuxProcessor *)

SequenceHeader(codec, extra) ==
  [codec |-> codec, header |-> TRUE, key |-> TRUE, pts |-> None, dts |-> None,
   data |-> <<>>, extra |-> extra]

\* codec_for_stream, extradata: the parameter sets of an H.264 SDP in Annex B, the
\* AudioSpecificConfig of AAC.  MJPEG has none, and an SDP without sprop-parameter-sets
\* or config is accepted too.
Extradata(codec) ==
  CASE codec \notin sdp -> None
    [] codec = "H264" -> IF path = "rtsp" THEN Some(StartCode \o <<9>>) ELSE None
    [] codec = "AAC" -> Some(<<2, 4>>)

\* process, first call: a header for every stream that has extradata.
DemuxHeaders ==
  LET streams == SelectSeq(<<"H264", "AAC">>, LAMBDA c : ~sent /\ Extradata(c) # None)
  IN  [i \in DOMAIN streams |-> SequenceHeader(streams[i], Extradata(streams[i]))]

\* A call has been made.  If it was the first it may have failed or found no parameter sets.
DemuxCalled(failed) ==
  /\ sent' = TRUE
  /\ sdp' = {}
  /\ lost' = (lost \/ (path = "rtsp" /\ ~sent /\ (failed \/ Extradata("H264") = None)))

\* EncodedPacket::from_av_packet.
FromAvPacket(codec, pts, dts, data) ==
  [codec |-> codec, header |-> FALSE, key |-> FALSE, pts |-> pts,
   dts |-> Some(OrElse(dts, OrElse(pts, 0))), data |-> data, extra |-> None]

MaybeStamps == {None} \cup {Some(p) : p \in Stamps}

RtspVideo ==
  /\ path = "rtsp"
  /\ \E nals \in NalLists, pts, dts \in MaybeStamps :
       LET data == FlattenSeq([i \in 1 .. Len(nals) |-> StartCode \o nals[i]])
       IN  Deliver(Append(DemuxHeaders, FromAvPacket("H264", pts, dts, data)),
                   [Nothing EXCEPT !.nals = Some(nals)])
  /\ DemuxCalled(FALSE)
  /\ UNCHANGED <<path, transcodeVars>>

\* An audio frame; the transcoder passes it on untouched.
RtspAudio ==
  /\ path \in {"rtsp", "mjpeg"}
  /\ \E pts \in MaybeStamps :
       Deliver(Append(DemuxHeaders, FromAvPacket("AAC", pts, pts, <<9>>)), Nothing)
  /\ DemuxCalled(FALSE)
  /\ UNCHANGED <<path, transcodeVars>>

\* No frame is complete.
RtspNoFrame ==
  /\ path \in {"rtsp", "mjpeg"}
  /\ Deliver(DemuxHeaders, Nothing)
  /\ DemuxCalled(FALSE)
  /\ UNCHANGED <<path, transcodeVars>>

\* read_frame fails: the call returns the error, and the headers of a first call with it.
RtspError ==
  /\ path \in {"rtsp", "mjpeg"}
  /\ Deliver(<<>>, Nothing)
  /\ DemuxCalled(TRUE)
  /\ UNCHANGED <<path, transcodeVars>>

-----------------------------------------------------------------------------
(* TranscodeProcessor *)

\* process_frame on a decoded frame: next is the state after it, pkts what comes out.
Decoded(stamp, next, pkts, fate) ==
  /\ tc' = next
  /\ jumped' = (jumped \/ PtsOf(stamp) < tc.lastPts)
  /\ sent' = TRUE /\ sdp' = {}
  /\ Deliver(DemuxHeaders \o pkts, [Nothing EXCEPT !.gap = PtsOf(stamp) - tc.lastPts,
                                                   !.fate = fate])
  /\ UNCHANGED <<path, cfgFps>>

\* The PTS of a frame: known or not; MaxPts bounds what 33 ms steps can reach.
FrameStamps == {stamp \in {None} \cup {Some(p) : p \in PtsValues} : PtsOf(stamp) <= MaxPts}

\* The picture does not decode, or there is no decoder: nothing but the decoder, which is
\* rebuilt, is touched.
MjpegUndecoded ==
  /\ path = "mjpeg"
  /\ Deliver(DemuxHeaders, Nothing)
  /\ sent' = TRUE /\ sdp' = {}
  /\ UNCHANGED <<path, lost, transcodeVars>>

\* The frame is dropped by the fps filter.
MjpegDropped ==
  /\ path = "mjpeg"
  /\ \E stamp \in FrameStamps :
       /\ ~Keeps(PtsOf(stamp))
       /\ Decoded(stamp, Seen(PtsOf(stamp)), <<>>, "dropped")
       /\ UNCHANGED lost

\* encode_frame fails before the encoder is used: the frame has no size, or an encoder
\* has to be created and cannot be.
MjpegNoEncoder ==
  /\ path = "mjpeg"
  /\ \E stamp \in FrameStamps :
       /\ Keeps(PtsOf(stamp))
       /\ Decoded(stamp, Kept(PtsOf(stamp)), <<>>, "failed")
       /\ UNCHANGED lost

\* encode_frame with the encoder, which may have been created for this frame: it gives out
\* a packet or holds the picture back (libx264 with zerolatency does not).  The first
\* packet of an encoder is a keyframe.
Encodes(stamp, since, fate) ==
  \E key, hasSps, held \in BOOLEAN :
    LET next == Encoding(PtsOf(stamp))
        nal == CHOOSE n \in Nals : TRUE
        out == IF held THEN <<>> ELSE <<H264Packet(key, PtsOf(stamp), <<nal>>)>>
    IN  /\ Keeps(PtsOf(stamp))
        /\ next.fresh => key
        /\ Decoded(stamp, Emits([next EXCEPT !.since = since, !.fresh = @ /\ held], out),
                   WithHeader(out, hasSps), fate)
        /\ lost' = (lost \/ (~tc.headerDone /\ key /\ ~held /\ ~hasSps))

\* encode_frame fails in the scaler or the encoder; the packets received before that are
\* given out.
MjpegEncodeFails ==
  /\ path = "mjpeg"
  /\ \E stamp \in FrameStamps : Encodes(stamp, tc.since, "failed")

MjpegEncoded ==
  /\ path = "mjpeg"
  /\ \E stamp \in FrameStamps : Encodes(stamp, AtMost(Grown, tc.since + 1), "encoded")

Next ==
  \/ RtmpVideo \/ RtmpVideoHeader \/ RtmpAudio \/ RtmpScript
  \/ RtspVideo \/ RtspAudio \/ RtspNoFrame \/ RtspError
  \/ MjpegUndecoded \/ MjpegDropped \/ MjpegNoEncoder \/ MjpegEncodeFails \/ MjpegEncoded

Spec == Init /\ [][Next]_vars

-----------------------------------------------------------------------------
MediaTags == {tags[i] : i \in {j \in 1 .. Len(tags) : ~tags[j].header}}

\* A NAL unit crosses two conversions (AVCC to Annex B in the source or out of an
\* encoder, Annex B to AVCC in FlvMux) and comes out as it went in, in the framing that
\* the last avcC header announced: whatever its bytes are short of a start code, empty
\* ones included, and without the unit that a truncated message ends in.
NalsSurvive ==
  \A tag \in MediaTags :
    tag.codec = "H264" /\ input.nals # None =>
      tag.payload = IF avccSeen THEN Avcc(input.nals[1])
                    ELSE FlattenSeq([i \in 1 .. Len(input.nals[1]) |->
                                       StartCode \o input.nals[1][i]])

\* Audio and video of an RTMP stream keep one clock through source and muxer: the
\* presentation time of a tag (timestamp + CompositionTime) is the timestamp of the
\* message, also where the DTS saturates at 0, unless the offset was negative.
OneClock ==
  \A tag \in MediaTags :
    path = "rtmp" /\ Cts(input.offset) >= 0 => tag.stamp + tag.offset = input.stamp

\* The video of an RTSP stream has its header before its first tag, or never: whichever
\* frame, after whichever failures, comes first.  It never has one exactly when the one
\* chance for it is gone.  The demuxer has it with its first packet, and loses it if that
\* packet is an error or the SDP has no parameter sets; the transcoder has it with the
\* first keyframe, and loses it if the encoder put no parameter sets there.
HeaderFirst ==
  path # "rtmp" =>
    \A i \in 1 .. Len(tags) :
      tags[i].media = "video" /\ ~tags[i].header =>
        (lost <=> ~(opened \/ \E j \in 1 .. i - 1 : IsVideoHeader(tags[j])))

\* "Only down-samples - a source below the target rate keeps every frame"
\* (transcode.rs, should_keep_frame): a frame that is dropped came less than 1/fps after
\* the one before it, as long as timestamps do not go backwards.
OnlyDownSamples ==
  cfgFps # None /\ ~jumped /\ input.fate = "dropped" => input.gap * cfgFps[1] < 1000

\* Whenever a frame has been encoded, the encoder runs at the cadence measured so far, to
\* within 10 %, though encoders fail to open, frames fail to encode and the window for a
\* new one closes after a few frames.
EncoderInTune ==
  cfgFps = None /\ input.fate = "encoded" /\ tc.minDelta # None =>
    InTune(tc.fps, tc.minDelta[1])

\* The FLV file of a viewer who comes between two steps (its cached tags are the headers
\* of the last step, say) reads back tag for tag: timestamps beyond 24 bits and payloads
\* up to the limit of DataSize are intact.  It ends early only because of a tag that is
\* too large, and then with a whole tag.
FileReadsBack ==
  LET cached == SelectSeq(tags, LAMBDA tag : tag.header)
      all == cached \o tags
      read == Read(EncodeFile(cached, tags))
      TooLarge(i) == Len(TagPayload(all[i])) > MaxData
  IN  /\ IsPrefix(read, [i \in 1 .. Len(all) |-> [type |-> TagType(all[i]), stamp |-> all[i].stamp,
                                                   payload |-> TagPayload(all[i])]])
      /\ Len(read) < Len(all) => \/ TooLarge(Len(read) + 1)
                                 \/ read = <<>> /\ \E i \in 1 .. Len(cached) : TooLarge(i)
=============================================================================
