--------------------------------- MODULE Hls ---------------------------------
(***************************************************************************)
(* The HLS branches of one stream key, session after session:              *)
(* deferred_hls_init (factory.rs) waits for the codecs, HlsSegmenter       *)
(* (processor/hls_segment.rs) cuts the packets into segments, stages them  *)
(* on disk and keeps the playlist, MinIoSink (sink/minio.rs) uploads both. *)
(*                                                                         *)
(* Segmenter and sink of a session are two tasks that share the session's  *)
(* token.  All sessions of the key share one staging directory and one     *)
(* prefix in the object store, and every session numbers its segments from *)
(* zero.  A sink that is in the middle of an upload does not watch its     *)
(* token, so it may still be at work when the next session runs; its       *)
(* segmenter is not (it stops within the registry's grace period).         *)
(*                                                                         *)
(* A packet is its kind; packets come one unit of time apart.  A segment   *)
(* is named by its session and sequence number; a staged file or object is *)
(* the segment that it holds.  The muxer's buffer is shared by one muxer   *)
(* context after another (context/hls_output.rs): it is the sequence of    *)
(* what they have written, headers and trailers included, each packet with *)
(* its time.  Failures that the code handles happen if Failures allows     *)
(* them.                                                                   *)
(***************************************************************************)
EXTENDS Naturals, Sequences, FiniteSets, SequencesExt

CONSTANTS Codecs,         \* what the stream carries: a subset of {"video", "audio"}
          Failures,       \* what may fail: a subset of FailureKinds
          MaxSessions,    \* bound: sessions of the key
          MaxPackets,     \* bound: packets of all sessions
          MaxFailures,    \* bound: kinds of failures in one session
          SegmentUnits,   \* segment duration, in packets
          PlaylistSize,   \* playlist_size.max(1)
          PadCapacity,    \* new_channel(256) between segmenter and sink
          Attempts        \* uploads tried for a segment: 3

FailureKinds == {"build", "write", "trailer", "create", "stage", "playlist", "upload"}

ASSUME HlsAssumption ==
  /\ Codecs \subseteq {"video", "audio"}
  /\ Failures \subseteq FailureKinds
  /\ MaxSessions \in Nat /\ MaxPackets \in Nat /\ MaxFailures \in Nat
  /\ SegmentUnits \in Nat /\ PlaylistSize \in Nat \ {0}
  /\ PadCapacity \in Nat \ {0} /\ Attempts \in Nat \ {0}

Sessions == 1 .. MaxSessions
Names == 0 .. MaxPackets
Headers == {"video_header", "audio_header"}
Kinds == Headers \cup {"key", "inter", "audio"}
Codec(kind) == IF kind \in {"audio_header", "audio"} THEN "audio" ELSE "video"
Nothing == [session |-> 0]
NoIndex == [session |-> 0, entries |-> <<>>, sequence |-> 0, final |-> FALSE]
Segment(n, k) == [session |-> n, name |-> k]

VARIABLES fed,        \* the kinds that every session's branch has been fed
          cancelled,  \* the sessions that have been cancelled
          seg,        \* the segmenter of every session
          playlist,   \* its PlaylistState
          made,       \* the segments that it has staged: name and packets
          failed,     \* failures that have happened to it
          dropped,    \* the times of the packets that it has thrown away
          queue,      \* the pad from the segmenter to the sink
          sink,       \* the sink of every session
          disk,       \* staged files by name
          index,      \* index.m3u8 in the staging directory
          store,      \* objects by name
          storeIndex, \* index.m3u8 in the store
          resolved    \* segments that have been uploaded, or given up after the retries

vars == <<fed, cancelled, seg, playlist, made, failed, dropped, queue, sink, disk, index,
          store, storeIndex, resolved>>
segmenterVars == <<fed, cancelled, seg, playlist, made, dropped, index>>
sinkVars == <<sink, store, storeIndex, resolved>>

\* ctx: no muxer context, one that is armed to write a trailer when it is dropped, or
\* one that has been disarmed; buf: what is in the muxer's buffer.
NoSegmenter == [pc |-> "unborn", params |-> {}, ctx |-> "none", buf |-> <<>>, first |-> 0,
                last |-> 0, hasKey |-> FALSE, next |-> 0, packet |-> "none", skipped |-> 0]
NoSink == [pc |-> "unborn", name |-> 0, tries |-> 0]

Init ==
  /\ fed = [n \in Sessions |-> <<>>]
  /\ cancelled = {}
  /\ seg = [n \in Sessions |-> NoSegmenter]
  /\ playlist = [n \in Sessions |-> [entries |-> <<>>, sequence |-> 0]]
  /\ made = [n \in Sessions |-> <<>>]
  /\ failed = [n \in Sessions |-> {}]
  /\ dropped = [n \in Sessions |-> {}]
  /\ queue = [n \in Sessions |-> <<>>]
  /\ sink = [n \in Sessions |-> NoSink]
  /\ disk = [k \in Names |-> Nothing]
  /\ index = NoIndex
  /\ store = [k \in Names |-> Nothing]
  /\ storeIndex = NoIndex
  /\ resolved = {}

\* A failure of this kind happens to session n's branch.
Fails(n, kind) ==
  /\ kind \in Failures
  /\ Cardinality(failed[n] \cup {kind}) <= MaxFailures
  /\ failed' = [failed EXCEPT ![n] = @ \cup {kind}]

\* The failures that may happen in one step.
FailureSets(n, kinds) == {F \in SUBSET (Failures \cap kinds) :
                            Cardinality(failed[n] \cup F) <= MaxFailures}

-----------------------------------------------------------------------------
(* The muxer contexts and their buffer *)

\* The buffer once the packet that has just been looked at, or a header or trailer, has
\* been written to it.
Emit(s, kind) == [s EXCEPT !.buf = Append(@, [is |-> kind, at |-> s.last])]
Mark(s, what) == [s EXCEPT !.buf = Append(@, [is |-> what, at |-> 0])]

\* The times of the packets in what has been written, in order.
Times(content) ==
  LET packets == SelectSeq(content, LAMBDA w : w.is \in Kinds)
  IN  [i \in DOMAIN packets |-> packets[i].at]

\* create() and write_header() of a context that writes to the buffer.
NewContext(s) == [Mark(s, "header") EXCEPT !.ctx = "armed"]

\* Drop: a context that was not disarmed appends a trailer.
DropContext(s) == [(IF s.ctx = "armed" THEN Mark(s, "trailer") ELSE s) EXCEPT !.ctx = "none"]

Disarm(s) == [s EXCEPT !.ctx = IF @ = "armed" THEN "disarmed" ELSE @]

\* Storing the context that has just been created and given its header drops the last.
ReplaceContext(s) == [DropContext(Mark(s, "header")) EXCEPT !.ctx = "armed"]

-----------------------------------------------------------------------------
(* Sessions and their packets *)

Cancel(n) ==
  /\ seg[n].pc # "unborn"
  /\ n \notin cancelled
  /\ cancelled' = cancelled \cup {n}
  /\ UNCHANGED <<fed, seg, playlist, made, failed, dropped, queue, disk, index, sinkVars>>

\* The next session of the key, once the segmenter of the last one has stopped.  It
\* starts with the codecs of the SDP (RTSP), or has to wait for them (RTMP).
Start(n) ==
  /\ seg[n].pc = "unborn"
  /\ n > 1 => n - 1 \in cancelled /\ seg[n - 1].pc = "done"
  /\ \/ /\ seg' = [seg EXCEPT ![n].pc = "deferred"]
        /\ UNCHANGED sink
     \/ /\ seg' = [seg EXCEPT ![n] = [NewContext(@) EXCEPT !.pc = "running",
                                                          !.params = Codecs]]
        /\ sink' = [sink EXCEPT ![n].pc = "idle"]
  /\ UNCHANGED <<fed, cancelled, playlist, made, failed, dropped, queue, disk, index,
                 store, storeIndex, resolved>>

PacketsFed == Len(FlattenSeq(fed))

\* What the encoder may send next: a codec's header first, and then a keyframe.
MaySend(n, kind) ==
  /\ Codec(kind) \in Codecs
  /\ PacketsFed < MaxPackets
  /\ kind \notin Headers =>
       \E i \in DOMAIN fed[n] : fed[n][i] \in Headers /\ Codec(fed[n][i]) = Codec(kind)
  /\ kind = "inter" => \E i \in DOMAIN fed[n] : fed[n][i] = "key"
  /\ kind \in Headers => \A i \in DOMAIN fed[n] : fed[n][i] # kind

Receive(n, kind) == MaySend(n, kind) /\ fed' = [fed EXCEPT ![n] = Append(@, kind)]

\* Packets come one unit apart.
Now(n) == Len(fed[n]) + 1

-----------------------------------------------------------------------------
(* deferred_hls_init *)

\* A sequence header is recorded; media starts the branch if any codec is known, and
\* so does the second codec.  The packet itself goes no further (skipped).
DeferredInit(n, kind) ==
  LET known == seg[n].params
      params == IF kind \in Headers THEN known \cup {Codec(kind)} ELSE known
  IN  /\ seg[n].pc = "deferred"
      /\ Receive(n, kind)
      /\ \/ /\ params = {} \/ (kind \in Headers /\ params # {"video", "audio"})
            /\ seg' = [seg EXCEPT ![n].params = params]
            /\ UNCHANGED <<sink, failed>>
         \/ /\ params # {} /\ (kind \in Headers => params = {"video", "audio"})
            /\ \/ /\ seg' = [seg EXCEPT ![n] = [NewContext(@) EXCEPT
                              !.params = params, !.pc = "running", !.skipped = Now(n)]]
                  /\ sink' = [sink EXCEPT ![n].pc = "idle"]
                  /\ UNCHANGED failed
               \/ /\ Fails(n, "build")
                  /\ seg' = [seg EXCEPT ![n].pc = "done", ![n].skipped = Now(n)]
                  /\ UNCHANGED sink
      /\ UNCHANGED <<cancelled, playlist, made, dropped, queue, disk, index, store,
                     storeIndex, resolved>>

\* The token is cancelled.
DeferredEnds(n) ==
  /\ seg[n].pc = "deferred"
  /\ n \in cancelled
  /\ seg' = [seg EXCEPT ![n].pc = "done"]
  /\ UNCHANGED <<fed, cancelled, playlist, made, failed, dropped, queue, disk, index, sinkVars>>

-----------------------------------------------------------------------------
(* HlsSegmenter *)

\* SegmentState::reset
ResetState(s) == [s EXCEPT !.first = 0, !.last = 0, !.hasKey = FALSE]

\* Mutation: the buffer is cleared before the broken context is dropped.
ResetClearsFirst(s, wrong) ==
  LET clear == DropContext([ResetState(s) EXCEPT !.buf = <<>>])
  IN  IF "create" \in wrong THEN clear ELSE NewContext(clear)

\* reset_after_write_error: the broken context is dropped, the buffer cleared, and a
\* context created, if that is possible.
Reset(s, wrong) ==
  LET clear == [DropContext(ResetState(s)) EXCEPT !.buf = <<>>]
  IN  IF "create" \in wrong THEN clear ELSE NewContext(clear)

\* write_packet_or_reset: a codec without a stream in the muxer is skipped; the write
\* fails for want of a context, and may fail in one that has written its trailer.  With
\* the packets that are lost: what the buffer held, and the packet.
WriteOrReset(s, kind, wrong) ==
  LET muxed == Codec(kind) \in s.params
      lands == wrong = {} /\ (muxed => s.ctx # "none")
      fails == muxed /\ ("write" \in wrong <=> s.ctx = "armed")
      landed == [after |-> IF muxed THEN Emit(s, kind) ELSE s, lost |-> {}]
      broken == [after |-> Reset(s, wrong), lost |-> ToSet(Times(s.buf)) \cup {s.last}]
  IN  {t \in {landed} : lands} \cup {t \in {broken} : fails}

\* The segment state once a packet of this kind has been looked at.
Looked(n, kind) ==
  [seg[n] EXCEPT !.first = IF @ = 0 THEN Now(n) ELSE @, !.last = Now(n),
                 !.hasKey = @ \/ kind = "key"]

RollsOver(s, kind) ==
  s.last - s.first >= SegmentUnits /\ (kind = "key" \/ ~s.hasKey)

\* process() of a sequence header, or of a packet that the current segment takes;
\* write_packet_or_reset starts afresh when the muxer fails.
Process(n, kind) ==
  /\ seg[n].pc = "running"
  /\ Receive(n, kind)
  /\ \/ kind \in Headers /\ UNCHANGED <<seg, failed, dropped>>
     \/ /\ kind \notin Headers
        /\ ~RollsOver(Looked(n, kind), kind)
        /\ \E wrong \in FailureSets(n, {"write", "create"}) :
             /\ \E w \in WriteOrReset(Looked(n, kind), kind, wrong) :
                  /\ seg' = [seg EXCEPT ![n] = w.after]
                  /\ dropped' = [dropped EXCEPT ![n] = @ \cup w.lost]
             /\ failed' = [failed EXCEPT ![n] = @ \cup wrong]
  /\ UNCHANGED <<cancelled, playlist, made, queue, disk, index, sinkVars>>

\* process() of a packet that starts the next segment.
ProcessRollover(n, kind) ==
  /\ seg[n].pc = "running"
  /\ kind \notin Headers
  /\ RollsOver(Looked(n, kind), kind)
  /\ Receive(n, kind)
  /\ seg' = [seg EXCEPT ![n] = [Looked(n, kind) EXCEPT !.pc = "rolling", !.packet = kind]]
  /\ UNCHANGED <<cancelled, playlist, made, failed, dropped, queue, disk, index, sinkVars>>

\* The token is cancelled: run_processor leaves its loop and calls close().
Close(n) ==
  /\ seg[n].pc = "running"
  /\ n \in cancelled
  /\ seg' = [seg EXCEPT ![n].pc = "closing"]
  /\ UNCHANGED <<fed, cancelled, playlist, made, failed, dropped, queue, disk, index, sinkVars>>

\* rollover, under the lock: the trailer is written, the sequence number and the buffer
\* are taken, and the context is disarmed and replaced, if one can be created.
Recreated(s, wrong) ==
  LET taken == Disarm([s EXCEPT !.next = @ + 1, !.buf = <<>>])
  IN  IF "create" \in wrong THEN taken ELSE ReplaceContext(taken)

\* The packet at hand, if it is one that the muxer takes.
AtHand(n) == IF seg[n].packet # "none" /\ Codec(seg[n].packet) \in seg[n].params
             THEN {Len(fed[n])} ELSE {}

\* rollover: the segment is staged, over a file of the same name if need be.  Where it
\* fails process() or close() returns the error: the packet at hand is lost, the segment
\* state stays as it is, and a buffer that has been taken is lost.  A trailer that fails
\* leaves the buffer where it is, and close() then drops it with the segmenter.
Rollover(n) ==
  LET k == seg[n].next
      closing == seg[n].pc = "closing"
      content == (IF seg[n].ctx = "none" THEN seg[n] ELSE Mark(seg[n], "trailer")).buf
      buffered == ToSet(Times(content))
      Back(s) == [s EXCEPT !.pc = IF closing THEN "done" ELSE "running", !.packet = "none"]
      Drop(times) == dropped' = [dropped EXCEPT ![n] = @ \cup times]
  IN  /\ seg[n].pc \in {"rolling", "closing"}
      /\ \/ /\ disk' = [disk EXCEPT ![k] = Segment(n, k)]
            /\ made' = [made EXCEPT ![n] = Append(@, [name |-> k, content |-> content])]
            /\ seg' = [seg EXCEPT ![n] = [Recreated(@, {}) EXCEPT
                          !.pc = IF closing THEN "final_staged" ELSE "staged"]]
            /\ UNCHANGED <<failed, dropped>>
         \/ /\ Fails(n, "stage")
            /\ seg' = [seg EXCEPT ![n] = Back(Recreated(@, {}))]
            /\ Drop(buffered \cup AtHand(n))
            /\ disk' \in {disk} \cup
                 {[disk EXCEPT ![k] = file] : file \in {Nothing, Segment(n, k)}}
            /\ UNCHANGED made
         \/ /\ Fails(n, "create")
            /\ seg' = [seg EXCEPT ![n] = Back(Recreated(@, {"create"}))]
            /\ Drop(buffered \cup AtHand(n))
            /\ UNCHANGED <<disk, made>>
         \/ /\ seg[n].ctx # "none"
            /\ Fails(n, "trailer")
            /\ seg' = [seg EXCEPT ![n] = Back(@)]
            /\ Drop(IF closing THEN buffered ELSE AtHand(n))
            /\ UNCHANGED <<disk, made>>
      /\ UNCHANGED <<fed, cancelled, playlist, queue, index, sinkVars>>

\* push_segment
PushSegment(pl, name) ==
  IF Len(pl.entries) >= PlaylistSize
  THEN [entries |-> Append(Tail(pl.entries), name), sequence |-> pl.sequence + 1]
  ELSE [entries |-> Append(pl.entries, name), sequence |-> pl.sequence]

\* Mutation: the playlist is written before the segment is pushed.
WritePlaylistEarly(n, pl, final, wrong) ==
  /\ playlist' = [playlist EXCEPT ![n] = pl]
  /\ index' = IF "playlist" \in wrong THEN index
              ELSE [session |-> n, entries |-> playlist[n].entries,
                    sequence |-> playlist[n].sequence, final |-> final]

\* write_playlist, write_final_playlist: a failure is only logged.
WritePlaylist(n, pl, final, wrong) ==
  /\ playlist' = [playlist EXCEPT ![n] = pl]
  /\ index' = IF "playlist" \in wrong THEN index
              ELSE [session |-> n, entries |-> pl.entries, sequence |-> pl.sequence,
                    final |-> final]

\* The segment state when the packet at hand starts a segment.
Opened(n) == [seg[n] EXCEPT !.first = Len(fed[n]), !.last = Len(fed[n]),
                            !.hasKey = seg[n].packet = "key"]

\* Mutation: the packet that triggers the rollover is not written.
AfterRolloverDropsPacket(n) ==
  /\ seg[n].pc = "staged"
  /\ \E wrong \in FailureSets(n, {"playlist", "write"}) :
       /\ WritePlaylist(n, PushSegment(playlist[n], seg[n].next - 1), FALSE, wrong)
       /\ seg' = [seg EXCEPT ![n] = [Opened(n) EXCEPT !.pc = "sending", !.packet = "none"]]
       /\ failed' = [failed EXCEPT ![n] = @ \cup wrong]
  /\ UNCHANGED <<fed, cancelled, made, dropped, queue, disk, sinkVars>>

\* The rest of process(): the packet starts the new segment, the playlist takes the
\* staged one.
AfterRollover(n) ==
  /\ seg[n].pc = "staged"
  /\ \E wrong \in FailureSets(n, {"playlist", "write", "create"}) :
       /\ WritePlaylist(n, PushSegment(playlist[n], seg[n].next - 1), FALSE, wrong)
       /\ \E w \in WriteOrReset(Opened(n), seg[n].packet, wrong \ {"playlist"}) :
            /\ seg' = [seg EXCEPT ![n] = [w.after EXCEPT !.pc = "sending", !.packet = "none"]]
            /\ dropped' = [dropped EXCEPT ![n] = @ \cup w.lost]
       /\ failed' = [failed EXCEPT ![n] = @ \cup wrong]
  /\ UNCHANGED <<fed, cancelled, made, queue, disk, sinkVars>>

\* The rest of close().
AfterFinal(n) ==
  /\ seg[n].pc = "final_staged"
  /\ \E wrong \in FailureSets(n, {"playlist"}) :
       /\ WritePlaylist(n, PushSegment(playlist[n], seg[n].next - 1), TRUE, wrong)
       /\ failed' = [failed EXCEPT ![n] = @ \cup wrong]
  /\ seg' = [seg EXCEPT ![n].pc = "final_sending"]
  /\ UNCHANGED <<fed, cancelled, made, dropped, queue, disk, sinkVars>>

\* The segment is sent to the sink: lost if the pad is full or the sink gone.
Send(n) ==
  /\ seg[n].pc \in {"sending", "final_sending"}
  /\ queue' = IF sink[n].pc = "done" \/ Len(queue[n]) >= PadCapacity THEN queue
              ELSE [queue EXCEPT ![n] = Append(@, seg[n].next - 1)]
  /\ seg' = [seg EXCEPT ![n].pc = IF @ = "sending" THEN "running" ELSE "done"]
  /\ UNCHANGED <<fed, cancelled, playlist, made, failed, dropped, disk, index, sinkVars>>

-----------------------------------------------------------------------------
(* MinIoSink *)

Take(n) ==
  /\ sink[n].pc = "idle"
  /\ queue[n] # <<>>
  /\ sink' = [sink EXCEPT ![n] = [pc |-> "uploading", name |-> Head(queue[n]), tries |-> 0]]
  /\ queue' = [queue EXCEPT ![n] = Tail(@)]
  /\ UNCHANGED <<segmenterVars, failed, disk, store, storeIndex, resolved>>

\* upload_file: whatever the file of that name holds is uploaded.
Upload(n) ==
  LET k == sink[n].name
  IN  /\ sink[n].pc = "uploading"
      /\ disk[k] # Nothing
      /\ store' = [store EXCEPT ![k] = disk[k]]
      /\ resolved' = resolved \cup {disk[k]}
      /\ sink' = [sink EXCEPT ![n].pc = "uploaded"]
      /\ UNCHANGED <<segmenterVars, failed, queue, disk, storeIndex>>

\* The upload fails, or there is no file to upload.
UploadError(n) == \/ Fails(n, "upload")
                  \/ disk[sink[n].name] = Nothing /\ UNCHANGED failed

\* Mutation: no limit to the retries.
UploadFailsForever(n) ==
  /\ sink[n].pc = "uploading"
  /\ UploadError(n)
  /\ sink' = [sink EXCEPT ![n].tries = 1 - @]
  /\ UNCHANGED <<segmenterVars, queue, disk, store, storeIndex, resolved>>

\* It fails: retried, and given up after the last attempt.
UploadFails(n) ==
  LET givenUp == sink[n].tries + 1 = Attempts
  IN  /\ sink[n].pc = "uploading"
      /\ UploadError(n)
      /\ sink' = [sink EXCEPT ![n].tries = @ + 1,
                              ![n].pc = IF givenUp THEN "given_up" ELSE "uploading"]
      /\ resolved' = IF givenUp THEN resolved \cup {Segment(n, sink[n].name)} ELSE resolved
      /\ UNCHANGED <<segmenterVars, queue, disk, store, storeIndex>>

\* The staged file is removed; only after a success is the playlist uploaded.
RemoveStaged(n) ==
  /\ sink[n].pc \in {"uploaded", "given_up"}
  /\ disk' = [disk EXCEPT ![sink[n].name] = Nothing]
  /\ sink' = [sink EXCEPT ![n] =
       IF @.pc = "uploaded" THEN [@ EXCEPT !.pc = "playlist"]
                            ELSE [NoSink EXCEPT !.pc = "idle"]]
  /\ UNCHANGED <<segmenterVars, failed, queue, store, storeIndex, resolved>>

\* upload_playlist: errors are only logged.
UploadPlaylist(n) ==
  /\ sink[n].pc = "playlist"
  /\ sink' = [sink EXCEPT ![n] = [NoSink EXCEPT !.pc = "idle"]]
  /\ \/ storeIndex' = (IF index = NoIndex THEN storeIndex ELSE index) /\ UNCHANGED failed
     \/ Fails(n, "upload") /\ UNCHANGED storeIndex
  /\ UNCHANGED <<segmenterVars, queue, disk, store, resolved>>

\* run_sink ends: cancelled, or no segment and no segmenter left.
SinkEnds(n) ==
  /\ sink[n].pc = "idle"
  /\ n \in cancelled \/ (queue[n] = <<>> /\ seg[n].pc = "done")
  /\ sink' = [sink EXCEPT ![n].pc = "done"]
  /\ UNCHANGED <<segmenterVars, failed, queue, disk, store, storeIndex, resolved>>

-----------------------------------------------------------------------------

SegmenterStep(n) == \/ DeferredEnds(n) \/ Close(n) \/ Rollover(n) \/ AfterRollover(n)
                    \/ AfterFinal(n) \/ Send(n)
SinkStep(n) == \/ Take(n) \/ Upload(n) \/ UploadFails(n) \/ RemoveStaged(n)
               \/ UploadPlaylist(n) \/ SinkEnds(n)
Input(n) == \E kind \in Kinds : \/ DeferredInit(n, kind) \/ Process(n, kind)
                                \/ ProcessRollover(n, kind)

Next == \E n \in Sessions : \/ Cancel(n) \/ Start(n) \/ Input(n)
                            \/ SegmenterStep(n) \/ SinkStep(n)

Spec == Init /\ [][Next]_vars

\* The runtime polls both tasks; packets, stops and restarts may stay away.
FairSpec == /\ Spec
            /\ \A n \in Sessions : WF_vars(SegmenterStep(n)) /\ WF_vars(SinkStep(n))

-----------------------------------------------------------------------------
(* Properties *)

\* Type invariant.
TypeOK ==
  /\ cancelled \subseteq Sessions
  /\ \A n \in Sessions :
       /\ fed[n] \in Seq(Kinds)
       /\ seg[n].pc \in {"unborn", "deferred", "running", "rolling", "closing", "staged",
                         "final_staged", "sending", "final_sending", "done"}
       /\ seg[n].pc \in {"rolling", "staged"} <=> seg[n].packet # "none"
       /\ seg[n].next \in Names
       /\ seg[n].ctx \in {"none", "armed", "disarmed"}
       /\ sink[n].pc \in {"unborn", "idle", "uploading", "uploaded", "given_up", "playlist",
                          "done"}
       /\ sink[n].tries \in 0 .. Attempts
       /\ Len(queue[n]) <= PadCapacity
       /\ Len(playlist[n].entries) <= PlaylistSize
       /\ failed[n] \subseteq Failures
  /\ \A k \in Names : disk[k] # Nothing => disk[k].name = k /\ disk[k].session \in Sessions
  /\ \A k \in Names : store[k] # Nothing => store[k].name = k

\* Every packet of the branch's codecs, from the one after the branch was built, is
\* written to exactly one segment, in the order of the stream, or is among those that the
\* code is known to throw away: the buffer and the packet at hand when a write, a context
\* or a file fails, the packet alone when a trailer does.  Nothing is written twice or out
\* of order through any of these; without such a failure nothing is thrown away, and the
\* packet at which a segment is cut opens the next one; and nothing is missing from the
\* middle of a segment, unless a trailer has failed.
PacketsAccounted ==
  \A n \in Sessions :
    LET due == {i \in seg[n].skipped + 1 .. Len(fed[n]) :
                  fed[n][i] \notin Headers /\ Codec(fed[n][i]) \in seg[n].params}
        open == IF seg[n].pc = "done" THEN <<>> ELSE Times(seg[n].buf)
        cuts == Append([i \in DOMAIN made[n] |-> Times(made[n][i].content)], open)
        written == FlattenSeq(cuts)
    IN  /\ \A i, j \in DOMAIN written : i < j => written[i] < written[j]
        /\ ToSet(written) \cap dropped[n] = {}
        /\ (ToSet(written) \cup dropped[n]) \cap AtHand(n) = {}
        /\ seg[n].pc # "deferred" => ToSet(written) \cup dropped[n] \cup AtHand(n) = due
        /\ failed[n] \cap {"write", "create", "stage", "trailer"} = {} => dropped[n] = {}
        /\ "trailer" \notin failed[n] =>
             \A c \in ToSet(cuts) : \A i \in 1 .. Len(c) - 1 :
               \A lost \in dropped[n] : ~(c[i] < lost /\ lost < c[i + 1])

\* A staged segment is a transport stream of its own, one header, packets, one trailer,
\* whatever writes have failed before: a trailer that a context writes when it is
\* dropped never ends up in the buffer of the next segment (HlsOutputContext::disarm).
\* Once a context could not be created or ended the code promises nothing.
SegmentsWellFormed ==
  \A n \in Sessions : failed[n] \cap {"create", "trailer"} = {} =>
    \A i \in DOMAIN made[n] :
      LET content == made[n][i].content
      IN  \A j \in DOMAIN content : /\ content[j].is = "header" <=> j = 1
                                    /\ content[j].is = "trailer" <=> j = Len(content)

\* The playlist is a window on the segments made so far: entry i is the segment with
\* media sequence number sequence + i - 1, so that a segment keeps its number in every
\* version of the playlist, failures to stage included.  And "HlsSegmenter writes it
\* before sending the segment" (sink/minio.rs): the playlist that the sink uploads after
\* a segment names that segment or has moved past it.
PlaylistInStep ==
  \A n \in Sessions :
    LET pl == playlist[n]
        waiting == ToSet(queue[n]) \cup
                   (IF sink[n].pc \in {"uploading", "uploaded", "playlist"} THEN {sink[n].name}
                    ELSE {})
    IN  /\ \A i \in DOMAIN pl.entries : made[n][pl.sequence + i].name = pl.entries[i]
        /\ seg[n].pc \notin {"staged", "final_staged"} =>
             pl.sequence + Len(pl.entries) = Len(made[n])
        /\ "playlist" \notin failed[n] =>
             \A k \in waiting :
               \/ index.session > n
               \/ index.session = n /\ \E i \in DOMAIN index.entries : k <= index.entries[i]

\* A segment handed to the sink is uploaded or given up, unless the session is
\* cancelled: the retries are limited.
SegmentsResolved ==
  \A n \in Sessions : \A k \in Names :
    Contains(queue[n], k) ~> (Segment(n, k) \in resolved \/ n \in cancelled)
=============================================================================
