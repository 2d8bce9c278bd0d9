---------------------------- MODULE RtspConnection ----------------------------
(***************************************************************************)
(* One RTSP connection (rtsp/server.rs, rtsp/session.rs, rtsp/rtp.rs), the *)
(* client on the other end of it, and what the connection feeds: RtspSource *)
(* (source/rtsp.rs) and the demuxer task of the pipeline.                  *)
(*                                                                         *)
(* The handler runs the handshake, claims the precreated session, builds   *)
(* the pipeline and then reads interleaved RTP frames and in-band requests *)
(* from the same socket until the stream ends.                             *)
(*                                                                         *)
(* The wire holds what the client has written and the handler has not read *)
(* yet, one element per request, RTP frame or line of stray bytes.  The    *)
(* two halves of the handler read it differently.  read_message reads a    *)
(* chunk, uses the first message of it and forgets the rest: a chunk may   *)
(* reach beyond the message and end in the middle of another element,      *)
(* whose remaining bytes are then a "tail" on the wire.  (BufReader reads  *)
(* ahead too and is dropped with its contents by into_inner.)  next_item   *)
(* reads exactly one element.                                              *)
(*                                                                         *)
(* A lockstep client, as ffmpeg and GStreamer are, waits for the answer to *)
(* a handshake request before it writes on; an eager one does not.         *)
(*                                                                         *)
(* An answer is written with write_all, under neither the idle timer nor   *)
(* the token: when the client does not take its answers and the buffers    *)
(* between the two are full, the handler waits.  (A client that shuts down *)
(* only its sending side is one that stays silent.)                        *)
(*                                                                         *)
(* The token that run_rtp_loop, the source and the pipeline watch is made  *)
(* by the handler and cancelled only by the handler: its branch in the     *)
(* select! of the RTP loop never runs.                                     *)
(***************************************************************************)
EXTENDS Naturals, Sequences

CONSTANTS MaxRequests,     \* bound: requests of the client
          MaxFrames,       \* bound: well-formed RTP frames of the client
          MaxNoise,        \* bound: short frames and stray lines of the client
          MaxWire,         \* bound: elements on the wire
          AnswerRoom,      \* bound: answers that the socket's buffers hold
          FrameCapacity,   \* mpsc::channel(256) from the handler to the source
          PadCapacity      \* new_channel(1024) from the source to the demuxer

ASSUME RtspAssumption ==
  /\ {MaxRequests, MaxFrames, MaxNoise} \subseteq Nat
  /\ {MaxWire, AnswerRoom, FrameCapacity, PadCapacity} \subseteq Nat \ {0}

\* "BADSDP" is an ANNOUNCE whose body parse_sdp rejects, "OTHER" a method that the
\* session does not allow.
Requests == {"OPTIONS", "ANNOUNCE", "BADSDP", "SETUP", "RECORD", "TEARDOWN", "OTHER"}
Noise == {"short", "stray"}
Frame(n) == [kind |-> "frame", frame |-> n]
Plain(kind) == [kind |-> kind, frame |-> 0]
Elements == [kind : {"frame"}, frame : 0 .. MaxFrames]
              \cup [kind : Requests \cup Noise \cup {"tail"}, frame : {0}]

VARIABLES eager,       \* does the client write ahead of the answers?
          wire,        \* written by the client, not read by the handler
          closed,      \* has the client closed its side?
          asked,       \* requests written
          answers,     \* responses written, not taken by the client
          taken,       \* responses taken by the client
          recording,   \* has a lockstep client taken the answer to its RECORD?
          filmed,      \* well-formed frames written, numbered from 1
          noise,       \* short frames and stray lines written
          session,     \* RtspSession::state
          handler,     \* handle_connection: where it is
          lifecycle,   \* HandlerLifecycle: "none", "held", "connected", "ended"
          channel,     \* is the hub's channel there because of this connection?
          cancelled,   \* the connection's token
          frames,      \* the queue from the handler to the source
          source,      \* RtspSource::start: where it is, its packet
          pad,         \* the queue from the source to the demuxer
          demux,       \* the demuxer's task
          demuxed      \* what the demuxer has been given

client == <<eager, closed, asked, taken, recording, filmed, noise>>
media == <<source, pad, demux, demuxed>>
vars == <<client, wire, answers, session, handler, lifecycle, channel, cancelled,
          frames, media>>

Init ==
  /\ eager \in BOOLEAN
  /\ wire = <<>> /\ closed = FALSE
  /\ asked = 0 /\ answers = 0 /\ taken = 0 /\ filmed = 0 /\ noise = 0
  /\ recording = FALSE
  /\ session = "WaitAnnounce" /\ handler = "handshake"
  /\ lifecycle = "none" /\ channel = FALSE /\ cancelled = FALSE
  /\ frames = <<>> /\ pad = <<>> /\ demuxed = <<>>
  /\ source = [pc |-> "none", packet |-> 0]
  /\ demux = "none"

-----------------------------------------------------------------------------
(* The client *)

IsRequest(e) == e.kind \in Requests
Unanswered == asked # taken

\* Nothing is written on a connection that one of the two sides has closed.
CanWrite == ~closed /\ handler # "done" /\ Len(wire) < MaxWire

\* A request; a lockstep client has one outstanding at a time.
ClientAsks ==
  /\ CanWrite /\ asked < MaxRequests
  /\ eager \/ ~Unanswered
  /\ \E r \in Requests : wire' = Append(wire, Plain(r))
  /\ asked' = asked + 1
  /\ UNCHANGED <<eager, taken, recording, closed, filmed, noise, answers, session, handler,
                 lifecycle, channel, cancelled, frames, media>>

\* May the client send media?  A lockstep client has read the answer to RECORD.
CanStream == CanWrite /\ (eager \/ recording)

ClientFilms ==
  /\ CanStream /\ filmed < MaxFrames
  /\ filmed' = filmed + 1
  /\ wire' = Append(wire, Frame(filmed'))
  /\ UNCHANGED <<eager, taken, recording, closed, asked, noise, answers, session, handler,
                 lifecycle, channel, cancelled, frames, media>>

\* A frame without a whole RTP header, or bytes that are no request line.
ClientNoise ==
  /\ CanStream /\ noise < MaxNoise
  /\ noise' = noise + 1
  /\ \E kind \in Noise : wire' = Append(wire, Plain(kind))
  /\ UNCHANGED <<eager, taken, recording, closed, asked, filmed, answers, session, handler,
                 lifecycle, channel, cancelled, frames, media>>

\* The client takes an answer.  That of a lockstep client is to its last request.
ClientTakes ==
  /\ ~closed /\ answers > 0
  /\ answers' = answers - 1
  /\ taken' = taken + 1
  /\ recording' = (recording \/ (~eager /\ session = "Recording"))
  /\ UNCHANGED <<eager, closed, asked, filmed, noise, wire, session, handler, lifecycle,
                 channel, cancelled, frames, media>>

ClientCloses ==
  /\ ~closed
  /\ closed' = TRUE
  /\ UNCHANGED <<eager, taken, recording, asked, filmed, noise, wire, answers, session,
                 handler, lifecycle, channel, cancelled, frames, media>>

-----------------------------------------------------------------------------
(* The handler: handshake *)

\* handle_request: the state after request r.  What the state does not allow is
\* answered with an error and changes nothing.
SessionAfter(s, r) ==
  CASE r = "TEARDOWN" -> "Teardown"
    [] r = "ANNOUNCE" /\ s = "WaitAnnounce" -> "WaitSetup"
    [] r = "SETUP" /\ s \in {"WaitSetup", "WaitRecord"} -> "WaitRecord"
    [] r = "RECORD" /\ s = "WaitRecord" -> "Recording"
    [] OTHER -> s

\* handle_request returns an error.
SessionFails(s, r) == r = "BADSDP" /\ s = "WaitAnnounce"

\* What is left on the wire after n elements of it, and some bytes of the next one if
\* cut, have been read.
Unread(n, cut) ==
  LET rest == SubSeq(wire, n + 1, Len(wire))
  IN  IF cut THEN <<Plain("tail")>> \o Tail(rest) ELSE rest

\* read_message: the chunks that hold the first n elements of the wire.
ReadChunk(n) == \E cut \in {FALSE} \cup {n < Len(wire)} : wire' = Unread(n, cut)

\* The handshake ends without a recording: the connection is closed.
Abort == handler' = "done"

\* write_all: the answer goes into the socket's buffers, once there is room ...
Written ==
  /\ answers < AnswerRoom
  /\ answers' = answers + 1

\* ... or the client has closed the connection and the write fails.
WriteFails == closed /\ UNCHANGED answers

\* run_rtsp_handshake reads a request; handle_handshake_request changes the session ...
HandshakeRequest ==
  /\ handler = "handshake"
  /\ wire # <<>> /\ IsRequest(Head(wire))
  /\ \E n \in 1 .. Len(wire) : ReadChunk(n)
  /\ session' = SessionAfter(session, Head(wire).kind)
  /\ handler' = IF SessionFails(session, Head(wire).kind) THEN "error" ELSE "reply"
  /\ UNCHANGED <<client, answers, lifecycle, channel, cancelled, frames, media>>

\* ... and answers, with a 500 if the session fails.  An answer that cannot be written
\* ends the handshake, a 500 that cannot does not.
HandshakeReply ==
  /\ handler \in {"reply", "error"}
  /\ \/ /\ Written
        /\ CASE session = "Teardown" -> Abort
             [] session = "Recording" -> handler' = "claim"
             [] OTHER -> handler' = "handshake"
     \/ /\ WriteFails
        /\ IF handler = "error" THEN handler' = "handshake" ELSE Abort
  /\ UNCHANGED <<client, wire, session, lifecycle, channel, cancelled, frames, media>>

\* The chunk does not begin with a request: it cannot be parsed, or it parses as
\* interleaved data and is skipped.
HandshakeGarbage ==
  /\ handler = "handshake"
  /\ wire # <<>> /\ ~IsRequest(Head(wire))
  /\ \E n \in 1 .. Len(wire) : ReadChunk(n)
  /\ Abort \/ UNCHANGED handler
  /\ UNCHANGED <<client, answers, session, lifecycle, channel, cancelled, frames, media>>

\* End of file, a read error, or the idle timeout.
HandshakeEnds ==
  /\ handler = "handshake"
  /\ wire = <<>> \/ closed
  /\ Abort
  /\ UNCHANGED <<client, wire, answers, session, lifecycle, channel, cancelled, frames,
                 media>>

-----------------------------------------------------------------------------
(* The handler: claiming the session *)

\* No stream key in the URL, or no precreated session for it.
ClaimFails ==
  /\ handler = "claim"
  /\ Abort
  /\ UNCHANGED <<client, wire, answers, session, lifecycle, channel, cancelled, frames,
                 media>>

\* pending_lifecycle.remove, create_channel.
Claim ==
  /\ handler = "claim"
  /\ handler' = "connect"
  /\ lifecycle' = "held"
  /\ channel' = TRUE
  /\ UNCHANGED <<client, wire, answers, session, cancelled, frames, media>>

\* The end of handle_connection.
TearDown ==
  /\ handler' = "done"
  /\ lifecycle' = "ended"
  /\ channel' = FALSE
  /\ cancelled' = TRUE

\* Mutation: the error of connect() is returned at once.
ConnectFailsEarly ==
  /\ handler = "connect"
  /\ handler' = "done"
  /\ lifecycle' = "ended"
  /\ UNCHANGED <<client, wire, answers, session, frames, media, channel, cancelled>>

\* lifecycle.connect() fails: the session has ended in the meantime.  The lifecycle
\* ends with its Drop.
ConnectFails ==
  /\ handler = "connect"
  /\ TearDown
  /\ UNCHANGED <<client, wire, answers, session, frames, media>>

\* lifecycle.connect(), build_rtsp_pipeline, the source's task.  If the pipeline cannot
\* be built the connection goes on without one; the receiver of the pad is gone.
Connect ==
  /\ handler = "connect"
  /\ handler' = "rtp"
  /\ lifecycle' = "connected"
  /\ source' = [source EXCEPT !.pc = "idle"]
  /\ demux' \in {"running", "failed"}
  /\ UNCHANGED <<client, wire, answers, session, channel, cancelled, frames, pad, demuxed>>

-----------------------------------------------------------------------------
(* The handler: the RTP loop *)

\* Mutation: try_send, a frame that finds the queue full is dropped.
RtpFrameDrops ==
  /\ handler = "rtp"
  /\ wire # <<>> /\ Head(wire).kind = "frame"
  /\ frames' = IF Len(frames) < FrameCapacity
               THEN Append(frames, Head(wire).frame) ELSE frames
  /\ wire' = Tail(wire)
  /\ UNCHANGED <<client, answers, session, handler, lifecycle, channel, cancelled, media>>

\* forward_interleaved_frame: waits while the queue is full.
RtpFrame ==
  /\ handler = "rtp"
  /\ wire # <<>> /\ Head(wire).kind = "frame"
  /\ Len(frames) < FrameCapacity
  /\ frames' = Append(frames, Head(wire).frame)
  /\ wire' = Tail(wire)
  /\ UNCHANGED <<client, answers, session, handler, lifecycle, channel, cancelled, media>>

\* A malformed frame or a stray line is dropped.
RtpNoise ==
  /\ handler = "rtp"
  /\ wire # <<>> /\ Head(wire).kind \in Noise
  /\ wire' = Tail(wire)
  /\ UNCHANGED <<client, answers, session, handler, lifecycle, channel, cancelled, frames,
                 media>>

\* The bytes of a tail are read as a stray line or as a frame (frame 0), which may
\* swallow the elements behind it, or leave a tail of one; or as a request that is
\* too long, which ends the loop.
RtpTail ==
  /\ handler = "rtp"
  /\ wire # <<>> /\ Head(wire).kind = "tail"
  /\ \E n \in 1 .. Len(wire) : ReadChunk(n)
  /\ \/ /\ UNCHANGED <<handler, lifecycle, channel, cancelled>>
        /\ \/ UNCHANGED frames
           \/ Len(frames) < FrameCapacity /\ frames' = Append(frames, 0)
     \/ TearDown /\ UNCHANGED frames
  /\ UNCHANGED <<client, answers, session, media>>

\* handle_inband_request: the same session ...
RtpRequest ==
  /\ handler = "rtp"
  /\ wire # <<>> /\ IsRequest(Head(wire))
  /\ wire' = Tail(wire)
  /\ session' = SessionAfter(session, Head(wire).kind)
  /\ handler' = "inband"
  /\ UNCHANGED <<client, answers, lifecycle, channel, cancelled, frames, media>>

\* ... and the same answers; one that cannot be written is only logged.  TEARDOWN ends
\* the loop.
RtpReply ==
  /\ handler = "inband"
  /\ Written \/ WriteFails
  /\ IF session = "Teardown" THEN TearDown
     ELSE handler' = "rtp" /\ UNCHANGED <<lifecycle, channel, cancelled>>
  /\ UNCHANGED <<client, wire, session, frames, media>>

\* Mutation: only a closed connection ends the loop, the idle timer is missing.
RtpEndsOnClose ==
  /\ handler = "rtp"
  /\ wire = <<>> /\ closed
  /\ TearDown
  /\ UNCHANGED <<client, wire, answers, session, frames, media>>

\* End of file, a read error, or IDLE_TIMEOUT without an element.
RtpEnds ==
  /\ handler = "rtp"
  /\ wire = <<>>
  /\ TearDown
  /\ UNCHANGED <<client, wire, answers, session, frames, media>>

-----------------------------------------------------------------------------
(* RtspSource and the demuxer's task *)

\* start() takes a frame from the queue.
SourceRecv ==
  /\ source.pc = "idle" /\ frames # <<>>
  /\ source' = [pc |-> "holding", packet |-> Head(frames)]
  /\ frames' = Tail(frames)
  /\ UNCHANGED <<client, wire, answers, session, handler, lifecycle, channel, cancelled,
                 pad, demux, demuxed>>

\* send_pkt_or_stop: retried while the pad is full; a closed pad drops the packet.
SourceSend ==
  /\ source.pc = "holding"
  /\ demux = "running" => Len(pad) < PadCapacity
  /\ pad' = IF demux = "running" THEN Append(pad, source.packet) ELSE pad
  /\ source' = [pc |-> "idle", packet |-> 0]
  /\ UNCHANGED <<client, wire, answers, session, handler, lifecycle, channel, cancelled,
                 frames, demux, demuxed>>

\* The token is cancelled.  (The queue's sender lives as long as the handler, which
\* cancels before it returns.)
SourceEnds ==
  /\ source.pc = "idle" /\ cancelled
  /\ source' = [source EXCEPT !.pc = "done"]
  /\ UNCHANGED <<client, wire, answers, session, handler, lifecycle, channel, cancelled,
                 frames, pad, demux, demuxed>>

\* run_processor gives RtpDemuxProcessor its next packet.
DemuxRecv ==
  /\ demux = "running" /\ pad # <<>>
  /\ demuxed' = Append(demuxed, Head(pad))
  /\ pad' = Tail(pad)
  /\ UNCHANGED <<client, wire, answers, session, handler, lifecycle, channel, cancelled,
                 frames, source, demux>>

DemuxEnds ==
  /\ demux = "running" /\ cancelled
  /\ demux' = "done"
  /\ UNCHANGED <<client, wire, answers, session, handler, lifecycle, channel, cancelled,
                 frames, source, pad, demuxed>>

-----------------------------------------------------------------------------
ClientStep == ClientAsks \/ ClientFilms \/ ClientNoise \/ ClientTakes \/ ClientCloses

HandlerStep ==
  \/ HandshakeRequest \/ HandshakeReply \/ HandshakeGarbage \/ HandshakeEnds
  \/ ClaimFails \/ Claim \/ ConnectFails \/ Connect
  \/ RtpFrame \/ RtpNoise \/ RtpTail \/ RtpRequest \/ RtpReply \/ RtpEnds

SourceStep == SourceRecv \/ SourceSend \/ SourceEnds

DemuxStep == DemuxRecv \/ DemuxEnds

Next == ClientStep \/ HandlerStep \/ SourceStep \/ DemuxStep

Spec == Init /\ [][Next]_vars

\* The runtime polls every task that can go on; timers fire.  The client owes nothing.
\* The source's and the demuxer's select! may prefer a packet to the token as long as
\* there are packets.
FairSpec == /\ Spec
            /\ WF_vars(HandlerStep)
            /\ WF_vars(SourceStep)
            /\ WF_vars(DemuxStep)

-----------------------------------------------------------------------------
\* Type invariant.
TypeOK ==
  /\ eager \in BOOLEAN /\ closed \in BOOLEAN /\ channel \in BOOLEAN /\ cancelled \in BOOLEAN
  /\ wire \in Seq(Elements) /\ Len(wire) <= MaxWire
  /\ recording \in BOOLEAN
  /\ asked \in 0 .. MaxRequests /\ taken + answers \in 0 .. asked
  /\ answers \in 0 .. AnswerRoom
  /\ filmed \in 0 .. MaxFrames /\ noise \in 0 .. MaxNoise
  /\ session \in {"WaitAnnounce", "WaitSetup", "WaitRecord", "Recording", "Teardown"}
  /\ handler \in {"handshake", "reply", "error", "claim", "connect", "rtp", "inband", "done"}
  /\ lifecycle \in {"none", "held", "connected", "ended"}
  /\ source \in [pc : {"none", "idle", "holding", "done"}, packet : 0 .. MaxFrames]
  /\ demux \in {"none", "running", "failed", "done"}
  /\ {frames, pad, demuxed} \subseteq Seq(0 .. MaxFrames)
  /\ Len(frames) <= FrameCapacity /\ Len(pad) <= PadCapacity

Held == IF source.pc = "holding" THEN <<source.packet>> ELSE <<>>

\* The frames between the client and the demuxer, the oldest first.
InFlight ==
  demuxed \o pad \o Held \o frames
    \o [i \in 1 .. Len(SelectSeq(wire, LAMBDA e : e.kind = "frame")) |->
          SelectSeq(wire, LAMBDA e : e.kind = "frame")[i].frame]

\* The reader is swapped between the handshake and the RTP loop (into_inner) and every
\* queue on the way can be full, yet no frame of a lockstep client is lost, doubled or
\* overtaken, whatever requests and noise it mixes in, as long as the connection runs
\* and has a pipeline.  An eager client may lose frames to the chunk that held its
\* RECORD; those that do arrive arrive once and in order.
FramesArrive ==
  LET real == SelectSeq(InFlight, LAMBDA f : f # 0)
  IN  /\ \A i \in 1 .. Len(real) - 1 : real[i] < real[i + 1]
      /\ ~eager /\ handler # "done" /\ demux # "failed" => InFlight = [i \in 1 .. filmed |-> i]

\* "Cleanup must run on every exit path" (server.rs): a handler that has returned leaves
\* no channel, no running token and no session that has not ended.  (A handler that is
\* aborted at shutdown does not return; the process ends with it.)
NothingLeftBehind ==
  handler = "done" => ~channel /\ lifecycle \in {"none", "ended"}
                      /\ (lifecycle = "ended" => cancelled)

AllEnded == handler = "done" /\ source.pc \in {"none", "done"} /\ demux # "running"

\* Every client falls silent or leaves in the end (here within its bounds), and is dropped
\* then, with the tasks it has started, even if every queue is full: provided that it
\* takes its answers or closes.  One that leaves them in the socket until the buffers are
\* full and then stays holds the handler in write_all, which no timer watches.
SilentClientDropped == []<>(closed \/ answers < AnswerRoom) => <>AllEnded
=============================================================================
