---------------------------- MODULE RtmpConnection ----------------------------
(***************************************************************************)
(* RTMP connections from their first byte to their last                    *)
(* (rtmp/server.rs, connection.rs, session.rs, handler/): handshake,       *)
(* connect phase, the decision to publish or to play, the handler, and     *)
(* every early return.  They meet in one stream: its session in the        *)
(* registry, its token, its slot in pending_lifecycle and its FLV channel, *)
(* abstracted from SessionControl to one session that is precreated once.  *)
(*                                                                         *)
(* Clients send what they like, read or do not read what they are sent,    *)
(* and close when they like.  One read can raise several events, handled   *)
(* one by one with awaits in between; which event comes next is chosen     *)
(* when it is handled.  The events of rml_rtmp are abstracted to what the  *)
(* code tells apart.                                                       *)
(***************************************************************************)
EXTENDS Naturals, Sequences, FiniteSets

CONSTANTS Publishers, \* connections, each made once, whose client may ask to publish ...
          Viewers,    \* ... and those whose client may ask to play
          Limits,     \* values of max_connections
          MaxBatch    \* bound: events raised by one read

ASSUME RtmpConnectionAssumption ==
  /\ MaxBatch \in Nat \ {0}
  /\ Limits \subseteq Nat
  /\ IsFiniteSet(Publishers) /\ IsFiniteSet(Viewers)

Conns == Publishers \cup Viewers

VARIABLES conn,       \* every connection: see Fresh
          source,     \* the RtmpSource task of every publisher
          stream,     \* its state in the registry, is its token cancelled, is
                      \* its lifecycle pending, does it have its FLV channel,
                      \* and, for history, has anybody asked for its end?
          loop, limit, tasks, cancel     \* the server: see IngestServer

serverVars == <<loop, limit, tasks, cancel>>
connVars == <<conn, source, stream, serverVars>>

\* The connection tasks as their server sees them.
Handler == [c \in Conns |-> IF conn[c].pc \in {"none", "refused", "done"} THEN conn[c].pc
                            ELSE "running"]

Server == INSTANCE IngestServer WITH handler <- Handler

\* A connection: where its task is, where it goes on after a write, whether the app has
\* been accepted, whether that was so at the last read, the client's end, the lifecycle
\* that the task owns ("none" unless it is a publisher's, "ended" when it has
\* disconnected), and the number of events of the last read still to be handled.
Fresh == [pc |-> "none", next |-> "none", app |-> FALSE, late |-> FALSE, closed |-> FALSE,
          lifecycle |-> "none", left |-> 0]

NoStream == [state |-> "none", cancelled |-> FALSE, pending |-> FALSE, channel |-> FALSE,
             asked |-> FALSE]

ConnInit ==
  /\ conn = [c \in Conns |-> Fresh]
  /\ source = [c \in Conns |-> "none"]
  /\ stream = NoStream
  /\ Server!IngestInit

-----------------------------------------------------------------------------
(* Steps of a connection task *)

Alive(c) == Handler[c] = "running"

\* The registry's entry of the stream, and its token.
Registered == stream.state \notin {"none", "gone"}
Cancelled(st) == [st EXCEPT !.cancelled = TRUE]

\* lifecycle.disconnect(): the token found under the key, if any, is cancelled.
Disconnected(st) == IF Registered THEN Cancelled(st) ELSE st

\* The task goes on at pc, with the events still to be handled.
Goto(c, pc, left) ==
  [conn[c] EXCEPT !.pc = pc, !.next = "none", !.left = left, !.late = @ /\ left > 0]

\* The task writes, and goes on at pc when the client has taken it.
Writing(c, pc, left) ==
  [conn[c] EXCEPT !.pc = "writing", !.next = pc, !.left = left, !.late = @ /\ left > 0]

\* The handler of a publisher, or what is left of it.
IsPublisher(c) == conn[c].lifecycle # "none"

\* The task is over; what it owns is dropped.
Over(c) ==
  [Fresh EXCEPT !.pc = "done", !.lifecycle = IF IsPublisher(c) THEN "ended" ELSE "none"]
OverWith(c, lifecycle) == [Over(c) EXCEPT !.lifecycle = lifecycle]

\* A dropped lifecycle disconnects.
StreamWithout(c) ==
  IF conn[c].lifecycle \in {"held", "connected"} THEN Disconnected(stream) ELSE stream

\* on_publish_requested keeps its reference into the pending map across its answer,
\* "claiming" if that is yes and "rejected" if it is no.
HoldsSlot(c) == conn[c].pc = "writing" /\ conn[c].next \in {"claiming", "rejected"}

\* Reads and writes of a handler watch the stream's token; those before it watch a
\* private one that nobody cancels.
TokenFired(c) ==
  /\ stream.cancelled
  /\ \/ conn[c].pc = "serving"
     \/ conn[c].pc = "writing" /\ conn[c].next \in {"serving", "handling"}

\* The task is polled again where it awaits; once the server shuts down it is not.  At
\* the other pcs it does not await, and is not dropped there.
Resumes(c, pc) == conn[c].pc = pc /\ loop # "draining"

Step(c, new) == /\ conn' = [conn EXCEPT ![c] = new]
                /\ UNCHANGED serverVars

-----------------------------------------------------------------------------
(* Handshake *)

\* perform_handshake: bytes arrive; they are not enough yet, or complete the
\* handshake, after whose answer the session's first messages are written, or wrong.
Handshake(c) ==
  /\ Resumes(c, "handshake")
  /\ ~conn[c].closed
  /\ \/ Step(c, Writing(c, "handshake", 0))
     \/ Step(c, Writing(c, "connecting", 0))
     \/ Step(c, Over(c))
  /\ UNCHANGED <<source, stream>>

-----------------------------------------------------------------------------
(* Connect phase *)

\* read_result and handle_results: responses of the library are written first.
ConnectRead(c) ==
  /\ Resumes(c, "connecting")
  /\ ~conn[c].closed
  /\ \/ \E n \in 1 .. MaxBatch :
          \/ Step(c, [Goto(c, "deciding", n) EXCEPT !.late = conn[c].app])
          \/ Step(c, [Writing(c, "deciding", n) EXCEPT !.late = conn[c].app])
     \/ Step(c, Writing(c, "connecting", 0))         \* responses and no event
     \/ Step(c, Over(c))                             \* handle_input fails
  /\ UNCHANGED <<source, stream>>

\* The events behind the one at hand.
Later(c) == conn[c].left - 1

\* The pc after an event of the connect phase: the next one, or the next read.
Decided(c) == IF Later(c) = 0 THEN "connecting" ELSE "deciding"

\* on_connect_requested: the app is accepted, or rejected and the connection ended.
OnConnect(c) ==
  /\ conn[c].pc = "deciding"
  /\ ~conn[c].late
  /\ \/ Step(c, [Writing(c, Decided(c), Later(c)) EXCEPT !.app = TRUE])
     \/ Step(c, Writing(c, "done", 0))
  /\ UNCHANGED <<source, stream>>

\* handle_optional_amf0_command: four commands are answered, the others ignored.
OnCommand(c) ==
  /\ conn[c].pc = "deciding"
  /\ \/ Step(c, Writing(c, Decided(c), Later(c)))
     \/ Step(c, Goto(c, Decided(c), Later(c)))
  /\ UNCHANGED <<source, stream>>

\* Any other event ends the connection.
OnOther(c) ==
  /\ conn[c].pc = "deciding"
  /\ Step(c, Over(c))
  /\ UNCHANGED <<source, stream>>

\* on_play_requested: accepted while the stream is Connected, else rejected.  The
\* events behind the decision are dropped with the batch.
OnPlay(c) ==
  /\ c \in Viewers /\ conn[c].pc = "deciding"
  /\ conn[c].late
  /\ IF stream.state = "Connected"
     THEN Step(c, Writing(c, "subscribing", 0))
     ELSE Step(c, Writing(c, "done", 0))
  /\ UNCHANGED <<source, stream>>

\* on_publish_requested, up to its answer: no pending lifecycle ends the connection; one
\* whose session is gone is disconnected and the request rejected; a session that is
\* not Pending any more rejects it; else it is accepted.
OnPublish(c) ==
  /\ c \in Publishers /\ conn[c].pc = "deciding"
  /\ conn[c].late
  /\ \/ ~stream.pending /\ Step(c, Over(c))
     \/ /\ stream.pending /\ stream.state # "Pending"
        /\ Step(c, Writing(c, "rejected", 0))
     \/ /\ stream.pending /\ stream.state = "Pending"
        /\ Step(c, Writing(c, "claiming", 0))
  /\ UNCHANGED <<source, stream>>

-----------------------------------------------------------------------------
(* From the decision to the handler *)

\* The client has taken what was written.  With the answer to a publish request the
\* stream moves on to Connecting; if it cannot, that is only logged.
Written(c) ==
  /\ Resumes(c, "writing")
  /\ IF conn[c].next \in {"done", "rejected"} THEN Step(c, Over(c))
     ELSE Step(c, Goto(c, conn[c].next, conn[c].left))
  /\ stream' = IF conn[c].next = "claiming" /\ stream.state = "Pending"
               THEN [stream EXCEPT !.state = "Connecting"] ELSE stream
  /\ UNCHANGED source

\* Two publishers are not both past here: the lifecycle is removed by one of them.
\* remove() waits for whoever still holds a reference into the map.
ClaimPublish(c) ==
  /\ conn[c].pc = "claiming"
  /\ \/ /\ ~Registered
        /\ Step(c, Over(c))
        /\ UNCHANGED <<source, stream>>
     \/ /\ Registered /\ ~stream.pending
        /\ \A d \in Conns : ~HoldsSlot(d)
        /\ Step(c, Over(c))
        /\ UNCHANGED <<source, stream>>
     \/ /\ Registered /\ stream.pending
        /\ \A d \in Conns : ~HoldsSlot(d)
        /\ source' = [source EXCEPT ![c] = "running"]
        /\ \/ /\ Step(c, [Goto(c, "serving", 0) EXCEPT !.lifecycle = "held"])
              /\ stream' = [stream EXCEPT !.pending = FALSE]
           \/ /\ Step(c, OverWith(c, "ended"))              \* build_pipeline fails
              /\ stream' = Disconnected([stream EXCEPT !.pending = FALSE])

\* A viewer needs the token and the channel; the cached tags are written first.
ClaimPlay(c) ==
  /\ conn[c].pc = "subscribing"
  /\ IF Registered /\ stream.channel THEN Step(c, Writing(c, "serving", 0))
     ELSE Step(c, Over(c))
  /\ UNCHANGED <<source, stream>>

-----------------------------------------------------------------------------
(* The handler *)

\* A viewer is sent the next tag.
PlayTag(c) ==
  /\ ~IsPublisher(c) /\ Resumes(c, "serving")
  /\ stream.channel
  /\ Step(c, Writing(c, "serving", 0))
  /\ UNCHANGED <<source, stream>>

\* The pc after an event of the handler.
Handled(c) == IF Later(c) = 0 THEN "serving" ELSE "handling"

\* Mutation: every connection cancels the stream when it leaves.
LeaveCancelling(c) ==
  /\ Step(c, [Goto(c, "lingering", 0) EXCEPT !.lifecycle = IF IsPublisher(c) THEN "ended" ELSE @])
  /\ stream' = Cancelled(stream)

\* The handler returns.  A publisher drops its lifecycle, cancels the stream and lets
\* the pipeline drain for 100 ms; a viewer is over and touches nothing.
Leave(c) ==
  IF IsPublisher(c)
  THEN /\ Step(c, [Goto(c, "lingering", 0) EXCEPT !.lifecycle = "ended"])
       /\ stream' = Cancelled(stream)
  ELSE /\ Step(c, Over(c))
       /\ UNCHANGED stream

\* handle(): a read, its responses, its events; handle_input can fail.
ServeRead(c) ==
  /\ Resumes(c, "serving")
  /\ ~conn[c].closed
  /\ \/ /\ \E n \in 1 .. MaxBatch :
             Step(c, Goto(c, "handling", n)) \/ Step(c, Writing(c, "handling", n))
        /\ UNCHANGED stream
     \/ Step(c, Writing(c, "serving", 0)) /\ UNCHANGED stream
     \/ Leave(c)
  /\ UNCHANGED source

\* on_common_events and the events that a handler only logs.
HandleOther(c) ==
  /\ conn[c].pc = "handling"
  /\ Step(c, Goto(c, Handled(c), Later(c)))
  /\ UNCHANGED <<source, stream>>

\* publish_finished: the stream ends, the batch goes on.  finish_playing: an answer.
HandleFinish(c) ==
  /\ conn[c].pc = "handling"
  /\ IF IsPublisher(c)
     THEN /\ Step(c, [Goto(c, Handled(c), Later(c)) EXCEPT !.lifecycle = "ended"])
          /\ stream' = Cancelled(stream)
     ELSE /\ Step(c, Writing(c, Handled(c), Later(c)))
          /\ UNCHANGED stream
  /\ UNCHANGED source

\* send_to_source: the first frame connects the stream, which fails if it has been
\* marked Disconnected or forgotten; later frames do not look again.  The library raises
\* no media of a stream that is finished.
HandleMedia(c) ==
  /\ conn[c].pc = "handling"
  /\ conn[c].lifecycle \notin {"none", "ended"}
  /\ \/ /\ conn[c].lifecycle = "held"
        /\ stream.state \in {"Pending", "Connecting", "Connected"}
        /\ Step(c, [Goto(c, "feeding", conn[c].left) EXCEPT !.lifecycle = "connected"])
        /\ stream' = [stream EXCEPT !.state = "Connected"]
     \/ /\ conn[c].lifecycle = "held"
        /\ stream.state \notin {"Pending", "Connecting", "Connected"}
        /\ Leave(c)
     \/ /\ conn[c].lifecycle # "held"
        /\ Step(c, Goto(c, "feeding", conn[c].left))
        /\ UNCHANGED stream
  /\ UNCHANGED source

\* Mutation: a send to a source that has ended is not noticed.
FeedBlindly(c) ==
  /\ Resumes(c, "feeding")
  /\ source[c] = "running"
  /\ Step(c, Goto(c, Handled(c), Later(c)))
  /\ UNCHANGED <<source, stream>>

\* source_tx.send: waits for room, which a running source makes; it does not watch the
\* token, and fails when the source is gone.
Feed(c) ==
  /\ Resumes(c, "feeding")
  /\ \/ /\ source[c] = "running"
        /\ Step(c, Goto(c, Handled(c), Later(c)))
        /\ UNCHANGED stream
     \/ /\ source[c] = "ended"
        /\ Leave(c)
  /\ UNCHANGED source

-----------------------------------------------------------------------------
(* The end of a connection *)

\* A read or write of the handler fails: the token, the client, or (for a viewer) the
\* end of the channel.
ServeEnds(c) ==
  /\ loop # "draining"
  /\ \/ TokenFired(c)
     \/ conn[c].closed /\ conn[c].pc = "serving"
     \/ conn[c].closed /\ conn[c].pc = "writing" /\ conn[c].next \in {"serving", "handling"}
     \/ ~IsPublisher(c) /\ conn[c].pc = "serving" /\ ~stream.channel
  /\ Leave(c)
  /\ UNCHANGED source

\* A read or write before the handler fails.  A publish request that cannot be accepted
\* disconnects the lifecycle that it found in the pending map.
ConnectEnds(c) ==
  /\ loop # "draining"
  /\ conn[c].closed
  /\ \/ conn[c].pc \in {"handshake", "connecting"}
     \/ conn[c].pc = "writing" /\ conn[c].next \notin {"serving", "handling"}
  /\ IF conn[c].next = "claiming"
     THEN Step(c, OverWith(c, "ended")) /\ stream' = Disconnected(stream)
     ELSE Step(c, Over(c)) /\ UNCHANGED stream
  /\ UNCHANGED source

\* The drain of 100 ms is over: the channel is removed.
Lingered(c) ==
  /\ Resumes(c, "lingering")
  /\ Step(c, Over(c))
  /\ stream' = [stream EXCEPT !.channel = FALSE]
  /\ UNCHANGED source

\* Mutation: a task that is in the middle of a write is not dropped.
AbortReading(c) ==
  /\ loop = "draining"
  /\ conn[c].pc \in {"handshake", "connecting", "serving", "feeding", "lingering"}
  /\ Step(c, Over(c))
  /\ stream' = StreamWithout(c)
  /\ UNCHANGED source

\* JoinSet::shutdown: the task is dropped where it awaits, with what it owns.
Abort(c) ==
  /\ loop = "draining"
  /\ conn[c].pc \in {"handshake", "connecting", "writing", "serving", "feeding", "lingering"}
  /\ Step(c, Over(c))
  /\ stream' = StreamWithout(c)
  /\ UNCHANGED source

\* The client closes its end.
Close(c) ==
  /\ Alive(c) /\ ~conn[c].closed
  /\ Step(c, [conn[c] EXCEPT !.closed = TRUE])
  /\ UNCHANGED <<source, stream>>

\* RtmpSource::start returns: its token, a child of the stream's, or the end of its
\* sender.  It is a task of its own, which the server does not keep.
SourceEnds(c) ==
  /\ source[c] = "running"
  /\ stream.cancelled \/ ~Alive(c)
  /\ source' = [source EXCEPT ![c] = "ended"]
  /\ UNCHANGED <<conn, stream, serverVars>>

-----------------------------------------------------------------------------
(* The stream, abstracted from SessionControl *)

\* PrecreateStream: the channel, the registration and the pending lifecycle.  The
\* session's token is a child of the server's.
Precreate ==
  /\ loop = "select"
  /\ stream.state = "none"
  /\ stream' = [stream EXCEPT !.state = "Pending", !.pending = TRUE, !.channel = TRUE,
                             !.cancelled = cancel, !.asked = cancel]
  /\ UNCHANGED <<conn, source, serverVars>>

\* StopStream.
StopStream ==
  /\ loop = "select"
  /\ Registered
  /\ stream' = [Cancelled(stream) EXCEPT !.channel = FALSE, !.asked = TRUE]
  /\ UNCHANGED <<conn, source, serverVars>>

\* The precreate timer takes the lifecycle, once nobody refers to it.
Expire ==
  /\ stream.pending /\ ~stream.cancelled
  /\ \A c \in Conns : ~HoldsSlot(c)
  /\ stream' = [Cancelled(stream) EXCEPT !.pending = FALSE, !.channel = FALSE, !.asked = TRUE]
  /\ UNCHANGED <<conn, source, serverVars>>

\* The cleanup task of the registry: Disconnected, and gone after the grace period.
Cleanup ==
  /\ Registered /\ stream.cancelled
  /\ stream' = [stream EXCEPT !.state = IF @ = "Disconnected" THEN "gone" ELSE "Disconnected"]
  /\ UNCHANGED <<conn, source, serverVars>>

-----------------------------------------------------------------------------
(* The server *)

\* A connection is accepted and its task spawned, or it is refused.
Connect(c) ==
  /\ conn[c].pc = "none"
  /\ \E pc \in {"handshake", "refused"} : conn' = [conn EXCEPT ![c].pc = pc]
  /\ Server!Accept(c)
  /\ UNCHANGED <<source, stream>>

\* The loop, and its end.
ServerStep(step) == UNCHANGED <<conn, source, stream>> /\ step

\* The process is shut down: the tokens of the server and of its sessions.
Shutdown ==
  /\ UNCHANGED <<conn, source>>
  /\ stream' = IF Registered THEN [Cancelled(stream) EXCEPT !.asked = TRUE] ELSE stream
  /\ Server!Cancel

\* What a connection task does by itself, its peer doing nothing.
ConnTask(c) ==
  \/ OnConnect(c) \/ OnCommand(c) \/ OnOther(c) \/ OnPlay(c) \/ OnPublish(c)
  \/ ClaimPublish(c) \/ ClaimPlay(c)
  \/ HandleOther(c) \/ HandleFinish(c) \/ HandleMedia(c) \/ Feed(c)
  \/ ServeEnds(c) \/ ConnectEnds(c) \/ Lingered(c) \/ Abort(c)

\* What it does when its peer sends or takes something, or a tag arrives.
ConnIO(c) == Handshake(c) \/ ConnectRead(c) \/ Written(c) \/ ServeRead(c) \/ PlayTag(c)

RtmpNext ==
  \/ \E c \in Conns : Connect(c) \/ ConnTask(c) \/ ConnIO(c) \/ Close(c) \/ SourceEnds(c)
  \/ Precreate \/ StopStream \/ Expire \/ Cleanup \/ Shutdown
  \/ ServerStep(Server!Bind) \/ ServerStep(Server!Pause) \/ ServerStep(Server!Resume)
  \/ ServerStep(Server!LoopLeaves) \/ ServerStep(Server!ServerEnds)

RtmpSpec == ConnInit /\ [][RtmpNext]_connVars

\* The runtime polls tasks that can go on.  Clients owe nothing.  (A source that can end
\* can do so until it does: one condition speaks for all of them.)
RtmpFairSpec ==
  /\ RtmpSpec
  /\ \A c \in Conns : WF_connVars(ConnTask(c))
  /\ WF_connVars(\E c \in Conns : SourceEnds(c))
  /\ WF_connVars(ServerStep(Server!Resume)) /\ SF_connVars(ServerStep(Server!LoopLeaves))
  /\ WF_connVars(ServerStep(Server!ServerEnds))

-----------------------------------------------------------------------------
(* Properties *)

\* The stream ends with its publisher and with nobody else: a publisher that has claimed
\* it leaves it cancelled however it ends (finished, closed, failed, aborted), and while
\* nobody has asked for its end, a stream is cancelled only by a connection that has had
\* its lifecycle and ended it.  "A play (viewer) connection exiting must NOT cancel it"
\* (rtmp/server.rs).
StreamEndsWithPublisher ==
  /\ \A c \in Conns :
       source[c] # "none" /\ conn[c].pc \in {"lingering", "done"} => stream.cancelled
  /\ stream.cancelled /\ ~stream.asked => \E c \in Conns : conn[c].lifecycle = "ended"

\* Whatever the clients do, the connections are what IngestServer promises: handlers
\* stay within the limit, belong to the JoinSet, and all end after a shutdown, also
\* those whose client is silent or does not read.
ImplementsIngestServer == Server!IngestSpec

\* A client that closes its connection frees its handler and with it its permit: it is
\* never closed and still handled for ever, unless another client does not take the
\* answer to its publish request, which keeps the pending map locked.
ClosedClientLetGo ==
  \A c \in Conns :
    []<>(conn[c].closed => ~Alive(c) \/ \E d \in Conns \ {c} : HoldsSlot(d))
=============================================================================
