------------------------------- MODULE Pipeline -------------------------------
(***************************************************************************)
(* The tasks of one RTMP stream and the bounded pads between them:         *)
(*                                                                         *)
(*   publisher -> source -> seq -> mux -> sink             (FLV)           *)
(*                              -> hls => segmenter, minio (HLS)           *)
(*                                                                         *)
(* publisher is the connection (rtmp/handler/publish.rs), source RtmpSource *)
(* (source/rtmp.rs); seq, mux and segmenter run run_processor, sink and    *)
(* minio run run_sink (task.rs); hls is deferred_hls_init, which spawns    *)
(* the last two once it knows the codecs (factory.rs).  The engine         *)
(* (engine.rs) keeps the handles of the tasks and shuts them down.  seq    *)
(* stands for OTelProbe and SeqCacheProbe, two processors in a row that    *)
(* pass every packet on.                                                   *)
(*                                                                         *)
(* A packet is its number.  A pad is named after the task that receives    *)
(* from it.  What the HLS tasks do with their packets is module Hls.       *)
(***************************************************************************)
EXTENDS Naturals, Sequences, FiniteSets

CONSTANTS MaxFrames,       \* bound: frames of the publisher
          FrameCapacity,   \* mpsc::channel(256) from the connection to the source
          Capacity         \* new_channel(256), new_channel(512)

ASSUME PipelineAssumption ==
  /\ MaxFrames \in Nat
  /\ FrameCapacity \in Nat \ {0} /\ Capacity \in Nat \ {0}

Processors == {"seq", "mux"}
Sinks == {"sink", "minio"}
Tasks == {"source", "hls", "segmenter"} \cup Processors \cup Sinks
Pads == {"seq", "mux", "sink", "hls"}
Packets == 1 .. MaxFrames

\* The pads that a task sends to, in the order of outputs().
Outputs == [t \in {"source"} \cup Processors |->
  CASE t = "source" -> <<"seq">>
    [] t = "seq"    -> <<"mux", "hls">>
    [] t = "mux"    -> <<"sink">>]

\* The task that holds the sender of t's input.
Upstream == [t \in Tasks \ {"source"} |->
  CASE t = "seq" -> "source"
    [] t \in {"mux", "hls", "segmenter"} -> "seq"
    [] t = "sink" -> "mux"
    [] t = "minio" -> "segmenter"]

VARIABLES publisher,   \* "reading", "sending" a frame, or "gone"
          made,        \* frames that the publisher has made
          frames,      \* the queue from the connection to the source
          pad,         \* the queue of every pad
          task,        \* every task: where it is, its packet, the outputs still due
          cancelled,   \* the pipeline's token
          broadcast,   \* what FlvSink has broadcast
          phase,       \* PipelineState
          registered,  \* handles in PipelineImpl::tasks
          draining,    \* handles that drain_all still waits for
          aborted,     \* tasks that have been told to abort
          timedOut     \* has the drain run into its deadline?

queues == <<publisher, made, frames, pad, broadcast>>
engine == <<phase, registered, draining, aborted, timedOut>>
vars == <<queues, task, cancelled, engine>>

Unborn == [pc |-> "unborn", item |-> 0, out |-> <<>>]
Idle == [Unborn EXCEPT !.pc = "idle"]
Done == [Unborn EXCEPT !.pc = "done"]
Holding(packet, out) == [pc |-> "holding", item |-> packet, out |-> out]

Alive(t) == task[t].pc \notin {"unborn", "done"}
IsIdle(t) == task[t].pc = "idle"

\* build_pipeline: everything but the HLS branch is spawned; the handles of all but
\* the source are registered.
Init ==
  /\ publisher = "reading" /\ made = 0 /\ frames = <<>>
  /\ pad = [p \in Pads |-> <<>>]
  /\ task = [t \in Tasks |-> IF t \in {"segmenter", "minio"} THEN Unborn ELSE Idle]
  /\ cancelled = FALSE
  /\ broadcast = <<>>
  /\ phase = "Initializing"
  /\ registered = {"seq", "mux", "sink", "hls"}
  /\ draining = {} /\ aborted = {} /\ timedOut = FALSE

-----------------------------------------------------------------------------
(* Pads *)

\* The input of t: the segmenter takes over the receiver of deferred_hls_init.
Input(t) == IF t = "segmenter" THEN "hls" ELSE t

\* Has the pad's receiver been dropped?
PadClosed(p) == ~Alive(p) /\ (p = "hls" => ~Alive("segmenter"))

PadFull(p) == Len(pad[p]) >= Capacity

\* recv() returns None: nothing left and no sender left.
Exhausted(t) == /\ t # "minio" => pad[Input(t)] = <<>>
                /\ ~Alive(Upstream[t])

\* should_process(): only FlvMux asks for demand, and the only handle on its output
\* is the one that FlvSink holds for as long as it lives.
Wanted(t) == t = "mux" => Alive("sink")

-----------------------------------------------------------------------------
(* The publisher's connection *)

\* A media event arrives.
PublishBegin ==
  /\ publisher = "reading"
  /\ made < MaxFrames
  /\ publisher' = "sending"
  /\ made' = made + 1
  /\ UNCHANGED <<frames, pad, broadcast, task, cancelled, engine>>

\* source_tx.send(frame).await: blocks while the queue is full; a dropped receiver
\* ends the connection.
PublishSend ==
  /\ publisher = "sending"
  /\ \/ /\ Alive("source")
        /\ Len(frames) < FrameCapacity
        /\ frames' = Append(frames, made)
        /\ publisher' = "reading"
     \/ /\ ~Alive("source")
        /\ publisher' = "gone"
        /\ UNCHANGED frames
  /\ UNCHANGED <<made, pad, broadcast, task, cancelled, engine>>

\* The connection ends, on its own or because the session is cancelled.
PublisherLeaves ==
  /\ publisher = "reading"
  /\ publisher' = "gone"
  /\ UNCHANGED <<made, frames, pad, broadcast, task, cancelled, engine>>

\* The session's token is cancelled: a stop, or the publisher's connection exits.
CancelSession ==
  /\ ~cancelled
  /\ cancelled' = TRUE
  /\ UNCHANGED <<queues, task, engine>>

-----------------------------------------------------------------------------
(* RtmpSource *)

\* start(): the next frame; convert_frame may make nothing of it.
SourceRecv ==
  /\ IsIdle("source")
  /\ frames # <<>>
  /\ frames' = Tail(frames)
  /\ \/ task' = [task EXCEPT !["source"] = Holding(Head(frames), Outputs["source"])]
     \/ UNCHANGED task
  /\ UNCHANGED <<publisher, made, pad, broadcast, cancelled, engine>>

\* Mutation: the loop does not return once the pad has accepted the packet.
SourceSendTwice ==
  /\ task["source"].pc = "holding"
  /\ \/ /\ PadClosed("seq")
        /\ cancelled' = TRUE
        /\ task' = [task EXCEPT !["source"] = Idle]
        /\ UNCHANGED pad
     \/ /\ ~PadClosed("seq") /\ ~PadFull("seq")
        /\ pad' = [pad EXCEPT !["seq"] = Append(@, task["source"].item)]
        /\ UNCHANGED <<task, cancelled>>
  /\ UNCHANGED <<publisher, made, frames, broadcast, engine>>

\* send_pkt_or_stop: retried while the pad is full; a closed pad cancels.
SourceSend ==
  /\ task["source"].pc = "holding"
  /\ \/ /\ PadClosed("seq")
        /\ cancelled' = TRUE
        /\ UNCHANGED pad
     \/ /\ ~PadClosed("seq") /\ ~PadFull("seq")
        /\ pad' = [pad EXCEPT !["seq"] = Append(@, task["source"].item)]
        /\ UNCHANGED cancelled
  /\ task' = [task EXCEPT !["source"] = Idle]
  /\ UNCHANGED <<publisher, made, frames, broadcast, engine>>

\* The frame sender is gone or the token cancelled: cancel and stop.
SourceEnds ==
  /\ IsIdle("source")
  /\ cancelled \/ (publisher = "gone" /\ frames = <<>>)
  /\ cancelled' = TRUE
  /\ task' = [task EXCEPT !["source"] = Done]
  /\ UNCHANGED <<queues, engine>>

-----------------------------------------------------------------------------
(* run_processor, run_sink and deferred_hls_init *)

\* run_processor takes a packet; only FlvMux may make nothing of it.
Recv(t) ==
  /\ IsIdle(t) /\ Wanted(t)
  /\ pad[t] # <<>>
  /\ pad' = [pad EXCEPT ![t] = Tail(@)]
  /\ \/ task' = [task EXCEPT ![t] = Holding(Head(pad[t]), Outputs[t])]
     \/ t = "mux" /\ UNCHANGED task
  /\ UNCHANGED <<publisher, made, frames, broadcast, cancelled, engine>>

\* fan_out, one pad at a time: a full pad costs it this packet, and a closed one
\* costs the packet to every pad after it as well (break).
Deliver(t) ==
  LET p == Head(task[t].out)
      rest == IF PadClosed(p) THEN <<>> ELSE Tail(task[t].out)
  IN  /\ task[t].pc = "holding"
      /\ pad' = IF PadClosed(p) \/ PadFull(p) THEN pad
                ELSE [pad EXCEPT ![p] = Append(@, task[t].item)]
      /\ task' = [task EXCEPT ![t] = IF rest = <<>> THEN Idle ELSE [@ EXCEPT !.out = rest]]
      /\ UNCHANGED <<publisher, made, frames, broadcast, cancelled, engine>>

\* run_sink: FlvSink takes a tag ...
SinkRecv ==
  /\ IsIdle("sink")
  /\ pad["sink"] # <<>>
  /\ pad' = [pad EXCEPT !["sink"] = Tail(@)]
  /\ task' = [task EXCEPT !["sink"] = Holding(Head(pad["sink"]), <<>>)]
  /\ UNCHANGED <<publisher, made, frames, broadcast, cancelled, engine>>

\* ... and broadcasts it.
Consume ==
  /\ task["sink"].pc = "holding"
  /\ broadcast' = Append(broadcast, task["sink"].item)
  /\ task' = [task EXCEPT !["sink"] = Idle]
  /\ UNCHANGED <<publisher, made, frames, pad, cancelled, engine>>

\* deferred_hls_init takes a packet: it is not enough, or the branch can be built.
DeferredRecv ==
  /\ IsIdle("hls")
  /\ pad["hls"] # <<>>
  /\ pad' = [pad EXCEPT !["hls"] = Tail(@)]
  /\ \/ task' = [task EXCEPT !["hls"].pc = "building"]
     \/ UNCHANGED task
  /\ UNCHANGED <<publisher, made, frames, broadcast, cancelled, engine>>

\* spawn_deferred_hls: the two tasks are spawned and registered, or the build fails;
\* there is no await in it, so an abort does not stop it.
DeferredBuilt ==
  /\ task["hls"].pc = "building"
  /\ \/ /\ task' = [task EXCEPT !["hls"] = Done, !["segmenter"] = Idle, !["minio"] = Idle]
        /\ registered' = registered \cup {"segmenter", "minio"}
     \/ /\ task' = [task EXCEPT !["hls"] = Done]
        /\ UNCHANGED registered
  /\ UNCHANGED <<queues, cancelled, phase, draining, aborted, timedOut>>

\* The segmenter takes a packet.
SegmenterRecv ==
  /\ IsIdle("segmenter")
  /\ pad["hls"] # <<>>
  /\ pad' = [pad EXCEPT !["hls"] = Tail(@)]
  /\ UNCHANGED <<publisher, made, frames, broadcast, task, cancelled, engine>>

\* Mutation: a processor without demand does not watch the token.
EndsUnlessIdle(t) ==
  /\ IsIdle(t)
  /\ Wanted(t)
  /\ cancelled \/ Exhausted(t)
  /\ task' = [task EXCEPT ![t] = Done]
  /\ UNCHANGED <<queues, cancelled, engine>>

\* A loop ends: its token is cancelled (select! may prefer that to a packet that is
\* waiting) or its input is exhausted.  Its pads are dropped with it.
Ends(t) ==
  /\ IsIdle(t)
  /\ cancelled \/ (Wanted(t) /\ Exhausted(t))
  /\ task' = [task EXCEPT ![t] = Done]
  /\ UNCHANGED <<queues, cancelled, engine>>

\* An aborted task is dropped where it awaits.
Aborts(t) ==
  /\ t \in aborted
  /\ IsIdle(t) \/ (t \in Sinks /\ Alive(t))
  /\ task' = [task EXCEPT ![t] = Done]
  /\ UNCHANGED <<queues, cancelled, engine>>

-----------------------------------------------------------------------------
(* PipelineImpl *)

\* run(), until the token is cancelled.
EngineRun ==
  /\ phase = "Initializing"
  /\ phase' = "Running"
  /\ UNCHANGED <<queues, task, cancelled, registered, draining, aborted, timedOut>>

\* shutdown(), called by run() or by itself: cancel, and take the handles.
Shutdown ==
  /\ phase \in {"Initializing", "Running"}
  /\ phase' = "Draining"
  /\ cancelled' = TRUE
  /\ draining' = registered
  /\ registered' = {}
  /\ UNCHANGED <<queues, task, aborted, timedOut>>

\* drain_all: a task has finished, or the deadline has passed.
Drain ==
  /\ phase = "Draining"
  /\ draining # {}
  /\ \/ \E t \in draining : ~Alive(t) /\ draining' = draining \ {t}
        /\ UNCHANGED <<aborted, timedOut>>
     \/ /\ aborted' = aborted \cup draining
        /\ draining' = {}
        /\ timedOut' = TRUE
  /\ UNCHANGED <<queues, task, cancelled, phase, registered>>

\* Mutation: handles registered while the drain ran are forgotten.
TerminateForgetful ==
  /\ phase = "Draining"
  /\ draining = {}
  /\ phase' = "Terminated"
  /\ UNCHANGED <<queues, task, cancelled, registered, draining, aborted, timedOut>>

\* The handles registered in the meantime are aborted; Terminated.
Terminate ==
  /\ phase = "Draining"
  /\ draining = {}
  /\ aborted' = aborted \cup registered
  /\ registered' = {}
  /\ phase' = "Terminated"
  /\ UNCHANGED <<queues, task, cancelled, draining, timedOut>>

-----------------------------------------------------------------------------

PublisherStep == PublishBegin \/ PublishSend \/ PublisherLeaves
SourceStep == SourceRecv \/ SourceSend \/ SourceEnds
TaskStep(t) ==
  \/ t = "source" /\ SourceStep
  \/ t \in Processors /\ (Recv(t) \/ Deliver(t))
  \/ t = "sink" /\ (SinkRecv \/ Consume)
  \/ t = "hls" /\ (DeferredRecv \/ DeferredBuilt)
  \/ t = "segmenter" /\ SegmenterRecv
  \/ t # "source" /\ (Ends(t) \/ Aborts(t))
EngineStep == EngineRun \/ Shutdown \/ Drain \/ Terminate

Next == \/ PublisherStep \/ CancelSession \/ EngineStep
        \/ \E t \in Tasks : TaskStep(t)

Spec == Init /\ [][Next]_vars

\* The runtime polls every task that can go on.  Whether the publisher sends or
\* leaves is up to it, but once its session is cancelled its connection ends.
FairSpec ==
  /\ Spec
  /\ \A t \in Tasks : WF_vars(TaskStep(t))
  /\ WF_vars(PublishSend)
  /\ WF_vars(cancelled /\ PublisherLeaves)

-----------------------------------------------------------------------------
(* Properties *)

\* Type invariant.
TypeOK ==
  /\ publisher \in {"reading", "sending", "gone"}
  /\ made \in 0 .. MaxFrames
  /\ frames \in Seq(Packets) /\ Len(frames) <= FrameCapacity
  /\ \A p \in Pads : pad[p] \in Seq(Packets) /\ Len(pad[p]) <= Capacity
  /\ \A t \in Tasks :
       /\ task[t].pc \in {"unborn", "idle", "holding", "building", "done"}
       /\ task[t].pc = "holding" <=> task[t].item \in Packets
  /\ cancelled \in BOOLEAN /\ timedOut \in BOOLEAN
  /\ broadcast \in Seq(Packets)
  /\ phase \in {"Initializing", "Running", "Draining", "Terminated"}
  /\ registered \subseteq Tasks /\ draining \subseteq Tasks /\ aborted \subseteq Tasks

\* Packets may be dropped on the way, but what the subscribers get is in the order
\* of the publisher and nothing comes twice.
OrderKept == \A i, j \in DOMAIN broadcast : i < j => broadcast[i] < broadcast[j]

\* When shutdown() has come to its end within its deadline, no pipeline task goes
\* on that it has not aborted, the ones included that deferred_hls_init registered
\* while shutdown() was waiting.
NoTaskLeftBehind ==
  phase = "Terminated" /\ ~timedOut =>
    \A t \in Tasks \ {"source"} : Alive(t) => t \in aborted

\* A publisher that leaves, or a cancelled session, ends the source, every
\* processor and every sink, the ones spawned late included, and the connection.
EveryTaskEnds ==
  (publisher = "gone" \/ cancelled) ~>
    (publisher = "gone" /\ \A t \in Tasks : ~Alive(t))
=============================================================================
