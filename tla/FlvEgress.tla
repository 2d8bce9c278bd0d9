------------------------------ MODULE FlvEgress ------------------------------
(***************************************************************************)
(* FLV distribution for one stream key: the egress hub (flv/hub.rs), its   *)
(* channels (flv/channel.rs), the FlvSink of every session's pipeline that *)
(* broadcasts into them, and the viewers that play them over HTTP-FLV      *)
(* (http_flv/server.rs) or RTMP (rtmp/session.rs, rtmp/handler/play.rs).   *)
(*                                                                         *)
(* The sessions of the key are numbered; the channel that precreating      *)
(* session n makes, if there is none, is channel n.  A pipeline and a      *)
(* viewer name the channel by the stream key only.  broadcast() and        *)
(* subscribe() hold a read guard of the hub's map while they run, so they  *)
(* interleave with each other but not with the removal of the channel.     *)
(*                                                                         *)
(* What becomes of the sessions themselves is abstracted from              *)
(* SessionControl: a session is precreated, Connected, cancelled, marked   *)
(* Disconnected and forgotten.                                             *)
(*                                                                         *)
(* Any tags may come to the FlvSink in any order: the encoder is not       *)
(* trusted, and full pads drop headers and keyframes on the way.           *)
(***************************************************************************)
EXTENDS Naturals, Sequences, FiniteSets

CONSTANTS Viewers,            \* all viewers of the key
          MaxSessions,        \* bound: sessions of the key, one after the other
          MaxTags,            \* bound: tags sent on all channels
          MaxHeaders,         \* bound: sequence headers of a kind in one session
          Capacity,           \* broadcast::channel(1024)
          MaxConnections,     \* permits of the HTTP-FLV connection semaphore
          PipelineWatchesSession
            \* is the pipeline's token a child of the session's (RTMP) or of the
            \* connection's own (RTSP)?

ASSUME FlvEgressAssumption ==
  /\ MaxSessions \in Nat /\ MaxTags \in Nat /\ MaxHeaders \in Nat
  /\ Capacity \in Nat \ {0}
  /\ MaxConnections \in Nat
  /\ PipelineWatchesSession \in BOOLEAN

SessionIds == 1 .. MaxSessions

VARIABLES session,       \* the key's latest session; published: has it been Connected?
          channel,       \* the hub's channel for the key: its number, 0 if there is none
          sent,          \* the tags sent on every channel so far
          cache,         \* cached sequence headers of every channel, by slot
          pipe,          \* the FlvSink of every session's pipeline
          viewer,        \* every viewer
          permits        \* free permits of the connection semaphore

vars == <<session, channel, sent, cache, pipe, viewer, permits>>

(***************************************************************************)
(* A tag: its kind, the number of sequence headers of its slot that the    *)
(* FlvSink has broadcast, itself included, and the session of the FlvSink. *)
(* Version 0: no header was broadcast ahead of it.  Script data never      *)
(* comes through the pipeline, so the metadata slot stays empty.           *)
(***************************************************************************)
Headers == {"video_header", "audio_header"}
VideoKinds == {"video_header", "key", "inter"}
Slot(kind) == IF kind \in VideoKinds THEN "video" ELSE "audio"
Slots == {"video", "audio"}
Tag == [kind : Headers \cup {"key", "inter", "audio"}, version : Nat, by : SessionIds]

\* is_keyframe of an FLV video tag: a sequence header has frame type 1 as well.
IsKeyframe(tag) == tag.kind \in {"video_header", "key"}

NoTag == [kind |-> "none"]
NoHeaders == [s \in Slots |-> NoTag]
Off == [pc |-> "off", version |-> [s \in Slots |-> 0], tag |-> NoTag]
Away == [pc |-> "away", http |-> FALSE, token |-> 0, ch |-> 0, next |-> 1, waiting |-> FALSE,
         lagged |-> FALSE, out |-> <<>>]

Init ==
  /\ session = [id |-> 0, state |-> "Absent", cancelled |-> FALSE, published |-> FALSE]
  /\ channel = 0
  /\ sent = [n \in SessionIds |-> <<>>]
  /\ cache = [n \in SessionIds |-> NoHeaders]
  /\ pipe = [n \in SessionIds |-> Off]
  /\ viewer = [v \in Viewers |-> Away]
  /\ permits = MaxConnections

-----------------------------------------------------------------------------
(* The sessions of the key *)

\* A task inside broadcast() or subscribe() keeps the map entry locked.
EntryLocked == \/ \E n \in SessionIds : pipe[n].pc = "sending"
               \/ \E v \in Viewers : viewer[v].pc \in {"joining", "reading"}

\* PrecreateStream: create_channel, which makes a channel if there is none.  The one
\* of a session that ended before anybody published to it may still be there.
Precreate ==
  /\ session.state = "Absent"
  /\ session.id < MaxSessions
  /\ ~EntryLocked
  /\ session' = [id |-> session.id + 1, state |-> "Pending", cancelled |-> FALSE,
                 published |-> FALSE]
  /\ channel' = IF channel = 0 THEN session.id + 1 ELSE channel
  /\ UNCHANGED <<sent, cache, pipe, viewer, permits>>

\* The publisher's first media: its pipeline is running.
Connect ==
  /\ session.state = "Pending"
  /\ ~session.cancelled
  /\ session' = [session EXCEPT !.state = "Connected", !.published = TRUE]
  /\ pipe' = [pipe EXCEPT ![session.id].pc = "idle"]
  /\ UNCHANGED <<channel, sent, cache, viewer, permits>>

\* Stop, timer or disconnect: the session's token is cancelled.
CancelSession ==
  /\ session.state \in {"Pending", "Connected"}
  /\ ~session.cancelled
  /\ session' = [session EXCEPT !.cancelled = TRUE]
  /\ UNCHANGED <<channel, sent, cache, pipe, viewer, permits>>

\* The registry's cleanup task.
MarkDisconnected ==
  /\ session.cancelled
  /\ session.state # "Disconnected"
  /\ session' = [session EXCEPT !.state = "Disconnected"]
  /\ UNCHANGED <<channel, sent, cache, pipe, viewer, permits>>

\* remove_channel, by a stop, an expired timer or the publisher's connection: the
\* sender is dropped with the channel.  A stop may come to it late.
RemoveChannel ==
  /\ session.cancelled \/ session.state = "Absent"
  /\ channel # 0
  /\ ~EntryLocked
  /\ channel' = 0
  /\ UNCHANGED <<session, sent, cache, pipe, viewer, permits>>

\* TIMING ASSUMPTION.  What ends a session that was published to, the stop or the
\* publisher's connection with its 100 ms drain, has removed the channel before the
\* 200 ms grace period is over; and the FlvSink of a pipeline whose token is a child of
\* the session's has left its loop.  Nobody has to remove the channel of a session that
\* was never published to (on_publish_requested, when it cannot answer, does not).
GraceCovers ==
  session.published => /\ channel = 0
                       /\ PipelineWatchesSession => pipe[session.id].pc = "off"

\* After the grace period the key is free.
Forget ==
  /\ session.state = "Disconnected"
  /\ GraceCovers
  /\ session' = [session EXCEPT !.state = "Absent", !.cancelled = FALSE]
  /\ UNCHANGED <<channel, sent, cache, pipe, viewer, permits>>

-----------------------------------------------------------------------------
(* The pipeline of session n, as its FlvSink shows it *)

\* A header may come again and again; bound: MaxHeaders.
MayCome(n, kind) == kind \in Headers => pipe[n].version[Slot(kind)] < MaxHeaders

TagsSent == Cardinality(UNION {{n} \X DOMAIN sent[n] : n \in SessionIds})

NextTag(n, kind) ==
  [kind |-> kind, by |-> n,
   version |-> pipe[n].version[Slot(kind)] + (IF kind \in Headers THEN 1 ELSE 0)]

\* The state of pipeline n after it made this tag.
Made(n, tag) == [pipe[n] EXCEPT !.version[Slot(tag.kind)] = tag.version]

\* FlvEgressHub::broadcast.  Without a channel the tag is dropped, which changes
\* nothing.  The channel found: cache_seq_header ...
BroadcastCache(n) ==
  \E kind \in Headers \cup {"key", "inter", "audio"} :
    LET tag == NextTag(n, kind)
    IN  /\ pipe[n].pc = "idle"
        /\ MayCome(n, kind)
        /\ channel # 0
        /\ TagsSent < MaxTags
        /\ cache' = IF kind \in Headers
                    THEN [cache EXCEPT ![channel][Slot(kind)] = tag] ELSE cache
        /\ pipe' = [pipe EXCEPT ![n] = [Made(n, tag) EXCEPT !.pc = "sending", !.tag = tag]]
        /\ UNCHANGED <<session, channel, sent, viewer, permits>>

\* ... and sender.send.
BroadcastSend(n) ==
  /\ pipe[n].pc = "sending"
  /\ sent' = [sent EXCEPT ![channel] = Append(@, pipe[n].tag)]
  /\ pipe' = [pipe EXCEPT ![n].pc = "idle", ![n].tag = NoTag]
  /\ UNCHANGED <<session, channel, cache, viewer, permits>>

\* Mutation of Broadcast: send first ...
SendFirst(n) ==
  \E kind \in Headers \cup {"key", "inter", "audio"} :
    LET tag == NextTag(n, kind)
    IN  /\ pipe[n].pc = "idle"
        /\ MayCome(n, kind)
        /\ channel # 0
        /\ TagsSent < MaxTags
        /\ sent' = [sent EXCEPT ![channel] = Append(@, tag)]
        /\ pipe' = [pipe EXCEPT ![n] = [Made(n, tag) EXCEPT !.pc = "sending", !.tag = tag]]
        /\ UNCHANGED <<session, channel, cache, viewer, permits>>

\* ... cache afterwards.
CacheLast(n) ==
  /\ pipe[n].pc = "sending"
  /\ cache' = IF pipe[n].tag.kind \in Headers
              THEN [cache EXCEPT ![channel][Slot(pipe[n].tag.kind)] = pipe[n].tag] ELSE cache
  /\ pipe' = [pipe EXCEPT ![n].pc = "idle", ![n].tag = NoTag]
  /\ UNCHANGED <<session, channel, sent, viewer, permits>>

\* Mutation: the sequence header is cached after it has been sent.
BroadcastSwapped(n) == SendFirst(n) \/ CacheLast(n)

\* FlvLiveChannel::broadcast
Broadcast(n) == BroadcastCache(n) \/ BroadcastSend(n)

\* The pipeline stops: with the session whose token it watches, or when the
\* publisher leaves (which cancels the session as well).
PipelineStops(n) ==
  /\ pipe[n].pc = "idle"
  /\ n = session.id /\ PipelineWatchesSession => session.cancelled
  /\ pipe' = [pipe EXCEPT ![n].pc = "off"]
  /\ UNCHANGED <<session, channel, sent, cache, viewer, permits>>

-----------------------------------------------------------------------------
(* A viewer *)

\* The connection ends: its permit is returned, its receiver dropped.
Leaves(v) == /\ viewer' = [viewer EXCEPT ![v] = Away]
             /\ permits' = IF viewer[v].http THEN permits + 1 ELSE permits

\* handle_http_flv up to get_state: a viewer needs a permit, and only a Connected
\* session is played.  A refused viewer changes nothing.
RequestHttp(v) ==
  /\ viewer[v].pc = "away"
  /\ permits > 0
  /\ session.state = "Connected"
  /\ permits' = permits - 1
  /\ viewer' = [viewer EXCEPT ![v].pc = "accepted", ![v].http = TRUE]
  /\ UNCHANGED <<session, channel, sent, cache, pipe>>

\* on_play_requested: only a Connected session is played.
RequestRtmp(v) ==
  /\ viewer[v].pc = "away"
  /\ session.state = "Connected"
  /\ viewer' = [viewer EXCEPT ![v].pc = "accepting"]
  /\ UNCHANGED <<session, channel, sent, cache, pipe, permits>>

\* RTMP only: get_cancel_token once the play request has been accepted; no entry
\* ends the connection.
PlayToken(v) ==
  /\ viewer[v].pc = "accepting"
  /\ viewer' = [viewer EXCEPT ![v] =
       IF session.state = "Absent" THEN Away
       ELSE [@ EXCEPT !.pc = "accepted", !.token = session.id]]
  /\ UNCHANGED <<session, channel, sent, cache, pipe, permits>>

\* Mutation: the 404 path forgets the permit.
SubscribeKeepsPermit(v) ==
  /\ viewer[v].pc = "accepted"
  /\ viewer' = [viewer EXCEPT ![v] =
       IF channel = 0 THEN Away
       ELSE [@ EXCEPT !.pc = "joining", !.ch = channel, !.next = Len(sent[channel]) + 1]]
  /\ UNCHANGED <<session, channel, sent, cache, pipe, permits>>

\* FlvEgressHub::subscribe: no channel ends the connection; else first the receiver ...
Subscribe(v) ==
  /\ viewer[v].pc = "accepted"
  /\ \/ /\ channel = 0
        /\ Leaves(v)
     \/ /\ channel # 0
        /\ viewer' = [viewer EXCEPT ![v].pc = "joining", ![v].ch = channel,
                                    ![v].next = Len(sent[channel]) + 1]
        /\ UNCHANGED permits
  /\ UNCHANGED <<session, channel, sent, cache, pipe>>

\* What a cached header, if there is one, adds to the viewer's output.
Cached(v, slot) ==
  LET tag == cache[viewer[v].ch][slot]
  IN  IF tag = NoTag THEN <<>> ELSE <<[pos |-> 0, tag |-> tag]>>

\* ... then the cached headers, one lock after the other; they are sent first.
ReadVideoCache(v) ==
  /\ viewer[v].pc = "joining"
  /\ viewer' = [viewer EXCEPT ![v].pc = "reading", ![v].out = @ \o Cached(v, "video")]
  /\ UNCHANGED <<session, channel, sent, cache, pipe, permits>>

ReadAudioCache(v) ==
  /\ viewer[v].pc = "reading"
  /\ viewer' = [viewer EXCEPT ![v].pc = "playing", ![v].out = @ \o Cached(v, "audio")]
  /\ UNCHANGED <<session, channel, sent, cache, pipe, permits>>

\* The oldest tag that the ring buffer of the viewer's channel still holds.
Oldest(v) == IF Len(sent[viewer[v].ch]) <= Capacity THEN 1
             ELSE Len(sent[viewer[v].ch]) - Capacity + 1

\* Mutation: go on after a lag as if nothing had been lost.
LagIgnored(v) ==
  /\ viewer[v].pc \in {"playing", "finished"}
  /\ viewer[v].next < Oldest(v)
  /\ viewer' = [viewer EXCEPT ![v].next = Oldest(v), ![v].lagged = TRUE]
  /\ UNCHANGED <<session, channel, sent, cache, pipe, permits>>

\* RecvError::Lagged: go on at the oldest tag kept, and wait for a keyframe.
Lag(v) ==
  /\ viewer[v].pc \in {"playing", "finished"}
  /\ viewer[v].next < Oldest(v)
  /\ viewer' = [viewer EXCEPT ![v].next = Oldest(v), ![v].waiting = TRUE,
                              ![v].lagged = TRUE]
  /\ UNCHANGED <<session, channel, sent, cache, pipe, permits>>

\* should_skip_while_waiting_keyframe
Skipped(v, tag) == viewer[v].waiting /\ tag.kind \in VideoKinds /\ ~IsKeyframe(tag)

\* There is a tag for the viewer to receive.
Waits(v) == /\ viewer[v].pc \in {"playing", "finished"}
            /\ viewer[v].next \in Oldest(v) .. Len(sent[viewer[v].ch])

\* A tag is received: skipped, or sent to the client.
Receive(v) ==
  LET tag == sent[viewer[v].ch][viewer[v].next]
      skip == Skipped(v, tag)
  IN  /\ Waits(v)
      /\ viewer[v].pc = "finished" => skip
      /\ viewer' = [viewer EXCEPT
           ![v].next = @ + 1,
           ![v].waiting = @ /\ ~(tag.kind \in VideoKinds /\ IsKeyframe(tag)),
           ![v].out = IF skip THEN @ ELSE Append(@, [pos |-> viewer[v].next, tag |-> tag])]
      /\ UNCHANGED <<session, channel, sent, cache, pipe, permits>>

\* An RTMP player that has finished playing cannot be sent anything: the error of
\* send_flv_tag ends the connection.
SendFails(v) ==
  /\ Waits(v)
  /\ viewer[v].pc = "finished"
  /\ ~Skipped(v, sent[viewer[v].ch][viewer[v].next])
  /\ Leaves(v)
  /\ UNCHANGED <<session, channel, sent, cache, pipe>>

\* Mutation: a closed channel is taken for an empty one.
ClosedIgnored(v) ==
  /\ viewer[v].pc \in {"playing", "finished"}
  /\ viewer[v].ch # channel
  /\ viewer[v].next > Len(sent[viewer[v].ch])
  /\ UNCHANGED vars

\* RecvError::Closed: the channel was removed and everything in it received.
Closed(v) ==
  /\ viewer[v].pc \in {"playing", "finished"}
  /\ viewer[v].ch # channel
  /\ viewer[v].next > Len(sent[viewer[v].ch])
  /\ Leaves(v)
  /\ UNCHANGED <<session, channel, sent, cache, pipe>>

\* RTMP only: the token of the session, which an HTTP-FLV viewer does not watch.
PlayCancelled(v) ==
  /\ viewer[v].pc \in {"playing", "finished"}
  /\ viewer[v].token # 0
  /\ \/ viewer[v].token < session.id
     \/ session.state = "Absent"
     \/ session.cancelled
  /\ Leaves(v)
  /\ UNCHANGED <<session, channel, sent, cache, pipe>>

\* RTMP only: PlayStreamFinished; the connection stays.
PlayFinished(v) ==
  /\ viewer[v].pc = "playing"
  /\ ~viewer[v].http
  /\ viewer' = [viewer EXCEPT ![v].pc = "finished"]
  /\ UNCHANGED <<session, channel, sent, cache, pipe, permits>>

\* The client disconnects.
Disconnects(v) ==
  /\ viewer[v].pc \in {"accepting", "accepted", "playing", "finished"}
  /\ Leaves(v)
  /\ UNCHANGED <<session, channel, sent, cache, pipe>>

\* What a viewer's connection does by itself while its client keeps reading.
ViewerStep(v) == \/ PlayToken(v) \/ Subscribe(v) \/ ReadVideoCache(v) \/ ReadAudioCache(v)
                 \/ Lag(v) \/ Receive(v) \/ SendFails(v) \/ Closed(v) \/ PlayCancelled(v)

SessionStep == \/ Precreate \/ Connect \/ CancelSession \/ MarkDisconnected
               \/ RemoveChannel \/ Forget

PipeStep(n) == Broadcast(n) \/ PipelineStops(n)

Next == \/ SessionStep
        \/ \E n \in SessionIds : PipeStep(n)
        \/ \E v \in Viewers : \/ RequestHttp(v) \/ RequestRtmp(v) \/ PlayFinished(v)
                              \/ Disconnects(v) \/ ViewerStep(v)

Spec == Init /\ [][Next]_vars

\* Viewers whose clients keep reading, and a broadcast that has begun, go on.
FairSpec == /\ Spec
            /\ \A v \in Viewers : WF_vars(ViewerStep(v))
            /\ \A n \in SessionIds : WF_vars(BroadcastSend(n))

-----------------------------------------------------------------------------
(* Properties *)

\* Type invariant.
TypeOK ==
  /\ session \in [id : 0 .. MaxSessions, cancelled : BOOLEAN, published : BOOLEAN,
                  state : {"Absent", "Pending", "Connected", "Disconnected"}]
  /\ channel \in 0 .. MaxSessions
  /\ \A n \in SessionIds :
       /\ sent[n] \in Seq(Tag) /\ Len(sent[n]) <= MaxTags
       /\ \A s \in Slots : cache[n][s] \in Tag \cup {NoTag}
       /\ pipe[n].pc \in {"off", "idle", "sending"}
       /\ pipe[n].pc = "sending" <=> pipe[n].tag # NoTag
       /\ pipe[n].pc = "sending" => channel # 0
  /\ \A v \in Viewers :
       /\ viewer[v].pc \in {"away", "accepting", "accepted", "joining", "reading",
                            "playing", "finished"}
       /\ viewer[v].pc \in {"joining", "reading", "playing", "finished"} =>
            viewer[v].ch \in SessionIds /\ viewer[v].next \in 1 .. MaxTags + 1
  /\ permits \in 0 .. MaxConnections

\* A viewer that has not lagged is never sent a frame before the newest sequence header
\* that its pipeline broadcast ahead of that frame (or a newer one): the header is cached
\* before it is sent and the cache is read after subscribing, so a viewer that joins in
\* the middle of a broadcast gets it from the one or the other.  A frame ahead of which
\* no header was broadcast (dropped at a full pad, say) is sent without one.
HeaderBeforeFrame ==
  \A v \in Viewers : ~viewer[v].lagged =>
    \A i \in DOMAIN viewer[v].out :
      LET tag == viewer[v].out[i].tag
      IN  tag.kind \notin Headers /\ tag.version > 0 =>
            \E j \in 1 .. i - 1 :
              LET header == viewer[v].out[j].tag
              IN  /\ header.kind \in Headers
                  /\ Slot(header.kind) = Slot(tag.kind)
                  /\ header.version >= tag.version

\* The positions of the video tags that v was sent from its receiver.
VideoSent(v) == {viewer[v].out[i].pos : i \in {j \in DOMAIN viewer[v].out :
                   viewer[v].out[j].tag.kind \in VideoKinds}} \ {0}

\* After a gap in the video that a viewer is sent, it goes on with a keyframe: a
\* lagging viewer is never sent an inter frame without the frames before it.
GapsEndAtKeyframes ==
  \A v \in Viewers : \A p, q \in VideoSent(v) :
    LET tags == sent[viewer[v].ch]
    IN  (/\ p < q
         /\ \A r \in VideoSent(v) : r <= p \/ r >= q
         /\ \E r \in p + 1 .. q - 1 : tags[r].kind \in VideoKinds) => IsKeyframe(tags[q])

\* The permits of the semaphore are those of the HTTP-FLV viewers being served,
\* whichever way their connections end.
PermitsConserved ==
  permits + Cardinality({v \in Viewers : viewer[v].http}) = MaxConnections

\* A same-named stream never serves the tags or cached headers of an earlier one
\* ("so stopped streams don't ... serve stale cached sequence headers to a
\* same-named stream later", the comment in handle_control_message): the channel made
\* for session n has no tag of a session before n.
NoForeignTags ==
  \A n \in SessionIds :
    /\ \A i \in DOMAIN sent[n] : sent[n][i].by >= n
    /\ \A s \in Slots : cache[n][s] # NoTag => cache[n][s].by >= n

\* The viewers of a stream that has ended are let go: a removed channel ends them
\* once they have received what is left in it.
ViewersLetGo ==
  \A v \in Viewers : (viewer[v].ch # 0 /\ viewer[v].ch # channel) ~> (viewer[v].ch = 0)
=============================================================================
