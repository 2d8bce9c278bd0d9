----------------------------- MODULE ControlApi -----------------------------
(***************************************************************************)
(* The gRPC control plane as its clients see it (grpc/server.rs): the      *)
(* StartLivestream, StopLivestream and WatchLivestream calls, the          *)
(* TransportController that turns them into control messages               *)
(* (controller.rs), and the control loops that answer them                 *)
(* (protocol_server.rs).  Clients call concurrently, and a call that runs  *)
(* into its timeout is answered while its message is still queued.         *)
(*                                                                         *)
(* What happens to a session in between (publishers, the precreate timer)  *)
(* is modelled by SessionControl; here its state moves on, and it ends, at *)
(* any time.  ListLivestreams and GetLivestreamInfo read the registry once *)
(* and change nothing.                                                     *)
(*                                                                         *)
(* Session events (dispatcher/) reach a watch over a broadcast channel of  *)
(* its key, which is made by the first subscriber and dropped with         *)
(* SessionEnded.  An event follows the change it tells of, some changes    *)
(* have none, and a slow watch loses events: they only shorten the wait    *)
(* between two looks at the registry.                                      *)
(***************************************************************************)
EXTENDS SessionRegistry, Naturals, Sequences

CONSTANTS Protocols,       \* the protocol servers: {"rtmp", "rtsp"} or one of them
          StartCalls,      \* calls of StartLivestream, each made at most once
          StopCalls,       \* calls of StopLivestream
          WatchCalls,      \* calls of WatchLivestream
          Scenarios,       \* sets of calls that clients make together
          QueueCap,        \* capacity of a control queue
          EventCap         \* capacity of a broadcast channel (256 in the code)

ASSUME ControlApiAssumption ==
  /\ Protocols \subseteq {"rtmp", "rtsp"}
  /\ Scenarios \subseteq SUBSET (StartCalls \cup StopCalls \cup WatchCalls)
  /\ {QueueCap, EventCap} \subseteq Nat \ {0}

VARIABLES protoOf,         \* descriptor.protocol of every session
          startedBy,       \* history: the StartLivestream call whose precreate made it
          inbox,           \* control queue of every server
          loop,            \* the control loop of every server
          start,           \* the StartLivestream calls
          stop,            \* the StopLivestream calls
          watch,           \* the WatchLivestream calls
          senders,         \* keys with a broadcast sender in the dispatcher
          due,             \* events that a lifecycle is about to send
          killed           \* history: [call, proto, session] of every StopStream that hit

loopVars == <<protoOf, startedBy, inbox, loop, killed>>
callVars == <<start, stop, watch>>
eventVars == <<senders, due>>
apiVars == <<registryVars, loopVars, callVars, eventVars>>

NoKey == "NoKey"
NoCall == "NoCall"
Nothing == [is |-> "nothing", session |-> NoSession]     \* a oneshot not resolved yet
Reply(is, s) == [is |-> is, session |-> s]
Waiting == [pc |-> "idle", key |-> NoKey, call |-> NoCall]

Event(is, k) == [is |-> is, key |-> k]

NewStart == [pc |-> "new", key |-> NoKey, proto |-> "rtmp", ack |-> Nothing,
             answer |-> Nothing, after |-> {}]
NewStop == [pc |-> "new", key |-> NoKey, proto |-> "rtmp", answer |-> Nothing,
            asked |-> NoSession]
NewWatch == [pc |-> "new", key |-> NoKey, last |-> "none", open |-> FALSE, queued |-> 0]

\* A call of the scenario, or one that nobody makes.
Made(c, calls, new) == IF c \in calls THEN new ELSE [new EXCEPT !.pc = "none"]

ApiInit ==
  /\ RegistryInit
  /\ protoOf = [s \in Sessions |-> Unborn]
  /\ startedBy = [s \in Sessions |-> NoCall]
  /\ inbox = [p \in Protocols |-> <<>>]
  /\ loop = [p \in Protocols |-> Waiting]
  /\ \E calls \in Scenarios :
       /\ start = [c \in StartCalls |-> Made(c, calls, NewStart)]
       /\ stop = [c \in StopCalls |-> Made(c, calls, NewStop)]
       /\ watch = [c \in WatchCalls |-> Made(c, calls, NewWatch)]
  /\ killed = {}
  /\ senders = {} /\ due = {}

-----------------------------------------------------------------------------
(* StartLivestream *)

Answered(call, is, s) == [call EXCEPT !.pc = "done", !.answer = Reply(is, s)]

\* The stops that have been answered by now.
StopsDone == {c \in StopCalls : stop[c].pc = "done"}

\* start_livestream: already_exists for a key in use, else go on to the controller.
StartCheck(c, k, p) ==
  LET call == [start[c] EXCEPT !.key = k, !.proto = p, !.after = StopsDone]
  IN  /\ start[c].pc = "new"
      /\ start' = [start EXCEPT ![c] = IF InUse(k) THEN Answered(call, "exists", NoSession)
                                        ELSE [call EXCEPT !.pc = "sending"]]
      /\ UNCHANGED <<registryVars, loopVars, stop, watch, eventVars>>

\* precreate_session: the message with its oneshot; a full queue is an error.
StartSend(c) ==
  LET p == start[c].proto
      full == Len(inbox[p]) >= QueueCap
  IN  /\ start[c].pc = "sending"
      /\ inbox' = IF full THEN inbox
                  ELSE [inbox EXCEPT ![p] =
                          Append(@, [op |-> "precreate", key |-> start[c].key, call |-> c])]
      /\ start' = [start EXCEPT ![c] = IF full THEN Answered(@, "error", NoSession)
                                        ELSE [@ EXCEPT !.pc = "waiting"]]
      /\ UNCHANGED <<registryVars, protoOf, startedBy, loop, killed, stop, watch, eventVars>>

\* Mutation: the caller looks for the descriptor in the registry.
StartPolls(c) ==
  /\ start[c].pc = "waiting"
  /\ InUse(start[c].key)
  /\ start' = [start EXCEPT ![c] = Answered(@, "ok", sessions[start[c].key])]
  /\ UNCHANGED <<registryVars, loopVars, stop, watch, eventVars>>

\* await_precreate_ack: the loop has resolved the oneshot ...
StartAnswered(c) ==
  /\ start[c].pc = "waiting"
  /\ start[c].ack # Nothing
  /\ start' = [start EXCEPT ![c] = Answered(@, @.ack.is, @.ack.session)]
  /\ UNCHANGED <<registryVars, loopVars, stop, watch, eventVars>>

\* ... or not within PRECREATE_ACK_TIMEOUT.  The message stays where it is.
StartTimeout(c) ==
  /\ start[c].pc = "waiting"
  /\ start' = [start EXCEPT ![c] = Answered(@, "error", NoSession)]
  /\ UNCHANGED <<registryVars, loopVars, stop, watch, eventVars>>

-----------------------------------------------------------------------------
(* StopLivestream *)

\* stop_livestream: not_found for a free key, else close_session spawns a waiter.
StopCheck(c, k) ==
  LET call == [stop[c] EXCEPT !.key = k, !.asked = sessions[k]]
  IN  /\ stop[c].pc = "new"
      /\ stop' = [stop EXCEPT ![c] = IF InUse(k) THEN [call EXCEPT !.pc = "finding"]
                                      ELSE Answered(call, "not_found", NoSession)]
      /\ UNCHANGED <<registryVars, loopVars, start, watch, eventVars>>

\* The waiter looks the descriptor up: gone already, or it names the server.
StopFind(c) ==
  LET k == stop[c].key
  IN  /\ stop[c].pc = "finding"
      /\ stop' = [stop EXCEPT ![c] =
           IF InUse(k) THEN [@ EXCEPT !.pc = "sending", !.proto = protoOf[sessions[k]]]
           ELSE Answered(@, "true", NoSession)]
      /\ UNCHANGED <<registryVars, loopVars, start, watch, eventVars>>

\* The message; a full queue is only logged.
StopSend(c) ==
  LET p == stop[c].proto
  IN  /\ stop[c].pc = "sending"
      /\ inbox' = IF Len(inbox[p]) >= QueueCap THEN inbox
                  ELSE [inbox EXCEPT ![p] =
                          Append(@, [op |-> "stop", key |-> stop[c].key, call |-> c])]
      /\ stop' = [stop EXCEPT ![c].pc = "polling"]
      /\ UNCHANGED <<registryVars, protoOf, startedBy, loop, killed, start, watch, eventVars>>

\* Mutation: a descriptor that is Disconnected counts as gone.
StopPollState(c) ==
  /\ stop[c].pc = "polling"
  /\ Phase(stop[c].key) \in {"Absent", "Disconnected"}
  /\ stop' = [stop EXCEPT ![c] = Answered(@, "true", NoSession)]
  /\ UNCHANGED <<registryVars, loopVars, start, watch, eventVars>>

\* poll_cleanup: until there is no descriptor under the key ...
StopPoll(c) ==
  /\ stop[c].pc = "polling"
  /\ ~InUse(stop[c].key)
  /\ stop' = [stop EXCEPT ![c] = Answered(@, "true", NoSession)]
  /\ UNCHANGED <<registryVars, loopVars, start, watch, eventVars>>

\* ... or SESSION_CLEANUP_TIMEOUT has passed.
StopTimeout(c) ==
  /\ stop[c].pc = "polling"
  /\ stop' = [stop EXCEPT ![c] = Answered(@, "false", NoSession)]
  /\ UNCHANGED <<registryVars, loopVars, start, watch, eventVars>>

-----------------------------------------------------------------------------
(* The control loop of server p: handle_control_message *)

\* Mutation: the newest message first.
DequeueNewest(p) == [msg |-> inbox[p][Len(inbox[p])],
                     rest |-> SubSeq(inbox[p], 1, Len(inbox[p]) - 1)]

\* The next message of the queue, and what it leaves.
Dequeue(p) == [msg |-> Head(inbox[p]), rest |-> Tail(inbox[p])]

Receives(p, op) ==
  /\ loop[p].pc = "idle"
  /\ inbox[p] # <<>>
  /\ Dequeue(p).msg.op = op
  /\ inbox' = [inbox EXCEPT ![p] = Dequeue(p).rest]

\* ack.send; a caller that has given up has dropped the receiver.
Ack(call, is, s) ==
  start' = [start EXCEPT ![call] =
              IF @.pc = "waiting" THEN [@ EXCEPT !.ack = Reply(is, s)] ELSE @]

\* PrecreateStream: a key in use is refused, a free one is taken next.
LoopPrecreate(p) ==
  LET msg == Dequeue(p).msg
  IN  /\ Receives(p, "precreate")
      /\ IF InUse(msg.key)
         THEN Ack(msg.call, "exists", NoSession) /\ UNCHANGED loop
         ELSE /\ loop' = [loop EXCEPT ![p] = [pc |-> "checked", key |-> msg.key,
                                               call |-> msg.call]]
              /\ UNCHANGED start
      /\ UNCHANGED <<registryVars, protoOf, startedBy, killed, stop, watch, eventVars>>

\* lifecycle.pending() registers a new session ...
LoopRegister(p) ==
  LET s == CHOOSE t \in Sessions : state[t] = Unborn
  IN  /\ loop[p].pc = "checked"
      /\ \E t \in Sessions : state[t] = Unborn
      /\ Register(loop[p].key, s)
      /\ protoOf' = [protoOf EXCEPT ![s] = p]
      /\ startedBy' = [startedBy EXCEPT ![s] = loop[p].call]
      /\ loop' = [loop EXCEPT ![p].pc = "registered"]
      /\ UNCHANGED <<inbox, killed, callVars, eventVars>>

\* ... or fails, the other server was faster: "already in use" is acknowledged and
\* the dropped lifecycle cancels the session that holds the key and says so.
LoopConflict(p) ==
  /\ loop[p].pc = "checked"
  /\ InUse(loop[p].key)
  /\ Cancel(TokensAt(loop[p].key))
  /\ Ack(loop[p].call, "exists", NoSession)
  /\ loop' = [loop EXCEPT ![p] = Waiting]
  /\ due' = due \cup {Event("SessionEnded", loop[p].key)}
  /\ UNCHANGED <<sessions, keyOf, state, cleanup, protoOf, startedBy, inbox, killed, stop, watch,
                 senders>>

\* The descriptor found under the key is acknowledged; none is an error.
LoopAck(p) ==
  LET k == loop[p].key
  IN  /\ loop[p].pc = "registered"
      /\ IF InUse(k) THEN Ack(loop[p].call, "ok", sessions[k])
                     ELSE Ack(loop[p].call, "error", NoSession)
      /\ loop' = [loop EXCEPT ![p] = Waiting]
      /\ UNCHANGED <<registryVars, protoOf, startedBy, inbox, killed, stop, watch, eventVars>>

\* StopStream: the token found under the key is cancelled.  No event tells of it.
LoopStop(p) ==
  LET msg == Dequeue(p).msg
      hit == {s \in TokensAt(msg.key) : ~cancelled[s]}
  IN  /\ Receives(p, "stop")
      /\ Cancel(hit)
      /\ killed' = killed \cup {[call |-> msg.call, proto |-> p, session |-> s] : s \in hit}
      /\ UNCHANGED <<sessions, keyOf, state, cleanup, protoOf, startedBy, loop, callVars, eventVars>>

-----------------------------------------------------------------------------
(* Session events: EventDispatcher *)

\* The receivers of a key's sender.
Subscribers(k) == {c \in WatchCalls : watch[c].key = k /\ watch[c].open}

\* send: to the key's sender, if there is one; a receiver that is full loses its oldest
\* event.  The sender is dropped when nobody listens, and with SessionEnded.
SendEvent(event) ==
  LET k == event.key
      ends == event.is = "SessionEnded"
  IN  /\ event \in due
      /\ due' = due \ {event}
      /\ watch' = [c \in WatchCalls |->
           IF k \in senders /\ c \in Subscribers(k)
           THEN [watch[c] EXCEPT !.queued = IF @ < EventCap THEN @ + 1 ELSE @, !.open = ~ends]
           ELSE watch[c]]
      /\ senders' = IF ends \/ Subscribers(k) = {} THEN senders \ {k} ELSE senders
      /\ UNCHANGED <<registryVars, loopVars, start, stop>>

-----------------------------------------------------------------------------
(* WatchLivestream *)

\* The client opens the stream: subscribe makes the key's sender if there is none.
WatchOpen(c, k) ==
  /\ watch[c].pc = "new"
  /\ watch' = [watch EXCEPT ![c].pc = "looking", ![c].key = k, ![c].open = TRUE]
  /\ senders' = senders \cup {k}
  /\ UNCHANGED <<registryVars, loopVars, start, stop, due>>

\* The stream and its subscription are dropped.
Closed(w) == [w EXCEPT !.pc = "done", !.open = FALSE, !.queued = 0]

\* yield, and break out of the loop after Disconnected.
Yielded(c, st) ==
  IF st = "Disconnected" THEN Closed([watch[c] EXCEPT !.last = st])
  ELSE [watch[c] EXCEPT !.last = st]

\* wait_for_next_state: a state other than the last one is yielded; a session that is
\* gone counts as Disconnected, with which the stream ends.
WatchLook(c) ==
  LET k == watch[c].key
  IN  /\ watch[c].pc = "looking"
      /\ watch' = [watch EXCEPT ![c] =
           IF ~InUse(k) THEN Yielded(c, "Disconnected")
           ELSE IF Phase(k) # @.last THEN Yielded(c, Phase(k))
           ELSE [@ EXCEPT !.pc = "waiting"]]
      /\ UNCHANGED <<registryVars, loopVars, start, stop, eventVars>>

\* An event comes before WATCH_POLL_INTERVAL has passed.
WatchEvent(c) ==
  /\ watch[c].pc = "waiting"
  /\ watch[c].queued > 0
  /\ watch' = [watch EXCEPT ![c].pc = "looking", ![c].queued = @ - 1]
  /\ UNCHANGED <<registryVars, loopVars, start, stop, eventVars>>

\* Mutation: the watch waits for an event as long as its channel is open.
WatchIdleEvents(c) ==
  /\ watch[c].pc = "waiting"
  /\ watch[c].queued = 0 /\ ~watch[c].open
  /\ watch' = [watch EXCEPT ![c].pc = "sleeping"]
  /\ UNCHANGED <<registryVars, loopVars, start, stop, eventVars>>

\* No event within the interval, or the channel is closed: the watch sleeps ...
WatchIdle(c) ==
  /\ watch[c].pc = "waiting"
  /\ watch[c].queued = 0
  /\ watch' = [watch EXCEPT ![c].pc = "sleeping"]
  /\ UNCHANGED <<registryVars, loopVars, start, stop, eventVars>>

\* ... and looks again, whatever the events say.
WatchWakes(c) ==
  /\ watch[c].pc = "sleeping"
  /\ watch' = [watch EXCEPT ![c].pc = "looking"]
  /\ UNCHANGED <<registryVars, loopVars, start, stop, eventVars>>

\* The client goes away.
WatchCancel(c) ==
  /\ watch[c].pc \in {"looking", "waiting", "sleeping"}
  /\ watch' = [watch EXCEPT ![c] = Closed(@)]
  /\ UNCHANGED <<registryVars, loopVars, start, stop, eventVars>>

-----------------------------------------------------------------------------
(* The life of the sessions, abstracted from SessionControl *)

\* A publisher moves a session on (connecting, connect); connect sends SessionStarted.
SessionMoves(k, new) ==
  /\ UpdateState(k, new)
  /\ due' = due \cup (IF new = "Connected" THEN {Event("SessionStarted", k)} ELSE {})
  /\ UNCHANGED <<sessions, keyOf, cancelled, cleanup, loopVars, callVars, senders>>

\* A lifecycle disconnects: the publisher leaves, the precreate timer expires.
SessionEnds(k) ==
  /\ Cancel(TokensAt(k))
  /\ due' = due \cup {Event("SessionEnded", k)}
  /\ UNCHANGED <<sessions, keyOf, state, cleanup, loopVars, callVars, senders>>

\* TIMING ASSUMPTION.  A loop that has registered a session reads its descriptor, the
\* next thing it does, before the 200 ms grace period of that session can be over.
GraceCoversAck(s) == \A p \in Protocols : loop[p].pc = "registered" => loop[p].key # keyOf[s]

SessionCleanup(s) ==
  /\ CleanupMark(s) \/ (CleanupRemove(s) /\ GraceCoversAck(s))
  /\ UNCHANGED <<loopVars, callVars, eventVars>>

-----------------------------------------------------------------------------
StartStep(c) == StartSend(c) \/ StartAnswered(c) \/ StartTimeout(c)
StopStep(c) == StopFind(c) \/ StopSend(c) \/ StopPoll(c) \/ StopTimeout(c)
LoopStep(p) == \/ LoopPrecreate(p) \/ LoopRegister(p) \/ LoopConflict(p) \/ LoopAck(p)
               \/ LoopStop(p)

WatchStep(c) == WatchLook(c) \/ WatchEvent(c) \/ WatchIdle(c) \/ WatchWakes(c)

ApiNext ==
  \/ \E c \in StartCalls, k \in LiveIds, p \in Protocols : StartCheck(c, k, p)
  \/ \E c \in StartCalls : StartStep(c)
  \/ \E c \in StopCalls, k \in LiveIds : StopCheck(c, k)
  \/ \E c \in StopCalls : StopStep(c)
  \/ \E c \in WatchCalls, k \in LiveIds : WatchOpen(c, k)
  \/ \E c \in WatchCalls : WatchStep(c) \/ WatchCancel(c)
  \/ \E event \in due : SendEvent(event)
  \/ \E p \in Protocols : LoopStep(p)
  \/ \E k \in LiveIds : SessionEnds(k)
  \/ \E k \in LiveIds, new \in {"Connecting", "Connected"} : SessionMoves(k, new)
  \/ \E s \in Sessions : SessionCleanup(s)

ApiSpec == ApiInit /\ [][ApiNext]_apiVars

\* The runtime polls the tasks of the service; clients and publishers owe nothing.
ApiFairSpec ==
  /\ ApiSpec
  /\ \A p \in Protocols : WF_apiVars(LoopStep(p))
  /\ \A s \in Sessions : WF_apiVars(SessionCleanup(s))
  /\ \A c \in WatchCalls : WF_apiVars(WatchStep(c))

-----------------------------------------------------------------------------
(* Properties *)

\* Type invariant.
ApiTypeOK ==
  /\ RegistryTypeOK
  /\ protoOf \in [Sessions -> Protocols \cup {Unborn}]
  /\ \A p \in Protocols :
       /\ Len(inbox[p]) <= QueueCap
       /\ loop[p].pc \in {"idle", "checked", "registered"}
       /\ loop[p].pc # "idle" => loop[p].key \in LiveIds
       /\ loop[p].pc = "registered" => InUse(loop[p].key)
  /\ \A c \in StartCalls :
       /\ start[c].pc \in {"none", "new", "sending", "waiting", "done"}
       /\ start[c].answer.is \in {"nothing", "ok", "exists", "error"}
  /\ \A c \in StopCalls :
       /\ stop[c].pc \in {"none", "new", "finding", "sending", "polling", "done"}
       /\ stop[c].answer.is \in {"nothing", "true", "false", "not_found"}
  /\ \A c \in WatchCalls : /\ watch[c].pc \in {"none", "new", "looking", "waiting", "sleeping", "done"}
                             /\ watch[c].queued \in 0 .. EventCap

\* "The caller learns the authoritative result instead of polling the registry (which
\* could observe a concurrent winner's descriptor)" (controller.rs): no two calls of
\* StartLivestream are told that they have started the same session.
StartOwnsSession ==
  \A c, d \in StartCalls :
    start[c].answer.is = "ok" /\ start[d].answer = start[c].answer => c = d

\* A StopLivestream answered with success leaves the session that it was asked to stop
\* out of the registry, even if a new session of the key is started meanwhile.
StopTruthful ==
  \A c \in StopCalls : stop[c].answer.is = "true" =>
    \A k \in LiveIds : sessions[k] # stop[c].asked

\* Within a server stops keep their place: the message that a StopLivestream leaves in
\* the queue when it is answered (its timeout included) never cancels a session of that
\* server whose StartLivestream was called after the answer, acknowledged or not.  The
\* queues of the two servers are not ordered with each other, and StopStream cancels
\* whatever holds its key: the session of the OTHER protocol that took the key meanwhile
\* is cancelled, and the property does not speak of it.
StopSparesLater ==
  \A hit \in killed : protoOf[hit.session] = hit.proto =>
    hit.call \notin start[startedBy[hit.session]].after

\* The watcher of a key is told of the end and let go, unless the key is in use again
\* before it has noticed.
WatchEnds ==
  \A c \in WatchCalls : \A k \in LiveIds :
    (watch[c].key = k /\ ~InUse(k)) ~> (watch[c].pc = "done" \/ InUse(k))
=============================================================================
