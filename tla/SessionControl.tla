--------------------------- MODULE SessionControl ---------------------------
(***************************************************************************)
(* The session control plane of the ingest service.  It composes           *)
(*   - the session registry (SessionRegistry),                             *)
(*   - the HandlerLifecycle of every session (lifecycle.rs),               *)
(*   - one control loop per protocol server with its map of pending        *)
(*     lifecycles and its precreate timers (protocol_server.rs),           *)
(*   - the RTMP and RTSP connections that publish (rtmp/server.rs,         *)
(*     rtmp/session.rs, rtmp/handler/publish.rs, rtsp/server.rs),          *)
(*   - the set of FLV channels of the egress hub (flv/hub.rs).             *)
(*                                                                         *)
(* All of them run on a multi-threaded runtime and name a session by its   *)
(* stream key only.  A HandlerLifecycle is created together with the       *)
(* session it registers and carries the same identity; the point of the    *)
(* model is that disconnect() of lifecycle l cancels whatever session the  *)
(* registry holds under l's key at that moment.                            *)
(*                                                                         *)
(* One action is one stretch of a task that no other task can observe half *)
(* done; awaits, and calls on different shared maps, are separate steps    *)
(* wherever their interleaving with another task can be told apart.        *)
(***************************************************************************)
EXTENDS SessionRegistry, Naturals, Sequences

CONSTANTS Protocols,       \* the protocol servers that run: {"rtmp", "rtsp"} or one of them
          RtmpConns,       \* RTMP connections that may publish
          RtspConns,       \* RTSP connections
          QueueCap,        \* capacity of a control queue (bound: config.queue.control)
          TtlEnabled       \* precreate_ttl is not zero

ASSUME ProtocolsAssumption == Protocols \subseteq {"rtmp", "rtsp"}
ASSUME ConnsAssumption == /\ RtmpConns \cap RtspConns = {}
                          /\ RtmpConns # {} => "rtmp" \in Protocols
                          /\ RtspConns # {} => "rtsp" \in Protocols

Conns == RtmpConns \cup RtspConns

VARIABLES protoOf,         \* descriptor.protocol of every session
          marked,          \* lifecycle.disconnected
          connected,       \* lifecycle.connected
          pending,         \* pending_lifecycle of every server: key -> lifecycle
          ttl,             \* the precreate timer task of every session
          channel,         \* does the hub have an FLV channel for this key?
          inbox,           \* control queue of every server
          server,          \* the control loop of every server
          conn,            \* every connection task
          stopped          \* history: sessions cancelled by a StopStream message

lifecycleVars == <<marked, connected>>
serverVars == <<protoOf, pending, ttl, inbox, server, stopped>>
controlVars == <<registryVars, lifecycleVars, serverVars, channel, conn>>

NoKey == "NoKey"

\* A control loop waiting for a message; a connection that has nothing of the
\* control plane in hand (before its publish request, or gone).
Waiting == [pc |-> "idle", key |-> NoKey, life |-> NoSession]
Idle == [pc |-> "idle", key |-> NoKey, life |-> NoSession, token |-> NoSession]
Message == [op : {"precreate", "stop"}, key : LiveIds]

ControlInit ==
  /\ RegistryInit
  /\ protoOf = [s \in Sessions |-> Unborn]
  /\ marked = [s \in Sessions |-> FALSE]
  /\ connected = [s \in Sessions |-> FALSE]
  /\ pending = [p \in Protocols |-> [k \in LiveIds |-> NoSession]]
  /\ ttl = [s \in Sessions |-> "none"]
  /\ channel = [k \in LiveIds |-> FALSE]
  /\ inbox = [p \in Protocols |-> <<>>]
  /\ server = [p \in Protocols |-> Waiting]
  /\ conn = [c \in Conns |-> Idle]
  /\ stopped = {}

-----------------------------------------------------------------------------
(* HandlerLifecycle and the pending map *)

\* Mutation: the lifecycle is marked, the session's token not cancelled.
DisconnectNoCancel(L, extra) ==
  /\ marked' = [s \in Sessions |-> marked[s] \/ s \in L]
  /\ Cancel(extra)

\* disconnect_with_reason of the lifecycles in L, for the first time only: cancel
\* the token found under the lifecycle's key (and send SessionEnded, an event for
\* watchers, left out).  `extra' are tokens that the same step cancels directly.
Disconnect(L, extra) ==
  /\ marked' = [s \in Sessions |-> marked[s] \/ s \in L]
  /\ Cancel(extra \cup UNION {TokensAt(keyOf[l]) : l \in {l \in L : ~marked[l]}})

\* on_publish_requested keeps a reference into the pending map while it awaits;
\* insert and remove on that key wait until it is released.
Unlocked(p, k) ==
  p = "rtmp" => \A c \in RtmpConns :
                  ~(conn[c].pc \in {"accepting", "orphan"} /\ conn[c].key = k)

-----------------------------------------------------------------------------
(* TransportController: the two messages of the control queues *)

\* start_livestream, precreate_session: only for a key that is free when asked;
\* a full queue is an error and changes nothing.
SendPrecreate(p, k) ==
  /\ ~InUse(k)
  /\ Len(inbox[p]) < QueueCap
  /\ inbox' = [inbox EXCEPT ![p] = Append(@, [op |-> "precreate", key |-> k])]
  /\ UNCHANGED <<registryVars, lifecycleVars, protoOf, pending, ttl, server,
                 stopped, channel, conn>>

\* stop_livestream, close_session: to the server of the session found under k.
SendStop(k) ==
  /\ InUse(k)
  /\ LET p == protoOf[sessions[k]]
     IN  /\ Len(inbox[p]) < QueueCap
         /\ inbox' = [inbox EXCEPT ![p] = Append(@, [op |-> "stop", key |-> k])]
  /\ UNCHANGED <<registryVars, lifecycleVars, protoOf, pending, ttl, server,
                 stopped, channel, conn>>

-----------------------------------------------------------------------------
(* The control loop of server p: handle_control_message *)

Receives(p, op) ==
  /\ server[p].pc = "idle"
  /\ inbox[p] # <<>>
  /\ Head(inbox[p]).op = op
  /\ inbox' = [inbox EXCEPT ![p] = Tail(@)]

\* PrecreateStream for a key in use: the ack is an error.
PrecreateRefuse(p) ==
  /\ Receives(p, "precreate")
  /\ InUse(Head(inbox[p]).key)
  /\ UNCHANGED <<registryVars, lifecycleVars, protoOf, pending, ttl, server,
                 stopped, channel, conn>>

\* PrecreateStream for a free key: create the FLV channel, make a lifecycle.
PrecreateCheck(p) ==
  /\ Receives(p, "precreate")
  /\ LET k == Head(inbox[p]).key
     IN  /\ ~InUse(k)
         /\ channel' = [channel EXCEPT ![k] = TRUE]
         /\ server' = [server EXCEPT ![p] = [pc |-> "checked", key |-> k, life |-> NoSession]]
  /\ UNCHANGED <<registryVars, lifecycleVars, protoOf, pending, ttl, stopped, conn>>

\* lifecycle.pending() succeeds: session s is registered.
PrecreateRegister(p, s) ==
  /\ server[p].pc = "checked"
  /\ Register(server[p].key, s)
  /\ protoOf' = [protoOf EXCEPT ![s] = p]
  /\ server' = [server EXCEPT ![p] =
       [pc |-> "registered", key |-> server[p].key, life |-> s]]
  /\ UNCHANGED <<lifecycleVars, pending, ttl, inbox, stopped, channel, conn>>

\* lifecycle.pending() fails, the key was taken meanwhile.  The lifecycle is
\* dropped on return: its Drop disconnects, which cancels the session that holds
\* the key.
PrecreateConflict(p) ==
  /\ server[p].pc = "checked"
  /\ InUse(server[p].key)
  /\ Cancel(TokensAt(server[p].key))
  /\ server' = [server EXCEPT ![p] = Waiting]
  /\ UNCHANGED <<sessions, keyOf, state, cleanup, marked, connected, protoOf,
                 pending, ttl, inbox, stopped, channel, conn>>

\* The ack: Ok with the descriptor found under the key ...
PrecreateAck(p) ==
  /\ server[p].pc = "registered"
  /\ InUse(server[p].key)
  /\ server' = [server EXCEPT ![p].pc = "acked"]
  /\ UNCHANGED <<registryVars, lifecycleVars, protoOf, pending, ttl, inbox,
                 stopped, channel, conn>>

\* ... or an error when the entry is gone already; the lifecycle is dropped.
PrecreateAckLost(p) ==
  /\ server[p].pc = "registered"
  /\ ~InUse(server[p].key)
  /\ Disconnect({server[p].life}, {})
  /\ server' = [server EXCEPT ![p] = Waiting]
  /\ UNCHANGED <<sessions, keyOf, state, cleanup, connected, protoOf, pending, ttl,
                 inbox, stopped, channel, conn>>

\* spawn_precreate_session_ttl: store the lifecycle, dropping (disconnecting) the
\* one the map still held for this key, and start the timer task.
PrecreateInsert(p) ==
  /\ server[p].pc = "acked"
  /\ LET k == server[p].key
         l == server[p].life
     IN  /\ Unlocked(p, k)
         /\ pending' = [pending EXCEPT ![p][k] = l]
         /\ Disconnect({pending[p][k]} \ {NoSession}, {})
         /\ ttl' = [ttl EXCEPT ![l] = IF TtlEnabled THEN "armed" ELSE "done"]
  /\ server' = [server EXCEPT ![p] = Waiting]
  /\ UNCHANGED <<sessions, keyOf, state, cleanup, connected, protoOf, inbox,
                 stopped, channel, conn>>

\* StopStream: cancel the token found under the key, whose session it may be ...
StopCancel(p) ==
  /\ Receives(p, "stop")
  /\ LET k == Head(inbox[p]).key
     IN  /\ Cancel(TokensAt(k))
         /\ stopped' = stopped \cup {s \in TokensAt(k) : ~cancelled[s]}
         /\ server' = [server EXCEPT ![p] = [pc |-> "stopping", key |-> k, life |-> NoSession]]
  /\ UNCHANGED <<sessions, keyOf, state, cleanup, lifecycleVars, protoOf, pending,
                 ttl, channel, conn>>

\* ... and drop the FLV channel.
StopRemoveChannel(p) ==
  /\ server[p].pc = "stopping"
  /\ channel' = [channel EXCEPT ![server[p].key] = FALSE]
  /\ server' = [server EXCEPT ![p] = Waiting]
  /\ UNCHANGED <<registryVars, lifecycleVars, protoOf, pending, ttl, inbox,
                 stopped, conn>>

ServerStep(p) ==
  \/ PrecreateRefuse(p)
  \/ PrecreateCheck(p)
  \/ \E s \in Sessions : PrecreateRegister(p, s)
  \/ PrecreateConflict(p)
  \/ PrecreateAck(p)
  \/ PrecreateAckLost(p)
  \/ PrecreateInsert(p)
  \/ StopCancel(p)
  \/ StopRemoveChannel(p)

-----------------------------------------------------------------------------
(* The precreate timer task of session s *)

\* session_token.cancelled() first: return, leaving the pending map as it is.
TtlCancelled(s) ==
  /\ ttl[s] = "armed"
  /\ cancelled[s]
  /\ ttl' = [ttl EXCEPT ![s] = "done"]
  /\ UNCHANGED <<registryVars, lifecycleVars, protoOf, pending, inbox, server,
                 stopped, channel, conn>>

\* The timer first.  The token may be cancelled from here on: nobody looks again.
TtlDue(s) ==
  /\ ttl[s] = "armed"
  /\ ~cancelled[s]
  /\ ttl' = [ttl EXCEPT ![s] = "due"]
  /\ UNCHANGED <<registryVars, lifecycleVars, protoOf, pending, inbox, server,
                 stopped, channel, conn>>

\* Take the lifecycle that the map holds under the key, if any; disconnect it.
TtlExpire(s) ==
  LET p == protoOf[s]
      k == keyOf[s]
      l == pending[p][k]
  IN  /\ ttl[s] = "due"
      /\ Unlocked(p, k)
      /\ pending' = [pending EXCEPT ![p][k] = NoSession]
      /\ Disconnect({l} \ {NoSession}, {})
      /\ ttl' = [ttl EXCEPT ![s] = IF l = NoSession THEN "done" ELSE "expired"]
      /\ UNCHANGED <<sessions, keyOf, state, cleanup, connected, protoOf, inbox,
                     server, stopped, channel, conn>>

\* After the disconnect: drop the FLV channel.
TtlRemoveChannel(s) ==
  /\ ttl[s] = "expired"
  /\ channel' = [channel EXCEPT ![keyOf[s]] = FALSE]
  /\ ttl' = [ttl EXCEPT ![s] = "done"]
  /\ UNCHANGED <<registryVars, lifecycleVars, protoOf, pending, inbox, server,
                 stopped, conn>>

TtlStep(s) == TtlCancelled(s) \/ TtlDue(s) \/ TtlExpire(s) \/ TtlRemoveChannel(s)

-----------------------------------------------------------------------------
(* An RTMP connection that publishes *)

connFrame == <<serverVars, channel>>       \* what most connection steps leave alone

\* on_publish_requested, up to get_state(): needs a pending lifecycle; goes on with
\* a Pending session, or with one that is gone.  Any other state is rejected.
PublishRequest(c, k) ==
  /\ conn[c] = Idle
  /\ pending["rtmp"][k] # NoSession
  /\ Phase(k) \in {"Pending", "Absent"}
  /\ conn' = [conn EXCEPT ![c] =
       [pc |-> IF Phase(k) = "Pending" THEN "accepting" ELSE "orphan",
        key |-> k, life |-> pending["rtmp"][k], token |-> NoSession]]
  /\ UNCHANGED <<registryVars, lifecycleVars, connFrame>>

\* The session is gone, or accept_request fails: disconnect the lifecycle (it
\* stays in the map), the connection ends.
PublishAbandon(c) ==
  /\ conn[c].pc \in {"accepting", "orphan"}
  /\ Disconnect({conn[c].life}, {})
  /\ conn' = [conn EXCEPT ![c] = Idle]
  /\ UNCHANGED <<sessions, keyOf, state, cleanup, connected, connFrame>>

\* accept_request succeeds, then lifecycle.connecting(), whose error is ignored.
PublishAccept(c) ==
  /\ conn[c].pc = "accepting"
  /\ UpdateState(conn[c].key, "Connecting")
  /\ conn' = [conn EXCEPT ![c].pc = "accepted"]
  /\ UNCHANGED <<sessions, keyOf, cancelled, cleanup, lifecycleVars, connFrame>>

\* registry.get_cancel_token: the connection ends when the entry is gone.
PublishToken(c) ==
  /\ conn[c].pc = "accepted"
  /\ conn' = [conn EXCEPT ![c] =
       IF InUse(@.key) THEN [pc |-> "claiming", key |-> @.key, life |-> NoSession,
                             token |-> sessions[@.key]]
                       ELSE Idle]
  /\ UNCHANGED <<registryVars, lifecycleVars, connFrame>>

\* Mutation: pending_lifecycle.get instead of remove.
PublishPeek(c) ==
  LET k == conn[c].key
      l == pending["rtmp"][k]
  IN  /\ conn[c].pc = "claiming"
      /\ Unlocked("rtmp", k)
      /\ conn' = [conn EXCEPT ![c] =
           IF l = NoSession THEN Idle
           ELSE [pc |-> "running", key |-> k, life |-> l, token |-> @.token]]
      /\ UNCHANGED <<registryVars, lifecycleVars, connFrame>>

\* pending_lifecycle.remove: whoever removes the lifecycle publishes; everyone
\* else finds none and ends.  Building the pipeline cannot fail.
PublishClaim(c) ==
  LET k == conn[c].key
      l == pending["rtmp"][k]
  IN  /\ conn[c].pc = "claiming"
      /\ Unlocked("rtmp", k)
      /\ pending' = [pending EXCEPT !["rtmp"][k] = NoSession]
      /\ conn' = [conn EXCEPT ![c] =
           IF l = NoSession THEN Idle
           ELSE [pc |-> "running", key |-> k, life |-> l, token |-> @.token]]
      /\ UNCHANGED <<registryVars, lifecycleVars, protoOf, ttl, inbox, server,
                     stopped, channel>>

\* send_to_source on the first media message: lifecycle.connect().
PublishFrame(c) ==
  /\ conn[c].pc = "running"
  /\ ~connected[conn[c].life]
  /\ UpdateOk(conn[c].key, "Connected")
  /\ connected' = [connected EXCEPT ![conn[c].life] = TRUE]
  /\ UpdateState(conn[c].key, "Connected")
  /\ UNCHANGED <<sessions, keyOf, cancelled, cleanup, marked, conn, connFrame>>

\* PublishStreamFinished: disconnect, cancel the token.  Messages of the same
\* batch are still handled before the read loop sees the cancelled token.
PublishFinish(c) ==
  /\ conn[c].pc = "running"
  /\ Disconnect({conn[c].life}, {conn[c].token})
  /\ UNCHANGED <<sessions, keyOf, state, cleanup, connected, conn, connFrame>>

\* The handler returns and is dropped (its lifecycle disconnects), then the token
\* that the connection looked up is cancelled.
PublisherExit(c) ==
  /\ conn[c].pc = "running"
  /\ Disconnect({conn[c].life}, {conn[c].token})
  /\ conn' = [conn EXCEPT ![c].pc = "draining"]
  /\ UNCHANGED <<sessions, keyOf, state, cleanup, connFrame>>

\* The handler returns because of the peer: end of stream or an I/O error.
PublisherGone(c) == PublisherExit(c) /\ UNCHANGED connected

\* Mutation: the read loop looks at the token only until media flows.
PublisherCancelledEarly(c) ==
  /\ conn[c].pc = "running" /\ cancelled[conn[c].token]
  /\ ~connected[conn[c].life]
  /\ PublisherGone(c)

\* The read loop sees the cancelled token.
PublisherCancelled(c) ==
  conn[c].pc = "running" /\ cancelled[conn[c].token] /\ PublisherGone(c)

\* The first media message finds no session to connect: lifecycle.connect() fails
\* (its flag stays set) and the error ends the handler.
PublisherRefused(c) ==
  /\ conn[c].pc = "running"
  /\ ~connected[conn[c].life]
  /\ ~UpdateOk(conn[c].key, "Connected")
  /\ connected' = [connected EXCEPT ![conn[c].life] = TRUE]
  /\ PublisherExit(c)

\* 100 ms later: remove_channel.
PublisherDrained(c) ==
  /\ conn[c].pc = "draining"
  /\ channel' = [channel EXCEPT ![conn[c].key] = FALSE]
  /\ conn' = [conn EXCEPT ![c] = Idle]
  /\ UNCHANGED <<registryVars, lifecycleVars, serverVars>>

-----------------------------------------------------------------------------
(* An RTSP connection that reached RECORD *)

\* Mutation: pending_lifecycle.get instead of remove.
RtspPeek(c, k) ==
  /\ conn[c] = Idle
  /\ pending["rtsp"][k] # NoSession
  /\ channel' = [channel EXCEPT ![k] = TRUE]
  /\ conn' = [conn EXCEPT ![c] = [pc |-> "claimed", key |-> k,
                                      life |-> pending["rtsp"][k], token |-> NoSession]]
  /\ UNCHANGED <<registryVars, lifecycleVars, serverVars>>

\* Take the pending lifecycle (none: the connection ends), create the channel.
RtspRecord(c, k) ==
  /\ conn[c] = Idle
  /\ pending["rtsp"][k] # NoSession
  /\ pending' = [pending EXCEPT !["rtsp"][k] = NoSession]
  /\ channel' = [channel EXCEPT ![k] = TRUE]
  /\ conn' = [conn EXCEPT ![c] = [pc |-> "claimed", key |-> k,
                                      life |-> pending["rtsp"][k], token |-> NoSession]]
  /\ UNCHANGED <<registryVars, lifecycleVars, protoOf, ttl, inbox, server, stopped>>

\* lifecycle.connect() succeeds; the pipeline and the RTP loop start.  They watch
\* a token of the connection's own, not the session's.
RtspConnect(c) ==
  /\ conn[c].pc = "claimed"
  /\ UpdateOk(conn[c].key, "Connected")
  /\ connected' = [connected EXCEPT ![conn[c].life] = TRUE]
  /\ UpdateState(conn[c].key, "Connected")
  /\ conn' = [conn EXCEPT ![c].pc = "recording"]
  /\ UNCHANGED <<sessions, keyOf, cancelled, cleanup, marked, connFrame>>

\* lifecycle.connect() fails: remove the channel; the lifecycle is dropped.
RtspConnectFail(c) ==
  /\ conn[c].pc = "claimed"
  /\ ~UpdateOk(conn[c].key, "Connected")
  /\ connected' = [connected EXCEPT ![conn[c].life] = TRUE]
  /\ channel' = [channel EXCEPT ![conn[c].key] = FALSE]
  /\ Disconnect({conn[c].life}, {})
  /\ conn' = [conn EXCEPT ![c] = Idle]
  /\ UNCHANGED <<sessions, keyOf, state, cleanup, serverVars>>

\* The RTP loop ends (TEARDOWN, end of stream, idle timeout, closed pad):
\* lifecycle.disconnect() ...
RtspEnd(c) ==
  /\ conn[c].pc = "recording"
  /\ Disconnect({conn[c].life}, {})
  /\ conn' = [conn EXCEPT ![c].pc = "closing"]
  /\ UNCHANGED <<sessions, keyOf, state, cleanup, connected, connFrame>>

\* ... and remove_channel.
RtspClose(c) ==
  /\ conn[c].pc = "closing"
  /\ channel' = [channel EXCEPT ![conn[c].key] = FALSE]
  /\ conn' = [conn EXCEPT ![c] = Idle]
  /\ UNCHANGED <<registryVars, lifecycleVars, serverVars>>

-----------------------------------------------------------------------------
(* The cleanup task of session s, in time *)

\* Mutation: a grace period shorter than the publisher's drain.
GraceTooShort(s) == ttl[s] \notin {"armed", "due", "expired"}

\* Mutation: a grace period that a publisher being accepted outlasts.
GraceMissesAccept(s) ==
  /\ ttl[s] \notin {"armed", "due", "expired"}
  /\ \A c \in RtmpConns : conn[c].pc \in {"running", "draining"} => conn[c].token # s

\* TIMING ASSUMPTION.  What a cancelled token wakes (the precreate timer, the RTMP
\* publisher with its 100 ms drain) is through before the 200 ms grace period of
\* the same token ends, and so is a publisher that was being accepted: one short
\* response written to its socket, then the claim.
GraceCovers(s) ==
  /\ ttl[s] \notin {"armed", "due", "expired"}
  /\ \A c \in RtmpConns :
       /\ conn[c].pc \in {"accepting", "accepted", "claiming"} => conn[c].key # keyOf[s]
       /\ conn[c].pc \in {"running", "draining"} => conn[c].token # s

SessionDisconnected(s) == /\ CleanupMark(s)
                          /\ UNCHANGED <<lifecycleVars, serverVars, channel, conn>>

SessionRemoved(s) == /\ CleanupRemove(s)
                     /\ GraceCovers(s)
                     /\ UNCHANGED <<lifecycleVars, serverVars, channel, conn>>

CleanupStep(s) == SessionDisconnected(s) \/ SessionRemoved(s)

-----------------------------------------------------------------------------
\* Steps that the peer decides on; nothing forces them.
PeerStep ==
  \/ \E p \in Protocols, k \in LiveIds : SendPrecreate(p, k)
  \/ \E k \in LiveIds : SendStop(k)
  \/ \E c \in RtmpConns, k \in LiveIds : PublishRequest(c, k)
  \/ \E c \in RtmpConns : PublishFrame(c)
  \/ \E c \in RtmpConns : PublishFinish(c)
  \/ \E c \in RtmpConns : PublisherGone(c)
  \/ \E c \in RtmpConns : PublisherRefused(c)
  \/ \E c \in RtspConns, k \in LiveIds : RtspRecord(c, k)
  \/ \E c \in RtspConns : RtspEnd(c)

\* Steps that connection c takes by itself once it is woken.
ConnStep(c) ==
  \/ PublishAbandon(c)
  \/ PublishAccept(c)
  \/ PublishToken(c)
  \/ PublishClaim(c)
  \/ PublisherCancelled(c)
  \/ PublisherDrained(c)
  \/ RtspConnect(c)
  \/ RtspConnectFail(c)
  \/ RtspClose(c)

ControlNext ==
  \/ PeerStep
  \/ \E p \in Protocols : ServerStep(p)
  \/ \E s \in Sessions : TtlStep(s)
  \/ \E s \in Sessions : CleanupStep(s)
  \/ \E c \in Conns : ConnStep(c)

ControlSpec == ControlInit /\ [][ControlNext]_controlVars

\* The publish response has to be taken by the client, which may never do so: the
\* reference into the pending map is kept all the while.
Answering(c) == conn[c].pc = "accepting"

\* The runtime polls every task that is ready: control loops, timer and cleanup
\* tasks and connections make progress; peers need not.  A task that waits for the
\* lock of the pending map gets it at last if it is free again and again, although
\* publish requests take it in between.  That a client takes its response is assumed
\* only where GraceCovers assumes it: once its session is Disconnected.
ControlFairSpec ==
  /\ ControlSpec
  /\ \A p \in Protocols : SF_controlVars(ServerStep(p))
  /\ \A s \in Sessions : SF_controlVars(TtlStep(s)) /\ WF_controlVars(CleanupStep(s))
  /\ \A c \in RtmpConns :
       /\ SF_controlVars(~Answering(c) /\ ConnStep(c))
       /\ WF_controlVars(Answering(c) /\ Phase(conn[c].key) = "Disconnected" /\ ConnStep(c))
  /\ \A c \in RtspConns : WF_controlVars(ConnStep(c))

-----------------------------------------------------------------------------
(* Properties *)

RtmpPcs == {"accepting", "orphan", "accepted", "claiming", "running", "draining"}
RtspPcs == {"claimed", "recording", "closing"}

\* Type invariant of the control plane.
ControlTypeOK ==
  /\ RegistryTypeOK
  /\ protoOf \in [Sessions -> Protocols \cup {Unborn}]
  /\ marked \in [Sessions -> BOOLEAN]
  /\ connected \in [Sessions -> BOOLEAN]
  /\ pending \in [Protocols -> [LiveIds -> Sessions \cup {NoSession}]]
  /\ ttl \in [Sessions -> {"none", "armed", "due", "expired", "done"}]
  /\ channel \in [LiveIds -> BOOLEAN]
  /\ inbox \in [Protocols -> Seq(Message)]
  /\ server \in [Protocols ->
       [pc : {"idle", "checked", "registered", "acked", "stopping"},
        key : LiveIds \cup {NoKey}, life : Sessions \cup {NoSession}]]
  /\ conn \in [Conns ->
       [pc : {"idle"} \cup RtmpPcs \cup RtspPcs, key : LiveIds \cup {NoKey},
        life : Sessions \cup {NoSession}, token : Sessions \cup {NoSession}]]
  /\ \A p \in Protocols :
       /\ server[p].pc # "idle" => server[p].key \in LiveIds
       /\ server[p].pc \in {"registered", "acked"} => server[p].life \in Sessions
  /\ \A c \in Conns :
       /\ conn[c].pc # "idle" => conn[c].key \in LiveIds
       /\ conn[c].pc \in (RtmpPcs \cup RtspPcs) \ {"accepted", "claiming"} =>
            conn[c].life \in Sessions
       /\ conn[c].pc \in {"claiming", "running", "draining"} => conn[c].token \in Sessions
  /\ stopped \subseteq Sessions

\* The owners a lifecycle l may have: the server that is creating it, a slot of a
\* pending map, a connection that publishes with it.
ServerOwns(p, l) == server[p].pc \in {"registered", "acked"} /\ server[p].life = l
MapOwns(p, l) == \E k \in LiveIds : pending[p][k] = l
ConnOwns(c, l) ==
  conn[c].pc \in {"claimed", "running", "recording", "draining", "closing"}
    /\ conn[c].life = l

\* A lifecycle has one owner at a time, although several publishers may have been
\* accepted for it and its precreate timer may expire at the same moment
\* (pending_lifecycle.remove decides): at most one publisher streams with it.  A session
\* may still have two: one may claim the lifecycle that an earlier session left in the
\* map, just before this session's own is inserted for the other.
OneOwner ==
  \A l \in Sessions :
    /\ \A p \in Protocols : MapOwns(p, l) =>
         \A q \in Protocols : ~ServerOwns(q, l) /\ (MapOwns(q, l) => p = q)
    /\ \A c \in Conns : ConnOwns(c, l) =>
         /\ \A p \in Protocols : ~MapOwns(p, l) /\ ~ServerOwns(p, l)
         /\ \A d \in Conns : ConnOwns(d, l) => c = d

\* While a session can be published or played its FLV channel is in the hub; a
\* late remove_channel by key never takes the channel of a later session.
LiveSessionHasChannel ==
  \A k \in LiveIds : InUse(k) /\ ~cancelled[sessions[k]] => channel[k]

\* A session that is Connected and not cancelled has a publisher watching its
\* token: no stale publisher brings a later session of the same key to Connected.
ConnectedHasPublisher ==
  \A k \in LiveIds : Phase(k) = "Connected" /\ ~cancelled[sessions[k]] =>
    \E c \in RtmpConns : conn[c].pc = "running" /\ conn[c].token = sessions[k]

\* Whatever the control plane does to the registry is a sequence of registry
\* operations ...
UsesRegistry == RegistrySpec

\* ... and every key follows the stream life cycle to its end: a Disconnected
\* session is forgotten and the key can be used again.
ImplementsFairLiveStream == Stream!FairSpec

\* With a precreate timer no session stays Pending for ever, even if nobody ever
\* publishes to it or several publishers, a stop and the timer race for it, provided
\* that the pending map's entry is free again and again: a client that never takes its
\* publish response, or requests without end that overlap, keep out the timer and the
\* control loop.
PendingResolves ==
  (\A k \in LiveIds : []<>Unlocked("rtmp", k)) =>
    \A s \in Sessions : (state[s] = "Pending") ~> (state[s] # "Pending")

\* Cancelling a session (StopStream, above all) ends every RTMP connection that
\* publishes for it, whichever lifecycle it claimed, even if a later session of the key
\* exists by then.
StopEndsIngest ==
  \A s \in Sessions : cancelled[s] ~>
    ~\E c \in RtmpConns : conn[c].pc \in {"running", "draining"} /\ conn[c].token = s

\* A session is torn down by a StopStream, by its own lifecycle, or by a publisher
\* that holds its token: never by the lifecycle of another session.
OnlyOwnTeardown ==
  [][\A s \in Sessions : ~cancelled[s] /\ cancelled'[s] =>
        \/ marked'[s]
        \/ s \in stopped'
        \/ \E c \in RtmpConns : conn[c].pc = "running" /\ conn[c].token = s]_controlVars
=============================================================================
