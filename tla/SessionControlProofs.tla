------------------------ MODULE SessionControlProofs ------------------------
(***************************************************************************)
(* Proofs about the session control plane, for every set of stream keys,   *)
(* sessions and connections and with one protocol server or both: its      *)
(* variables keep their types, a lifecycle has one owner at a time, and    *)
(* what it does to the registry is what SessionRegistry allows, so that    *)
(* the theorems about the registry hold of the whole control plane.        *)
(*                                                                         *)
(* None of this rests on the timing assumption GraceCovers: the proofs     *)
(* never use that conjunct of SessionRemoved.                              *)
(***************************************************************************)
EXTENDS SessionControl, SessionRegistryProofs

\* The session l has been registered under key k by server p.
Registered(l, k, p) ==
  /\ l \in Sessions
  /\ state[l] # Unborn
  /\ keyOf[l] = k
  /\ protoOf[l] = p

\* A server's pending map holds sessions of its own, under their keys.
PendingLinks ==
  \A p \in Protocols, k \in LiveIds :
    pending[p][k] # NoSession => Registered(pending[p][k], k, p)

\* So does a server that is about to insert one.
ServerLinks ==
  \A p \in Protocols : server[p].pc \in {"registered", "acked"} =>
    Registered(server[p].life, server[p].key, p)

\* Timers are armed for registered sessions only.
TimerLinks ==
  \A s \in Sessions : ttl[s] # "none" => state[s] # Unborn /\ protoOf[s] \in Protocols

\* Connections hold registered sessions, and go through the steps of their protocol.
Holding == {"accepting", "orphan", "running", "draining", "claimed", "recording", "closing"}
ConnLinks ==
  \A c \in Conns :
    /\ c \in RtmpConns => conn[c].pc \in RtmpPcs \cup {"idle"}
    /\ c \in RtspConns => conn[c].pc \in RtspPcs \cup {"idle"}
    /\ conn[c].pc \in Holding => state[conn[c].life] # Unborn
    /\ conn[c].pc \in {"claiming", "running", "draining"} => state[conn[c].token] # Unborn

\* The inductive invariant.
ControlInv == /\ RegistryInv
              /\ ControlTypeOK
              /\ PendingLinks
              /\ ServerLinks
              /\ TimerLinks
              /\ ConnLinks
              /\ OneOwner

-----------------------------------------------------------------------------
(* What the control plane does to the registry *)

\* disconnect() of lifecycles whose sessions are registered is an operation of the
\* registry.
LEMMA DisconnectIsRegistryStep ==
  ASSUME RegistryInv, NEW L \in SUBSET Born, NEW extra \in SUBSET Born,
         Disconnect(L, extra), UNCHANGED <<sessions, keyOf, state, cleanup>>
  PROVE  RegistryNext
<1>1. \A l \in L : TokensAt(keyOf[l]) \subseteq Born
  BY TokensAreBorn DEF RegistryInv, RegistryTypeOK, Born
<1>2. extra \cup UNION {TokensAt(keyOf[l]) : l \in {l \in L : ~marked[l]}} \in SUBSET Born
  BY <1>1
<1> QED
  BY <1>2, CancelIsRegistryStep DEF Disconnect

\* What is at the head of a control queue.
LEMMA HeadIsMessage ==
  ASSUME NEW q \in Seq(Message), q # <<>>
  PROVE  /\ Head(q).op \in {"precreate", "stop"}
         /\ Head(q).key \in LiveIds
         /\ Tail(q) \in Seq(Message)
<1>1. Head(q) \in Message /\ Tail(q) \in Seq(Message)
  OBVIOUS
<1> QED
  BY <1>1 DEF Message

\* Every step of the control plane is an operation of the registry or leaves it alone.
LEMMA ControlStepUsesRegistry ==
  ControlInv /\ [ControlNext]_controlVars => [RegistryNext]_registryVars
<1> SUFFICES ASSUME ControlInv, [ControlNext]_controlVars
             PROVE  [RegistryNext]_registryVars
  OBVIOUS
<1> USE NoSessionAssumption, ProtocolsAssumption, ConnsAssumption
<1>r. RegistryInv
  BY DEF ControlInv
<1>p. \A p \in Protocols :
        /\ server[p].pc # "idle" => server[p].key \in LiveIds
        /\ server[p].pc \in {"registered", "acked"} => server[p].life \in Born
        /\ inbox[p] \in Seq(Message)
        /\ \A k \in LiveIds : pending[p][k] # NoSession => pending[p][k] \in Born
  BY DEF ControlInv, ControlTypeOK, ServerLinks, PendingLinks, Registered, Born
<1>c. \A c \in Conns :
        /\ conn[c].pc # "idle" => conn[c].key \in LiveIds
        /\ conn[c].pc \in Holding => conn[c].life \in Born
        /\ conn[c].pc \in {"claiming", "running", "draining"} => conn[c].token \in Born
  BY DEF ControlInv, ControlTypeOK, ConnLinks, Holding, Born, RtmpPcs, RtspPcs
<1>t. \A s \in Sessions : ttl[s] # "none" => protoOf[s] \in Protocols /\ keyOf[s] \in LiveIds
  BY DEF ControlInv, RegistryInv, RegistryTypeOK, TimerLinks
<1>1. CASE PeerStep
  <2>1. ASSUME NEW c \in RtmpConns, PublishFrame(c)
        PROVE  RegistryNext
    BY <1>c, <2>1, UpdateIsRegistryStep DEF PublishFrame, SessionState, Conns
  <2>2. ASSUME NEW c \in RtmpConns, PublishFinish(c)
        PROVE  RegistryNext
    BY <1>c, <1>r, <2>2, DisconnectIsRegistryStep DEF PublishFinish, Conns, Holding
  <2>3. ASSUME NEW c \in RtmpConns, PublisherExit(c)
        PROVE  RegistryNext
    BY <1>c, <1>r, <2>3, DisconnectIsRegistryStep DEF PublisherExit, Conns, Holding
  <2>4. ASSUME NEW c \in RtspConns, RtspEnd(c)
        PROVE  RegistryNext
    BY <1>c, <1>r, <2>4, DisconnectIsRegistryStep DEF RtspEnd, Conns, Holding
  <2>5. ASSUME NEW p \in Protocols, NEW k \in LiveIds, SendPrecreate(p, k)
        PROVE  UNCHANGED registryVars
    BY <2>5 DEF SendPrecreate
  <2>6. ASSUME NEW k \in LiveIds, SendStop(k)
        PROVE  UNCHANGED registryVars
    BY <2>6 DEF SendStop
  <2>7. ASSUME NEW c \in Conns, NEW k \in LiveIds, PublishRequest(c, k) \/ RtspRecord(c, k)
        PROVE  UNCHANGED registryVars
    BY <2>7 DEF PublishRequest, RtspRecord
  <2> QED
    BY <1>1, <2>1, <2>2, <2>3, <2>4, <2>5, <2>6, <2>7
       DEF PeerStep, PublisherGone, PublisherRefused, Conns
<1>2. ASSUME NEW p \in Protocols, ServerStep(p)
      PROVE  [RegistryNext]_registryVars
  <2>1. ASSUME NEW s \in Sessions, PrecreateRegister(p, s)
        PROVE  RegistryNext
    BY <1>p, <2>1 DEF PrecreateRegister, ClientRegister, RegistryNext
  <2>2. CASE PrecreateConflict(p)
    BY <1>p, <1>r, <2>2, TokensAreBorn, CancelIsRegistryStep DEF PrecreateConflict
  <2>3. CASE PrecreateAckLost(p)
    BY <1>p, <1>r, <2>3, DisconnectIsRegistryStep DEF PrecreateAckLost
  <2>4. CASE PrecreateInsert(p)
    <3>1. server[p].key \in LiveIds
      BY <1>p, <2>4 DEF PrecreateInsert
    <3>2. {pending[p][server[p].key]} \ {NoSession} \in SUBSET Born
      BY Zenon, <1>p, <3>1
    <3> QED
      BY <1>r, <2>4, <3>2, DisconnectIsRegistryStep DEF PrecreateInsert
  <2>5. CASE StopCancel(p)
    <3>1. Head(inbox[p]).key \in LiveIds
      BY <1>p, <2>5, HeadIsMessage DEF StopCancel, Receives
    <3> QED
      BY <1>r, <2>5, <3>1, TokensAreBorn, CancelIsRegistryStep DEF StopCancel
  <2>6. CASE PrecreateRefuse(p) \/ PrecreateCheck(p) \/ PrecreateAck(p)
             \/ StopRemoveChannel(p)
    BY <2>6 DEF PrecreateRefuse, PrecreateCheck, PrecreateAck, StopRemoveChannel
  <2> QED
    BY <1>2, <2>1, <2>2, <2>3, <2>4, <2>5, <2>6 DEF ServerStep
<1>3. ASSUME NEW s \in Sessions, TtlStep(s)
      PROVE  [RegistryNext]_registryVars
  <2>1. CASE TtlExpire(s)
    <3>1. protoOf[s] \in Protocols /\ keyOf[s] \in LiveIds
      BY <1>t, <2>1 DEF TtlExpire
    <3>2. {pending[protoOf[s]][keyOf[s]]} \ {NoSession} \in SUBSET Born
      BY Zenon, <1>p, <3>1
    <3> QED
      BY <1>r, <2>1, <3>2, DisconnectIsRegistryStep DEF TtlExpire
  <2>2. CASE TtlCancelled(s) \/ TtlDue(s) \/ TtlRemoveChannel(s)
    BY <2>2 DEF TtlCancelled, TtlDue, TtlRemoveChannel
  <2> QED
    BY <1>3, <2>1, <2>2 DEF TtlStep
<1>4. ASSUME NEW s \in Sessions, CleanupStep(s)
      PROVE  [RegistryNext]_registryVars
  BY <1>4 DEF CleanupStep, SessionDisconnected, SessionRemoved, CleanupTask, RegistryNext
<1>5. ASSUME NEW c \in Conns, ConnStep(c)
      PROVE  [RegistryNext]_registryVars
  <2>1. CASE PublishAbandon(c)
    BY <1>c, <1>r, <2>1, DisconnectIsRegistryStep DEF PublishAbandon, Holding
  <2>2. CASE PublishAccept(c)
    BY <1>c, <2>2, UpdateIsRegistryStep DEF PublishAccept, SessionState
  <2>3. CASE PublisherCancelled(c)
    BY <1>c, <1>r, <2>3, DisconnectIsRegistryStep
       DEF PublisherCancelled, PublisherGone, PublisherExit, Holding
  <2>4. CASE RtspConnect(c)
    BY <1>c, <2>4, UpdateIsRegistryStep DEF RtspConnect, SessionState
  <2>5. CASE RtspConnectFail(c)
    BY <1>c, <1>r, <2>5, DisconnectIsRegistryStep DEF RtspConnectFail, Holding
  <2>6. CASE PublishToken(c) \/ PublishClaim(c) \/ PublisherDrained(c) \/ RtspClose(c)
    BY <2>6 DEF PublishToken, PublishClaim, PublisherDrained, RtspClose
  <2> QED
    BY <1>5, <2>1, <2>2, <2>3, <2>4, <2>5, <2>6 DEF ConnStep
<1>6. CASE UNCHANGED controlVars
  BY <1>6 DEF controlVars
<1> QED
  BY <1>1, <1>2, <1>3, <1>4, <1>5, <1>6 DEF ControlNext

-----------------------------------------------------------------------------
(* Type correctness *)

\* The types of everything but control loops and connections ...
PlainTypes ==
  /\ protoOf \in [Sessions -> Protocols \cup {Unborn}]
  /\ marked \in [Sessions -> BOOLEAN]
  /\ connected \in [Sessions -> BOOLEAN]
  /\ pending \in [Protocols -> [LiveIds -> Sessions \cup {NoSession}]]
  /\ ttl \in [Sessions -> {"none", "armed", "due", "expired", "done"}]
  /\ channel \in [LiveIds -> BOOLEAN]
  /\ inbox \in [Protocols -> Seq(Message)]
  /\ stopped \subseteq Sessions

\* ... of the control loops ...
ServerTypes ==
  /\ server \in [Protocols ->
       [pc : {"idle", "checked", "registered", "acked", "stopping"},
        key : LiveIds \cup {NoKey}, life : Sessions \cup {NoSession}]]
  /\ \A p \in Protocols :
       /\ server[p].pc # "idle" => server[p].key \in LiveIds
       /\ server[p].pc \in {"registered", "acked"} => server[p].life \in Sessions

\* ... and of the connections.
ConnTypes ==
  /\ conn \in [Conns ->
       [pc : {"idle"} \cup RtmpPcs \cup RtspPcs, key : LiveIds \cup {NoKey},
        life : Sessions \cup {NoSession}, token : Sessions \cup {NoSession}]]
  /\ \A c \in Conns :
       /\ conn[c].pc # "idle" => conn[c].key \in LiveIds
       /\ conn[c].pc \in (RtmpPcs \cup RtspPcs) \ {"accepted", "claiming"} =>
            conn[c].life \in Sessions
       /\ conn[c].pc \in {"claiming", "running", "draining"} => conn[c].token \in Sessions

\* ControlTypeOK, in the parts that the steps disturb separately.
LEMMA TypesSplit ==
  ControlTypeOK <=> RegistryTypeOK /\ PlainTypes /\ ServerTypes /\ ConnTypes
BY DEF ControlTypeOK, PlainTypes, ServerTypes, ConnTypes

\* The control loops keep the types of their state.
LEMMA ServerStepTypes ==
  ASSUME ControlInv, NEW p \in Protocols, ServerStep(p)
  PROVE  PlainTypes' /\ ServerTypes' /\ ConnTypes'
<1> USE NoSessionAssumption, ProtocolsAssumption, ConnsAssumption
<1>0. PlainTypes /\ ServerTypes /\ ConnTypes /\ RegistryTypeOK
  BY TypesSplit DEF ControlInv
<1>1. CASE PrecreateRefuse(p)
  <2>1. PlainTypes'
    BY <1>0, <1>1, HeadIsMessage DEF PrecreateRefuse, Receives, PlainTypes, lifecycleVars
  <2>2. ServerTypes' /\ ConnTypes'
    BY <1>0, <1>1 DEF PrecreateRefuse, ServerTypes, ConnTypes
  <2> QED BY <2>1, <2>2
<1>2. CASE PrecreateCheck(p)
  <2>1. PlainTypes'
    BY <1>0, <1>2, HeadIsMessage DEF PrecreateCheck, Receives, PlainTypes, lifecycleVars
  <2>2. ServerTypes' /\ ConnTypes'
    BY <1>0, <1>2, HeadIsMessage DEF PrecreateCheck, Receives, ServerTypes, ConnTypes,
                                     PlainTypes
  <2> QED BY <2>1, <2>2
<1>3. ASSUME NEW s \in Sessions, PrecreateRegister(p, s)
      PROVE  PlainTypes' /\ ServerTypes' /\ ConnTypes'
  <2>1. PlainTypes'
    BY <1>0, <1>3 DEF PrecreateRegister, PlainTypes, lifecycleVars
  <2>2. ServerTypes' /\ ConnTypes'
    BY <1>0, <1>3 DEF PrecreateRegister, ServerTypes, ConnTypes
  <2> QED BY <2>1, <2>2
<1>4. CASE PrecreateConflict(p)
  <2>1. PlainTypes'
    BY <1>0, <1>4 DEF PrecreateConflict, PlainTypes
  <2>2. ServerTypes' /\ ConnTypes'
    BY <1>0, <1>4 DEF PrecreateConflict, ServerTypes, ConnTypes, Waiting
  <2> QED BY <2>1, <2>2
<1>5. CASE PrecreateAck(p)
  <2>1. PlainTypes'
    BY <1>0, <1>5 DEF PrecreateAck, PlainTypes, lifecycleVars
  <2>2. ServerTypes' /\ ConnTypes'
    BY <1>0, <1>5 DEF PrecreateAck, ServerTypes, ConnTypes
  <2> QED BY <2>1, <2>2
<1>6. CASE PrecreateAckLost(p)
  <2>1. PlainTypes'
    BY <1>0, <1>6 DEF PrecreateAckLost, Disconnect, PlainTypes
  <2>2. ServerTypes' /\ ConnTypes'
    BY <1>0, <1>6 DEF PrecreateAckLost, ServerTypes, ConnTypes, Waiting
  <2> QED BY <2>1, <2>2
<1>7. CASE PrecreateInsert(p)
  <2>1. PlainTypes'
    BY Zenon, <1>0, <1>7 DEF PrecreateInsert, Disconnect, PlainTypes, ServerTypes
  <2>2. ServerTypes' /\ ConnTypes'
    BY <1>0, <1>7 DEF PrecreateInsert, ServerTypes, ConnTypes, Waiting
  <2> QED BY <2>1, <2>2
<1>8. CASE StopCancel(p)
  <2>1. Head(inbox[p]).key \in LiveIds /\ Tail(inbox[p]) \in Seq(Message)
    BY <1>0, <1>8, HeadIsMessage DEF StopCancel, Receives, PlainTypes
  <2>2. TokensAt(Head(inbox[p]).key) \subseteq Sessions
    BY <1>0, <2>1 DEF TokensAt, RegistryTypeOK
  <2>3. PlainTypes'
    BY <1>0, <1>8, <2>1, <2>2 DEF StopCancel, Receives, PlainTypes, lifecycleVars
  <2>4. ServerTypes' /\ ConnTypes'
    BY <1>0, <1>8, <2>1 DEF StopCancel, ServerTypes, ConnTypes
  <2> QED BY <2>3, <2>4
<1>9. CASE StopRemoveChannel(p)
  <2>1. PlainTypes'
    BY Zenon, <1>0, <1>9 DEF StopRemoveChannel, PlainTypes, lifecycleVars
  <2>2. ServerTypes' /\ ConnTypes'
    BY <1>0, <1>9 DEF StopRemoveChannel, ServerTypes, ConnTypes, Waiting
  <2> QED BY <2>1, <2>2
<1> QED
  BY <1>1, <1>2, <1>3, <1>4, <1>5, <1>6, <1>7, <1>8, <1>9 DEF ServerStep

\* So do the timers ...
LEMMA TtlStepTypes ==
  ASSUME ControlInv, NEW s \in Sessions, TtlStep(s)
  PROVE  PlainTypes' /\ ServerTypes' /\ ConnTypes'
<1> USE NoSessionAssumption
<1>0. PlainTypes /\ ServerTypes /\ ConnTypes
  BY TypesSplit DEF ControlInv
<1>1. ServerTypes' /\ ConnTypes'
  BY <1>0 DEF TtlStep, TtlCancelled, TtlDue, TtlExpire, TtlRemoveChannel, ServerTypes, ConnTypes
<1>2. CASE TtlExpire(s)
  BY Zenon, <1>0, <1>1, <1>2 DEF TtlExpire, Disconnect, PlainTypes
<1>3. CASE TtlCancelled(s) \/ TtlDue(s) \/ TtlRemoveChannel(s)
  BY Zenon, <1>0, <1>1, <1>3 DEF TtlCancelled, TtlDue, TtlRemoveChannel, PlainTypes, lifecycleVars
<1> QED
  BY <1>2, <1>3 DEF TtlStep

\* ... the connections ...
LEMMA ConnStepTypes ==
  ASSUME ControlInv, NEW c \in Conns, ConnStep(c)
  PROVE  PlainTypes' /\ ServerTypes' /\ ConnTypes'
<1> USE NoSessionAssumption
<1>0. PlainTypes /\ ServerTypes /\ ConnTypes /\ RegistryTypeOK
  BY TypesSplit DEF ControlInv
<1>1. CASE PublishAbandon(c)
  <2>1. PlainTypes' /\ ServerTypes'
    BY <1>0, <1>1 DEF PublishAbandon, Disconnect, PlainTypes, ServerTypes, connFrame,
                      serverVars, lifecycleVars
  <2>2. ConnTypes'
    BY <1>0, <1>1 DEF PublishAbandon, Idle, ConnTypes, RtmpPcs, RtspPcs
  <2> QED BY <2>1, <2>2
<1>2. CASE PublishAccept(c)
  <2>1. PlainTypes' /\ ServerTypes'
    BY <1>0, <1>2 DEF PublishAccept, PlainTypes, ServerTypes, connFrame, serverVars,
                      lifecycleVars
  <2>2. ConnTypes'
    BY <1>0, <1>2 DEF PublishAccept, ConnTypes, RtmpPcs, RtspPcs
  <2> QED BY <2>1, <2>2
<1>3. CASE PublishToken(c)
  <2>1. PlainTypes' /\ ServerTypes'
    BY <1>0, <1>3 DEF PublishToken, PlainTypes, ServerTypes, connFrame, serverVars,
                      lifecycleVars
  <2>2. ConnTypes'
    BY <1>0, <1>3 DEF PublishToken, Idle, InUse, RegistryTypeOK, ConnTypes, RtmpPcs, RtspPcs
  <2> QED BY <2>1, <2>2
<1>4. CASE PublishClaim(c)
  <2>1. PlainTypes' /\ ServerTypes'
    BY Zenon, <1>0, <1>4 DEF PublishClaim, PlainTypes, ServerTypes, connFrame, serverVars,
                             lifecycleVars
  <2>2. "rtmp" \in Protocols /\ conn[c].key \in LiveIds
    BY <1>0, <1>4, ConnsAssumption
       DEF PublishClaim, ConnTypes, ControlInv, ConnLinks, Conns, RtspPcs
  <2>3. pending["rtmp"][conn[c].key] \in Sessions \cup {NoSession}
    BY <1>0, <2>2 DEF PlainTypes
  <2>4. ConnTypes'
    BY <1>0, <1>4, <2>2, <2>3 DEF PublishClaim, Idle, ConnTypes, RtmpPcs, RtspPcs
  <2> QED BY <2>1, <2>4
<1>5. CASE PublisherCancelled(c)
  <2>1. PlainTypes' /\ ServerTypes'
    BY <1>0, <1>5 DEF PublisherCancelled, PublisherGone, PublisherExit, Disconnect, PlainTypes,
                      ServerTypes, connFrame, serverVars, lifecycleVars
  <2>2. ConnTypes'
    BY <1>0, <1>5 DEF PublisherCancelled, PublisherGone, PublisherExit, ConnTypes, RtmpPcs,
                      RtspPcs
  <2> QED BY <2>1, <2>2
<1>6. CASE PublisherDrained(c)
  <2>1. PlainTypes' /\ ServerTypes'
    BY Zenon, <1>0, <1>6 DEF PublisherDrained, PlainTypes, ServerTypes, connFrame, serverVars,
                             lifecycleVars
  <2>2. ConnTypes'
    BY <1>0, <1>6 DEF PublisherDrained, Idle, ConnTypes, RtmpPcs, RtspPcs
  <2> QED BY <2>1, <2>2
<1>7. CASE RtspConnect(c)
  <2>1. PlainTypes' /\ ServerTypes'
    BY Zenon, <1>0, <1>7 DEF RtspConnect, PlainTypes, ServerTypes, connFrame, serverVars,
                             lifecycleVars
  <2>2. ConnTypes'
    BY <1>0, <1>7 DEF RtspConnect, ConnTypes, RtmpPcs, RtspPcs
  <2> QED BY <2>1, <2>2
<1>8. CASE RtspConnectFail(c)
  <2>1. PlainTypes' /\ ServerTypes'
    BY Zenon, <1>0, <1>8 DEF RtspConnectFail, Disconnect, PlainTypes, ServerTypes, connFrame,
                             serverVars, lifecycleVars
  <2>2. ConnTypes'
    BY <1>0, <1>8 DEF RtspConnectFail, Idle, ConnTypes, RtmpPcs, RtspPcs
  <2> QED BY <2>1, <2>2
<1>9. CASE RtspClose(c)
  <2>1. PlainTypes' /\ ServerTypes'
    BY Zenon, <1>0, <1>9 DEF RtspClose, PlainTypes, ServerTypes, connFrame, serverVars, lifecycleVars
  <2>2. ConnTypes'
    BY <1>0, <1>9 DEF RtspClose, Idle, ConnTypes, RtmpPcs, RtspPcs
  <2> QED BY <2>1, <2>2
<1> QED
  BY <1>1, <1>2, <1>3, <1>4, <1>5, <1>6, <1>7, <1>8, <1>9 DEF ConnStep

\* ... and the steps of the peers.
LEMMA PeerStepTypes ==
  ASSUME ControlInv, PeerStep
  PROVE  PlainTypes' /\ ServerTypes' /\ ConnTypes'
<1> USE NoSessionAssumption, ProtocolsAssumption, ConnsAssumption
<1>0. PlainTypes /\ ServerTypes /\ ConnTypes /\ RegistryTypeOK
  BY TypesSplit DEF ControlInv
<1>1. ASSUME NEW p \in Protocols, NEW k \in LiveIds, SendPrecreate(p, k)
      PROVE  PlainTypes' /\ ServerTypes' /\ ConnTypes'
  <2>1. [op |-> "precreate", key |-> k] \in Message
    BY DEF Message
  <2>2. PlainTypes'
    BY <1>0, <1>1, <2>1 DEF SendPrecreate, PlainTypes, lifecycleVars
  <2>3. ServerTypes' /\ ConnTypes'
    BY <1>0, <1>1 DEF SendPrecreate, ServerTypes, ConnTypes
  <2> QED BY <2>2, <2>3
<1>2. ASSUME NEW k \in LiveIds, SendStop(k)
      PROVE  PlainTypes' /\ ServerTypes' /\ ConnTypes'
  <2>1. [op |-> "stop", key |-> k] \in Message
    BY DEF Message
  <2>2. PlainTypes'
    <3>0. PICK p : p = protoOf[sessions[k]]
      OBVIOUS
    <3>1. inbox' \in [Protocols -> Seq(Message)]
      <4>1. inbox' = [inbox EXCEPT ![p] = Append(inbox[p], [op |-> "stop", key |-> k])]
        BY <1>2, <3>0 DEF SendStop
      <4>2. p \in Protocols => Append(inbox[p], [op |-> "stop", key |-> k]) \in Seq(Message)
        BY <1>0, <2>1 DEF PlainTypes
      <4> QED BY Zenon, <1>0, <4>1, <4>2 DEF PlainTypes
    <3> QED
      BY <1>0, <1>2, <3>1 DEF SendStop, PlainTypes, lifecycleVars
  <2>3. ServerTypes' /\ ConnTypes'
    BY <1>0, <1>2 DEF SendStop, ServerTypes, ConnTypes
  <2> QED BY <2>2, <2>3
<1>3. ASSUME NEW c \in RtmpConns, NEW k \in LiveIds, PublishRequest(c, k)
      PROVE  PlainTypes' /\ ServerTypes' /\ ConnTypes'
  <2>1. PlainTypes' /\ ServerTypes'
    BY <1>0, <1>3 DEF PublishRequest, PlainTypes, ServerTypes, connFrame, serverVars,
                      lifecycleVars
  <2>2. c \in Conns
    BY DEF Conns
  <2>3. ConnTypes'
    BY <1>0, <1>3, <2>2 DEF PublishRequest, Phase, PlainTypes, ConnTypes, RtmpPcs, RtspPcs
  <2> QED BY <2>1, <2>3
<1>4. ASSUME NEW c \in RtmpConns, PublishFrame(c)
      PROVE  PlainTypes' /\ ServerTypes' /\ ConnTypes'
  <2>1. PlainTypes' /\ ServerTypes'
    BY Zenon, <1>0, <1>4 DEF PublishFrame, PlainTypes, ServerTypes, connFrame, serverVars,
                             lifecycleVars
  <2>2. c \in Conns
    BY DEF Conns
  <2>3. ConnTypes'
    BY <1>0, <1>4, <2>2 DEF PublishFrame, ConnTypes, RtmpPcs, RtspPcs
  <2> QED BY <2>1, <2>3
<1>5. ASSUME NEW c \in RtmpConns, PublishFinish(c)
      PROVE  PlainTypes' /\ ServerTypes' /\ ConnTypes'
  <2>1. PlainTypes' /\ ServerTypes'
    BY <1>0, <1>5 DEF PublishFinish, Disconnect, PlainTypes, ServerTypes, connFrame,
                      serverVars, lifecycleVars
  <2>2. c \in Conns
    BY DEF Conns
  <2>3. ConnTypes'
    BY <1>0, <1>5, <2>2 DEF PublishFinish, ConnTypes, RtmpPcs, RtspPcs
  <2> QED BY <2>1, <2>3
<1>6. ASSUME NEW c \in RtmpConns, PublisherGone(c)
      PROVE  PlainTypes' /\ ServerTypes' /\ ConnTypes'
  <2>1. PlainTypes' /\ ServerTypes'
    BY <1>0, <1>6 DEF PublisherGone, PublisherExit, Disconnect, PlainTypes, ServerTypes,
                      connFrame, serverVars, lifecycleVars
  <2>2. c \in Conns
    BY DEF Conns
  <2>3. ConnTypes'
    BY <1>0, <1>6, <2>2 DEF PublisherGone, PublisherExit, ConnTypes, RtmpPcs, RtspPcs
  <2> QED BY <2>1, <2>3
<1>7. ASSUME NEW c \in RtmpConns, PublisherRefused(c)
      PROVE  PlainTypes' /\ ServerTypes' /\ ConnTypes'
  <2>1. PlainTypes' /\ ServerTypes'
    BY Zenon, <1>0, <1>7 DEF PublisherRefused, PublisherExit, Disconnect, PlainTypes,
                             ServerTypes, connFrame, serverVars, lifecycleVars
  <2>2. c \in Conns
    BY DEF Conns
  <2>3. ConnTypes'
    BY <1>0, <1>7, <2>2 DEF PublisherRefused, PublisherExit, ConnTypes, RtmpPcs, RtspPcs
  <2> QED BY <2>1, <2>3
<1>8. ASSUME NEW c \in RtspConns, NEW k \in LiveIds, RtspRecord(c, k)
      PROVE  PlainTypes' /\ ServerTypes' /\ ConnTypes'
  <2>1. PlainTypes' /\ ServerTypes'
    BY <1>0, <1>8 DEF RtspRecord, PlainTypes, ServerTypes, connFrame, serverVars, lifecycleVars
  <2>2. c \in Conns
    BY DEF Conns
  <2>3. ConnTypes'
    BY <1>0, <1>8, <2>2 DEF RtspRecord, PlainTypes, ConnTypes, RtmpPcs, RtspPcs
  <2> QED BY <2>1, <2>3
<1>9. ASSUME NEW c \in RtspConns, RtspEnd(c)
      PROVE  PlainTypes' /\ ServerTypes' /\ ConnTypes'
  <2>1. PlainTypes' /\ ServerTypes'
    BY <1>0, <1>9 DEF RtspEnd, Disconnect, PlainTypes, ServerTypes, connFrame, serverVars,
                      lifecycleVars
  <2>2. c \in Conns
    BY DEF Conns
  <2>3. ConnTypes'
    BY <1>0, <1>9, <2>2 DEF RtspEnd, ConnTypes, RtmpPcs, RtspPcs
  <2> QED BY <2>1, <2>3
<1> QED
  BY <1>1, <1>2, <1>3, <1>4, <1>5, <1>6, <1>7, <1>8, <1>9 DEF PeerStep

\* Type correctness is inductive.
LEMMA ControlTypes ==
  ASSUME ControlInv, [ControlNext]_controlVars
  PROVE  RegistryInv' /\ ControlTypeOK'
<1>1. RegistryInv'
  BY ControlStepUsesRegistry, RegistryInvNext DEF ControlInv
<1>2. PlainTypes' /\ ServerTypes' /\ ConnTypes'
  <2>1. PlainTypes /\ ServerTypes /\ ConnTypes
    BY TypesSplit DEF ControlInv
  <2>2. CASE UNCHANGED <<lifecycleVars, serverVars, channel, conn>>
    BY <2>1, <2>2 DEF lifecycleVars, serverVars, PlainTypes, ServerTypes, ConnTypes
  <2>3. ASSUME NEW s \in Sessions, CleanupStep(s)
        PROVE  UNCHANGED <<lifecycleVars, serverVars, channel, conn>>
    BY <2>3 DEF CleanupStep, SessionDisconnected, SessionRemoved
  <2>4. CASE UNCHANGED controlVars
    BY <2>2, <2>4 DEF controlVars
  <2> QED
    BY <2>2, <2>3, <2>4, PeerStepTypes, ServerStepTypes, TtlStepTypes, ConnStepTypes
       DEF ControlNext
<1>3. RegistryTypeOK'
  BY <1>1 DEF RegistryInv
<1> QED
  BY <1>1, <1>2, <1>3 DEF ControlTypeOK, PlainTypes, ServerTypes, ConnTypes

-----------------------------------------------------------------------------
(* Links and owners: what a step leaves alone *)

\* Whatever is kept of a session anywhere belongs to a registered one.
Links == PendingLinks /\ ServerLinks /\ TimerLinks /\ ConnLinks

\* Sessions that are registered keep key and protocol.
LEMMA RegisteredForGood ==
  ASSUME ControlInv, [ControlNext]_controlVars,
         \A s \in Born : protoOf'[s] = protoOf[s],
         NEW l, NEW k, NEW p, Registered(l, k, p)
  PROVE  Registered(l, k, p)'
<1>1. l \in Born' /\ keyOf'[l] = keyOf[l]
  BY ControlStepUsesRegistry, BornForGood DEF ControlInv, Registered, Born
<1> QED
  BY <1>1 DEF Registered, Born

\* What a step does not write keeps its links.
LEMMA LinksStay ==
  ASSUME ControlInv, [ControlNext]_controlVars,
         \A s \in Born : protoOf'[s] = protoOf[s]
  PROVE  /\ pending' = pending => PendingLinks'
         /\ server' = server => ServerLinks'
         /\ ttl' = ttl => TimerLinks'
         /\ conn' = conn => ConnLinks'
<1>1. \A s \in Born : s \in Born'
  BY ControlStepUsesRegistry, BornForGood DEF ControlInv
<1>2. pending' = pending => PendingLinks'
  BY RegisteredForGood DEF ControlInv, PendingLinks
<1>3. server' = server => ServerLinks'
  BY RegisteredForGood DEF ControlInv, ServerLinks
<1>4. ttl' = ttl => TimerLinks'
  BY <1>1 DEF ControlInv, TimerLinks, Born
<1>5. conn' = conn => ConnLinks'
  <2>1. \A c \in Conns :
          /\ conn[c].pc \in Holding => conn[c].life \in Born
          /\ conn[c].pc \in {"claiming", "running", "draining"} => conn[c].token \in Born
    BY DEF ControlInv, ControlTypeOK, ConnLinks, Holding, Born, RtmpPcs, RtspPcs
  <2> QED BY <1>1, <2>1 DEF ControlInv, ConnLinks, Born
<1> QED
  BY <1>2, <1>3, <1>4, <1>5

\* A step that gives no lifecycle a new owner keeps them apart.
LEMMA OwnersStay ==
  ASSUME OneOwner,
         \A l \in Sessions, p \in Protocols : ServerOwns(p, l)' => ServerOwns(p, l),
         \A l \in Sessions, p \in Protocols : MapOwns(p, l)' => MapOwns(p, l),
         \A l \in Sessions, c \in Conns : ConnOwns(c, l)' => ConnOwns(c, l)
  PROVE  OneOwner'
BY DEF OneOwner

\* Steps of a server that only let go of the lifecycle in hand, if any.
LEMMA QuietServer ==
  ASSUME ControlInv, [ControlNext]_controlVars, UNCHANGED <<protoOf, pending, ttl, conn>>,
         \A q \in Protocols : server'[q].pc \in {"registered", "acked"} =>
           /\ server[q].pc \in {"registered", "acked"}
           /\ server'[q].life = server[q].life
           /\ server'[q].key = server[q].key
  PROVE  Links' /\ OneOwner'
<1>1. PendingLinks' /\ TimerLinks' /\ ConnLinks'
  BY LinksStay
<1>2. ServerLinks'
  BY RegisteredForGood DEF ControlInv, ServerLinks
<1>3. OneOwner'
  BY OwnersStay DEF ControlInv, ServerOwns, MapOwns, ConnOwns
<1> QED
  BY <1>1, <1>2, <1>3 DEF Links

\* A connection keeps its links if what it takes in hand is registered.
LEMMA ConnKeepsLinks ==
  ASSUME ControlInv, [ControlNext]_controlVars, UNCHANGED protoOf,
         NEW c \in Conns, \A d \in Conns \ {c} : conn'[d] = conn[d],
         c \in RtmpConns => conn'[c].pc \in RtmpPcs \cup {"idle"},
         c \in RtspConns => conn'[c].pc \in RtspPcs \cup {"idle"},
         conn'[c].pc \in Holding => conn'[c].life \in Born,
         conn'[c].pc \in {"claiming", "running", "draining"} => conn'[c].token \in Born
  PROVE  ConnLinks'
<1>1. \A s \in Born : s \in Born'
  BY ControlStepUsesRegistry, BornForGood, SMTT(20) DEF ControlInv
<1>2. \A d \in Conns :
        /\ conn[d].pc \in Holding => conn[d].life \in Born
        /\ conn[d].pc \in {"claiming", "running", "draining"} => conn[d].token \in Born
  BY DEF ControlInv, ControlTypeOK, ConnLinks, Holding, Born, RtmpPcs, RtspPcs
<1> QED
  BY <1>1, <1>2 DEF ControlInv, ConnLinks, Born

\* Whoever removes a lifecycle from a pending map is its only owner.
LEMMA ClaimIsExclusive ==
  ASSUME ControlInv, NEW c \in Conns, NEW p \in Protocols, NEW k \in LiveIds,
         pending[p][k] # NoSession,
         pending' = [pending EXCEPT ![p][k] = NoSession], server' = server,
         \A d \in Conns \ {c} : conn'[d] = conn[d],
         conn'[c].life = pending[p][k]
  PROVE  OneOwner'
<1> USE NoSessionAssumption
<1>0. PICK l \in Sessions : l = pending[p][k]
  BY DEF ControlInv, PendingLinks, Registered
<1>1. MapOwns(p, l)
  BY <1>0 DEF MapOwns
<1>2. \A q \in Protocols, m \in Sessions : MapOwns(q, m)' => MapOwns(q, m) /\ m # l
  <2> SUFFICES ASSUME NEW q \in Protocols, NEW m \in Sessions, NEW j \in LiveIds,
                      pending'[q][j] = m
               PROVE  MapOwns(q, m) /\ m # l
    BY DEF MapOwns
  <2>1. pending[q][j] = m /\ (q # p \/ j # k)
    BY DEF ControlInv, ControlTypeOK
  <2>2. Registered(m, j, q) /\ Registered(l, k, p)
    BY <1>0, <2>1 DEF ControlInv, PendingLinks
  <2> QED BY <2>1, <2>2 DEF MapOwns, Registered
<1>3. \A q \in Protocols, m \in Sessions : ServerOwns(q, m)' => ServerOwns(q, m) /\ m # l
  BY <1>1 DEF ServerOwns, ControlInv, OneOwner
<1>4. \A d \in Conns, m \in Sessions :
        ConnOwns(d, m)' => (d = c /\ m = l) \/ (ConnOwns(d, m) /\ m # l)
  BY <1>0, <1>1 DEF ConnOwns, ControlInv, OneOwner
<1> QED
  BY <1>2, <1>3, <1>4 DEF ControlInv, OneOwner

-----------------------------------------------------------------------------
(* Links and owners: the steps *)

\* The sessions that somebody owns are registered.
LEMMA OwnedAreBorn ==
  ASSUME ControlInv, NEW l \in Sessions
  PROVE  /\ \A p \in Protocols : ServerOwns(p, l) \/ MapOwns(p, l) => l \in Born
         /\ \A c \in Conns : ConnOwns(c, l) => l \in Born
<1>1. \A p \in Protocols : ServerOwns(p, l) \/ MapOwns(p, l) => l \in Born
  BY NoSessionAssumption
     DEF ControlInv, ServerLinks, PendingLinks, Registered, ServerOwns, MapOwns, Born
<1>2. \A c \in Conns : ConnOwns(c, l) => l \in Born
  BY DEF ControlInv, ConnLinks, ConnOwns, Holding, Born
<1> QED
  BY <1>1, <1>2

\* The control loops keep links and owners.
LEMMA ServerKeepsLinks ==
  ASSUME ControlInv, NEW p \in Protocols, ServerStep(p)
  PROVE  Links' /\ OneOwner'
<1> USE NoSessionAssumption
<1>0. [ControlNext]_controlVars
  BY DEF ControlNext
<1>t. /\ ServerTypes /\ PlainTypes /\ RegistryTypeOK
  BY TypesSplit DEF ControlInv
<1>1. CASE PrecreateRefuse(p)
  BY <1>0, <1>1, QuietServer DEF PrecreateRefuse
<1>2. CASE PrecreateCheck(p)
  BY <1>0, <1>t, <1>2, QuietServer DEF PrecreateCheck, ServerTypes
<1>3. ASSUME NEW s \in Sessions, PrecreateRegister(p, s)
      PROVE  Links' /\ OneOwner'
  <2>0. /\ s \notin Born
        /\ s \in Born'
        /\ keyOf'[s] = server[p].key
        /\ protoOf'[s] = p
        /\ server'[p] = [pc |-> "registered", key |-> server[p].key, life |-> s]
        /\ \A q \in Protocols \ {p} : server'[q] = server[q]
    BY <1>t, <1>3
       DEF PrecreateRegister, Register, Born, Unborn, ServerTypes, PlainTypes, RegistryTypeOK
  <2>1. \A t \in Born : protoOf'[t] = protoOf[t]
    BY <1>t, <1>3, <2>0 DEF PrecreateRegister, PlainTypes, Born
  <2>2. PendingLinks' /\ TimerLinks' /\ ConnLinks'
    BY <1>0, <1>3, <2>1, LinksStay DEF PrecreateRegister
  <2>3. ServerLinks'
    <3>1. Registered(s, server[p].key, p)'
      BY <1>3, <2>0, SMTT(20) DEF Registered, Born, PrecreateRegister
    <3>2. \A q \in Protocols \ {p} : server[q].pc \in {"registered", "acked"} =>
            Registered(server[q].life, server[q].key, q)'
      BY <1>0, <2>0, <2>1, RegisteredForGood DEF ControlInv, ServerLinks
    <3> QED BY <2>0, <3>1, <3>2 DEF ServerLinks, Registered
  <2>4. OneOwner'
    <3>1. \A q \in Protocols, l \in Sessions :
            /\ MapOwns(q, l)' => MapOwns(q, l) /\ l # s
            /\ ServerOwns(q, l)' => ServerOwns(q, l) \/ l = s
      BY <1>3, <2>0, OwnedAreBorn DEF PrecreateRegister, MapOwns, ServerOwns
    <3>2. \A c \in Conns, l \in Sessions : ConnOwns(c, l)' => ConnOwns(c, l) /\ l # s
      BY <1>3, <2>0, OwnedAreBorn DEF PrecreateRegister, ConnOwns
    <3> QED BY <3>1, <3>2 DEF ControlInv, OneOwner
  <2> QED BY <2>2, <2>3, <2>4 DEF Links
<1>4. CASE PrecreateConflict(p)
  BY <1>0, <1>t, <1>4, QuietServer DEF PrecreateConflict, ServerTypes, Waiting
<1>5. CASE PrecreateAck(p)
  BY <1>0, <1>t, <1>5, QuietServer DEF PrecreateAck, ServerTypes
<1>6. CASE PrecreateAckLost(p)
  BY <1>0, <1>t, <1>6, QuietServer DEF PrecreateAckLost, ServerTypes, Waiting
<1>7. CASE PrecreateInsert(p)
  <2>0. PICK k \in LiveIds, l \in Sessions : k = server[p].key /\ l = server[p].life
    BY <1>t, <1>7 DEF PrecreateInsert, ServerTypes
  <2>1. /\ Registered(l, k, p)
        /\ ServerOwns(p, l)
        /\ pending' = [pending EXCEPT ![p][k] = l]
        /\ server' = [server EXCEPT ![p] = Waiting]
        /\ UNCHANGED <<protoOf, conn>>
    BY <1>7, <2>0 DEF PrecreateInsert, ControlInv, ServerLinks, ServerOwns
  <2>2. ConnLinks'
    BY <1>0, <2>1, LinksStay
  <2>3. ServerLinks'
    BY <1>0, <1>t, <2>1, RegisteredForGood
       DEF ControlInv, ServerLinks, ServerTypes, Waiting
  <2>4. PendingLinks'
    <3>1. \A q \in Protocols, j \in LiveIds :
            pending'[q][j] # NoSession => Registered(pending'[q][j], j, q)
      BY <1>t, <2>1 DEF ControlInv, PendingLinks, PlainTypes
    <3> QED BY <1>0, <2>1, <3>1, RegisteredForGood DEF PendingLinks
  <2>5. TimerLinks'
    <3>1. \A s \in Sessions : ttl'[s] # "none" => s \in Born /\ protoOf[s] \in Protocols
      BY <1>t, <1>7, <2>0, <2>1
         DEF PrecreateInsert, PlainTypes, Registered, ControlInv, TimerLinks, Born
    <3>2. \A s \in Born : s \in Born'
      BY <1>0, ControlStepUsesRegistry, BornForGood DEF ControlInv
    <3> QED BY <2>1, <3>1, <3>2, SMTT(20) DEF TimerLinks, Born
  <2>6. OneOwner'
    <3>1. \A q \in Protocols, m \in Sessions :
            ServerOwns(q, m)' => ServerOwns(q, m) /\ m # l
      BY <1>t, <2>1
         DEF ServerOwns, ServerTypes, Waiting, ControlInv, ServerLinks, Registered
    <3>2. \A q \in Protocols, m \in Sessions :
            MapOwns(q, m)' => (MapOwns(q, m) /\ m # l) \/ (q = p /\ m = l)
      BY ZenonT(30), <1>t, <2>1 DEF MapOwns, PlainTypes, ControlInv, OneOwner
    <3>3. \A c \in Conns, m \in Sessions : ConnOwns(c, m)' => ConnOwns(c, m) /\ m # l
      BY <2>1 DEF ConnOwns, ControlInv, OneOwner
    <3> QED BY <3>1, <3>2, <3>3 DEF ControlInv, OneOwner
  <2> QED BY <2>2, <2>3, <2>4, <2>5, <2>6 DEF Links
<1>8. CASE StopCancel(p)
  BY <1>0, <1>t, <1>8, QuietServer DEF StopCancel, ServerTypes
<1>9. CASE StopRemoveChannel(p)
  BY <1>0, <1>t, <1>9, QuietServer DEF StopRemoveChannel, ServerTypes, Waiting
<1> QED
  BY <1>1, <1>2, <1>3, <1>4, <1>5, <1>6, <1>7, <1>8, <1>9 DEF ServerStep

\* So do the timers ...
LEMMA TtlKeepsLinks ==
  ASSUME ControlInv, NEW s \in Sessions, TtlStep(s)
  PROVE  Links' /\ OneOwner'
<1> USE NoSessionAssumption
<1>0. [ControlNext]_controlVars
  BY DEF ControlNext
<1>t. PlainTypes
  BY TypesSplit DEF ControlInv
<1>1. UNCHANGED <<protoOf, server, conn>>
  BY DEF TtlStep, TtlCancelled, TtlDue, TtlExpire, TtlRemoveChannel
<1>2. ServerLinks' /\ ConnLinks'
  BY <1>0, <1>1, LinksStay
<1>3. TimerLinks'
  <2>1. \A r \in Sessions : ttl'[r] # "none" => ttl[r] # "none"
    BY Zenon, <1>t DEF TtlStep, TtlCancelled, TtlDue, TtlExpire, TtlRemoveChannel, PlainTypes
  <2>2. \A r \in Born : r \in Born'
    BY <1>0, ControlStepUsesRegistry, BornForGood DEF ControlInv
  <2> QED BY <1>1, <2>1, <2>2 DEF ControlInv, TimerLinks, Born
<1>4. \A p \in Protocols, k \in LiveIds :
        pending'[p][k] # NoSession => pending'[p][k] = pending[p][k]
  <2>1. CASE TtlExpire(s)
    <3>1. PICK q \in Protocols, j \in LiveIds : q = protoOf[s] /\ j = keyOf[s]
      BY <2>1 DEF TtlExpire, ControlInv, TimerLinks, RegistryInv, RegistryTypeOK
    <3>2. pending' = [pending EXCEPT ![q][j] = NoSession]
      BY <2>1, <3>1, SMTT(20) DEF TtlExpire
    <3> QED BY <1>t, <3>2 DEF PlainTypes
  <2>2. CASE TtlCancelled(s) \/ TtlDue(s) \/ TtlRemoveChannel(s)
    BY <2>2, SMTT(20) DEF TtlCancelled, TtlDue, TtlRemoveChannel
  <2> QED BY <2>1, <2>2 DEF TtlStep
<1>5. PendingLinks'
  BY <1>0, <1>1, <1>4, RegisteredForGood DEF ControlInv, PendingLinks
<1>6. OneOwner'
  BY <1>1, <1>4, OwnersStay DEF ControlInv, ServerOwns, MapOwns, ConnOwns
<1> QED
  BY <1>2, <1>3, <1>5, <1>6 DEF Links

\* ... and the steps of a connection that takes no lifecycle from a map.
LEMMA QuietConn ==
  ASSUME ControlInv, [ControlNext]_controlVars,
         UNCHANGED <<protoOf, pending, ttl, server>>,
         NEW c \in Conns, \A d \in Conns \ {c} : conn'[d] = conn[d],
         c \in RtmpConns => conn'[c].pc \in RtmpPcs \cup {"idle"},
         c \in RtspConns => conn'[c].pc \in RtspPcs \cup {"idle"},
         conn'[c].pc \in Holding => conn'[c].life \in Born,
         conn'[c].pc \in {"claiming", "running", "draining"} => conn'[c].token \in Born,
         \A l \in Sessions : ConnOwns(c, l)' => ConnOwns(c, l)
  PROVE  Links' /\ OneOwner'
<1>1. PendingLinks' /\ ServerLinks' /\ TimerLinks'
  BY LinksStay, SMTT(20)
<1>2. ConnLinks'
  BY ConnKeepsLinks
<1>3. OneOwner'
  BY OwnersStay DEF ControlInv, ServerOwns, MapOwns, ConnOwns
<1> QED
  BY <1>1, <1>2, <1>3 DEF Links

\* A claim: the connection removes a lifecycle from the map and publishes with it.
LEMMA ClaimKeepsLinks ==
  ASSUME ControlInv, [ControlNext]_controlVars, UNCHANGED <<protoOf, ttl, server>>,
         NEW p \in Protocols, NEW k \in LiveIds, pending[p][k] # NoSession,
         pending' = [pending EXCEPT ![p][k] = NoSession],
         NEW c \in Conns, \A d \in Conns \ {c} : conn'[d] = conn[d],
         c \in RtmpConns => conn'[c].pc \in RtmpPcs \cup {"idle"},
         c \in RtspConns => conn'[c].pc \in RtspPcs \cup {"idle"},
         conn'[c].life = pending[p][k],
         conn'[c].pc \in {"claiming", "running", "draining"} => conn'[c].token \in Born
  PROVE  Links' /\ OneOwner'
<1>1. ServerLinks' /\ TimerLinks'
  BY LinksStay
<1>2. pending[p][k] \in Born
  BY DEF ControlInv, PendingLinks, Registered, Born
<1>3. ConnLinks'
  BY <1>2, ConnKeepsLinks
<1>4. PendingLinks'
  <2>1. \A q \in Protocols, j \in LiveIds :
          pending'[q][j] # NoSession => pending'[q][j] = pending[q][j]
    BY DEF ControlInv, ControlTypeOK
  <2> QED BY <2>1, RegisteredForGood, SMTT(20) DEF ControlInv, PendingLinks
<1>5. OneOwner'
  BY Zenon, ClaimIsExclusive
<1> QED
  BY <1>1, <1>3, <1>4, <1>5 DEF Links

\* What a connection holds while it is in the steps of its protocol.
LEMMA ConnHolds ==
  ASSUME ControlInv, NEW c \in Conns
  PROVE  /\ DOMAIN conn = Conns
         /\ conn[c].pc # "idle" => conn[c].key \in LiveIds
         /\ c \in RtmpConns => conn[c].pc \in RtmpPcs \cup {"idle"}
         /\ c \in RtspConns => conn[c].pc \in RtspPcs \cup {"idle"}
         /\ conn[c].pc \in Holding => conn[c].life \in Born
         /\ conn[c].pc \in {"claiming", "running", "draining"} => conn[c].token \in Born
<1>1. ConnTypes
  BY TypesSplit DEF ControlInv
<1> QED
  BY <1>1 DEF ConnTypes, ControlInv, ConnLinks, Holding, Born, RtmpPcs, RtspPcs

\* A step of a connection that ends it, or moves it on with what it holds.
LEMMA ConnMovesOn ==
  ASSUME ControlInv, [ControlNext]_controlVars,
         UNCHANGED <<protoOf, pending, ttl, server>>, NEW c \in Conns,
         \/ UNCHANGED conn
         \/ conn' = [conn EXCEPT ![c] = Idle]
         \/ conn[c].pc = "accepting" /\ conn' = [conn EXCEPT ![c].pc = "accepted"]
         \/ conn[c].pc = "running" /\ conn' = [conn EXCEPT ![c].pc = "draining"]
         \/ conn[c].pc = "claimed" /\ conn' = [conn EXCEPT ![c].pc = "recording"]
         \/ conn[c].pc = "recording" /\ conn' = [conn EXCEPT ![c].pc = "closing"]
  PROVE  Links' /\ OneOwner'
<1>0. ConnTypes
  BY TypesSplit DEF ControlInv
<1>1. \A d \in Conns \ {c} : conn'[d] = conn[d]
  BY <1>0 DEF ConnTypes
<1>2. \/ conn'[c] = conn[c]
      \/ conn'[c].pc = "idle"
      \/ /\ conn'[c].life = conn[c].life /\ conn'[c].token = conn[c].token
         /\ \/ conn[c].pc = "accepting" /\ conn'[c].pc = "accepted"
            \/ conn[c].pc = "running" /\ conn'[c].pc = "draining"
            \/ conn[c].pc = "claimed" /\ conn'[c].pc = "recording"
            \/ conn[c].pc = "recording" /\ conn'[c].pc = "closing"
  BY <1>0 DEF ConnTypes, Idle
<1>3. \A l \in Sessions : ConnOwns(c, l)' => ConnOwns(c, l)
  BY <1>2 DEF ConnOwns
<1>4. /\ c \in RtmpConns => conn'[c].pc \in RtmpPcs \cup {"idle"}
      /\ c \in RtspConns => conn'[c].pc \in RtspPcs \cup {"idle"}
      /\ conn'[c].pc \in Holding => conn'[c].life \in Born
      /\ conn'[c].pc \in {"claiming", "running", "draining"} => conn'[c].token \in Born
  BY <1>2, ConnHolds DEF Holding, RtmpPcs, RtspPcs
<1> QED
  BY <1>1, <1>3, <1>4, QuietConn

\* The connections keep links and owners ...
LEMMA ConnKeepsLinksAndOwners ==
  ASSUME ControlInv, NEW c \in Conns, ConnStep(c)
  PROVE  Links' /\ OneOwner'
<1> USE NoSessionAssumption
<1>0. [ControlNext]_controlVars
  BY DEF ControlNext
<1>t. ConnTypes
  BY TypesSplit DEF ControlInv
<1>1. CASE PublishAbandon(c)
  BY Zenon, <1>0, <1>1, ConnMovesOn DEF PublishAbandon, connFrame, serverVars
<1>2. CASE PublishAccept(c)
  BY Zenon, <1>0, <1>2, ConnMovesOn DEF PublishAccept, connFrame, serverVars
<1>3. CASE PublishToken(c)
  <2>0. UNCHANGED <<protoOf, pending, ttl, server>>
    BY <1>3 DEF PublishToken, connFrame, serverVars
  <2>1. CASE ~InUse(conn[c].key)
    BY Zenon, <1>0, <1>3, <2>0, <2>1, ConnMovesOn DEF PublishToken
  <2>2. CASE InUse(conn[c].key)
    <3>1. conn[c].pc = "accepted" /\ conn[c].key \in LiveIds /\ c \in RtmpConns
      BY <1>3, ConnHolds DEF PublishToken, Conns, RtspPcs
    <3>2. sessions[conn[c].key] \in Born
      BY <2>2, <3>1, TokensAreBorn, SMTT(20) DEF ControlInv, InUse, TokensAt
    <3>3. /\ conn'[c].pc = "claiming" /\ conn'[c].token \in Born
          /\ \A d \in Conns \ {c} : conn'[d] = conn[d]
      BY <1>t, <1>3, <2>2, <3>2 DEF PublishToken, ConnTypes
    <3>4. c \notin RtspConns
      BY <3>1, ConnsAssumption
    <3> QED BY <1>0, <2>0, <3>3, <3>4, QuietConn DEF Holding, RtmpPcs, ConnOwns
  <2> QED BY <2>1, <2>2
<1>4. CASE PublishClaim(c)
  <2>0. UNCHANGED <<protoOf, ttl, server>>
    BY <1>4 DEF PublishClaim
  <2>1. PICK k \in LiveIds : k = conn[c].key
    BY <1>4, ConnHolds DEF PublishClaim
  <2>2. /\ conn[c].pc = "claiming"
        /\ pending' = [pending EXCEPT !["rtmp"][k] = NoSession]
    BY <1>4, <2>1 DEF PublishClaim
  <2>3. "rtmp" \in Protocols /\ c \notin RtspConns
    BY <2>2, ConnHolds, ConnsAssumption DEF Conns, RtspPcs
  <2>4. CASE pending["rtmp"][k] = NoSession
    <3>1. pending' = pending
      BY <2>2, <2>3, <2>4 DEF ControlInv, ControlTypeOK
    <3> QED BY Zenon, <1>0, <1>4, <2>0, <2>1, <2>4, <3>1, ConnMovesOn DEF PublishClaim
  <2>5. CASE pending["rtmp"][k] # NoSession
    <3>1. /\ conn'[c].pc = "running" /\ conn'[c].life = pending["rtmp"][k]
          /\ conn'[c].token = conn[c].token
          /\ \A d \in Conns \ {c} : conn'[d] = conn[d]
      BY <1>t, <1>4, <2>1, <2>5 DEF PublishClaim, ConnTypes
    <3>2. conn'[c].token \in Born
      BY <2>2, <3>1, ConnHolds
    <3> QED
      BY Zenon, <1>0, <2>0, <2>2, <2>3, <2>5, <3>1, <3>2, ClaimKeepsLinks DEF RtmpPcs
  <2> QED BY <2>4, <2>5
<1>5. CASE PublisherCancelled(c)
  BY Zenon, <1>0, <1>5, ConnMovesOn
     DEF PublisherCancelled, PublisherGone, PublisherExit, connFrame, serverVars
<1>6. CASE PublisherDrained(c)
  BY Zenon, <1>0, <1>6, ConnMovesOn DEF PublisherDrained, serverVars
<1>7. CASE RtspConnect(c)
  BY Zenon, <1>0, <1>7, ConnMovesOn DEF RtspConnect, connFrame, serverVars
<1>8. CASE RtspConnectFail(c)
  BY Zenon, <1>0, <1>8, ConnMovesOn DEF RtspConnectFail, serverVars
<1>9. CASE RtspClose(c)
  BY Zenon, <1>0, <1>9, ConnMovesOn DEF RtspClose, serverVars
<1> QED
  BY <1>1, <1>2, <1>3, <1>4, <1>5, <1>6, <1>7, <1>8, <1>9 DEF ConnStep

\* ... and so do the steps of the peers.
LEMMA PeerKeepsLinks ==
  ASSUME ControlInv, PeerStep
  PROVE  Links' /\ OneOwner'
<1> USE NoSessionAssumption
<1>0. [ControlNext]_controlVars
  BY DEF ControlNext
<1>t. ConnTypes
  BY TypesSplit DEF ControlInv
<1>1. ASSUME NEW p \in Protocols, NEW k \in LiveIds, SendPrecreate(p, k)
      PROVE  Links' /\ OneOwner'
  BY <1>0, <1>1, QuietServer DEF SendPrecreate
<1>2. ASSUME NEW k \in LiveIds, SendStop(k)
      PROVE  Links' /\ OneOwner'
  BY <1>0, <1>2, QuietServer, SMTT(20) DEF SendStop
<1>3. ASSUME NEW c \in RtmpConns, NEW k \in LiveIds, PublishRequest(c, k)
      PROVE  Links' /\ OneOwner'
  <2>1. c \in Conns /\ c \notin RtspConns /\ "rtmp" \in Protocols
    BY ConnsAssumption DEF Conns
  <2>2. pending["rtmp"][k] \in Born
    BY <1>3, <2>1 DEF PublishRequest, ControlInv, PendingLinks, Registered, Born
  <2>3. /\ conn'[c].pc \in {"accepting", "orphan"} /\ conn'[c].life = pending["rtmp"][k]
        /\ \A d \in Conns \ {c} : conn'[d] = conn[d]
    BY <1>t, <1>3, <2>1 DEF PublishRequest, ConnTypes
  <2>4. UNCHANGED <<protoOf, pending, ttl, server>>
    BY <1>3 DEF PublishRequest, connFrame, serverVars
  <2> QED BY <1>0, <2>1, <2>2, <2>3, <2>4, QuietConn DEF RtmpPcs, ConnOwns
<1>4. ASSUME NEW c \in RtmpConns, PublishFrame(c) \/ PublishFinish(c)
      PROVE  Links' /\ OneOwner'
  BY <1>0, <1>4, ConnMovesOn DEF PublishFrame, PublishFinish, Conns, connFrame, serverVars
<1>5. ASSUME NEW c \in RtmpConns, PublisherGone(c) \/ PublisherRefused(c)
      PROVE  Links' /\ OneOwner'
  BY <1>0, <1>5, ConnMovesOn
     DEF PublisherGone, PublisherRefused, PublisherExit, Conns, connFrame, serverVars
<1>6. ASSUME NEW c \in RtspConns, NEW k \in LiveIds, RtspRecord(c, k)
      PROVE  Links' /\ OneOwner'
  <2>1. c \in Conns /\ c \notin RtmpConns /\ "rtsp" \in Protocols
    BY ConnsAssumption DEF Conns
  <2>2. /\ conn'[c].pc = "claimed" /\ conn'[c].life = pending["rtsp"][k]
        /\ \A d \in Conns \ {c} : conn'[d] = conn[d]
    BY <1>t, <1>6, <2>1 DEF RtspRecord, ConnTypes
  <2>3. /\ pending["rtsp"][k] # NoSession
        /\ pending' = [pending EXCEPT !["rtsp"][k] = NoSession]
        /\ UNCHANGED <<protoOf, ttl, server>>
    BY <1>6 DEF RtspRecord
  <2> QED BY Zenon, <1>0, <2>1, <2>2, <2>3, ClaimKeepsLinks DEF RtspPcs
<1>7. ASSUME NEW c \in RtspConns, RtspEnd(c)
      PROVE  Links' /\ OneOwner'
  BY Zenon, <1>0, <1>7, ConnMovesOn DEF RtspEnd, Conns, connFrame, serverVars
<1> QED
  BY <1>1, <1>2, <1>3, <1>4, <1>5, <1>6, <1>7 DEF PeerStep

-----------------------------------------------------------------------------
(* The theorems *)

\* The invariant holds of the freshly started process ...
LEMMA ControlInvInit == ControlInit => ControlInv
<1> SUFFICES ASSUME ControlInit
             PROVE  ControlInv
  OBVIOUS
<1> USE NoSessionAssumption
<1>1. RegistryInv
  BY RegistryInvInit DEF ControlInit
<1>2. PlainTypes /\ ServerTypes
  BY DEF ControlInit, PlainTypes, ServerTypes, Waiting
<1>3. ConnTypes
  BY DEF ControlInit, ConnTypes, Idle, RtmpPcs, RtspPcs
<1>4. ControlTypeOK
  BY <1>1, <1>2, <1>3, TypesSplit DEF RegistryInv
<1>5. PendingLinks /\ ServerLinks /\ TimerLinks
  BY DEF ControlInit, PendingLinks, ServerLinks, TimerLinks, Waiting
<1>6. \A c \in Conns : conn[c].pc = "idle"
  BY DEF ControlInit, Idle
<1>7. ConnLinks
  BY <1>6 DEF ConnLinks, Holding
<1>8. OneOwner
  BY <1>6 DEF ControlInit, OneOwner, MapOwns, ConnOwns
<1> QED
  BY <1>1, <1>4, <1>5, <1>7, <1>8 DEF ControlInv

\* ... and every step of every task keeps it.
LEMMA ControlInvNext == ControlInv /\ [ControlNext]_controlVars => ControlInv'
<1> SUFFICES ASSUME ControlInv, [ControlNext]_controlVars
             PROVE  ControlInv'
  OBVIOUS
<1>1. Links' /\ OneOwner'
  <2>1. ASSUME NEW s \in Sessions, CleanupStep(s)
        PROVE  UNCHANGED <<protoOf, pending, ttl, server, conn>>
    BY <2>1 DEF CleanupStep, SessionDisconnected, SessionRemoved, serverVars
  <2>2. CASE UNCHANGED controlVars
    BY <2>2, QuietServer DEF controlVars, serverVars
  <2> QED
    BY <2>1, <2>2, QuietServer, PeerKeepsLinks, ServerKeepsLinks, TtlKeepsLinks,
       ConnKeepsLinksAndOwners
       DEF ControlNext
<1> QED
  BY <1>1, ControlTypes DEF ControlInv, Links

\* Types: the variables of control loops, timers, connections and queues keep the
\* types of their code, for any number of keys, sessions and connections.
THEOREM ControlTypeCorrect == ControlSpec => []ControlTypeOK
<1>1. ControlInv => ControlTypeOK
  BY DEF ControlInv
<1> QED
  BY <1>1, ControlInvInit, ControlInvNext, PTL DEF ControlSpec

\* Whoever wins pending_lifecycle.remove is the only owner of the lifecycle: of
\* any number of racing publishers, on both protocols, with the precreate timer
\* and a second PrecreateStream in between, at most one streams for a session.
THEOREM OneOwnerAlways == ControlSpec => []OneOwner
<1>1. ControlInv => OneOwner
  BY DEF ControlInv
<1> QED
  BY <1>1, ControlInvInit, ControlInvNext, PTL DEF ControlSpec

\* The servers, timers and connections use the registry only through its
\* operations (register_session, update_state, cancelling a token): the control
\* plane implements the registry on its own.
THEOREM ControlUsesRegistry == ControlSpec => UsesRegistry
<1>1. ControlInit => RegistryInit
  BY DEF ControlInit
<1> QED
  BY <1>1, ControlInvInit, ControlInvNext, ControlStepUsesRegistry, PTL
     DEF ControlSpec, UsesRegistry, RegistrySpec

\* So the removal by key of the cleanup task is safe in the whole control plane.
THEOREM ControlCleanupOwnsItsEntry == ControlSpec => []EntryHasItsCleanup
BY ControlUsesRegistry, CleanupOwnsItsEntry DEF UsesRegistry

\* A session in its grace period is over for good, whichever publisher or timer
\* still acts on its key.
THEOREM ControlGraceFinality == ControlSpec => []GraceIsFinal
BY ControlUsesRegistry, GraceFinality DEF UsesRegistry

\* And every stream key follows the life cycle Absent, Pending, Connecting,
\* Connected, Disconnected that clients of the control API see.
THEOREM ControlImplementsLiveStream == ControlSpec => ImplementsLiveStream
BY ControlUsesRegistry, RegistryImplementsLiveStream DEF UsesRegistry
=============================================================================
