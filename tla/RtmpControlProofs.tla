-------------------------- MODULE RtmpControlProofs --------------------------
(***************************************************************************)
(* Proofs about the session control plane of a process that serves RTMP    *)
(* only, for every set of stream keys, sessions and publishers, with or    *)
(* without a precreate timer: a live session has its FLV channel, and a    *)
(* Connected one has a publisher that watches its token.                   *)
(*                                                                         *)
(* Unlike the theorems of SessionControlProofs these rest on the timing    *)
(* assumption GraceCovers: the channel is removed by key, up to 100 ms     *)
(* after the token was cancelled, and only the longer grace period of the  *)
(* registry keeps the key from being taken meanwhile.  They also need the  *)
(* control loop to be the only one that registers sessions: with both      *)
(* servers running, one loop can find the key free and create the channel, *)
(* and the other one's session come and go, with the channel, before the   *)
(* first loop registers its own.                                           *)
(***************************************************************************)
EXTENDS SessionControlProofs

\* One protocol server, and no connection of the other protocol.
RtmpOnly == Protocols = {"rtmp"} /\ RtspConns = {}

\* The session is in the registry: its cleanup task has not removed it.
Live(s) == s \in Sessions /\ cleanup[s] \in {"waiting", "grace"}

\* disconnect() cancels the lifecycle's own session, unless the cleanup task has
\* removed it, and then it had been cancelled before.
MarkedAreCancelled == \A s \in Sessions : marked[s] => cancelled[s]

\* A timer that acts on its key finds its own session there; the lifecycle it may find
\* in the pending map is that of its session, too.
TimersInTime ==
  \A s \in Sessions :
    /\ ttl[s] \in {"due", "expired"} => Live(s)
    /\ ttl[s] \in {"armed", "due"} /\ Live(s) => pending["rtmp"][keyOf[s]] \in {s, NoSession}
    /\ ttl[s] = "expired" => cancelled[s]

\* So does a publisher, from the moment when it looks up its token until it has removed
\* the channel.
TokensInTime ==
  \A c \in RtmpConns :
    /\ conn[c].pc \in {"claiming", "running", "draining"} =>
         Live(conn[c].token) /\ keyOf[conn[c].token] = conn[c].key
    /\ conn[c].pc = "draining" => cancelled[conn[c].token]

\* Nobody registers a session under the key that the control loop has in hand.
LoopAlone ==
  /\ server["rtmp"].pc = "checked" =>
       ~InUse(server["rtmp"].key) /\ channel[server["rtmp"].key]
  /\ server["rtmp"].pc \in {"registered", "acked"} =>
       sessions[server["rtmp"].key] \in {server["rtmp"].life, NoSession}
  /\ server["rtmp"].pc = "stopping" /\ InUse(server["rtmp"].key) =>
       cancelled[sessions[server["rtmp"].key]]

\* The inductive invariant.
RtmpInv == /\ ControlInv
           /\ MarkedAreCancelled
           /\ TimersInTime
           /\ TokensInTime
           /\ LoopAlone
           /\ LiveSessionHasChannel
           /\ ConnectedHasPublisher

-----------------------------------------------------------------------------
(* What the steps leave alone *)

\* The session of a key is the one whose cleanup task has not removed it.
LEMMA LiveIsRegistered ==
  ASSUME ControlInv
  PROVE  /\ \A s \in Sessions : Live(s) => keyOf[s] \in LiveIds /\ sessions[keyOf[s]] = s
         /\ \A k \in LiveIds : InUse(k) => Live(sessions[k]) /\ keyOf[sessions[k]] = k
         /\ \A s \in Born : ~cancelled[s] => Live(s)
BY NoSessionAssumption
   DEF ControlInv, RegistryInv, RegistryTypeOK, EntryHasItsCleanup, GraceIsFinal,
       BornWithCleanup, Born, Live, InUse

\* A step that registers and removes no session keeps what it does not disturb.
LEMMA QuietKeeps ==
  ASSUME RtmpInv, RtmpOnly, UNCHANGED <<sessions, keyOf>>,
         \A s \in Sessions : Live(s)' <=> Live(s),
         \A s \in Sessions : cancelled[s] => cancelled'[s]
  PROVE  /\ /\ \A s \in Sessions : ttl'[s] \in {ttl[s], "done"}
            /\ \A k \in LiveIds : pending'["rtmp"][k] \in {pending["rtmp"][k], NoSession}
            => TimersInTime'
         /\ conn' = conn => TokensInTime'
         /\ /\ channel' = channel
            /\ server'["rtmp"].pc \in {server["rtmp"].pc, "idle"}
            /\ server'["rtmp"].pc # "idle" => server'["rtmp"] = server["rtmp"]
            => LoopAlone'
         /\ channel' = channel => LiveSessionHasChannel'
         /\ /\ \A c \in RtmpConns : conn[c].pc = "running" =>
                 \/ conn'[c].pc = "running" /\ conn'[c].token = conn[c].token
                 \/ cancelled'[conn[c].token]
            /\ \A k \in LiveIds : Phase(k)' = "Connected" => Phase(k) = "Connected"
            => ConnectedHasPublisher'
<1> USE NoSessionAssumption DEF RtmpInv
<1>0. /\ \A s \in Sessions : Live(s) => keyOf[s] \in LiveIds
      /\ \A k \in LiveIds : InUse(k) => sessions[k] \in Sessions
  BY LiveIsRegistered, Zenon DEF Live
<1>1. ASSUME \A s \in Sessions : ttl'[s] \in {ttl[s], "done"},
             \A k \in LiveIds : pending'["rtmp"][k] \in {pending["rtmp"][k], NoSession}
      PROVE  TimersInTime'
  BY <1>0, <1>1, Zenon DEF TimersInTime
<1>2. conn' = conn => TokensInTime'
  BY Zenon DEF TokensInTime, Live
<1>3. ASSUME channel' = channel, server'["rtmp"].pc \in {server["rtmp"].pc, "idle"},
             server'["rtmp"].pc # "idle" => server'["rtmp"] = server["rtmp"]
      PROVE  LoopAlone'
  <2>1. server["rtmp"].pc = "stopping" => server["rtmp"].key \in LiveIds
    BY Zenon DEF ControlInv, ControlTypeOK, RtmpOnly
  <2> QED BY <1>0, <1>3, <2>1, Zenon DEF LoopAlone, InUse
<1>4. channel' = channel => LiveSessionHasChannel'
  BY <1>0, Zenon DEF LiveSessionHasChannel, InUse
<1>5. ASSUME \A c \in RtmpConns : conn[c].pc = "running" =>
                 \/ conn'[c].pc = "running" /\ conn'[c].token = conn[c].token
                 \/ cancelled'[conn[c].token],
             \A k \in LiveIds : Phase(k)' = "Connected" => Phase(k) = "Connected"
      PROVE  ConnectedHasPublisher'
  <2> SUFFICES ASSUME NEW k \in LiveIds, Phase(k)' = "Connected", ~cancelled'[sessions[k]]
               PROVE  \E c \in RtmpConns : conn'[c].pc = "running" /\ conn'[c].token = sessions[k]
    BY Zenon DEF ConnectedHasPublisher
  <2>1. Phase(k) = "Connected" /\ ~cancelled[sessions[k]]
    BY <1>0, <1>5, Zenon DEF Phase, InUse
  <2>2. PICK c \in RtmpConns : conn[c].pc = "running" /\ conn[c].token = sessions[k]
    BY <2>1, Zenon DEF ConnectedHasPublisher
  <2> QED BY <1>5, <2>2, Zenon
<1> QED BY <1>1, <1>2, <1>3, <1>4, <1>5, Zenon

\* disconnect() of lifecycles leaves the registry alone but for the tokens, and cancels
\* the sessions of those lifecycles.
LEMMA DisconnectCancels ==
  ASSUME RtmpInv, NEW L \in SUBSET Born, NEW extra, Disconnect(L, extra),
         UNCHANGED <<sessions, keyOf, cleanup>>
  PROVE  /\ MarkedAreCancelled'
         /\ \A s \in Sessions : Live(s)' <=> Live(s)
         /\ \A s \in Sessions : cancelled[s] => cancelled'[s]
         /\ \A s \in Sessions : s \in L \cup extra => cancelled'[s]
<1> USE DEF RtmpInv
<1>1. /\ \A s \in Sessions : cancelled[s] \/ s \in extra => cancelled'[s]
      /\ \A s \in Sessions, l \in L : ~marked[l] /\ s \in TokensAt(keyOf[l]) => cancelled'[s]
      /\ \A s \in Sessions : marked'[s] => marked[s] \/ s \in L
  BY Zenon DEF Disconnect, Cancel
<1>2. ASSUME NEW s \in L
      PROVE  cancelled'[s]
  <2>1. s \in Sessions /\ s \in Born
    BY Zenon DEF Born
  <2>2. CASE marked[s] \/ cancelled[s]
    BY <1>1, <2>1, <2>2, Zenon DEF MarkedAreCancelled
  <2>3. CASE ~marked[s] /\ ~cancelled[s]
    <3>1. s \in TokensAt(keyOf[s])
      BY <2>1, <2>3, LiveIsRegistered, NoSessionAssumption, Zenon DEF TokensAt
    <3> QED BY <1>1, <2>1, <2>3, <3>1, Zenon
  <2> QED BY <2>2, <2>3, Zenon
<1>3. MarkedAreCancelled'
  BY <1>1, <1>2, Zenon DEF MarkedAreCancelled
<1>4. \A s \in Sessions : Live(s)' <=> Live(s)
  BY Zenon DEF Live
<1> QED BY <1>1, <1>2, <1>3, <1>4, Zenon

-----------------------------------------------------------------------------
(* The control loop *)

\* A new session takes a key that nothing else in the process acts on.
LEMMA RegisterKeeps ==
  ASSUME RtmpInv, RtmpOnly, ControlInv', NEW s \in Sessions, PrecreateRegister("rtmp", s)
  PROVE  RtmpInv'
<1> USE NoSessionAssumption DEF RtmpInv
<1> DEFINE k == server["rtmp"].key
<1>1. /\ server["rtmp"].pc = "checked" /\ k \in LiveIds /\ sessions[k] = NoSession
      /\ channel[k] /\ s \notin Born
      /\ UNCHANGED <<marked, cancelled, pending, ttl, channel, conn>>
  BY Zenon DEF PrecreateRegister, Register, LoopAlone, InUse, ControlInv, ControlTypeOK, RtmpOnly,
         lifecycleVars, Born
<1>2. /\ sessions'[k] = s /\ keyOf'[s] = k /\ state'[s] = "Pending"
      /\ \A j \in LiveIds : j # k => sessions'[j] = sessions[j]
      /\ \A t \in Sessions : t # s => /\ keyOf'[t] = keyOf[t] /\ state'[t] = state[t]
                                      /\ cleanup'[t] = cleanup[t]
  BY <1>1 DEF PrecreateRegister, Register, ControlInv, RegistryInv, RegistryTypeOK
<1>3. server'["rtmp"].pc = "registered" /\ server'["rtmp"].key = k /\ server'["rtmp"].life = s
  BY Zenon DEF PrecreateRegister, ControlInv, ControlTypeOK, RtmpOnly
<1>4. \A t \in Sessions : t # s => (Live(t)' <=> Live(t))
  BY <1>2, Zenon DEF Live
<1> HIDE DEF k
<1>5. MarkedAreCancelled'
  BY <1>1, Zenon DEF MarkedAreCancelled
<1>6. TimersInTime'
  <2>1. ttl[s] = "none"
    BY <1>1, Zenon DEF ControlInv, TimerLinks, Born
  <2> QED BY <1>1, <1>2, <1>4, <2>1, Zenon DEF TimersInTime
<1>7. TokensInTime'
  <2>1. \A c \in RtmpConns : conn[c].pc \in {"claiming", "running", "draining"} =>
          conn[c].token \in Sessions /\ conn[c].token # s
    BY <1>1, Zenon DEF ControlInv, ControlTypeOK, ConnLinks, Conns, Born
  <2> QED BY <1>1, <1>2, <1>4, <2>1 DEF TokensInTime
<1>8. LoopAlone'
  BY <1>2, <1>3, Zenon DEF LoopAlone
<1>9. LiveSessionHasChannel'
  BY <1>1, <1>2 DEF LiveSessionHasChannel, InUse
<1>10. ConnectedHasPublisher'
  <2> SUFFICES ASSUME NEW j \in LiveIds, Phase(j)' = "Connected", ~cancelled[sessions'[j]]
               PROVE  \E c \in RtmpConns : conn[c].pc = "running" /\ conn[c].token = sessions'[j]
    BY <1>1, Zenon DEF ConnectedHasPublisher
  <2>1. j # k
    BY <1>2, Zenon DEF Phase
  <2>2. /\ sessions'[j] = sessions[j]
        /\ sessions[j] # NoSession => sessions[j] \in Sessions /\ sessions[j] # s
    BY <1>1, <1>2, <2>1, LiveIsRegistered DEF InUse, Live, ControlInv, RegistryInv, BornWithCleanup,
       Born
  <2>3. Phase(j) = "Connected"
    BY <1>2, <2>2, Zenon DEF Phase
  <2> QED BY <2>2, <2>3, Zenon DEF ConnectedHasPublisher
<1> QED BY <1>5, <1>6, <1>7, <1>8, <1>9, <1>10, Zenon

\* The lifecycle goes into the pending map; its session has the key or had it last.
LEMMA InsertKeeps ==
  ASSUME RtmpInv, RtmpOnly, ControlInv', PrecreateInsert("rtmp")
  PROVE  RtmpInv'
<1> USE NoSessionAssumption DEF RtmpInv
<1> DEFINE k == server["rtmp"].key
           l == server["rtmp"].life
           old == {pending["rtmp"][k]} \ {NoSession}
<1>1. /\ server["rtmp"].pc = "acked" /\ k \in LiveIds /\ l \in Sessions /\ keyOf[l] = k
      /\ pending' = [pending EXCEPT !["rtmp"][k] = l] /\ Disconnect(old, {})
      /\ ttl' = [ttl EXCEPT ![l] = IF TtlEnabled THEN "armed" ELSE "done"]
      /\ server' = [server EXCEPT !["rtmp"] = Waiting]
      /\ UNCHANGED <<sessions, keyOf, state, cleanup, channel, conn>>
      /\ sessions[k] \in {l, NoSession}
  BY Zenon DEF PrecreateInsert, ControlInv, ControlTypeOK, ServerLinks, Registered, RtmpOnly,
     LoopAlone
<1>2. old \in SUBSET Born
  BY <1>1 DEF ControlInv, PendingLinks, Registered, Born, RtmpOnly
<1>3. /\ MarkedAreCancelled'
      /\ \A s \in Sessions : Live(s)' <=> Live(s)
      /\ \A s \in Sessions : cancelled[s] => cancelled'[s]
  BY <1>1, <1>2, DisconnectCancels, Zenon
<1>t. /\ ttl \in [Sessions -> {"none", "armed", "due", "expired", "done"}]
      /\ pending \in [Protocols -> [LiveIds -> Sessions \cup {NoSession}]]
      /\ DOMAIN server = Protocols /\ "rtmp" \in Protocols
  BY Zenon DEF ControlInv, ControlTypeOK, RtmpOnly
<1> HIDE DEF k, l, old
<1>4. /\ ttl'[l] \in {"armed", "done"} /\ pending'["rtmp"][k] = l
      /\ \A s \in Sessions : s # l => ttl'[s] = ttl[s]
      /\ \A j \in LiveIds : j # k => pending'["rtmp"][j] = pending["rtmp"][j]
      /\ server'["rtmp"].pc = "idle"
  BY <1>1, <1>t, Zenon DEF Waiting
<1>5. TimersInTime'
  <2> SUFFICES ASSUME NEW s \in Sessions
               PROVE  /\ ttl'[s] \in {"due", "expired"} => Live(s)
                      /\ ttl'[s] \in {"armed", "due"} /\ Live(s) =>
                           pending'["rtmp"][keyOf[s]] \in {s, NoSession}
                      /\ ttl'[s] = "expired" => cancelled'[s]
    BY <1>1, <1>3, Zenon DEF TimersInTime
  <2>1. CASE s = l
    BY <1>1, <1>4, <2>1, Zenon
  <2>2. CASE s # l
    <3>1. Live(s) => keyOf[s] \in LiveIds /\ keyOf[s] # k
      BY <1>1, <2>2, LiveIsRegistered, Zenon
    <3> QED BY <1>3, <1>4, <2>2, <3>1, Zenon DEF TimersInTime
  <2> QED BY <2>1, <2>2, Zenon
<1>6. \A j \in LiveIds : Phase(j)' = Phase(j)
  BY <1>1, Zenon DEF Phase
<1>7. TokensInTime' /\ LoopAlone' /\ LiveSessionHasChannel' /\ ConnectedHasPublisher'
  BY <1>1, <1>3, <1>4, <1>6, QuietKeeps, Zenon
<1> QED BY <1>3, <1>5, <1>7, Zenon

\* The other steps of the loop.
LEMMA LoopKeeps ==
  ASSUME RtmpInv, RtmpOnly, ControlInv', ServerStep("rtmp")
  PROVE  RtmpInv'
<1> USE NoSessionAssumption DEF RtmpInv
<1> DEFINE k == server["rtmp"].key
           m == Head(inbox["rtmp"]).key
<1>t. /\ "rtmp" \in Protocols /\ DOMAIN server = Protocols
      /\ server["rtmp"].pc # "idle" => k \in LiveIds
      /\ server["rtmp"].pc \in {"registered", "acked"} => server["rtmp"].life \in Born
      /\ channel \in [LiveIds -> BOOLEAN]
      /\ cancelled \in [Sessions -> BOOLEAN]
      /\ \A j \in LiveIds : InUse(j) => sessions[j] \in Sessions
  BY LiveIsRegistered, Zenon
     DEF ControlInv, ControlTypeOK, RegistryTypeOK, ServerLinks, Registered, Born, RtmpOnly, Live
<1>m. inbox["rtmp"] # <<>> => m \in LiveIds
  BY <1>t, HeadIsMessage, Zenon DEF ControlInv, ControlTypeOK
<1>p. UNCHANGED registryVars =>
        /\ UNCHANGED <<sessions, keyOf, cancelled>>
        /\ \A s \in Sessions : Live(s)' <=> Live(s)
        /\ \A j \in LiveIds : Phase(j)' = Phase(j)
  BY Zenon DEF registryVars, Live, Phase
<1> HIDE DEF k, m
<1>1. CASE PrecreateRefuse("rtmp")
  <2>1. UNCHANGED <<registryVars, marked, pending, ttl, server, channel, conn>>
    BY <1>1, Zenon DEF PrecreateRefuse, lifecycleVars
  <2> QED BY <1>p, <2>1, QuietKeeps, Zenon DEF MarkedAreCancelled
<1>2. CASE PrecreateCheck("rtmp")
  <2>1. /\ UNCHANGED <<registryVars, marked, pending, ttl, conn>>
        /\ m \in LiveIds /\ ~InUse(m) /\ channel' = [channel EXCEPT ![m] = TRUE]
        /\ server' = [server EXCEPT !["rtmp"] = [pc |-> "checked", key |-> m, life |-> NoSession]]
    BY <1>2, <1>m, Zenon DEF PrecreateCheck, Receives, lifecycleVars, m
  <2>2. LoopAlone'
    BY <1>t, <1>p, <2>1, Zenon DEF LoopAlone, InUse
  <2>3. LiveSessionHasChannel'
    BY <1>t, <1>p, <2>1, Zenon DEF LiveSessionHasChannel, InUse
  <2> QED BY <1>p, <2>1, <2>2, <2>3, QuietKeeps, Zenon DEF MarkedAreCancelled
<1>3. ASSUME NEW s \in Sessions, PrecreateRegister("rtmp", s)
      PROVE  RtmpInv'
  BY <1>3, RegisterKeeps, Zenon
<1>4. ~PrecreateConflict("rtmp")
  BY Zenon DEF PrecreateConflict, LoopAlone
<1>5. CASE PrecreateAck("rtmp")
  <2>1. /\ UNCHANGED <<registryVars, marked, pending, ttl, channel, conn>>
        /\ server["rtmp"].pc = "registered" /\ server' = [server EXCEPT !["rtmp"].pc = "acked"]
    BY <1>5, Zenon DEF PrecreateAck, lifecycleVars
  <2>2. LoopAlone'
    BY <1>t, <1>p, <2>1 DEF LoopAlone
  <2> QED BY <1>p, <2>1, <2>2, QuietKeeps, Zenon DEF MarkedAreCancelled
<1>6. CASE PrecreateAckLost("rtmp")
  <2>1. /\ server["rtmp"].pc = "registered" /\ Disconnect({server["rtmp"].life}, {})
        /\ server' = [server EXCEPT !["rtmp"] = Waiting]
        /\ UNCHANGED <<sessions, keyOf, state, cleanup, pending, ttl, channel, conn>>
    BY <1>6, Zenon DEF PrecreateAckLost
  <2>2. /\ MarkedAreCancelled'
        /\ \A s \in Sessions : Live(s)' <=> Live(s)
        /\ \A s \in Sessions : cancelled[s] => cancelled'[s]
    BY <1>t, <2>1, DisconnectCancels, Zenon
  <2>3. server'["rtmp"].pc = "idle" /\ \A j \in LiveIds : Phase(j)' = Phase(j)
    BY <1>t, <2>1, Zenon DEF Waiting, Phase
  <2> QED BY <2>1, <2>2, <2>3, QuietKeeps, Zenon
<1>7. CASE PrecreateInsert("rtmp")
  BY <1>7, InsertKeeps, Zenon
<1>8. CASE StopCancel("rtmp")
  <2>1. /\ UNCHANGED <<sessions, keyOf, state, cleanup, marked, pending, ttl, channel, conn>>
        /\ m \in LiveIds /\ Cancel(TokensAt(m))
        /\ server' = [server EXCEPT !["rtmp"] = [pc |-> "stopping", key |-> m, life |-> NoSession]]
    BY <1>8, <1>m, Zenon DEF StopCancel, Receives, lifecycleVars, m
  <2>2. /\ \A s \in Sessions : cancelled[s] \/ s \in TokensAt(m) => cancelled'[s]
        /\ \A s \in Sessions : Live(s)' <=> Live(s)
        /\ \A j \in LiveIds : Phase(j)' = Phase(j)
    BY <2>1, Zenon DEF Cancel, Live, Phase
  <2>3. LoopAlone'
    <3>1. InUse(m) => cancelled'[sessions[m]]
      BY <1>t, <2>1, <2>2, Zenon DEF InUse, TokensAt
    <3> QED BY <1>t, <2>1, <3>1, Zenon DEF LoopAlone, InUse
  <2>4. MarkedAreCancelled'
    BY <2>1, <2>2, Zenon DEF MarkedAreCancelled
  <2> QED BY <2>1, <2>2, <2>3, <2>4, QuietKeeps, Zenon
<1>9. CASE StopRemoveChannel("rtmp")
  <2>1. /\ UNCHANGED <<registryVars, marked, pending, ttl, conn>>
        /\ server["rtmp"].pc = "stopping" /\ channel' = [channel EXCEPT ![k] = FALSE]
        /\ server' = [server EXCEPT !["rtmp"] = Waiting]
    BY <1>9, Zenon DEF StopRemoveChannel, lifecycleVars, k
  <2>2. LoopAlone'
    BY <1>t, <2>1, Zenon DEF LoopAlone, Waiting
  <2>3. LiveSessionHasChannel'
    BY <1>t, <1>p, <2>1, Zenon DEF LiveSessionHasChannel, LoopAlone, InUse, k
  <2> QED BY <1>p, <2>1, <2>2, <2>3, QuietKeeps, Zenon DEF MarkedAreCancelled
<1> QED
  BY <1>1, <1>2, <1>3, <1>4, <1>5, <1>6, <1>7, <1>8, <1>9, Zenon DEF ServerStep

-----------------------------------------------------------------------------
(* Timers and cleanup tasks *)

\* A timer that expires does so on its own session.
LEMMA TimerKeeps ==
  ASSUME RtmpInv, RtmpOnly, ControlInv', NEW s \in Sessions, TtlStep(s)
  PROVE  RtmpInv'
<1> USE NoSessionAssumption DEF RtmpInv
<1>t. /\ ttl \in [Sessions -> {"none", "armed", "due", "expired", "done"}]
      /\ pending \in [Protocols -> [LiveIds -> Sessions \cup {NoSession}]]
      /\ channel \in [LiveIds -> BOOLEAN] /\ "rtmp" \in Protocols
      /\ ttl[s] # "none" => s \in Born /\ keyOf[s] \in LiveIds /\ protoOf[s] = "rtmp"
  BY Zenon DEF ControlInv, ControlTypeOK, RegistryTypeOK, TimerLinks, Born, RtmpOnly
<1>p. UNCHANGED registryVars =>
        /\ UNCHANGED <<sessions, keyOf, cancelled>>
        /\ \A t \in Sessions : Live(t)' <=> Live(t)
        /\ \A j \in LiveIds : Phase(j)' = Phase(j)
  BY Zenon DEF registryVars, Live, Phase
<1>1. CASE TtlCancelled(s)
  <2>1. /\ UNCHANGED <<registryVars, marked, pending, server, channel, conn>>
        /\ ttl' = [ttl EXCEPT ![s] = "done"]
    BY <1>1, Zenon DEF TtlCancelled, lifecycleVars
  <2>2. \A t \in Sessions : ttl'[t] \in {ttl[t], "done"}
    BY <1>t, <2>1, Zenon
  <2> QED BY <1>p, <2>1, <2>2, QuietKeeps, Zenon DEF MarkedAreCancelled
<1>2. CASE TtlDue(s)
  <2>1. /\ UNCHANGED <<registryVars, marked, pending, server, channel, conn>>
        /\ ttl[s] = "armed" /\ ~cancelled[s] /\ ttl' = [ttl EXCEPT ![s] = "due"]
    BY <1>2, Zenon DEF TtlDue, lifecycleVars
  <2>2. Live(s)
    BY <1>t, <2>1, LiveIsRegistered, Zenon
  <2>3. TimersInTime'
    BY <1>t, <1>p, <2>1, <2>2, Zenon DEF TimersInTime
  <2> QED BY <1>p, <2>1, <2>3, QuietKeeps, Zenon DEF MarkedAreCancelled
<1>3. CASE TtlExpire(s)
  <2> DEFINE k == keyOf[s]
             l == pending["rtmp"][k]
  <2>1. /\ ttl[s] = "due" /\ k \in LiveIds
        /\ pending' = [pending EXCEPT !["rtmp"][k] = NoSession]
        /\ Disconnect({l} \ {NoSession}, {})
        /\ ttl' = [ttl EXCEPT ![s] = IF l = NoSession THEN "done" ELSE "expired"]
        /\ UNCHANGED <<sessions, keyOf, state, cleanup, server, channel, conn>>
    BY <1>t, <1>3, Zenon DEF TtlExpire
  <2>2. Live(s) /\ l \in {s, NoSession} /\ {l} \ {NoSession} \in SUBSET Born
    BY <1>t, <2>1, ZenonT(30) DEF TimersInTime
  <2>3. /\ MarkedAreCancelled'
        /\ \A t \in Sessions : Live(t)' <=> Live(t)
        /\ \A t \in Sessions : cancelled[t] => cancelled'[t]
        /\ l = s => cancelled'[s]
    BY <2>1, <2>2, DisconnectCancels, Zenon
  <2>4. \A j \in LiveIds : /\ Phase(j)' = Phase(j)
                           /\ pending'["rtmp"][j] \in {pending["rtmp"][j], NoSession}
    BY <1>t, <2>1, Zenon DEF Phase
  <2>5. /\ \A t \in Sessions : t # s => ttl'[t] = ttl[t]
        /\ ttl'[s] = "done" \/ (ttl'[s] = "expired" /\ l = s)
    BY <1>t, <2>1, <2>2, Zenon
  <2> HIDE DEF k, l
  <2>6. TimersInTime'
    <3> SUFFICES ASSUME NEW t \in Sessions
                 PROVE  /\ ttl'[t] \in {"due", "expired"} => Live(t)
                        /\ ttl'[t] \in {"armed", "due"} /\ Live(t) =>
                             pending'["rtmp"][keyOf[t]] \in {t, NoSession}
                        /\ ttl'[t] = "expired" => cancelled'[t]
      BY <2>1, <2>3, Zenon DEF TimersInTime
    <3>1. CASE t = s
      BY <2>2, <2>3, <2>5, <3>1, Zenon
    <3>2. CASE t # s
      BY <2>3, <2>4, <2>5, <3>2, LiveIsRegistered, Zenon DEF TimersInTime
    <3> QED BY <3>1, <3>2, Zenon
  <2> QED BY <2>1, <2>3, <2>4, <2>6, QuietKeeps, Zenon
<1>4. CASE TtlRemoveChannel(s)
  <2>1. /\ UNCHANGED <<registryVars, marked, pending, server, conn>>
        /\ ttl[s] = "expired" /\ channel' = [channel EXCEPT ![keyOf[s]] = FALSE]
        /\ ttl' = [ttl EXCEPT ![s] = "done"]
    BY <1>4, Zenon DEF TtlRemoveChannel, lifecycleVars
  <2>2. sessions[keyOf[s]] = s /\ cancelled[s]
    BY <2>1, LiveIsRegistered, Zenon DEF TimersInTime
  <2>3. \A t \in Sessions : ttl'[t] \in {ttl[t], "done"}
    BY <1>t, <2>1, Zenon
  <2>4. LiveSessionHasChannel'
    BY <1>t, <1>p, <2>1, <2>2, Zenon DEF LiveSessionHasChannel, InUse
  <2>5. LoopAlone'
    <3>1. server["rtmp"].pc = "checked" =>
            server["rtmp"].key \in LiveIds /\ server["rtmp"].key # keyOf[s]
      BY <1>t, <2>2 DEF LoopAlone, InUse, ControlInv, ControlTypeOK
    <3> QED BY <1>t, <1>p, <2>1, <3>1, Zenon DEF LoopAlone, InUse
  <2> QED BY <1>p, <2>1, <2>3, <2>4, <2>5, QuietKeeps, Zenon DEF MarkedAreCancelled
<1> QED BY <1>1, <1>2, <1>3, <1>4, Zenon DEF TtlStep

\* Nothing in flight acts on a key whose session is removed: GraceCovers.
LEMMA CleanupKeeps ==
  ASSUME RtmpInv, RtmpOnly, ControlInv', NEW s \in Sessions, CleanupStep(s)
  PROVE  RtmpInv'
<1> USE NoSessionAssumption DEF RtmpInv
<1>t. /\ state \in [Sessions -> SessionState \cup {Unborn}]
      /\ cleanup \in [Sessions -> {"none", "waiting", "grace", "done"}]
      /\ sessions \in [LiveIds -> Sessions \cup {NoSession}]
  BY Zenon DEF ControlInv, RegistryInv, RegistryTypeOK
<1>1. CASE SessionDisconnected(s)
  <2>1. /\ UNCHANGED <<sessions, keyOf, cancelled, marked, pending, ttl, server, channel, conn>>
        /\ state' = [state EXCEPT ![s] = "Disconnected"] /\ cleanup[s] = "waiting"
        /\ cleanup' = [cleanup EXCEPT ![s] = "grace"]
    BY <1>1, Zenon DEF SessionDisconnected, CleanupMark, lifecycleVars, serverVars
  <2>2. \A t \in Sessions : Live(t)' <=> Live(t)
    BY <1>t, <2>1, Zenon DEF Live
  <2>3. \A k \in LiveIds : Phase(k)' = "Connected" => Phase(k) = "Connected"
    BY <1>t, <2>1, Zenon DEF Phase
  <2> QED BY <2>1, <2>2, <2>3, QuietKeeps, Zenon DEF MarkedAreCancelled
<1>2. CASE SessionRemoved(s)
  <2> DEFINE k == keyOf[s]
  <2>1. /\ UNCHANGED <<keyOf, state, cancelled, marked, pending, ttl, server, channel, conn>>
        /\ sessions' = [sessions EXCEPT ![k] = NoSession] /\ cleanup[s] = "grace"
        /\ cleanup' = [cleanup EXCEPT ![s] = "done"] /\ GraceCovers(s)
    BY <1>2, Zenon DEF SessionRemoved, CleanupRemove, lifecycleVars, serverVars
  <2>2. k \in LiveIds /\ sessions[k] = s
    BY <2>1, LiveIsRegistered, Zenon DEF Live
  <2>3. /\ \A t \in Sessions : Live(t)' => Live(t)
        /\ \A t \in Sessions : t # s /\ Live(t) => Live(t)'
        /\ \A j \in LiveIds : sessions'[j] \in {sessions[j], NoSession}
    BY <1>t, <2>1, <2>2, Zenon DEF Live
  <2> HIDE DEF k
  <2>4. TimersInTime'
    BY <2>1, <2>3, Zenon DEF TimersInTime, GraceCovers
  <2>5. TokensInTime'
    <3>1. \A c \in RtmpConns : conn[c].pc \in {"claiming", "running", "draining"} =>
            conn[c].token # s /\ conn[c].token \in Sessions
      BY <2>1, Zenon DEF TokensInTime, GraceCovers, Live
    <3> QED BY <2>1, <2>3, <3>1, Zenon DEF TokensInTime
  <2>6. LoopAlone'
    <3>1. server["rtmp"].pc # "idle" => server["rtmp"].key \in LiveIds
      BY Zenon DEF ControlInv, ControlTypeOK, RtmpOnly
    <3> QED BY <2>1, <2>3, <3>1, Zenon DEF LoopAlone, InUse
  <2>7. MarkedAreCancelled' /\ LiveSessionHasChannel'
    BY <2>1, <2>3, Zenon DEF MarkedAreCancelled, LiveSessionHasChannel, InUse
  <2>8. ConnectedHasPublisher'
    BY <2>1, <2>3, Zenon DEF ConnectedHasPublisher, Phase
  <2> QED BY <2>4, <2>5, <2>6, <2>7, <2>8, Zenon
<1> QED BY <1>1, <1>2, Zenon DEF CleanupStep

-----------------------------------------------------------------------------
(* Publishers *)

\* The steps of publisher c that leave the channels alone, by what they do to its record.
LEMMA PublisherKeeps ==
  ASSUME RtmpInv, RtmpOnly, ControlInv', NEW c \in RtmpConns, NEW new,
         conn' = [conn EXCEPT ![c] = new],
         UNCHANGED <<sessions, keyOf, cleanup, ttl, server, channel>>,
         \A k \in LiveIds : pending'["rtmp"][k] \in {pending["rtmp"][k], NoSession},
         \A s \in Sessions : cancelled[s] => cancelled'[s],
         MarkedAreCancelled',
         new.pc \in {"claiming", "running", "draining"} =>
           Live(new.token) /\ keyOf[new.token] = new.key,
         new.pc = "draining" => cancelled'[new.token],
         conn[c].pc = "running" => \/ new.pc = "running" /\ new.token = conn[c].token
                                   \/ cancelled'[conn[c].token],
         \A k \in LiveIds : Phase(k)' = "Connected" => Phase(k) = "Connected"
  PROVE  RtmpInv'
<1> USE DEF RtmpInv
<1>1. conn'[c] = new /\ \A d \in RtmpConns : d # c => conn'[d] = conn[d]
  BY Zenon DEF ControlInv, ControlTypeOK, Conns
<1>2. \A s \in Sessions : Live(s)' <=> Live(s)
  BY Zenon DEF Live
<1>3. TokensInTime'
  BY <1>1 DEF TokensInTime, Live
<1>4. \A d \in RtmpConns : conn[d].pc = "running" =>
        \/ conn'[d].pc = "running" /\ conn'[d].token = conn[d].token
        \/ cancelled'[conn[d].token]
  BY <1>1, Zenon
<1> QED BY <1>2, <1>3, <1>4, QuietKeeps, Zenon

\* A publisher that streams holds a lifecycle, and its token is the one under its key.
LEMMA RunningPublisher ==
  ASSUME RtmpInv, NEW c \in RtmpConns, conn[c].pc = "running"
  PROVE  /\ conn[c].life \in Born /\ conn[c].token \in Sessions
         /\ conn[c].key \in LiveIds /\ sessions[conn[c].key] = conn[c].token
<1> USE DEF RtmpInv
<1>1. Live(conn[c].token) /\ keyOf[conn[c].token] = conn[c].key
  BY Zenon DEF TokensInTime
<1>2. conn[c].life \in Sessions /\ state[conn[c].life] # Unborn
  BY Zenon DEF ControlInv, ControlTypeOK, ConnLinks, Conns, Holding, RtmpPcs, RtspPcs
<1> QED BY <1>1, <1>2, LiveIsRegistered, Zenon DEF Live, Born

\* The handler returns: the publisher's token is cancelled before it starts to drain.
LEMMA ExitKeeps ==
  ASSUME RtmpInv, RtmpOnly, ControlInv', NEW c \in RtmpConns, PublisherExit(c)
  PROVE  RtmpInv'
<1> USE DEF RtmpInv
<1> DEFINE new == [conn[c] EXCEPT !.pc = "draining"]
<1>1. /\ conn[c].pc = "running" /\ Disconnect({conn[c].life}, {conn[c].token})
      /\ conn' = [conn EXCEPT ![c] = new]
      /\ UNCHANGED <<sessions, keyOf, state, cleanup, pending, ttl, server, channel>>
  BY Zenon DEF PublisherExit, connFrame, serverVars
<1>2. /\ MarkedAreCancelled'
      /\ \A s \in Sessions : cancelled[s] => cancelled'[s]
      /\ cancelled'[conn[c].token]
  <2>1. {conn[c].life} \in SUBSET Born /\ conn[c].token \in Sessions
    BY <1>1, RunningPublisher, Zenon
  <2>2. /\ MarkedAreCancelled'
        /\ \A s \in Sessions : cancelled[s] => cancelled'[s]
        /\ \A s \in Sessions : s \in {conn[c].life} \cup {conn[c].token} => cancelled'[s]
    BY <1>1, <2>1, DisconnectCancels, Zenon
  <2> QED BY <2>1, <2>2, Zenon
<1>3. new.pc = "draining" /\ new.token = conn[c].token /\ new.key = conn[c].key
  BY DEF ControlInv, ControlTypeOK, Conns
<1>4. Live(conn[c].token) /\ keyOf[conn[c].token] = conn[c].key
  BY <1>1, Zenon DEF TokensInTime
<1>5. \A j \in LiveIds : Phase(j)' = Phase(j)
  BY <1>1, Zenon DEF Phase
<1> HIDE DEF new
<1> QED BY <1>1, <1>2, <1>3, <1>4, <1>5, PublisherKeeps, Zenon

\* What a step of the peer does.
LEMMA PeerKeeps ==
  ASSUME RtmpInv, RtmpOnly, ControlInv', PeerStep
  PROVE  RtmpInv'
<1> USE NoSessionAssumption DEF RtmpInv
<1>t. \A c \in RtmpConns : conn[c].pc = "running" =>
        /\ conn[c].life \in Born /\ conn[c].token \in Sessions /\ conn[c].key \in LiveIds
        /\ sessions[conn[c].key] = conn[c].token
  BY RunningPublisher, Zenon
<1>p. UNCHANGED registryVars =>
        /\ UNCHANGED <<sessions, keyOf, cancelled, cleanup>>
        /\ \A t \in Sessions : Live(t)' <=> Live(t)
        /\ \A j \in LiveIds : Phase(j)' = Phase(j)
  BY Zenon DEF registryVars, Live, Phase
<1>1. ASSUME NEW p \in Protocols, NEW k \in LiveIds, SendPrecreate(p, k) \/ SendStop(k)
      PROVE  RtmpInv'
  <2>1. UNCHANGED <<registryVars, marked, pending, ttl, server, channel, conn>>
    BY <1>1, Zenon DEF SendPrecreate, SendStop, lifecycleVars
  <2> QED BY <1>p, <2>1, QuietKeeps, Zenon DEF MarkedAreCancelled
<1>2. ASSUME NEW c \in RtmpConns, NEW k \in LiveIds, PublishRequest(c, k)
      PROVE  RtmpInv'
  <2> DEFINE new == [pc |-> IF Phase(k) = "Pending" THEN "accepting" ELSE "orphan",
                     key |-> k, life |-> pending["rtmp"][k], token |-> NoSession]
  <2>1. /\ UNCHANGED <<registryVars, marked, pending, ttl, server, channel>>
        /\ conn[c].pc = "idle" /\ conn' = [conn EXCEPT ![c] = new]
    BY <1>2 DEF PublishRequest, lifecycleVars, connFrame, serverVars, Idle
  <2>2. new.pc \in {"accepting", "orphan"}
    BY Zenon
  <2> HIDE DEF new
  <2> QED BY <1>p, <2>1, <2>2, PublisherKeeps, Zenon DEF MarkedAreCancelled
<1>3. ASSUME NEW c \in RtmpConns, PublishFrame(c)
      PROVE  RtmpInv'
  <2> DEFINE k == conn[c].key
  <2>1. /\ UNCHANGED <<sessions, keyOf, cancelled, cleanup, marked, pending, ttl, server, channel,
                       conn>>
        /\ conn[c].pc = "running" /\ UpdateState(k, "Connected")
    BY <1>3, Zenon DEF PublishFrame, connFrame, serverVars
  <2>2. \A s \in Sessions : Live(s)' <=> Live(s)
    BY <2>1, Zenon DEF Live
  <2>3. /\ MarkedAreCancelled' /\ TimersInTime' /\ TokensInTime' /\ LoopAlone'
        /\ LiveSessionHasChannel'
    BY <2>1, <2>2, QuietKeeps, Zenon DEF MarkedAreCancelled
  <2>4. ConnectedHasPublisher'
    <3> SUFFICES ASSUME NEW j \in LiveIds, Phase(j)' = "Connected", ~cancelled[sessions[j]]
                 PROVE  \E d \in RtmpConns : conn[d].pc = "running" /\ conn[d].token = sessions[j]
      BY <2>1, Zenon DEF ConnectedHasPublisher
    <3>1. CASE sessions[j] = conn[c].token
      BY <2>1, <3>1, Zenon
    <3>2. CASE sessions[j] # conn[c].token
      <4>1. Phase(j) = "Connected"
        BY <1>t, <2>1, <3>2, Zenon DEF UpdateState, Phase, ControlInv, RegistryInv, RegistryTypeOK
      <4> QED BY <4>1, Zenon DEF ConnectedHasPublisher
    <3> QED BY <3>1, <3>2, Zenon
  <2> QED BY <2>3, <2>4, Zenon
<1>4. ASSUME NEW c \in RtmpConns, PublishFinish(c)
      PROVE  RtmpInv'
  <2>1. /\ conn[c].pc = "running" /\ Disconnect({conn[c].life}, {conn[c].token})
        /\ UNCHANGED <<sessions, keyOf, state, cleanup, pending, ttl, server, channel, conn>>
    BY <1>4, Zenon DEF PublishFinish, connFrame, serverVars
  <2>2. /\ MarkedAreCancelled'
        /\ \A s \in Sessions : Live(s)' <=> Live(s)
        /\ \A s \in Sessions : cancelled[s] => cancelled'[s]
    BY <1>t, <2>1, DisconnectCancels, Zenon
  <2>3. \A j \in LiveIds : Phase(j)' = Phase(j)
    BY <2>1, Zenon DEF Phase
  <2> QED BY <2>1, <2>2, <2>3, QuietKeeps, Zenon
<1>5. ASSUME NEW c \in RtmpConns, PublisherGone(c) \/ PublisherRefused(c)
      PROVE  RtmpInv'
  BY <1>5, ExitKeeps, Zenon DEF PublisherGone, PublisherRefused
<1>6. PICK p \in Protocols : p = "rtmp"
  BY Zenon DEF RtmpOnly
<1> QED BY <1>1, <1>2, <1>3, <1>4, <1>5, <1>6, Zenon DEF PeerStep, RtmpOnly

\* What a connection does by itself.
LEMMA ConnKeeps ==
  ASSUME RtmpInv, RtmpOnly, ControlInv', NEW c \in Conns, ConnStep(c)
  PROVE  RtmpInv'
<1> USE NoSessionAssumption DEF RtmpInv
<1>c. c \in RtmpConns
  BY Zenon DEF Conns, RtmpOnly
<1>t. /\ conn[c].pc \in RtmpPcs \cup {"idle"} /\ Idle.pc = "idle"
      /\ conn[c].pc \in {"accepting", "orphan"} => conn[c].life \in Born
      /\ conn[c].pc # "idle" => conn[c].key \in LiveIds
  <2>1. /\ conn[c].pc \in {"accepting", "orphan"} => conn[c].life \in Sessions
        /\ conn[c].pc # "idle" => conn[c].key \in LiveIds
    BY <1>c, Zenon DEF ControlInv, ControlTypeOK, Conns, RtmpPcs
  <2>2. /\ conn[c].pc \in RtmpPcs \cup {"idle"}
        /\ conn[c].pc \in {"accepting", "orphan"} => state[conn[c].life] # Unborn
    BY <1>c, Zenon DEF ControlInv, ConnLinks, Holding
  <2> QED BY <2>1, <2>2, Zenon DEF Born, Idle
<1>p. UNCHANGED registryVars =>
        /\ UNCHANGED <<sessions, keyOf, cancelled, cleanup>>
        /\ \A t \in Sessions : Live(t)' <=> Live(t)
        /\ \A j \in LiveIds : Phase(j)' = Phase(j)
  BY Zenon DEF registryVars, Live, Phase
<1>1. CASE PublishAbandon(c)
  <2>1. /\ conn[c].pc \in {"accepting", "orphan"} /\ Disconnect({conn[c].life}, {})
        /\ conn' = [conn EXCEPT ![c] = Idle]
        /\ UNCHANGED <<sessions, keyOf, state, cleanup, pending, ttl, server, channel>>
    BY <1>1, Zenon DEF PublishAbandon, connFrame, serverVars
  <2>2. {conn[c].life} \in SUBSET Born
    BY <1>t, <2>1, Zenon
  <2>3. MarkedAreCancelled' /\ \A s \in Sessions : cancelled[s] => cancelled'[s]
    BY <2>1, <2>2, DisconnectCancels, Zenon
  <2>4. \A j \in LiveIds : Phase(j)' = Phase(j)
    BY <2>1, Zenon DEF Phase
  <2> QED BY <1>c, <1>t, <2>1, <2>3, <2>4, PublisherKeeps, Zenon
<1>2. CASE PublishAccept(c)
  <2> DEFINE new == [conn[c] EXCEPT !.pc = "accepted"]
  <2>1. /\ conn[c].pc = "accepting" /\ UpdateState(conn[c].key, "Connecting")
        /\ conn' = [conn EXCEPT ![c] = new]
        /\ UNCHANGED <<sessions, keyOf, cancelled, cleanup, marked, pending, ttl, server, channel>>
    BY <1>2, Zenon DEF PublishAccept, connFrame, serverVars, lifecycleVars
  <2>2. new.pc = "accepted"
    BY <1>c DEF ControlInv, ControlTypeOK, Conns
  <2>3. \A j \in LiveIds : Phase(j)' = "Connected" => Phase(j) = "Connected"
    BY <2>1, Zenon DEF UpdateState, Phase, ControlInv, RegistryInv, RegistryTypeOK
  <2> HIDE DEF new
  <2> QED BY <1>c, <2>1, <2>2, <2>3, PublisherKeeps, Zenon DEF MarkedAreCancelled
<1>3. CASE PublishToken(c)
  <2> DEFINE k == conn[c].key
             new == IF InUse(k) THEN [pc |-> "claiming", key |-> k, life |-> NoSession,
                                      token |-> sessions[k]]
                                ELSE Idle
  <2>1. /\ conn[c].pc = "accepted" /\ conn' = [conn EXCEPT ![c] = new]
        /\ UNCHANGED <<registryVars, marked, pending, ttl, server, channel>>
    BY <1>3, <1>c, Zenon DEF PublishToken, connFrame, serverVars, lifecycleVars, ControlInv,
       ControlTypeOK, Conns
  <2>2. new.pc \in {"claiming", "idle"}
    BY <1>t, Zenon
  <2>3. new.pc = "claiming" => Live(new.token) /\ keyOf[new.token] = new.key
    BY <1>t, <2>1, LiveIsRegistered, Zenon
  <2> HIDE DEF new
  <2> QED BY <1>c, <1>p, <2>1, <2>2, <2>3, PublisherKeeps, Zenon DEF MarkedAreCancelled
<1>4. CASE PublishClaim(c)
  <2> DEFINE k == conn[c].key
             l == pending["rtmp"][k]
             new == IF l = NoSession THEN Idle
                    ELSE [pc |-> "running", key |-> k, life |-> l, token |-> conn[c].token]
  <2>1. /\ conn[c].pc = "claiming" /\ conn' = [conn EXCEPT ![c] = new]
        /\ pending' = [pending EXCEPT !["rtmp"][k] = NoSession]
        /\ UNCHANGED <<registryVars, marked, ttl, server, channel>>
    BY <1>4, <1>c, Zenon DEF PublishClaim, lifecycleVars, ControlInv, ControlTypeOK, Conns
  <2>2. new.pc \in {"running", "idle"}
    BY <1>t, Zenon
  <2>3. new.pc = "running" => Live(new.token) /\ keyOf[new.token] = new.key
    BY <1>c, <1>t, <2>1, Zenon DEF TokensInTime
  <2>4. \A j \in LiveIds : pending'["rtmp"][j] \in {pending["rtmp"][j], NoSession}
    BY <2>1 DEF ControlInv, ControlTypeOK, RtmpOnly
  <2> HIDE DEF new
  <2> QED BY <1>c, <1>p, <2>1, <2>2, <2>3, <2>4, PublisherKeeps, Zenon DEF MarkedAreCancelled
<1>5. CASE PublisherCancelled(c)
  BY <1>c, <1>5, ExitKeeps, Zenon DEF PublisherCancelled, PublisherGone
<1>6. CASE PublisherDrained(c)
  <2> DEFINE k == conn[c].key
             t == conn[c].token
  <2>1. /\ UNCHANGED <<registryVars, marked, pending, ttl, server>> /\ conn[c].pc = "draining"
        /\ channel' = [channel EXCEPT ![k] = FALSE]
        /\ conn' = [conn EXCEPT ![c] = Idle]
    BY <1>6, Zenon DEF PublisherDrained, lifecycleVars, serverVars
  <2>2. /\ Live(t) /\ keyOf[t] = k /\ cancelled[t] /\ t \in Sessions
        /\ k \in LiveIds /\ sessions[k] = t /\ InUse(k)
    BY <1>c, <1>t, <2>1, LiveIsRegistered DEF TokensInTime, Live, InUse
  <2>3. /\ channel' \in [LiveIds -> BOOLEAN]
        /\ \A j \in LiveIds : j # k => channel'[j] = channel[j]
    BY <2>1, <2>2, Zenon DEF ControlInv, ControlTypeOK
  <2>4. /\ conn'[c].pc = "idle" /\ \A d \in RtmpConns : d # c => conn'[d] = conn[d]
    BY <1>c, <1>t, <2>1, Zenon DEF ControlInv, ControlTypeOK, Conns
  <2> HIDE DEF k, t
  <2>5. TokensInTime'
    BY <1>p, <2>1, <2>4, ZenonT(30) DEF TokensInTime, Live
  <2>6. LoopAlone'
    <3>1. server["rtmp"].pc # "idle" => server["rtmp"].key \in LiveIds
      BY Zenon DEF ControlInv, ControlTypeOK, RtmpOnly
    <3> QED BY <1>p, <2>1, <2>2, <2>3, <3>1, Zenon DEF LoopAlone, InUse
  <2>7. LiveSessionHasChannel'
    BY <1>p, <2>1, <2>2, <2>3 DEF LiveSessionHasChannel, InUse
  <2>8. MarkedAreCancelled' /\ TimersInTime' /\ ConnectedHasPublisher'
    <3>1. \A d \in RtmpConns : conn[d].pc = "running" =>
            conn'[d].pc = "running" /\ conn'[d].token = conn[d].token
      BY <2>1, <2>4, Zenon
    <3> QED BY <1>p, <2>1, <3>1, QuietKeeps, Zenon DEF MarkedAreCancelled
  <2> QED BY <2>5, <2>6, <2>7, <2>8, Zenon
<1>7. ~RtspConnect(c) /\ ~RtspConnectFail(c) /\ ~RtspClose(c)
  BY <1>t, Zenon DEF RtspConnect, RtspConnectFail, RtspClose, RtmpPcs
<1> QED BY <1>1, <1>2, <1>3, <1>4, <1>5, <1>6, <1>7, Zenon DEF ConnStep

-----------------------------------------------------------------------------
(* The results *)

LEMMA RtmpInvInit == RtmpOnly /\ ControlInit => RtmpInv
<1> SUFFICES ASSUME RtmpOnly, ControlInit PROVE RtmpInv
  BY Zenon
<1>1. ControlInv
  BY ControlInvInit, Zenon
<1>2. /\ \A s \in Sessions : ~marked[s] /\ ttl[s] = "none"
      /\ \A c \in RtmpConns : conn[c].pc = "idle"
      /\ server["rtmp"].pc = "idle"
      /\ \A k \in LiveIds : ~InUse(k) /\ Phase(k) = "Absent"
  BY Zenon DEF ControlInit, RegistryInit, RtmpOnly, Conns, Idle, Waiting, InUse, Phase
<1> QED BY <1>1, <1>2, Zenon DEF RtmpInv, MarkedAreCancelled, TimersInTime, TokensInTime, LoopAlone,
           LiveSessionHasChannel, ConnectedHasPublisher

LEMMA RtmpInvNext == RtmpOnly /\ RtmpInv /\ [ControlNext]_controlVars => RtmpInv'
<1> SUFFICES ASSUME RtmpOnly, RtmpInv, [ControlNext]_controlVars PROVE RtmpInv'
  BY Zenon
<1>1. ControlInv'
  BY ControlInvNext, Zenon DEF RtmpInv
<1>2. CASE PeerStep
  BY <1>1, <1>2, PeerKeeps, Zenon
<1>3. ASSUME NEW p \in Protocols, ServerStep(p) PROVE RtmpInv'
  <2>1. p = "rtmp"
    BY Zenon DEF RtmpOnly
  <2> QED BY <1>1, <1>3, <2>1, LoopKeeps, Zenon
<1>4. ASSUME NEW s \in Sessions, TtlStep(s) PROVE RtmpInv'
  BY <1>1, <1>4, TimerKeeps, Zenon
<1>5. ASSUME NEW s \in Sessions, CleanupStep(s) PROVE RtmpInv'
  BY <1>1, <1>5, CleanupKeeps
<1>6. ASSUME NEW c \in Conns, ConnStep(c) PROVE RtmpInv'
  BY <1>1, <1>6, ConnKeeps, Zenon
<1>7. CASE UNCHANGED controlVars
  <2>1. UNCHANGED <<sessions, keyOf, state, cancelled, cleanup, marked, pending, ttl, server,
                    channel, conn>>
    BY <1>7, Zenon DEF controlVars, registryVars, lifecycleVars, serverVars
  <2>2. /\ \A s \in Sessions : Live(s)' <=> Live(s)
        /\ \A j \in LiveIds : Phase(j)' = Phase(j)
    BY <2>1, Zenon DEF Live, Phase
  <2> QED BY <1>1, <2>1, <2>2, QuietKeeps, Zenon DEF RtmpInv, MarkedAreCancelled
<1> QED BY <1>2, <1>3, <1>4, <1>5, <1>6, <1>7, Zenon DEF ControlNext

\* In an RTMP-only process a session that is not cancelled has its FLV channel: neither
\* remove_channel of a stop, nor that of an expired precreate timer, nor the late one of a
\* publisher that drained, takes the channel of a later session of the key.
THEOREM LiveSessionsHaveChannels ==
  ASSUME RtmpOnly
  PROVE  ControlSpec => []LiveSessionHasChannel
<1>1. RtmpInv => LiveSessionHasChannel
  BY Zenon DEF RtmpInv
<1>2. ControlInit => RtmpInv
  BY RtmpInvInit, Zenon
<1>3. RtmpInv /\ [ControlNext]_controlVars => RtmpInv'
  BY RtmpInvNext, Zenon
<1> QED BY <1>1, <1>2, <1>3, PTL DEF ControlSpec

\* In an RTMP-only process a session that is Connected and not cancelled has a publisher
\* that streams and watches that session's token: the first media message of a publisher
\* left over from an earlier session never connects the later one.
THEOREM ConnectedSessionsHavePublishers ==
  ASSUME RtmpOnly
  PROVE  ControlSpec => []ConnectedHasPublisher
<1>1. RtmpInv => ConnectedHasPublisher
  BY Zenon DEF RtmpInv
<1>2. ControlInit => RtmpInv
  BY RtmpInvInit
<1>3. RtmpInv /\ [ControlNext]_controlVars => RtmpInv'
  BY RtmpInvNext
<1> QED BY <1>1, <1>2, <1>3, PTL DEF ControlSpec

=============================================================================
