------------------------ MODULE SessionRegistryProofs ------------------------
(***************************************************************************)
(* Proofs about the session registry, for every set of stream keys and of  *)
(* sessions: its entries and cleanup tasks match one to one, a session in  *)
(* its grace period is final, and the registry implements LiveStream.      *)
(***************************************************************************)
EXTENDS SessionRegistry, TLAPS

\* A session has a cleanup task exactly when it has been registered.
BornWithCleanup ==
  \A s \in Sessions : state[s] = Unborn <=> cleanup[s] = "none"

\* The inductive invariant.
RegistryInv == /\ RegistryTypeOK
               /\ EntryHasItsCleanup
               /\ GraceIsFinal
               /\ BornWithCleanup

LEMMA RegistryInvInit == RegistryInit => RegistryInv
BY NoSessionAssumption
   DEF RegistryInit, RegistryInv, RegistryTypeOK, EntryHasItsCleanup, GraceIsFinal,
       BornWithCleanup, Unborn, SessionState

\* A legal update changes one registered session that is not Disconnected.
LEMMA UpdateEffect ==
  ASSUME NEW k \in LiveIds, NEW new \in SessionState, RegistryInv, UpdateState(k, new),
         state' # state
  PROVE  /\ sessions[k] \in Sessions
         /\ <<state[sessions[k]], new>> \in Transitions
         /\ state' = [state EXCEPT ![sessions[k]] = new]
<1>1. UpdateOk(k, new) /\ state' = [state EXCEPT ![sessions[k]] = new]
  BY DEF UpdateState
<1>2. sessions[k] \in Sessions
  BY <1>1 DEF UpdateOk, RegistryInv, RegistryTypeOK
<1>3. state[sessions[k]] # new
  BY <1>1, <1>2 DEF RegistryInv, RegistryTypeOK
<1> QED
  BY <1>1, <1>2, <1>3 DEF UpdateOk

LEMMA RegistryInvNext == RegistryInv /\ [RegistryNext]_registryVars => RegistryInv'
<1> SUFFICES ASSUME RegistryInv, [RegistryNext]_registryVars
             PROVE  RegistryInv'
  OBVIOUS
<1> USE NoSessionAssumption DEF RegistryInv, Unborn
<1>1. CASE ClientRegister
  <2> PICK k \in LiveIds, s \in Sessions : Register(k, s)
    BY <1>1 DEF ClientRegister
  <2>1. cleanup[s] = "none"
    BY DEF Register, BornWithCleanup
  <2>2. RegistryTypeOK'
    BY DEF Register, RegistryTypeOK, SessionState
  <2>3. EntryHasItsCleanup'
    BY <2>1 DEF Register, RegistryTypeOK, EntryHasItsCleanup
  <2>4. GraceIsFinal'
    BY <2>1 DEF Register, RegistryTypeOK, GraceIsFinal
  <2>5. BornWithCleanup'
    BY <2>1 DEF Register, RegistryTypeOK, BornWithCleanup
  <2> QED BY <2>2, <2>3, <2>4, <2>5
<1>2. CASE ClientUpdate
  <2> PICK k \in LiveIds, new \in SessionState : UpdateState(k, new)
    BY <1>2 DEF ClientUpdate
  <2>0. UNCHANGED <<sessions, keyOf, cancelled, cleanup>>
    BY <1>2 DEF ClientUpdate
  <2>1. CASE state' = state
    BY <2>0, <2>1 DEF RegistryTypeOK, EntryHasItsCleanup, GraceIsFinal, BornWithCleanup
  <2>2. CASE state' # state
    <3>1. /\ sessions[k] \in Sessions
          /\ <<state[sessions[k]], new>> \in Transitions
          /\ state' = [state EXCEPT ![sessions[k]] = new]
      BY <2>2, UpdateEffect
    <3>2. state[sessions[k]] # "Disconnected" /\ state[sessions[k]] # "New"
      BY <3>1 DEF Transitions, SessionState
    <3>3. new # "New"
      BY DEF SessionState
    <3>4. RegistryTypeOK'
      BY <2>0, <3>1, <3>2 DEF RegistryTypeOK
    <3>5. EntryHasItsCleanup'
      BY <2>0 DEF EntryHasItsCleanup
    <3>6. GraceIsFinal'
      BY <2>0, <3>1, <3>2 DEF GraceIsFinal, RegistryTypeOK
    <3>7. BornWithCleanup'
      BY <2>0, <3>1, <3>2, <3>3 DEF BornWithCleanup, RegistryTypeOK
    <3> QED BY <3>4, <3>5, <3>6, <3>7
  <2> QED BY <2>1, <2>2
<1>3. CASE ClientCancel
  BY <1>3 DEF ClientCancel, Cancel, RegistryTypeOK, EntryHasItsCleanup, GraceIsFinal,
              BornWithCleanup
<1>4. ASSUME NEW s \in Sessions, CleanupMark(s)
      PROVE  RegistryInv'
  BY <1>4 DEF CleanupMark, RegistryTypeOK, EntryHasItsCleanup, GraceIsFinal,
              BornWithCleanup, SessionState
<1>5. ASSUME NEW s \in Sessions, CleanupRemove(s)
      PROVE  RegistryInv'
  <2>1. keyOf[s] \in LiveIds /\ sessions[keyOf[s]] = s
    BY <1>5 DEF CleanupRemove, EntryHasItsCleanup
  <2>2. RegistryTypeOK'
    BY <1>5, <2>1 DEF CleanupRemove, RegistryTypeOK
  <2>3. EntryHasItsCleanup'
    BY <1>5, <2>1 DEF CleanupRemove, RegistryTypeOK, EntryHasItsCleanup
  <2>4. GraceIsFinal' /\ BornWithCleanup'
    BY <1>5 DEF CleanupRemove, RegistryTypeOK, GraceIsFinal, BornWithCleanup
  <2> QED BY <2>2, <2>3, <2>4
<1>6. CASE UNCHANGED registryVars
  BY <1>6 DEF registryVars, RegistryTypeOK, EntryHasItsCleanup, GraceIsFinal,
              BornWithCleanup
<1> QED
  BY <1>1, <1>2, <1>3, <1>4, <1>5, <1>6 DEF RegistryNext, CleanupTask

\* The variables of the registry keep their types, whatever its clients call.
THEOREM RegistryTypeCorrect == RegistrySpec => []RegistryTypeOK
<1>1. RegistryInv => RegistryTypeOK
  BY DEF RegistryInv
<1> QED
  BY <1>1, RegistryInvInit, RegistryInvNext, PTL DEF RegistrySpec

\* register_session and the cleanup task keep entries and tasks one to one, so that
\* the removal by key never removes the entry of another session.
THEOREM CleanupOwnsItsEntry == RegistrySpec => []EntryHasItsCleanup
<1>1. RegistryInv => EntryHasItsCleanup
  BY DEF RegistryInv
<1> QED
  BY <1>1, RegistryInvInit, RegistryInvNext, PTL DEF RegistrySpec

\* No update_state call revives a session in its grace period.
THEOREM GraceFinality == RegistrySpec => []GraceIsFinal
<1>1. RegistryInv => GraceIsFinal
  BY DEF RegistryInv
<1> QED
  BY <1>1, RegistryInvInit, RegistryInvNext, PTL DEF RegistrySpec

-----------------------------------------------------------------------------
(* What the components that use the registry need to know of it *)

\* The sessions registered so far.
Born == {s \in Sessions : state[s] # Unborn}

\* A token found in the registry belongs to a registered session.
LEMMA TokensAreBorn ==
  ASSUME RegistryInv, NEW k \in LiveIds
  PROVE  TokensAt(k) \subseteq Born
BY NoSessionAssumption
   DEF RegistryInv, RegistryTypeOK, EntryHasItsCleanup, BornWithCleanup, TokensAt, Born

\* Cancelling registered sessions is an operation of the registry.
LEMMA CancelIsRegistryStep ==
  ASSUME NEW S \in SUBSET Born, Cancel(S), UNCHANGED <<sessions, keyOf, state, cleanup>>
  PROVE  RegistryNext
BY DEF Born, ClientCancel, RegistryNext

\* So is update_state of a key.
LEMMA UpdateIsRegistryStep ==
  ASSUME NEW k \in LiveIds, NEW new \in SessionState, UpdateState(k, new),
         UNCHANGED <<sessions, keyOf, cancelled, cleanup>>
  PROVE  RegistryNext
BY DEF ClientUpdate, RegistryNext

\* A registered session stays registered, under its key.
LEMMA BornForGood ==
  ASSUME RegistryInv, [RegistryNext]_registryVars, NEW s \in Born
  PROVE  s \in Born' /\ keyOf'[s] = keyOf[s]
<1> USE DEF Born, RegistryInv, Unborn
<1>1. CASE ClientRegister
  BY <1>1 DEF ClientRegister, Register, RegistryTypeOK
<1>2. CASE ClientUpdate
  BY <1>2 DEF ClientUpdate, UpdateState, RegistryTypeOK, SessionState
<1>3. CASE ClientCancel
  BY <1>3 DEF ClientCancel
<1>4. CASE \E t \in Sessions : CleanupTask(t)
  BY <1>4 DEF CleanupTask, CleanupMark, CleanupRemove, RegistryTypeOK
<1>5. CASE UNCHANGED registryVars
  BY <1>5 DEF registryVars
<1> QED
  BY <1>1, <1>2, <1>3, <1>4, <1>5 DEF RegistryNext

\* A registered session that has left the map never comes back: register_session
\* inserts new sessions only.
LEMMA GoneForGood ==
  ASSUME RegistryInv, [RegistryNext]_registryVars, NEW s \in Born,
         \A k \in LiveIds : sessions[k] # s
  PROVE  \A k \in LiveIds : sessions'[k] # s
<1> USE NoSessionAssumption DEF Born, RegistryInv
<1>1. CASE ClientRegister
  BY <1>1 DEF ClientRegister, Register, RegistryTypeOK
<1>2. CASE \E t \in Sessions : CleanupTask(t)
  BY <1>2 DEF CleanupTask, CleanupMark, CleanupRemove, RegistryTypeOK
<1>3. CASE ClientUpdate \/ ClientCancel \/ UNCHANGED registryVars
  BY <1>3 DEF ClientUpdate, ClientCancel, registryVars
<1> QED
  BY <1>1, <1>2, <1>3 DEF RegistryNext

-----------------------------------------------------------------------------
(* The registry implements LiveStream *)

\* The mapped variable of LiveStream.
phases == [k \in LiveIds |-> Phase(k)]

\* If a step changes the phase of key k only, from one of `from' to `to', it is a
\* LiveStream step of k.
LEMMA MapsToStep ==
  ASSUME NEW k \in LiveIds, NEW from, NEW to,
         Phase(k) \in from,
         Phase(k)' = to,
         \A j \in LiveIds \ {k} : Phase(j)' = Phase(j)
  PROVE  Stream!Step(k, from, to)
BY Zenon DEF Stream!Step

\* A transition of update_state is one of LiveStream.
LEMMA TransitionMaps ==
  ASSUME NEW k \in LiveIds, NEW new,
         <<Phase(k), new>> \in Transitions,
         Phase(k)' = new,
         \A j \in LiveIds \ {k} : Phase(j)' = Phase(j)
  PROVE  Stream!Next
<1>1. CASE new = "Connecting"
  <2>1. Phase(k) \in {"Pending"}
    BY <1>1 DEF Transitions, SessionState
  <2> QED BY <1>1, <2>1, MapsToStep DEF Stream!Next, Stream!Accept
<1>2. CASE new = "Connected"
  <2>1. Phase(k) \in {"Pending", "Connecting"}
    BY <1>2 DEF Transitions, SessionState
  <2> QED BY <1>2, <2>1, MapsToStep DEF Stream!Next, Stream!Start
<1>3. CASE new = "Disconnected"
  <2>1. Phase(k) \in {"Pending", "Connecting", "Connected"}
    BY <1>3 DEF Transitions, SessionState
  <2> QED BY <1>3, <2>1, MapsToStep DEF Stream!Next, Stream!Close
<1> QED
  BY <1>1, <1>2, <1>3 DEF Transitions, SessionState

LEMMA RegistryStepRefines ==
  RegistryInv /\ [RegistryNext]_registryVars => [Stream!Next]_phases
<1> SUFFICES ASSUME RegistryInv, [RegistryNext]_registryVars
             PROVE  [Stream!Next]_phases
  OBVIOUS
<1> USE NoSessionAssumption DEF RegistryInv, Unborn
<1>0. \A j \in LiveIds : sessions[j] \in Sessions \cup {NoSession}
  BY DEF RegistryTypeOK
<1>1. CASE ClientRegister
  <2> PICK k \in LiveIds, s \in Sessions : Register(k, s)
    BY <1>1 DEF ClientRegister
  <2>1. \A j \in LiveIds : sessions[j] # s
    BY DEF Register, EntryHasItsCleanup, BornWithCleanup
  <2>2. Phase(k) \in {"Absent"} /\ Phase(k)' = "Pending"
    BY DEF Register, Phase, RegistryTypeOK
  <2>3. \A j \in LiveIds \ {k} : Phase(j)' = Phase(j)
    BY <1>0, <2>1 DEF Register, Phase, RegistryTypeOK
  <2> QED BY <2>2, <2>3, MapsToStep DEF Stream!Next, Stream!Open
<1>2. CASE ClientUpdate
  <2> PICK k \in LiveIds, new \in SessionState : UpdateState(k, new)
    BY <1>2 DEF ClientUpdate
  <2>0. UNCHANGED <<sessions, keyOf, cancelled, cleanup>>
    BY <1>2 DEF ClientUpdate
  <2>1. CASE state' = state
    BY <2>0, <2>1 DEF phases, Phase
  <2>2. CASE state' # state
    <3>1. /\ sessions[k] \in Sessions
          /\ <<state[sessions[k]], new>> \in Transitions
          /\ state' = [state EXCEPT ![sessions[k]] = new]
      BY <2>2, UpdateEffect
    <3>2. <<Phase(k), new>> \in Transitions /\ Phase(k)' = new
      BY <2>0, <3>1 DEF Phase, RegistryTypeOK
    <3>3. \A j \in LiveIds \ {k} : sessions[j] # sessions[k]
      BY <3>1 DEF EntryHasItsCleanup
    <3>4. \A j \in LiveIds \ {k} : Phase(j)' = Phase(j)
      BY <1>0, <2>0, <3>1, <3>3 DEF Phase, RegistryTypeOK
    <3> QED BY <3>2, <3>4, TransitionMaps
  <2> QED BY <2>1, <2>2
<1>3. CASE ClientCancel
  BY <1>3 DEF ClientCancel, phases, Phase
<1>4. ASSUME NEW s \in Sessions, CleanupMark(s)
      PROVE  [Stream!Next]_phases
  <2>0. PICK k \in LiveIds : k = keyOf[s]
    BY <1>4 DEF CleanupMark, EntryHasItsCleanup
  <2>1. sessions[k] = s /\ state[s] \in SessionState
    BY <1>4, <2>0 DEF CleanupMark, EntryHasItsCleanup, BornWithCleanup, RegistryTypeOK
  <2>2. \A j \in LiveIds \ {k} : sessions[j] # s
    BY <2>0 DEF EntryHasItsCleanup
  <2>3. Phase(k) = state[s] /\ Phase(k)' = "Disconnected"
    BY <1>4, <2>1 DEF CleanupMark, Phase, RegistryTypeOK
  <2>4. \A j \in LiveIds \ {k} : Phase(j)' = Phase(j)
    BY <1>0, <1>4, <2>2 DEF CleanupMark, Phase, RegistryTypeOK
  <2>5. CASE state[s] = "Disconnected"
    BY <2>1, <2>3, <2>4, <2>5 DEF phases
  <2>6. CASE state[s] # "Disconnected"
    <3>1. Phase(k) \in {"Pending", "Connecting", "Connected"}
      BY <2>1, <2>3, <2>6 DEF SessionState
    <3> QED BY <2>1, <2>3, <2>4, <3>1, MapsToStep DEF Stream!Next, Stream!Close
  <2> QED BY <2>5, <2>6
<1>5. ASSUME NEW s \in Sessions, CleanupRemove(s)
      PROVE  [Stream!Next]_phases
  <2>0. PICK k \in LiveIds : k = keyOf[s]
    BY <1>5 DEF CleanupRemove, EntryHasItsCleanup
  <2>1. sessions[k] = s /\ state[s] = "Disconnected"
    BY <1>5, <2>0 DEF CleanupRemove, EntryHasItsCleanup, GraceIsFinal
  <2>2. Phase(k) \in {"Disconnected"} /\ Phase(k)' = "Absent"
    BY <1>5, <2>0, <2>1 DEF CleanupRemove, Phase, RegistryTypeOK
  <2>3. \A j \in LiveIds \ {k} : Phase(j)' = Phase(j)
    BY <1>5, <2>0 DEF CleanupRemove, Phase, RegistryTypeOK
  <2> QED BY <2>1, <2>2, <2>3, MapsToStep DEF Stream!Next, Stream!Forget
<1>6. CASE UNCHANGED registryVars
  BY <1>6 DEF registryVars, phases, Phase
<1> QED
  BY <1>1, <1>2, <1>3, <1>4, <1>5, <1>6 DEF RegistryNext, CleanupTask

\* The registry implements the stream life cycle for any number of keys, sessions
\* and racing clients.
THEOREM RegistryImplementsLiveStream == RegistrySpec => ImplementsLiveStream
<1>1. RegistryInit => Stream!Init
  BY DEF RegistryInit, Stream!Init, Phase
<1> QED
  BY <1>1, RegistryInvInit, RegistryInvNext, RegistryStepRefines, PTL
     DEF RegistrySpec, ImplementsLiveStream, Stream!Spec, phases
=============================================================================
