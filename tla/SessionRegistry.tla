--------------------------- MODULE SessionRegistry ---------------------------
(***************************************************************************)
(* The session registry (registry/session.rs): a concurrent map from       *)
(* stream keys to session entries.  An entry holds the session's           *)
(* descriptor (behind an RwLock) and its cancellation token; registering   *)
(* an entry spawns the only task that ever removes one: it waits for the   *)
(* token, marks the descriptor Disconnected, sleeps for the grace period   *)
(* and removes the stream key.                                             *)
(*                                                                         *)
(* A member of Sessions stands for one registered entry: its descriptor,   *)
(* its token and its cleanup task.  The same stream key is used by many    *)
(* sessions, one after the other; readers and writers reach a session only *)
(* through its key, the cleanup task holds it directly.                    *)
(*                                                                         *)
(* update_state looks the entry up and then takes its write lock.  It is   *)
(* one action here: if the entry leaves the map in between, its state is   *)
(* Disconnected by then and the call fails, as it also does just before    *)
(* the removal.                                                            *)
(***************************************************************************)

CONSTANTS LiveIds,         \* stream keys
          Sessions,        \* identities of session entries
          NoSession        \* "the map has no entry for this key"

ASSUME NoSessionAssumption == NoSession \notin Sessions

VARIABLES sessions,        \* the map: stream key -> session, or NoSession
          keyOf,           \* the stream key a session was registered under
          state,           \* descriptor.state of every session
          cancelled,       \* is the session's token cancelled?
          cleanup          \* where the session's cleanup task is

registryVars == <<sessions, keyOf, state, cancelled, cleanup>>

SessionState == {"Pending", "Connecting", "Connected", "Disconnected"}

\* "New" sessions have not been registered yet: they have no key, state or task.
Unborn == "New"

RegistryInit ==
  /\ sessions = [k \in LiveIds |-> NoSession]
  /\ keyOf = [s \in Sessions |-> Unborn]
  /\ state = [s \in Sessions |-> Unborn]
  /\ cancelled = [s \in Sessions |-> FALSE]
  /\ cleanup = [s \in Sessions |-> "none"]

-----------------------------------------------------------------------------
\* Mutation: insert whether or not the entry is vacant.
RegisterOccupied(k, s) ==
  /\ state[s] = Unborn
  /\ sessions' = [sessions EXCEPT ![k] = s]
  /\ keyOf' = [keyOf EXCEPT ![s] = k]
  /\ state' = [state EXCEPT ![s] = "Pending"]
  /\ cleanup' = [cleanup EXCEPT ![s] = "waiting"]
  /\ UNCHANGED cancelled

\* register_session, vacant entry: insert the Pending session s, spawn its
\* cleanup task.
Register(k, s) ==
  /\ sessions[k] = NoSession
  /\ state[s] = Unborn
  /\ sessions' = [sessions EXCEPT ![k] = s]
  /\ keyOf' = [keyOf EXCEPT ![s] = k]
  /\ state' = [state EXCEPT ![s] = "Pending"]
  /\ cleanup' = [cleanup EXCEPT ![s] = "waiting"]
  /\ UNCHANGED cancelled

\* register_session, occupied entry: "Stream key is already in use".
InUse(k) == sessions[k] # NoSession

\* Mutation: media that stalls moves a session back to Connecting.
TransitionsBack == {<<"Pending", "Connecting">>,
                    <<"Pending", "Connected">>,
                    <<"Connecting", "Connected">>,
                    <<"Connected", "Connecting">>}
                    \cup {<<old, "Disconnected">> :
                            old \in SessionState \ {"Disconnected"}}

\* The changes that update_state makes; every other request is an error, or
\* (new = old) succeeds without one.
Transitions == {<<"Pending", "Connecting">>,
                <<"Pending", "Connected">>,
                <<"Connecting", "Connected">>}
                \cup {<<old, "Disconnected">> :
                        old \in SessionState \ {"Disconnected"}}

\* Mutation: update_state writes without looking at the old state.
UpdateUnchecked(k, new) == sessions[k] # NoSession /\ new \in SessionState

\* update_state(k, new) returns Ok: unchanged, or a legal transition.
UpdateOk(k, new) ==
  /\ sessions[k] # NoSession
  /\ state[sessions[k]] # "Disconnected"
  /\ \/ state[sessions[k]] = new
     \/ <<state[sessions[k]], new>> \in Transitions

\* update_state(k, new), with its effect on the descriptors.
UpdateState(k, new) ==
  state' = IF UpdateOk(k, new) THEN [state EXCEPT ![sessions[k]] = new] ELSE state

\* CancellationToken::cancel on the tokens of the sessions in S (idempotent).
Cancel(S) == cancelled' = [s \in Sessions |-> cancelled[s] \/ s \in S]

\* get_cancel_token(k): the tokens found under k, at most one.
TokensAt(k) == {sessions[k]} \ {NoSession}

\* The cleanup task: ct.cancelled().await, then state = Disconnected.
CleanupMark(s) ==
  /\ cleanup[s] = "waiting"
  /\ cancelled[s]
  /\ state' = [state EXCEPT ![s] = "Disconnected"]
  /\ cleanup' = [cleanup EXCEPT ![s] = "grace"]
  /\ UNCHANGED <<sessions, keyOf, cancelled>>

\* Mutation: the task ends without removing the key.
CleanupLeavesKey(s) ==
  /\ cleanup[s] = "grace"
  /\ cleanup' = [cleanup EXCEPT ![s] = "done"]
  /\ UNCHANGED <<sessions, keyOf, state, cancelled>>

\* The cleanup task, after SESSION_REMOVAL_GRACE_PERIOD: sessions.remove(key).
\* The removal is by key, whatever entry the key holds by then.
CleanupRemove(s) ==
  /\ cleanup[s] = "grace"
  /\ sessions' = [sessions EXCEPT ![keyOf[s]] = NoSession]
  /\ cleanup' = [cleanup EXCEPT ![s] = "done"]
  /\ UNCHANGED <<keyOf, state, cancelled>>

-----------------------------------------------------------------------------
(***************************************************************************)
(* The registry on its own: any task of the process may call it at any     *)
(* time.                                                                   *)
(***************************************************************************)
ClientRegister == \E k \in LiveIds, s \in Sessions : Register(k, s)

ClientUpdate == /\ \E k \in LiveIds, new \in SessionState : UpdateState(k, new)
                /\ UNCHANGED <<sessions, keyOf, cancelled, cleanup>>

\* Whoever holds a clone of a session's token may cancel it: a protocol server
\* (its token is the parent), a lifecycle, a publisher; some cancel two at once.
ClientCancel == /\ \E S \in SUBSET {s \in Sessions : state[s] # Unborn} : Cancel(S)
                /\ UNCHANGED <<sessions, keyOf, state, cleanup>>

CleanupTask(s) == CleanupMark(s) \/ CleanupRemove(s)

RegistryNext == \/ ClientRegister
                \/ ClientUpdate
                \/ ClientCancel
                \/ \E s \in Sessions : CleanupTask(s)

RegistrySpec == RegistryInit /\ [][RegistryNext]_registryVars

-----------------------------------------------------------------------------
\* Type invariant of the registry's variables.
RegistryTypeOK ==
  /\ sessions \in [LiveIds -> Sessions \cup {NoSession}]
  /\ keyOf \in [Sessions -> LiveIds \cup {Unborn}]
  /\ state \in [Sessions -> SessionState \cup {Unborn}]
  /\ cancelled \in [Sessions -> BOOLEAN]
  /\ cleanup \in [Sessions -> {"none", "waiting", "grace", "done"}]
  /\ \A s \in Sessions : state[s] # Unborn => keyOf[s] \in LiveIds

\* Every entry of the map has exactly one live cleanup task, and every live
\* cleanup task has its own session under its key.  This is what makes the
\* removal by key (session.rs, sessions.remove(&stream_key)) safe: a task never
\* removes the entry of a later session, and no entry is left without a task
\* that can remove it.
EntryHasItsCleanup ==
  \A s \in Sessions :
    /\ cleanup[s] \in {"waiting", "grace"} =>
         keyOf[s] \in LiveIds /\ sessions[keyOf[s]] = s
    /\ \A k \in LiveIds : sessions[k] = s =>
         keyOf[s] = k /\ cleanup[s] \in {"waiting", "grace"}

\* A session in its grace period is over for good: its token is cancelled and no
\* update_state racing with the cleanup task brings its descriptor back.
GraceIsFinal ==
  \A s \in Sessions : cleanup[s] \in {"grace", "done"} =>
    cancelled[s] /\ state[s] = "Disconnected"

\* The phase of a key, as get_state reports it.
Phase(k) == IF sessions[k] = NoSession THEN "Absent" ELSE state[sessions[k]]

Stream == INSTANCE LiveStream WITH phase <- [k \in LiveIds |-> Phase(k)]

\* The registry implements the stream life cycle: the phases of a key only ever
\* move forward, whichever tasks race on update_state, cancel and cleanup.
ImplementsLiveStream == Stream!Spec
=============================================================================
