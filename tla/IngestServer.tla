----------------------------- MODULE IngestServer -----------------------------
(***************************************************************************)
(* What an ingest server promises about its connections                    *)
(* (ProtocolServerCore in protocol_server.rs): the accept loop with its    *)
(* connection limit and its backoff, the JoinSet of connection tasks, and  *)
(* the shutdown that aborts and awaits them.  What a connection task does  *)
(* is left open: it ends by itself at any time, or is aborted.             *)
(* RtmpConnection implements this specification, and Process uses it.      *)
(***************************************************************************)
EXTENDS Naturals, FiniteSets

CONSTANTS Conns,      \* the connections that clients make, each once
          Limits      \* values of max_connections to configure, 0 for no limit

ASSUME IngestAssumption == Limits \subseteq Nat /\ IsFiniteSet(Conns)

VARIABLES loop,       \* "off", "select", "backoff", "draining", "over"
          limit,      \* max_connections
          handler,    \* every connection: "none", "refused", "running", "done"
          tasks,      \* the JoinSet; nothing leaves it while the server runs
          cancel      \* the server's token

ingestVars == <<loop, limit, handler, tasks, cancel>>

IngestInit ==
  /\ loop = "off"
  /\ limit \in Limits
  /\ handler = [c \in Conns |-> "none"]
  /\ tasks = {}
  /\ cancel = FALSE

\* from_config binds the listener and run() is spawned.
Bind ==
  /\ loop = "off"
  /\ loop' = "select"
  /\ UNCHANGED <<limit, handler, tasks, cancel>>

\* The connections with a handler.
Running == {c \in Conns : handler[c] = "running"}

\* acquire_permit: a permit lives as long as its connection task.
PermitFree == limit = 0 \/ Cardinality(Running) < limit

\* Mutation: the connection is spawned as a task of its own.
AcceptDetached(c) ==
  /\ loop = "select"
  /\ handler[c] = "none"
  /\ handler' = [handler EXCEPT ![c] = IF PermitFree THEN "running" ELSE "refused"]
  /\ UNCHANGED <<loop, limit, tasks, cancel>>

\* handle_accept_result, spawn_accepted: a connection gets a permit and a task of the
\* JoinSet, or its socket is dropped.
Accept(c) ==
  /\ loop = "select"
  /\ handler[c] = "none"
  /\ \/ /\ PermitFree
        /\ handler' = [handler EXCEPT ![c] = "running"]
        /\ tasks' = tasks \cup {c}
     \/ /\ ~PermitFree
        /\ handler' = [handler EXCEPT ![c] = "refused"]
        /\ UNCHANGED tasks
  /\ UNCHANGED <<loop, limit, cancel>>

\* accept() has failed, or nobody is left to send control messages: the loop sleeps
\* and watches nothing meanwhile.
Pause ==
  /\ loop = "select"
  /\ loop' = "backoff"
  /\ UNCHANGED <<limit, handler, tasks, cancel>>

Resume ==
  /\ loop = "backoff"
  /\ loop' = "select"
  /\ UNCHANGED <<limit, handler, tasks, cancel>>

\* The connection task returns.
HandlerEnds(c) ==
  /\ handler[c] = "running"
  /\ handler' = [handler EXCEPT ![c] = "done"]
  /\ UNCHANGED <<loop, limit, tasks, cancel>>

\* The process is shut down.
Cancel ==
  /\ ~cancel
  /\ cancel' = TRUE
  /\ UNCHANGED <<loop, limit, handler, tasks>>

\* The token ends the loop; JoinSet::shutdown aborts every connection task ...
LoopLeaves ==
  /\ loop = "select"
  /\ cancel
  /\ loop' = "draining"
  /\ UNCHANGED <<limit, handler, tasks, cancel>>

Aborted(c) == loop = "draining" /\ HandlerEnds(c)

\* ... and run() returns when the last one has been dropped.
ServerEnds ==
  /\ loop = "draining"
  /\ \A c \in tasks : handler[c] # "running"
  /\ loop' = "over"
  /\ UNCHANGED <<limit, handler, tasks, cancel>>

IngestNext ==
  \/ Bind \/ Pause \/ Resume \/ Cancel \/ LoopLeaves \/ ServerEnds
  \/ \E c \in Conns : Accept(c) \/ HandlerEnds(c)

\* select! picks among what is ready at random: a loop that comes back to it again and
\* again leaves at last.  Tasks that have been aborted are dropped, one after the other.
IngestFairness ==
  /\ WF_ingestVars(Resume)
  /\ SF_ingestVars(LoopLeaves)
  /\ WF_ingestVars(ServerEnds)
  /\ WF_ingestVars(\E c \in Conns : Aborted(c))

IngestSpec == IngestInit /\ [][IngestNext]_ingestVars /\ IngestFairness

\* Type invariant.
IngestTypeOK ==
  /\ loop \in {"off", "select", "backoff", "draining", "over"}
  /\ limit \in Limits
  /\ handler \in [Conns -> {"none", "refused", "running", "done"}]
  /\ tasks \subseteq Conns
  /\ cancel \in BOOLEAN

\* There are never more connection handlers than max_connections allows, though permits
\* come and go with handlers that end at any time (acquire_permit, spawn_accepted).
LimitKept == limit # 0 => Cardinality(Running) <= limit

\* Every handler is a task of the JoinSet, and a server that is over, or was never
\* started, has none: nothing that was accepted outlives run().
HandlersTracked == /\ Running \subseteq tasks
                   /\ loop \in {"off", "over"} => Running = {}
=============================================================================
