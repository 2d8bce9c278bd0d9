------------------------------- MODULE Process -------------------------------
(***************************************************************************)
(* The life of the process (main.rs): it starts the servers that can bind, *)
(* waits for a signal or for a server that fails, cancels everything, and  *)
(* drains the server tasks under a deadline.  Of the servers, RTMP is      *)
(* IngestServer; RTSP runs the same loop and is abstracted to its end;     *)
(* gRPC and HTTP-FLV shut down gracefully, that is, wait for the requests  *)
(* in flight.  The servers' tokens are children of the root token.         *)
(***************************************************************************)
EXTENDS IngestServer

Graceful == {"grpc", "http"}
Servers == Graceful \cup {"rtsp"}

VARIABLES phase,       \* of main: "starting", "running", "draining", "exited"
          server,      \* the task of every other server: "off", "running" or "ended"
          busy,        \* does a graceful server have requests in flight?
          errors,      \* the error channel, of capacity one
          failure,     \* first_error
          exit,        \* how the process has ended
          cause        \* history: what has happened to the process, "signal", "failure"

mainVars == <<phase, errors, failure, exit>>
otherVars == <<server, busy>>
processVars == <<ingestVars, mainVars, otherVars, cause>>

ProcessInit ==
  /\ IngestInit
  /\ phase = "starting"
  /\ server = [s \in Servers |-> "off"]
  /\ busy = [s \in Graceful |-> FALSE]
  /\ errors = 0
  /\ failure = FALSE
  /\ exit = [code |-> "none", drained |-> FALSE]
  /\ cause = {}

\* The root token: every server's is its child.  Cancelling it again does nothing.
CancelAll == Cancel \/ (cancel /\ UNCHANGED ingestVars)

-----------------------------------------------------------------------------
(* main *)

\* Telemetry or configuration fails and the process with it, or the servers are
\* created: gRPC always, each of the others if it can bind.
Start ==
  /\ phase = "starting"
  /\ \/ /\ phase' = "exited"
        /\ exit' = [code |-> "error", drained |-> FALSE]
        /\ cause' = cause \cup {"failure"}
        /\ UNCHANGED <<server, ingestVars>>
     \/ /\ \E up \in SUBSET Servers :
             /\ "grpc" \in up
             /\ server' = [s \in Servers |-> IF s \in up THEN "running" ELSE "off"]
        /\ Bind \/ UNCHANGED ingestVars
        /\ phase' = "running"
        /\ UNCHANGED <<exit, cause>>
  /\ UNCHANGED <<busy, errors, failure>>

\* wait_for_shutdown_signal in a task of its own.
Signal ==
  /\ phase # "starting" /\ "signal" \notin cause
  /\ cause' = cause \cup {"signal"}
  /\ CancelAll
  /\ UNCHANGED <<mainVars, otherVars>>


\* The wait ends with the first error or with the token; everything is cancelled.
MainWakes ==
  /\ phase = "running"
  /\ \/ errors = 1 /\ errors' = 0 /\ failure' = TRUE
     \/ cancel /\ UNCHANGED <<errors, failure>>
  /\ phase' = "draining"
  /\ CancelAll
  /\ UNCHANGED <<exit, otherVars, cause>>

Exit(drained) ==
  /\ phase' = "exited"
  /\ exit' = [code |-> IF failure THEN "error" ELSE "ok", drained |-> drained]
  /\ UNCHANGED <<ingestVars, otherVars, errors, failure, cause>>

\* drain_handle: a server that was not started counts as drained.
Drained == loop \in {"off", "over"} /\ \A s \in Servers : server[s] # "running"

\* Every server that was started has ended, or the drain timeout is over.  What still
\* runs then ends with the process.
MainDrained == phase = "draining" /\ Drained /\ Exit(TRUE)
MainTimeout == phase = "draining" /\ ~Drained /\ Exit(FALSE)

-----------------------------------------------------------------------------
(* The servers *)

\* A request reaches a graceful server, and is over.
Request(s) ==
  /\ server[s] = "running"
  /\ ~cancel \/ busy[s]
  /\ busy' = [busy EXCEPT ![s] = ~@]
  /\ UNCHANGED <<ingestVars, mainVars, server, cause>>

\* serve_with_shutdown, with_graceful_shutdown; RTSP aborts its connections.
ServerStops(s) ==
  /\ server[s] = "running"
  /\ cancel
  /\ s \in Graceful => ~busy[s]
  /\ server' = [server EXCEPT ![s] = "ended"]
  /\ UNCHANGED <<ingestVars, mainVars, busy, cause>>

\* A graceful server fails; spawn_server reports that, unless the channel holds an error.
ServerFails(s) ==
  /\ server[s] = "running"
  /\ server' = [server EXCEPT ![s] = "ended"]
  /\ busy' = [busy EXCEPT ![s] = FALSE]
  /\ errors' = 1
  /\ cause' = cause \cup {"failure"}
  /\ UNCHANGED <<ingestVars, phase, failure, exit>>

-----------------------------------------------------------------------------
(* The RTMP server's own steps *)
Ingest(step) == phase # "exited" /\ step /\ UNCHANGED <<mainVars, otherVars, cause>>

MainStep == Start \/ MainWakes \/ MainDrained

ProcessNext ==
  \/ MainStep \/ MainTimeout
  \/ Ingest(Pause) \/ Ingest(Resume) \/ Ingest(LoopLeaves) \/ Ingest(ServerEnds)
  \/ \E c \in Conns : Ingest(Accept(c)) \/ Ingest(HandlerEnds(c))
  \/ /\ phase # "exited"
     /\ \/ Signal
        \/ \E s \in Servers : ServerStops(s)
        \/ \E s \in Graceful : Request(s) \/ ServerFails(s)

ProcessSpec == ProcessInit /\ [][ProcessNext]_processVars

\* Tasks that can go on are polled; for the loop see IngestServer.  Clients and requests
\* owe nothing, and nothing rests on the drain timeout.
ProcessFairSpec ==
  /\ ProcessSpec
  /\ WF_processVars(MainStep)
  /\ WF_processVars(Ingest(Resume)) /\ SF_processVars(Ingest(LoopLeaves))
  /\ WF_processVars(Ingest(ServerEnds))
  /\ WF_processVars(\E c \in Conns : Ingest(Aborted(c)))
  /\ \A s \in Servers : WF_processVars(phase # "exited" /\ ServerStops(s))

-----------------------------------------------------------------------------
(* Properties *)

\* What the process says when it ends is true.  "All servers shut down gracefully"
\* (main.rs): no connection handler is left, no request is in flight and no connection
\* is accepted any more.  It exits with success only if a signal has asked for that, and
\* with an error only if a server (or the start) has failed.
ExitTruthful ==
  /\ exit.drained => /\ \A c \in Conns : handler[c] # "running"
                     /\ \A s \in Graceful : ~busy[s]
                     /\ loop \in {"off", "over"}
  /\ exit.code = "ok" => "signal" \in cause
  /\ exit.code = "error" => "failure" \in cause

=============================================================================
