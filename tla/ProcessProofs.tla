---------------------------- MODULE ProcessProofs ----------------------------
(***************************************************************************)
(* Proofs about IngestServer and about Process, for any set of connections *)
(* and any limits.                                                         *)
(***************************************************************************)
EXTENDS Process, FiniteSetTheorems, TLAPS

-----------------------------------------------------------------------------
(* The ingest server *)

IngestInv == IngestTypeOK /\ LimitKept /\ HandlersTracked

LEMMA RunningFinite == IsFiniteSet(Running) /\ Cardinality(Running) \in Nat
  <1>1. IsFiniteSet(Conns)  BY IngestAssumption
  <1>2. IsFiniteSet(Running)  BY <1>1, FS_Subset DEF Running
  <1> QED  BY <1>2, FS_CardinalityType

\* Initially there are no handlers.
LEMMA IngestInvInit == IngestInit => IngestInv
  <1> SUFFICES ASSUME IngestInit PROVE IngestInv
    OBVIOUS
  <1>1. IngestTypeOK  BY Zenon DEF IngestInit, IngestTypeOK
  <1>2. Running = {}  BY DEF IngestInit, Running
  <1>3. HandlersTracked  BY <1>2 DEF HandlersTracked
  <1>4. LimitKept
    <2>1. Cardinality(Running) = 0  BY <1>2, FS_EmptySet
    <2>2. limit \in Nat  BY <1>1, IngestAssumption DEF IngestTypeOK
    <2> QED  BY <2>1, <2>2 DEF LimitKept
  <1> QED  BY <1>1, <1>3, <1>4 DEF IngestInv

\* Every step of the server, and every step that leaves it alone, keeps the limit and
\* the JoinSet.
LEMMA IngestInvStep ==
  ASSUME IngestInv, [IngestNext]_ingestVars
  PROVE  IngestInv'
  <1> USE DEF IngestInv
  <1>1. CASE UNCHANGED ingestVars
    BY <1>1 DEF ingestVars, IngestTypeOK, LimitKept, HandlersTracked, Running
  <1>2. CASE Bind \/ Pause \/ Resume \/ Cancel \/ LoopLeaves
    <2>1. Running' = Running
      BY <1>2 DEF Bind, Pause, Resume, Cancel, LoopLeaves, Running
    <2>2. IngestTypeOK'
      BY <1>2, Zenon DEF Bind, Pause, Resume, Cancel, LoopLeaves, IngestTypeOK
    <2>3. LimitKept'
      BY <1>2, <2>1 DEF Bind, Pause, Resume, Cancel, LoopLeaves, LimitKept
    <2>4. HandlersTracked'
      BY <1>2, <2>1 DEF Bind, Pause, Resume, Cancel, LoopLeaves, HandlersTracked
    <2> QED  BY <2>2, <2>3, <2>4
  <1>3. CASE ServerEnds
    <2>1. Running' = Running  BY <1>3 DEF ServerEnds, Running
    <2>2. Running = {}
      BY <1>3 DEF ServerEnds, HandlersTracked, Running
    <2>3. IngestTypeOK'  BY <1>3 DEF ServerEnds, IngestTypeOK
    <2>4. LimitKept'  BY <1>3, <2>1 DEF ServerEnds, LimitKept
    <2>5. HandlersTracked'  BY <2>1, <2>2 DEF HandlersTracked
    <2> QED  BY <2>3, <2>4, <2>5
  <1>4. ASSUME NEW c \in Conns, Accept(c)
        PROVE  IngestInv'
    <2>1. IngestTypeOK'  BY <1>4 DEF Accept, IngestTypeOK
    <2>2. CASE PermitFree /\ handler' = [handler EXCEPT ![c] = "running"]
                          /\ tasks' = tasks \cup {c}
      <3>1. Running' = Running \cup {c} /\ c \notin Running
        BY <1>4, <2>2 DEF Accept, Running, IngestTypeOK
      <3>2. HandlersTracked'
        BY <1>4, <2>2, <3>1 DEF Accept, HandlersTracked
      <3>3. Cardinality(Running') = Cardinality(Running) + 1
        BY <3>1, RunningFinite, FS_AddElement
      <3>4. limit \in Nat /\ limit' = limit
        BY <1>4, IngestAssumption DEF Accept, IngestTypeOK
      <3>5. LimitKept'
        BY <2>2, <3>3, <3>4, RunningFinite DEF PermitFree, LimitKept
      <3> QED  BY <2>1, <3>2, <3>5
    <2>3. CASE handler' = [handler EXCEPT ![c] = "refused"] /\ UNCHANGED tasks
      <3>1. Running' = Running
        BY <1>4, <2>3 DEF Accept, Running, IngestTypeOK
      <3>2. HandlersTracked' /\ LimitKept'
        BY <1>4, <2>3, <3>1 DEF Accept, HandlersTracked, LimitKept
      <3> QED  BY <2>1, <3>2
    <2> QED  BY <1>4, <2>2, <2>3 DEF Accept
  <1>5. ASSUME NEW c \in Conns, HandlerEnds(c)
        PROVE  IngestInv'
    <2>1. IngestTypeOK'  BY <1>5 DEF HandlerEnds, IngestTypeOK
    <2>2. Running' = Running \ {c} /\ c \in Running
      BY <1>5 DEF HandlerEnds, Running, IngestTypeOK
    <2>3. HandlersTracked'  BY <1>5, <2>2 DEF HandlerEnds, HandlersTracked
    <2>4. Cardinality(Running') = Cardinality(Running) - 1
      BY <2>2, RunningFinite, FS_RemoveElement
    <2>5. limit \in Nat /\ limit' = limit
      BY <1>5, IngestAssumption DEF HandlerEnds, IngestTypeOK
    <2>6. LimitKept'
      BY <2>4, <2>5, RunningFinite DEF LimitKept
    <2> QED  BY <2>1, <2>3, <2>6
  <1> QED  BY <1>1, <1>2, <1>3, <1>4, <1>5 DEF IngestNext

\* Whatever its connections do, an ingest server (protocol_server.rs) keeps to its
\* limit, and has every handler in its JoinSet and none when it is over.
THEOREM IngestServerKeepsItsPromises == IngestSpec => [](LimitKept /\ HandlersTracked)
  <1>1. IngestInv => LimitKept /\ HandlersTracked  BY DEF IngestInv
  <1> QED  BY <1>1, IngestInvInit, IngestInvStep, PTL DEF IngestSpec

-----------------------------------------------------------------------------
(* The process around it *)

\* What main and the other servers know of each other.
MainInv ==
  /\ server \in [Servers -> {"off", "running", "ended"}]
  /\ busy \in [Graceful -> BOOLEAN]
  /\ \A s \in Graceful : busy[s] => server[s] = "running"
  /\ phase = "starting" => \A s \in Servers : server[s] = "off"
  /\ failure => "failure" \in cause
  /\ errors = 1 => "failure" \in cause
  /\ phase = "starting" => ~cancel
  /\ phase = "running" /\ cancel => "signal" \in cause
  /\ phase = "draining" /\ ~failure => "signal" \in cause
  /\ phase # "exited" => exit = [code |-> "none", drained |-> FALSE]

ProcessInv == IngestInv /\ MainInv /\ ExitTruthful

\* A step of the process is a step of its ingest server or leaves it alone.
LEMMA ProcessStepsIngest ==
  ASSUME [ProcessNext]_processVars
  PROVE  [IngestNext]_ingestVars
  <1>1. CASE UNCHANGED processVars
    BY <1>1 DEF processVars
  <1>2. CASE Start
    BY <1>2 DEF Start, IngestNext
  <1>3. CASE MainWakes \/ Signal
    BY <1>3 DEF MainWakes, Signal, CancelAll, IngestNext
  <1>4. CASE MainDrained \/ MainTimeout
    BY <1>4 DEF MainDrained, MainTimeout, Exit
  <1>5. CASE Ingest(Pause) \/ Ingest(Resume) \/ Ingest(LoopLeaves) \/ Ingest(ServerEnds)
    BY <1>5 DEF Ingest, IngestNext
  <1>6. CASE \E c \in Conns : Ingest(Accept(c)) \/ Ingest(HandlerEnds(c))
    BY <1>6 DEF Ingest, IngestNext
  <1>7. CASE \E s \in Servers : ServerStops(s)
    BY <1>7 DEF ServerStops
  <1>8. CASE \E s \in Graceful : Request(s) \/ ServerFails(s)
    BY <1>8 DEF Request, ServerFails
  <1> QED
    BY <1>1, <1>2, <1>3, <1>4, <1>5, <1>6, <1>7, <1>8 DEF ProcessNext, MainStep

\* Initially nothing has happened and nothing has been said.
LEMMA ProcessInvInit == ProcessInit => ProcessInv
  <1> SUFFICES ASSUME ProcessInit PROVE ProcessInv
    OBVIOUS
  <1>1. IngestInv  BY IngestInvInit DEF ProcessInit
  <1>2. MainInv
    <2>1. \A t \in Graceful : ~busy[t]  BY DEF ProcessInit
    <2>2. server \in [Servers -> {"off", "running", "ended"}]  BY DEF ProcessInit
    <2>3. busy \in [Graceful -> BOOLEAN]  BY DEF ProcessInit
    <2> QED  BY <2>1, <2>2, <2>3 DEF ProcessInit, MainInv, IngestInit
  <1>3. ExitTruthful  BY DEF ProcessInit, ExitTruthful
  <1> QED  BY <1>1, <1>2, <1>3 DEF ProcessInv

\* Every step keeps what main knows true, and only the last one says something.
LEMMA ProcessInvStep ==
  ASSUME ProcessInv, [ProcessNext]_processVars
  PROVE  ProcessInv'
  <1>1. IngestInv'
    BY ProcessStepsIngest, IngestInvStep DEF ProcessInv
  <1>2. CASE UNCHANGED processVars
    BY <1>1, <1>2 DEF ProcessInv, MainInv, ExitTruthful, processVars, mainVars, otherVars,
                      ingestVars
  <1>3. CASE Start
    <2>1. phase = "starting" /\ ~cancel /\ ~cancel' /\ phase' \in {"running", "exited"}
      BY <1>3 DEF ProcessInv, MainInv, Start, Bind, ingestVars
    <2>2. server' \in [Servers -> {"off", "running", "ended"}]
      BY <1>3 DEF ProcessInv, MainInv, Start
    <2>3. busy' = busy /\ \A s \in Graceful : ~busy[s]
      BY <1>3 DEF ProcessInv, MainInv, Start, Servers
    <2>4. MainInv'
      BY <1>3, <2>1, <2>2, <2>3 DEF ProcessInv, MainInv, Start
    <2>5. ExitTruthful'
      BY <1>3 DEF ProcessInv, MainInv, ExitTruthful, Start
    <2> QED  BY <1>1, <2>4, <2>5 DEF ProcessInv
  <1>4. CASE MainWakes
    <2>1. /\ phase = "running" /\ phase' = "draining"
          /\ UNCHANGED <<exit, server, busy, cause>>
      BY <1>4 DEF MainWakes, otherVars
    <2>2. ASSUME errors = 1, errors' = 0, failure' = TRUE
          PROVE  MainInv'
      BY <2>1, <2>2 DEF ProcessInv, MainInv
    <2>3. ASSUME cancel, UNCHANGED <<errors, failure>>
          PROVE  MainInv'
      BY <2>1, <2>3 DEF ProcessInv, MainInv
    <2>4. MainInv'
      BY <1>4, <2>2, <2>3, Zenon DEF MainWakes
    <2>5. ExitTruthful'
      BY <2>1 DEF ProcessInv, MainInv, ExitTruthful
    <2> QED  BY <1>1, <2>4, <2>5 DEF ProcessInv
  <1>5. CASE phase # "exited" /\ Signal
    <2>1. MainInv'
      BY <1>5 DEF ProcessInv, MainInv, Signal, mainVars, otherVars
    <2>2. ExitTruthful'
      BY <1>5 DEF ProcessInv, MainInv, ExitTruthful, Signal, mainVars
    <2> QED  BY <1>1, <2>1, <2>2 DEF ProcessInv
  <1>6. CASE MainDrained
    <2>1. MainInv'
      BY <1>6 DEF ProcessInv, MainInv, MainDrained, Exit, otherVars
    <2>2. loop \in {"off", "over"} /\ \A c \in Conns : handler[c] # "running"
      BY <1>6 DEF ProcessInv, IngestInv, HandlersTracked, Running, MainDrained, Drained
    <2>3. \A s \in Graceful : ~busy[s]
      BY <1>6 DEF ProcessInv, MainInv, MainDrained, Drained, Servers
    <2>4. ExitTruthful'
      BY <1>6, <2>2, <2>3 DEF ProcessInv, MainInv, ExitTruthful, MainDrained, Exit,
                              ingestVars, otherVars
    <2> QED  BY <1>1, <2>1, <2>4 DEF ProcessInv
  <1>7. CASE MainTimeout
    <2>1. MainInv'
      BY <1>7 DEF ProcessInv, MainInv, MainTimeout, Exit, otherVars
    <2>2. ExitTruthful'
      BY <1>7 DEF ProcessInv, MainInv, ExitTruthful, MainTimeout, Exit
    <2> QED  BY <1>1, <2>1, <2>2 DEF ProcessInv
  <1>8. ASSUME phase # "exited", cancel' = cancel,
               UNCHANGED <<mainVars, otherVars, cause>>
        PROVE  ProcessInv'
    <2>1. MainInv'
      BY <1>8 DEF ProcessInv, MainInv, mainVars, otherVars
    <2>2. ExitTruthful'
      BY <1>8 DEF ProcessInv, MainInv, ExitTruthful, mainVars
    <2> QED  BY <1>1, <2>1, <2>2 DEF ProcessInv
  <1>9. CASE Ingest(Pause) \/ Ingest(Resume) \/ Ingest(LoopLeaves) \/ Ingest(ServerEnds)
    BY <1>8, <1>9 DEF Ingest, Pause, Resume, LoopLeaves, ServerEnds
  <1>10. CASE \E c \in Conns : Ingest(Accept(c)) \/ Ingest(HandlerEnds(c))
    BY <1>8, <1>10 DEF Ingest, Accept, HandlerEnds
  <1>11. ASSUME NEW s \in Servers, phase # "exited", ServerStops(s)
         PROVE  ProcessInv'
    <2>1. MainInv'
      BY <1>11 DEF ProcessInv, MainInv, ServerStops, ingestVars, mainVars, Servers
    <2>2. ExitTruthful'
      BY <1>11 DEF ProcessInv, MainInv, ExitTruthful, ServerStops, mainVars
    <2> QED  BY <1>1, <2>1, <2>2 DEF ProcessInv
  <1>12. ASSUME NEW s \in Graceful, phase # "exited", Request(s)
         PROVE  ProcessInv'
    <2>1. busy' \in [Graceful -> BOOLEAN]
      BY <1>12 DEF ProcessInv, MainInv, Request
    <2>2. \A t \in Graceful : busy'[t] => server'[t] = "running"
      BY <1>12 DEF ProcessInv, MainInv, Request
    <2>3. phase # "starting"
      BY <1>12 DEF ProcessInv, MainInv, Request, Servers
    <2>4. MainInv'
      BY <1>12, <2>1, <2>2, <2>3 DEF ProcessInv, MainInv, Request, ingestVars, mainVars
    <2>5. ExitTruthful'
      BY <1>12 DEF ProcessInv, MainInv, ExitTruthful, Request, mainVars
    <2> QED  BY <1>1, <2>4, <2>5 DEF ProcessInv
  <1>13. ASSUME NEW s \in Graceful, phase # "exited", ServerFails(s)
         PROVE  ProcessInv'
    <2>1. MainInv'
      BY <1>13 DEF ProcessInv, MainInv, ServerFails, ingestVars, Servers
    <2>2. ExitTruthful'
      BY <1>13 DEF ProcessInv, MainInv, ExitTruthful, ServerFails
    <2> QED  BY <1>1, <2>1, <2>2 DEF ProcessInv
  <1> QED
    BY <1>2, <1>3, <1>4, <1>5, <1>6, <1>7, <1>9, <1>10, <1>11, <1>12, <1>13
    DEF ProcessNext, MainStep

\* What main.rs reports and the code it exits with are true, for any number of
\* connections and any limit.
THEOREM ExitIsTruthful == ProcessSpec => []ExitTruthful
  <1>1. ProcessInv => ExitTruthful  BY DEF ProcessInv
  <1> QED  BY <1>1, ProcessInvInit, ProcessInvStep, PTL DEF ProcessSpec

=============================================================================
