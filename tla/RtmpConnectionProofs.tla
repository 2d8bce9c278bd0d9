-------------------------- MODULE RtmpConnectionProofs --------------------------
(***************************************************************************)
(* Proofs about RtmpConnection, for any number of connections, any limit   *)
(* and batches of any size.  RTMP connections implement IngestServer: the  *)
(* safety part of ImplementsIngestServer, whose fairness is left to TLC.   *)
(* And a stream ends with its publisher and with nobody else.              *)
(***************************************************************************)
EXTENDS RtmpConnection, Integers, TLAPS

\* Where a connection task can be while it runs, and where it can go on after a write.
Pcs == {"handshake", "connecting", "deciding", "writing", "subscribing", "claiming",
        "serving", "handling", "feeding", "lingering"}
Nexts == {"none", "handshake", "connecting", "deciding", "done", "rejected", "subscribing",
          "claiming", "serving", "handling"}

Connection == [pc : Pcs \cup {"none", "refused", "done"}, next : Nexts, app : BOOLEAN,
               late : BOOLEAN, closed : BOOLEAN,
               lifecycle : {"none", "held", "connected", "ended"}, left : Int]

\* What a connection task is: the inductive invariant.  A task that writes knows where it
\* goes on.
ConnInv ==
  /\ conn \in [Conns -> Connection]
  /\ \A c \in Conns : conn[c].pc = "writing" => conn[c].next # "none"

\* What a step of a running task can make of it.
After == {new \in Connection : /\ new.pc \in Pcs \cup {"done"}
                               /\ new.pc = "writing" => new.next # "none"}

-----------------------------------------------------------------------------
(* What the steps of a task make of it *)

\* Goto moves a task to a pc and changes nothing that Connection does not allow.
LEMMA GotoTyped ==
  ASSUME ConnInv, NEW c \in Conns, NEW pc \in Pcs, pc # "writing", NEW left \in Int
  PROVE  Goto(c, pc, left) \in After
<1>1. conn[c] \in Connection
  BY DEF ConnInv
<1>2. (conn[c].late /\ left > 0) \in BOOLEAN
  OBVIOUS
<1>. QED
  BY <1>1, <1>2, Zenon DEF Goto, After, Connection, Nexts

\* So does Writing, with a place to go on.
LEMMA WritingTyped ==
  ASSUME ConnInv, NEW c \in Conns, NEW pc \in Nexts \ {"none"}, NEW left \in Int
  PROVE  Writing(c, pc, left) \in After
<1>1. conn[c] \in Connection
  BY DEF ConnInv
<1>2. (conn[c].late /\ left > 0) \in BOOLEAN
  OBVIOUS
<1>. QED
  BY <1>1, <1>2, Zenon DEF Writing, After, Connection, Pcs

\* A task that is over is done, whatever it owned.
LEMMA OverTyped ==
  ASSUME ConnInv, NEW c \in Conns
  PROVE  Over(c) \in After /\ OverWith(c, "ended") \in After
<1>. DEFINE l == IF IsPublisher(c) THEN "ended" ELSE "none"
<1>1. l \in {"none", "held", "connected", "ended"}
  OBVIOUS
<1>2. Fresh \in Connection
  BY DEF Fresh, Connection, Nexts
<1>. HIDE DEF l
<1>3. [Fresh EXCEPT !.pc = "done", !.lifecycle = l] \in Connection
  BY <1>1, <1>2, Zenon DEF Connection
<1>4. [Fresh EXCEPT !.pc = "done", !.lifecycle = l].pc = "done"
  BY <1>2 DEF Connection
<1>5. Over(c) \in Connection /\ Over(c).pc = "done"
  BY <1>3, <1>4 DEF Over, l
<1>6. OverWith(c, "ended") \in Connection /\ OverWith(c, "ended").pc = "done"
  BY <1>5 DEF OverWith, Connection
<1>. QED
  BY <1>5, <1>6 DEF After

\* The fields that an event sets besides are not those that the server sees.
LEMMA FieldsTyped ==
  ASSUME ConnInv, NEW c \in Conns, NEW new \in After,
         NEW l \in {"none", "held", "connected", "ended"}
  PROVE  /\ [new EXCEPT !.lifecycle = l] \in After
         /\ [new EXCEPT !.app = TRUE] \in After
         /\ [new EXCEPT !.late = conn[c].app] \in After
<1>1. new \in Connection /\ conn[c] \in Connection
  BY DEF After, ConnInv
<1>2. conn[c].app \in BOOLEAN
  BY <1>1 DEF Connection
<1>3. [new EXCEPT !.lifecycle = l] \in After
  BY <1>1 DEF After, Connection
<1>4. [new EXCEPT !.app = TRUE] \in After
  BY <1>1, Zenon DEF After, Connection
<1>5. [new EXCEPT !.late = conn[c].app] \in After
  BY <1>1, <1>2 DEF After, Connection
<1>. QED
  BY <1>3, <1>4, <1>5

\* The server sees of a step of a task that it goes on running, or ends.
LEMMA StepMaps ==
  ASSUME ConnInv, NEW c \in Conns, conn[c].pc \in Pcs,
         NEW new \in After, Step(c, new)
  PROVE  ConnInv' /\ (Server!HandlerEnds(c) \/ UNCHANGED Server!ingestVars)
<1>1. conn' = [conn EXCEPT ![c] = new] /\ UNCHANGED serverVars
  BY DEF Step
<1>2. ConnInv'
  BY <1>1 DEF ConnInv, After
<1>3. Handler[c] = "running"
  BY DEF Handler, Pcs
<1>4. Handler' = [Handler EXCEPT ![c] = IF new.pc = "done" THEN "done" ELSE "running"]
  <2>1. \A d \in Conns : conn'[d] = IF d = c THEN new ELSE conn[d]
    BY <1>1 DEF ConnInv
  <2>. QED
    BY <2>1, Zenon DEF Handler, Pcs, After
<1>5. CASE new.pc = "done"
  <2>1. Server!HandlerEnds(c)
    BY <1>1, <1>3, <1>4, <1>5 DEF Server!HandlerEnds, serverVars
  <2>. QED
    BY <1>2, <2>1
<1>6. CASE new.pc # "done"
  <2>1. Handler' = Handler
    BY <1>3, <1>4, <1>6, Zenon DEF Handler
  <2>. QED
    BY <1>1, <1>2, <2>1 DEF Server!ingestVars, serverVars
<1>. QED
  BY <1>5, <1>6

-----------------------------------------------------------------------------
(* The actions of a task *)

\* A running task that takes a step.
Goes(c) == conn[c].pc \in Pcs /\ \E new \in After : Step(c, new)

\* The counts of events are numbers, and what follows an event is a place to go.
LEMMA EventsTyped ==
  ASSUME ConnInv, NEW c \in Conns
  PROVE  /\ conn[c].left \in Int /\ Later(c) \in Int
         /\ Decided(c) \in {"connecting", "deciding"}
         /\ Handled(c) \in {"serving", "handling"}
<1>1. conn[c].left \in Int
  BY DEF ConnInv, Connection
<1>. QED
  BY <1>1 DEF Later, Decided, Handled

\* The handler returns: a publisher lingers, a viewer is over.
LEMMA LeaveGoes ==
  ASSUME ConnInv, NEW c \in Conns, conn[c].pc \in Pcs, Leave(c)
  PROVE  Goes(c)
<1>1. CASE IsPublisher(c)
  <2>1. Goto(c, "lingering", 0) \in After
    BY GotoTyped DEF Pcs
  <2>2. [Goto(c, "lingering", 0) EXCEPT !.lifecycle = "ended"] \in After
    BY <2>1, FieldsTyped, Zenon
  <2>. QED
    BY <1>1, <2>2 DEF Leave, Goes
<1>2. CASE ~IsPublisher(c)
  BY <1>2, OverTyped DEF Leave, Goes
<1>. QED
  BY <1>1, <1>2

\* Handshake and connect phase.
LEMMA ConnectGoes ==
  ASSUME ConnInv, NEW c \in Conns,
         \/ Handshake(c) \/ ConnectRead(c) \/ OnConnect(c) \/ OnCommand(c) \/ OnOther(c)
         \/ OnPlay(c) \/ OnPublish(c)
  PROVE  Goes(c)
<1>1. CASE Handshake(c)
  <2>1. Writing(c, "handshake", 0) \in After /\ Writing(c, "connecting", 0) \in After
    BY WritingTyped DEF Nexts
  <2>. QED
    BY <1>1, <2>1, OverTyped DEF Handshake, Resumes, Goes, Pcs
<1>2. CASE ConnectRead(c)
  <2>1. conn[c].pc \in Pcs
    BY <1>2 DEF ConnectRead, Resumes, Pcs
  <2>2. ASSUME NEW n \in 1 .. MaxBatch
        PROVE  /\ [Goto(c, "deciding", n) EXCEPT !.late = conn[c].app] \in After
               /\ [Writing(c, "deciding", n) EXCEPT !.late = conn[c].app] \in After
    <3>1. Goto(c, "deciding", n) \in After
      BY GotoTyped, RtmpConnectionAssumption DEF Pcs
    <3>2. Writing(c, "deciding", n) \in After
      BY WritingTyped, RtmpConnectionAssumption DEF Nexts
    <3>. QED
      BY <3>1, <3>2, FieldsTyped, Zenon
  <2>3. Writing(c, "connecting", 0) \in After
    BY WritingTyped DEF Nexts
  <2>. QED
    BY <1>2, <2>1, <2>2, <2>3, OverTyped, Zenon DEF ConnectRead, Goes
<1>3. CASE OnConnect(c)
  <2>1. Writing(c, Decided(c), Later(c)) \in After /\ Writing(c, "done", 0) \in After
    BY WritingTyped, EventsTyped DEF Nexts
  <2>2. [Writing(c, Decided(c), Later(c)) EXCEPT !.app = TRUE] \in After
    BY <2>1, FieldsTyped, Zenon
  <2>. QED
    BY <1>3, <2>1, <2>2 DEF OnConnect, Goes, Pcs
<1>4. CASE OnCommand(c)
  <2>1. Writing(c, Decided(c), Later(c)) \in After
    BY WritingTyped, EventsTyped DEF Nexts
  <2>2. Goto(c, Decided(c), Later(c)) \in After
    BY GotoTyped, EventsTyped DEF Pcs
  <2>. QED
    BY <1>4, <2>1, <2>2 DEF OnCommand, Goes, Pcs
<1>5. CASE OnOther(c)
  BY <1>5, OverTyped DEF OnOther, Goes, Pcs
<1>6. CASE OnPlay(c)
  <2>1. Writing(c, "subscribing", 0) \in After /\ Writing(c, "done", 0) \in After
    BY WritingTyped DEF Nexts
  <2>. QED
    BY <1>6, <2>1 DEF OnPlay, Goes, Pcs
<1>7. CASE OnPublish(c)
  <2>1. Writing(c, "rejected", 0) \in After /\ Writing(c, "claiming", 0) \in After
    BY WritingTyped DEF Nexts
  <2>. QED
    BY <1>7, <2>1, OverTyped DEF OnPublish, Goes, Pcs
<1>. QED
  BY <1>1, <1>2, <1>3, <1>4, <1>5, <1>6, <1>7

\* From the answer to the handler.
LEMMA ClaimGoes ==
  ASSUME ConnInv, NEW c \in Conns, Written(c) \/ ClaimPublish(c) \/ ClaimPlay(c)
  PROVE  Goes(c)
<1>1. CASE Written(c)
  <2>1. conn[c].pc = "writing" /\ conn[c].next \in Nexts \ {"none"} /\ conn[c].left \in Int
    BY <1>1 DEF Written, Resumes, ConnInv, Connection
  <2>2. CASE conn[c].next \in {"done", "rejected"}
    BY <1>1, <2>1, <2>2, OverTyped DEF Written, Goes, Pcs
  <2>3. CASE conn[c].next \notin {"done", "rejected"}
    <3>1. Goto(c, conn[c].next, conn[c].left) \in After
      <4>1. conn[c].next \in Pcs /\ conn[c].next # "writing"
        BY <2>1, <2>3 DEF Pcs, Nexts
      <4>. QED
        BY <2>1, <4>1, GotoTyped
    <3>. QED
      BY <1>1, <2>1, <2>3, <3>1 DEF Written, Goes, Pcs
  <2>. QED
    BY <2>2, <2>3
<1>2. CASE ClaimPublish(c)
  <2>1. Goto(c, "serving", 0) \in After
    BY GotoTyped DEF Pcs
  <2>2. [Goto(c, "serving", 0) EXCEPT !.lifecycle = "held"] \in After
    BY <2>1, FieldsTyped, Zenon
  <2>. QED
    BY <1>2, <2>2, OverTyped DEF ClaimPublish, Goes, Pcs
<1>3. CASE ClaimPlay(c)
  <2>1. Writing(c, "serving", 0) \in After
    BY WritingTyped DEF Nexts
  <2>. QED
    BY <1>3, <2>1, OverTyped DEF ClaimPlay, Goes, Pcs
<1>. QED
  BY <1>1, <1>2, <1>3

\* The handler.
LEMMA ServeGoes ==
  ASSUME ConnInv, NEW c \in Conns,
         \/ ServeRead(c) \/ PlayTag(c) \/ HandleOther(c) \/ HandleFinish(c) \/ HandleMedia(c)
         \/ Feed(c)
  PROVE  Goes(c)
<1>1. CASE ServeRead(c)
  <2>1. conn[c].pc \in Pcs
    BY <1>1 DEF ServeRead, Resumes, Pcs
  <2>2. \A n \in 1 .. MaxBatch :
          Goto(c, "handling", n) \in After /\ Writing(c, "handling", n) \in After
    BY GotoTyped, WritingTyped, RtmpConnectionAssumption DEF Pcs, Nexts
  <2>3. Writing(c, "serving", 0) \in After
    BY WritingTyped DEF Nexts
  <2>4. CASE Leave(c)
    BY <2>1, <2>4, LeaveGoes
  <2>. QED
    BY <1>1, <2>1, <2>2, <2>3, <2>4 DEF ServeRead, Goes
<1>2. CASE PlayTag(c)
  <2>1. Writing(c, "serving", 0) \in After
    BY WritingTyped DEF Nexts
  <2>. QED
    BY <1>2, <2>1 DEF PlayTag, Resumes, Goes, Pcs
<1>3. Goto(c, Handled(c), Later(c)) \in After /\ Writing(c, Handled(c), Later(c)) \in After
  BY GotoTyped, WritingTyped, EventsTyped DEF Pcs, Nexts
<1>4. CASE HandleOther(c)
  BY <1>3, <1>4 DEF HandleOther, Goes, Pcs
<1>5. CASE HandleFinish(c)
  <2>1. [Goto(c, Handled(c), Later(c)) EXCEPT !.lifecycle = "ended"] \in After
    BY <1>3, FieldsTyped, Zenon
  <2>. QED
    BY <1>3, <1>5, <2>1 DEF HandleFinish, Goes, Pcs
<1>6. CASE HandleMedia(c)
  <2>1. conn[c].pc \in Pcs
    BY <1>6 DEF HandleMedia, Pcs
  <2>2. Goto(c, "feeding", conn[c].left) \in After
    BY GotoTyped, EventsTyped DEF Pcs
  <2>3. [Goto(c, "feeding", conn[c].left) EXCEPT !.lifecycle = "connected"] \in After
    BY <2>2, FieldsTyped, Zenon
  <2>4. CASE Leave(c)
    BY <2>1, <2>4, LeaveGoes
  <2>. QED
    BY <1>6, <2>1, <2>2, <2>3, <2>4 DEF HandleMedia, Goes
<1>7. CASE Feed(c)
  <2>1. conn[c].pc \in Pcs
    BY <1>7 DEF Feed, Resumes, Pcs
  <2>2. CASE Leave(c)
    BY <2>1, <2>2, LeaveGoes
  <2>. QED
    BY <1>3, <1>7, <2>1, <2>2 DEF Feed, Goes
<1>. QED
  BY <1>1, <1>2, <1>4, <1>5, <1>6, <1>7

\* The end of a task, and of its client.
LEMMA EndGoes ==
  ASSUME ConnInv, NEW c \in Conns,
         ServeEnds(c) \/ ConnectEnds(c) \/ Lingered(c) \/ Abort(c) \/ Close(c)
  PROVE  Goes(c)
<1>1. CASE ServeEnds(c)
  <2>1. conn[c].pc \in Pcs
    BY <1>1 DEF ServeEnds, TokenFired, Pcs
  <2>. QED
    BY <1>1, <2>1, LeaveGoes DEF ServeEnds
<1>2. CASE ConnectEnds(c)
  BY <1>2, OverTyped DEF ConnectEnds, Goes, Pcs
<1>3. CASE Lingered(c)
  BY <1>3, OverTyped DEF Lingered, Resumes, Goes, Pcs
<1>4. CASE Abort(c)
  BY <1>4, OverTyped DEF Abort, Goes, Pcs
<1>5. CASE Close(c)
  <2>1. conn[c] \in Connection /\ conn[c].pc \notin {"none", "refused", "done"}
    BY <1>5 DEF Close, Alive, Handler, ConnInv
  <2>2. conn[c].pc \in Pcs
    BY <2>1 DEF Connection
  <2>3. [conn[c] EXCEPT !.closed = TRUE] \in After
    BY <2>1, <2>2, Zenon DEF After, Connection, ConnInv
  <2>. QED
    BY <1>5, <2>2, <2>3 DEF Close, Goes
<1>. QED
  BY <1>1, <1>2, <1>3, <1>4, <1>5

-----------------------------------------------------------------------------
(* The refinement *)

\* The initial state is one of the server, with no connection yet.
LEMMA RtmpInit == ConnInit => ConnInv /\ Server!IngestInit
<1>. SUFFICES ASSUME ConnInit PROVE ConnInv
  BY DEF ConnInit
<1>1. Fresh \in Connection /\ Fresh.pc = "none"
  BY DEF Fresh, Connection, Nexts
<1>. QED
  BY <1>1 DEF ConnInit, ConnInv

\* Every step is one of the server or one that it does not see.
LEMMA RtmpStep ==
  ConnInv /\ [RtmpNext]_connVars => ConnInv' /\ [Server!IngestNext]_(Server!ingestVars)
<1>. SUFFICES ASSUME ConnInv, [RtmpNext]_connVars
              PROVE  ConnInv' /\ [Server!IngestNext]_(Server!ingestVars)
  OBVIOUS
<1>1. ASSUME NEW c \in Conns, ConnTask(c) \/ ConnIO(c) \/ Close(c)
      PROVE  ConnInv' /\ [Server!IngestNext]_(Server!ingestVars)
  <2>1. Goes(c)
    BY <1>1, ConnectGoes, ClaimGoes, ServeGoes, EndGoes DEF ConnTask, ConnIO
  <2>2. ConnInv' /\ (Server!HandlerEnds(c) \/ UNCHANGED Server!ingestVars)
    BY <2>1, StepMaps DEF Goes
  <2>. QED
    BY <2>2 DEF Server!IngestNext
<1>2. ASSUME NEW c \in Conns, Connect(c)
      PROVE  ConnInv' /\ [Server!IngestNext]_(Server!ingestVars)
  <2>1. PICK pc \in {"handshake", "refused"} : conn' = [conn EXCEPT ![c].pc = pc]
    BY <1>2, Zenon DEF Connect
  <2>2. [conn[c] EXCEPT !.pc = pc] \in Connection /\ [conn[c] EXCEPT !.pc = pc].pc = pc
    BY DEF ConnInv, Connection, Pcs
  <2>3. ConnInv'
    BY <2>1, <2>2 DEF ConnInv
  <2>. QED
    BY <1>2, <2>3 DEF Connect, Server!IngestNext
<1>3. ASSUME UNCHANGED conn
      PROVE  ConnInv' /\ Handler' = Handler
  BY <1>3 DEF ConnInv, Handler
<1>4. ASSUME (\E c \in Conns : SourceEnds(c)) \/ Precreate \/ StopStream \/ Expire \/ Cleanup
      PROVE  ConnInv' /\ [Server!IngestNext]_(Server!ingestVars)
  <2>1. UNCHANGED <<conn, serverVars>>
    BY <1>4 DEF SourceEnds, Precreate, StopStream, Expire, Cleanup
  <2>. QED
    BY <1>3, <2>1 DEF serverVars, Server!ingestVars
<1>5. ASSUME \/ Shutdown \/ ServerStep(Server!Bind) \/ ServerStep(Server!Pause)
             \/ ServerStep(Server!Resume) \/ ServerStep(Server!LoopLeaves)
             \/ ServerStep(Server!ServerEnds)
      PROVE  ConnInv' /\ [Server!IngestNext]_(Server!ingestVars)
  BY <1>3, <1>5 DEF Shutdown, ServerStep, Server!IngestNext
<1>6. ASSUME UNCHANGED connVars
      PROVE  ConnInv' /\ [Server!IngestNext]_(Server!ingestVars)
  BY <1>3, <1>6 DEF connVars, serverVars, Server!ingestVars
<1>. QED
  BY <1>1, <1>2, <1>4, <1>5, <1>6 DEF RtmpNext

\* RTMP connections, whatever their clients send, take or leave, are connections of an
\* ingest server as IngestServer has it: accepted within the limit into the JoinSet, and
\* neither revived nor lost by the early returns and aborts of spawn_connection_handler.
THEOREM RtmpImplementsIngestServer ==
  RtmpSpec => Server!IngestInit /\ [][Server!IngestNext]_(Server!ingestVars)
<1>1. ConnInit => ConnInv /\ Server!IngestInit
  BY RtmpInit
<1>2. ConnInv /\ [RtmpNext]_connVars => ConnInv' /\ [Server!IngestNext]_(Server!ingestVars)
  BY RtmpStep
<1>. QED
  BY <1>1, <1>2, PTL DEF RtmpSpec

-----------------------------------------------------------------------------
(* A stream ends with its publisher *)

Streams == [state : {"none", "Pending", "Connecting", "Connected", "Disconnected", "gone"},
            cancelled : BOOLEAN, pending : BOOLEAN, channel : BOOLEAN, asked : BOOLEAN]

\* A connection before its handler: it cannot have a lifecycle yet.
Early(r) ==
  \/ r.pc \in {"none", "refused", "handshake", "connecting", "deciding", "subscribing",
               "claiming"}
  \/ r.pc = "writing" /\ r.next \notin {"serving", "handling"}

\* What a stream st alone owes: it is marked Disconnected and forgotten only after its
\* token, and before it is precreated there is nothing to cancel or to claim.
StreamInv(st) ==
  /\ st \in Streams
  /\ st.state \in {"Disconnected", "gone"} => st.cancelled
  /\ st.state = "none" => ~st.cancelled /\ ~st.pending /\ ~st.asked

\* What a connection r with a source s and the stream owe each other.  A source comes with
\* the lifecycle, and a lifecycle that has ended leaves the stream cancelled.
Owns(r, s, st) ==
  /\ Early(r) => r.lifecycle = "none"
  /\ r.lifecycle # "none" /\ r.pc # "done" => st.state # "none"
  /\ s # "none" => r.lifecycle # "none"
  /\ s # "none" /\ r.lifecycle = "ended" => st.cancelled
  /\ s # "none" /\ r.pc = "done" => r.lifecycle = "ended"
  /\ r.pc = "lingering" => r.lifecycle = "ended"

\* The inductive invariant.
EndInv ==
  /\ ConnInv
  /\ cancel \in BOOLEAN
  /\ source \in [Conns -> {"none", "running", "ended"}]
  /\ StreamInv(stream)
  /\ \A c \in Conns : Owns(conn[c], source[c], stream)
  /\ stream.cancelled /\ ~stream.asked => \E c \in Conns : conn[c].lifecycle = "ended"

\* What a step does to the stream while it is a stream: no token is revived, no request
\* for its end forgotten.
StreamKeeps ==
  /\ StreamInv(stream')
  /\ stream.cancelled => stream'.cancelled
  /\ stream.asked => stream'.asked
  /\ stream.state # "none" => stream'.state # "none"

\* The task of c becomes new, and owes nothing that it does not keep.
Fits(c, new) ==
  /\ new \in After
  /\ Owns(new, source'[c], stream')
  /\ conn[c].lifecycle = "ended" => new.lifecycle = "ended"
  /\ stream'.cancelled /\ ~stream.cancelled => new.lifecycle = "ended"

-----------------------------------------------------------------------------
(* What a step of one connection leaves to the others *)

\* The others do not notice that a stream is cancelled or moves on.
LEMMA OwnsKept ==
  ASSUME EndInv, StreamKeeps, NEW c \in Conns
  PROVE  Owns(conn[c], source[c], stream')
BY DEF EndInv, StreamKeeps, Owns

\* A step of one task that fits keeps the invariant.
LEMMA StepKeeps ==
  ASSUME EndInv, NEW c \in Conns, conn[c].pc \in Pcs, StreamKeeps,
         NEW new, Fits(c, new), Step(c, new),
         NEW s \in {"none", "running", "ended"}, source' = [source EXCEPT ![c] = s]
  PROVE  EndInv'
<1>1. conn' = [conn EXCEPT ![c] = new] /\ conn \in [Conns -> Connection]
  BY DEF Step, EndInv, ConnInv
<1>2. ConnInv'
  BY StepMaps DEF EndInv, Fits
<1>3. source' \in [Conns -> {"none", "running", "ended"}]
  BY DEF EndInv
<1>4. ASSUME NEW d \in Conns
      PROVE  Owns(conn'[d], source'[d], stream')
  <2>1. CASE d = c
    <3>1. conn'[d] = new
      BY <1>1, <2>1
    <3>. QED
      BY <2>1, <3>1 DEF Fits
  <2>2. CASE d # c
    <3>1. conn'[d] = conn[d] /\ source'[d] = source[d]
      BY <1>1, <2>2 DEF EndInv
    <3>. QED
      BY <3>1, OwnsKept
  <2>. QED
    BY <2>1, <2>2
<1>5. ASSUME stream'.cancelled, ~stream'.asked
      PROVE  \E d \in Conns : conn'[d].lifecycle = "ended"
  <2>1. CASE stream.cancelled
    <3>1. PICK d \in Conns : conn[d].lifecycle = "ended"
      BY <1>5, <2>1 DEF EndInv, StreamKeeps
    <3>2. conn'[d].lifecycle = "ended"
      BY <1>1, <3>1 DEF Fits
    <3>. QED
      BY <3>2
  <2>2. CASE ~stream.cancelled
    <3>1. conn'[c] = new
      BY <1>1
    <3>. QED
      BY <1>5, <2>2, <3>1 DEF Fits
  <2>. QED
    BY <2>1, <2>2
<1>6. cancel' \in BOOLEAN
  BY DEF Step, serverVars, EndInv
<1>. QED
  BY <1>2, <1>3, <1>4, <1>5, <1>6 DEF EndInv, StreamKeeps

\* A step of the stream alone.
LEMMA StreamStepKeeps ==
  ASSUME EndInv, StreamKeeps, UNCHANGED conn, cancel' \in BOOLEAN,
         source' \in [Conns -> {"none", "running", "ended"}],
         \A c \in Conns : source'[c] # "none" => source[c] # "none",
         stream'.cancelled /\ ~stream.cancelled => stream'.asked
  PROVE  EndInv'
<1>1. ConnInv'
  BY DEF EndInv, ConnInv
<1>2. ASSUME NEW c \in Conns
      PROVE  Owns(conn'[c], source'[c], stream')
  BY OwnsKept DEF Owns
<1>3. ASSUME stream'.cancelled, ~stream'.asked
      PROVE  \E d \in Conns : conn'[d].lifecycle = "ended"
  BY <1>3 DEF EndInv, StreamKeeps
<1>. QED
  BY <1>1, <1>2, <1>3 DEF EndInv, StreamKeeps

-----------------------------------------------------------------------------
(* The stream *)

\* Nothing, Cancelled, and Disconnected, which finds a stream registered or over.
LEMMA StreamSteps ==
  ASSUME EndInv
  PROVE  /\ stream' = stream => StreamKeeps
         /\ stream.state # "none" /\ stream' = Cancelled(stream)
              => StreamKeeps /\ stream'.cancelled
         /\ stream.state # "none" /\ stream' = Disconnected(stream)
              => StreamKeeps /\ stream'.cancelled
<1>1. stream \in Streams /\ StreamInv(stream)
  BY DEF EndInv, StreamInv
<1>2. stream' = stream => StreamKeeps
  BY <1>1 DEF StreamKeeps
<1>3. ASSUME stream.state # "none", stream' = Cancelled(stream)
      PROVE  StreamKeeps /\ stream'.cancelled
  BY <1>1, <1>3, Zenon DEF Cancelled, StreamKeeps, StreamInv, Streams
<1>4. ASSUME stream.state # "none", stream' = Disconnected(stream)
      PROVE  StreamKeeps /\ stream'.cancelled
  <2>1. CASE Registered
    BY <1>3, <1>4, <2>1 DEF Disconnected
  <2>2. CASE ~Registered
    BY <1>1, <1>2, <1>4, <2>2 DEF Disconnected, Registered, StreamInv
  <2>. QED
    BY <2>1, <2>2
<1>. QED
  BY <1>2, <1>3, <1>4

\* The steps of the stream that nobody's connection takes.
LEMMA StreamActions ==
  ASSUME EndInv, \/ Precreate \/ StopStream \/ Expire \/ Cleanup \/ Shutdown
                 \/ \E c \in Conns : SourceEnds(c)
  PROVE  EndInv'
<1>1. stream \in Streams /\ StreamInv(stream) /\ cancel \in BOOLEAN
      /\ source \in [Conns -> {"none", "running", "ended"}]
  BY DEF EndInv, StreamInv
<1>2. CASE Precreate
  <2>1. ~stream.cancelled /\ ~stream.asked
    BY <1>1, <1>2 DEF Precreate, StreamInv
  <2>2. StreamInv(stream') /\ (stream'.cancelled => stream'.asked)
    BY <1>1, <1>2, Zenon DEF Precreate, StreamInv, Streams
  <2>3. StreamKeeps
    BY <1>2, <2>1, <2>2 DEF Precreate, StreamKeeps
  <2>. QED
    BY <1>1, <1>2, <2>2, <2>3, StreamStepKeeps DEF Precreate, serverVars
<1>3. CASE StopStream
  <2>1. StreamKeeps /\ stream'.asked
    BY <1>1, <1>3, Zenon DEF StopStream, Registered, Cancelled, StreamKeeps, StreamInv, Streams
  <2>. QED
    BY <1>1, <1>3, <2>1, StreamStepKeeps DEF StopStream, serverVars
<1>4. CASE Expire
  <2>1. StreamKeeps /\ stream'.asked
    BY <1>1, <1>4, Zenon DEF Expire, Cancelled, StreamKeeps, StreamInv, Streams
  <2>. QED
    BY <1>1, <1>4, <2>1, StreamStepKeeps DEF Expire, serverVars
<1>5. CASE Cleanup
  <2>1. StreamKeeps /\ stream.cancelled
    BY <1>1, <1>5 DEF Cleanup, Registered, StreamKeeps, StreamInv, Streams
  <2>. QED
    BY <1>1, <1>5, <2>1, StreamStepKeeps DEF Cleanup, serverVars
<1>6. CASE Shutdown
  <2>1. CASE Registered
    <3>1. StreamKeeps /\ stream'.asked
      BY <1>1, <1>6, <2>1, Zenon DEF Shutdown, Registered, Cancelled, StreamKeeps, StreamInv,
                                     Streams
    <3>. QED
      BY <1>1, <1>6, <3>1, StreamStepKeeps DEF Shutdown, Server!Cancel
  <2>2. CASE ~Registered
    BY <1>1, <1>6, <2>2, StreamSteps, StreamStepKeeps DEF Shutdown, Server!Cancel
  <2>. QED
    BY <2>1, <2>2
<1>7. CASE \E c \in Conns : SourceEnds(c)
  BY <1>1, <1>7, StreamSteps, StreamStepKeeps DEF SourceEnds, serverVars
<1>. QED
  BY <1>2, <1>3, <1>4, <1>5, <1>6, <1>7

-----------------------------------------------------------------------------
(* What the steps of a task make of it *)

\* Goto and Writing leave the lifecycle alone; a task that is over has ended it.
LEMMA Fields ==
  ASSUME ConnInv, NEW c \in Conns, NEW pc, NEW left
  PROVE  /\ Goto(c, pc, left).pc = pc /\ Writing(c, pc, left).pc = "writing"
         /\ Writing(c, pc, left).next = pc
         /\ Goto(c, pc, left).lifecycle = conn[c].lifecycle
         /\ Writing(c, pc, left).lifecycle = conn[c].lifecycle
         /\ Over(c).pc = "done"
         /\ Over(c).lifecycle = IF IsPublisher(c) THEN "ended" ELSE "none"
         /\ OverWith(c, "ended").pc = "done" /\ OverWith(c, "ended").lifecycle = "ended"
<1>1. conn[c] \in Connection
  BY DEF ConnInv
<1>2. Goto(c, pc, left).pc = pc /\ Goto(c, pc, left).lifecycle = conn[c].lifecycle
  BY <1>1 DEF Goto, Connection
<1>3. /\ Writing(c, pc, left).pc = "writing" /\ Writing(c, pc, left).next = pc
      /\ Writing(c, pc, left).lifecycle = conn[c].lifecycle
  BY <1>1 DEF Writing, Connection
<1>4. Over(c).pc = "done" /\ Over(c).lifecycle = IF IsPublisher(c) THEN "ended" ELSE "none"
  BY DEF Over, Fresh
<1>5. OverWith(c, "ended").pc = "done" /\ OverWith(c, "ended").lifecycle = "ended"
  BY DEF OverWith, Over, Fresh
<1>. QED
  BY <1>2, <1>3, <1>4, <1>5

\* A step that leaves the lifecycle and the stream alone, and does not go back.
LEMMA PlainKeeps ==
  ASSUME EndInv, NEW c \in Conns, conn[c].pc \in Pcs, UNCHANGED <<source, stream>>,
         NEW new \in After, Step(c, new), new.lifecycle = conn[c].lifecycle,
         Early(new) => Early(conn[c]), new.pc \notin {"lingering", "done"}
  PROVE  EndInv'
<1>1. StreamKeeps
  BY StreamSteps
<1>2. Owns(conn[c], source[c], stream) /\ source[c] \in {"none", "running", "ended"}
      /\ source' = [source EXCEPT ![c] = source[c]]
  BY DEF EndInv
<1>3. Fits(c, new)
  BY <1>2 DEF Fits, Owns, Pcs
<1>. QED
  BY <1>1, <1>2, <1>3, StepKeeps, Zenon

\* The task is over, and the stream with it if it owned the lifecycle.
LEMMA OverKeeps ==
  ASSUME EndInv, NEW c \in Conns, conn[c].pc \in Pcs, UNCHANGED source, StreamKeeps,
         Step(c, Over(c)),
         conn[c].lifecycle \in {"held", "connected"} => stream'.cancelled,
         stream'.cancelled /\ ~stream.cancelled => IsPublisher(c)
  PROVE  EndInv'
<1>1. Owns(conn[c], source[c], stream) /\ source[c] \in {"none", "running", "ended"}
      /\ source' = [source EXCEPT ![c] = source[c]]
      /\ conn[c].lifecycle \in {"none", "held", "connected", "ended"}
  BY DEF EndInv, ConnInv, Connection
<1>2. /\ Over(c) \in After /\ Over(c).pc = "done"
      /\ Over(c).lifecycle = IF IsPublisher(c) THEN "ended" ELSE "none"
  BY OverTyped, Fields DEF EndInv
<1>3. Owns(Over(c), source'[c], stream')
  BY <1>1, <1>2 DEF Owns, Early, IsPublisher, StreamKeeps
<1>4. Fits(c, Over(c))
  BY <1>1, <1>2, <1>3 DEF Fits, IsPublisher
<1>. QED
  BY <1>1, <1>4, StepKeeps, Zenon

\* The handler returns: a publisher cancels the stream, a viewer has no lifecycle.
LEMMA LeaveKeeps ==
  ASSUME EndInv, NEW c \in Conns, conn[c].pc \in Pcs, UNCHANGED source, Leave(c)
  PROVE  EndInv'
<1>1. Owns(conn[c], source[c], stream) /\ source[c] \in {"none", "running", "ended"}
      /\ source' = [source EXCEPT ![c] = source[c]]
  BY DEF EndInv
<1>2. CASE IsPublisher(c)
  <2>. DEFINE new == [Goto(c, "lingering", 0) EXCEPT !.lifecycle = "ended"]
  <2>1. StreamKeeps /\ stream'.cancelled /\ stream.state # "none"
    BY <1>1, <1>2, StreamSteps DEF Leave, IsPublisher, Owns, Pcs
  <2>2. Goto(c, "lingering", 0) \in After
    BY GotoTyped DEF Pcs, EndInv
  <2>3. new \in After
    BY <2>2, FieldsTyped, Zenon DEF EndInv
  <2>4. new.pc = "lingering" /\ new.lifecycle = "ended"
    BY <2>2, Fields DEF EndInv, After, Connection
  <2>5. Step(c, new)
    BY <1>2 DEF Leave
  <2>. HIDE DEF new
  <2>6. Fits(c, new)
    BY <1>1, <2>1, <2>3, <2>4 DEF Fits, Owns, Early, StreamKeeps
  <2>. QED
    BY <1>1, <2>1, <2>5, <2>6, StepKeeps, Zenon
<1>3. CASE ~IsPublisher(c)
  <2>1. StreamKeeps
    BY <1>3, StreamSteps DEF Leave
  <2>. QED
    BY <1>3, <2>1, OverKeeps DEF Leave, IsPublisher
<1>. QED
  BY <1>2, <1>3

-----------------------------------------------------------------------------
(* The actions of a task *)

\* Handshake and connect phase.
LEMMA ConnectKeeps ==
  ASSUME EndInv, NEW c \in Conns,
         \/ Handshake(c) \/ ConnectRead(c) \/ OnConnect(c) \/ OnCommand(c) \/ OnOther(c)
         \/ OnPlay(c) \/ OnPublish(c)
  PROVE  EndInv'
<1>1. /\ conn[c].pc \in {"handshake", "connecting", "deciding"}
      /\ UNCHANGED <<source, stream>>
  BY DEF Handshake, ConnectRead, OnConnect, OnCommand, OnOther, OnPlay, OnPublish, Resumes
<1>2. conn[c].pc \in Pcs /\ Early(conn[c]) /\ conn[c].lifecycle = "none" /\ StreamKeeps
  BY <1>1, StreamSteps DEF Pcs, Early, EndInv, Owns
<1>3. ASSUME Step(c, Over(c))
      PROVE  EndInv'
  BY <1>1, <1>2, <1>3, OverKeeps
<1>4. ASSUME NEW new \in After, Step(c, new), new.lifecycle = "none",
             new.pc \notin {"lingering", "done"}
      PROVE  EndInv'
  BY <1>1, <1>2, <1>4, PlainKeeps
<1>5. ASSUME NEW pc \in Nexts \ {"none"}, NEW left \in Int
      PROVE  /\ Step(c, Writing(c, pc, left)) => EndInv'
             /\ Step(c, [Writing(c, pc, left) EXCEPT !.app = TRUE]) => EndInv'
             /\ Step(c, [Writing(c, pc, left) EXCEPT !.late = conn[c].app]) => EndInv'
  <2>. DEFINE w == Writing(c, pc, left)
  <2>1. w \in After /\ w.pc = "writing" /\ w.next = pc /\ w.lifecycle = "none"
    BY <1>2, <1>5, WritingTyped, Fields DEF EndInv
  <2>2. [w EXCEPT !.app = TRUE] \in After /\ [w EXCEPT !.late = conn[c].app] \in After
    BY <2>1, FieldsTyped, Zenon DEF EndInv
  <2>. HIDE DEF w
  <2>3. /\ [w EXCEPT !.app = TRUE].pc = w.pc /\ [w EXCEPT !.app = TRUE].next = w.next
        /\ [w EXCEPT !.app = TRUE].lifecycle = w.lifecycle
        /\ [w EXCEPT !.late = conn[c].app].pc = w.pc
        /\ [w EXCEPT !.late = conn[c].app].next = w.next
        /\ [w EXCEPT !.late = conn[c].app].lifecycle = w.lifecycle
    BY <2>1 DEF After, Connection
  <2>4. Step(c, w) => EndInv'
    BY <1>4, <1>5, <2>1
  <2>5. Step(c, [w EXCEPT !.app = TRUE]) => EndInv'
    BY <1>4, <1>5, <2>1, <2>2, <2>3, Zenon
  <2>6. Step(c, [w EXCEPT !.late = conn[c].app]) => EndInv'
    BY <1>4, <1>5, <2>1, <2>2, <2>3, Zenon
  <2>. QED
    BY <2>4, <2>5, <2>6 DEF w
<1>6. ASSUME NEW pc \in {"connecting", "deciding"}, NEW left \in Int
      PROVE  /\ Step(c, Goto(c, pc, left)) => EndInv'
             /\ Step(c, [Goto(c, pc, left) EXCEPT !.late = conn[c].app]) => EndInv'
  <2>. DEFINE w == Goto(c, pc, left)
  <2>1. w \in After /\ w.pc = pc /\ w.lifecycle = "none"
    BY <1>2, <1>6, GotoTyped, Fields DEF EndInv, Pcs
  <2>2. [w EXCEPT !.late = conn[c].app] \in After
    BY <2>1, FieldsTyped, Zenon DEF EndInv
  <2>. HIDE DEF w
  <2>3. /\ [w EXCEPT !.late = conn[c].app].pc = w.pc
        /\ [w EXCEPT !.late = conn[c].app].lifecycle = w.lifecycle
    BY <2>1 DEF After, Connection
  <2>4. Step(c, w) => EndInv'
    BY <1>4, <1>6, <2>1
  <2>5. Step(c, [w EXCEPT !.late = conn[c].app]) => EndInv'
    BY <1>4, <1>6, <2>1, <2>2, <2>3, Zenon
  <2>. QED
    BY <2>4, <2>5 DEF w
<1>7. ASSUME NEW pc \in Nexts \ {"none"}, Step(c, Writing(c, pc, 0))
      PROVE  EndInv'
  <2>1. /\ Writing(c, pc, 0) \in After /\ Writing(c, pc, 0).pc = "writing"
        /\ Writing(c, pc, 0).next = pc /\ Writing(c, pc, 0).lifecycle = "none"
    BY <1>2, WritingTyped, Fields DEF EndInv
  <2>. QED
    BY <1>4, <1>7, <2>1
<1>8. CASE Handshake(c)
  <2>1. /\ Step(c, Writing(c, "handshake", 0)) => EndInv'
        /\ Step(c, Writing(c, "connecting", 0)) => EndInv'
    BY <1>7 DEF Nexts
  <2>. QED
    BY <1>3, <1>8, <2>1 DEF Handshake
<1>9. CASE ConnectRead(c)
  <2>1. ASSUME NEW n \in 1 .. MaxBatch
        PROVE  /\ Step(c, [Goto(c, "deciding", n) EXCEPT !.late = conn[c].app]) => EndInv'
               /\ Step(c, [Writing(c, "deciding", n) EXCEPT !.late = conn[c].app]) => EndInv'
    <3>1. n \in Int /\ "deciding" \in Nexts \ {"none"}
      BY RtmpConnectionAssumption DEF Nexts
    <3>. QED
      BY <1>5, <1>6, <3>1, Zenon
  <2>2. Step(c, Writing(c, "connecting", 0)) => EndInv'
    BY <1>7 DEF Nexts
  <2>. QED
    BY <1>3, <1>9, <2>1, <2>2, Zenon DEF ConnectRead
<1>10. /\ Decided(c) \in Nexts \ {"none"} /\ Later(c) \in Int
      /\ Decided(c) \in {"connecting", "deciding"}
  BY EventsTyped DEF Nexts, EndInv
<1>11. CASE OnConnect(c)
  <2>1. /\ Step(c, [Writing(c, Decided(c), Later(c)) EXCEPT !.app = TRUE]) => EndInv'
        /\ Step(c, Writing(c, "done", 0)) => EndInv'
    BY <1>5, <1>7, <1>10, Zenon DEF Nexts
  <2>. QED
    BY <1>11, <2>1 DEF OnConnect
<1>12. CASE OnCommand(c)
  <2>1. /\ Step(c, Writing(c, Decided(c), Later(c))) => EndInv'
        /\ Step(c, Goto(c, Decided(c), Later(c))) => EndInv'
    BY <1>5, <1>6, <1>10, Zenon
  <2>. QED
    BY <1>12, <2>1 DEF OnCommand
<1>13. CASE OnOther(c)
  BY <1>3, <1>13 DEF OnOther
<1>14. CASE OnPlay(c)
  <2>1. /\ Step(c, Writing(c, "subscribing", 0)) => EndInv'
        /\ Step(c, Writing(c, "done", 0)) => EndInv'
    BY <1>7 DEF Nexts
  <2>. QED
    BY <1>14, <2>1 DEF OnPlay
<1>15. CASE OnPublish(c)
  <2>1. /\ Step(c, Writing(c, "rejected", 0)) => EndInv'
        /\ Step(c, Writing(c, "claiming", 0)) => EndInv'
    BY <1>7 DEF Nexts
  <2>. QED
    BY <1>3, <1>15, <2>1 DEF OnPublish
<1>. QED
  BY <1>8, <1>9, <1>11, <1>12, <1>13, <1>14, <1>15

\* From the answer to the handler.
LEMMA ClaimKeeps ==
  ASSUME EndInv, NEW c \in Conns, Written(c) \/ ClaimPublish(c) \/ ClaimPlay(c)
  PROVE  EndInv'
<1>1. /\ conn[c].pc \in Pcs
      /\ Owns(conn[c], source[c], stream) /\ source[c] \in {"none", "running", "ended"}
      /\ source = [source EXCEPT ![c] = source[c]]
  BY DEF EndInv, Written, ClaimPublish, ClaimPlay, Resumes, Pcs
<1>2. CASE Written(c)
  <2>1. /\ conn[c].pc = "writing" /\ conn[c].next \in Nexts \ {"none"} /\ conn[c].left \in Int
        /\ UNCHANGED source
    BY <1>2 DEF Written, Resumes, EndInv, ConnInv, Connection
  <2>2. StreamKeeps /\ stream'.cancelled = stream.cancelled
    <3>1. CASE stream' = stream
      BY <3>1, StreamSteps
    <3>2. CASE stream.state = "Pending" /\ stream' = [stream EXCEPT !.state = "Connecting"]
      BY <3>2 DEF EndInv, StreamInv, Streams, StreamKeeps
    <3>. QED
      BY <1>2, <3>1, <3>2 DEF Written
  <2>3. CASE conn[c].next \in {"done", "rejected"}
    <3>1. conn[c].lifecycle = "none"
      BY <1>1, <2>1, <2>3 DEF Owns, Early
    <3>. QED
      BY <1>1, <1>2, <2>1, <2>2, <2>3, <3>1, OverKeeps DEF Written
  <2>4. CASE conn[c].next \notin {"done", "rejected"}
    <3>. DEFINE new == Goto(c, conn[c].next, conn[c].left)
    <3>1. conn[c].next \in Pcs \ {"writing", "lingering"}
      BY <2>1, <2>4, SMTT(20) DEF Pcs, Nexts
    <3>2. new \in After /\ new.pc = conn[c].next /\ new.lifecycle = conn[c].lifecycle
      BY <2>1, <3>1, GotoTyped, Fields DEF EndInv
    <3>3. Step(c, new)
      BY <1>2, <2>4 DEF Written
    <3>. HIDE DEF new
    <3>4. Early(new) => Early(conn[c])
      BY <2>1, <3>1, <3>2 DEF Early
    <3>5. Owns(new, source'[c], stream')
      BY <1>1, <2>1, <2>2, <3>1, <3>2, <3>4 DEF Owns, StreamKeeps, Pcs
    <3>6. Fits(c, new)
      BY <2>2, <3>2, <3>5 DEF Fits
    <3>. QED
      BY <1>1, <2>1, <2>2, <3>3, <3>6, StepKeeps
  <2>. QED
    BY <2>3, <2>4
<1>3. CASE ClaimPublish(c)
  <2>1. conn[c].pc = "claiming" /\ conn[c].lifecycle = "none"
    BY <1>1, <1>3 DEF ClaimPublish, Owns, Early
  <2>2. CASE Step(c, Over(c)) /\ UNCHANGED <<source, stream>>
    BY <1>1, <2>1, <2>2, StreamSteps, OverKeeps
  <2>3. CASE /\ Registered /\ source' = [source EXCEPT ![c] = "running"]
             /\ Step(c, [Goto(c, "serving", 0) EXCEPT !.lifecycle = "held"])
             /\ stream' = [stream EXCEPT !.pending = FALSE]
    <3>. DEFINE new == [Goto(c, "serving", 0) EXCEPT !.lifecycle = "held"]
    <3>1. Goto(c, "serving", 0) \in After
      BY GotoTyped DEF Pcs, EndInv
    <3>2. new \in After
      BY <3>1, FieldsTyped, Zenon DEF EndInv
    <3>3. new.pc = "serving" /\ new.lifecycle = "held"
      BY <3>1, Fields DEF EndInv, After, Connection
    <3>4. Step(c, new)
      BY <2>3
    <3>. HIDE DEF new
    <3>5. StreamKeeps /\ stream'.cancelled = stream.cancelled /\ stream'.state # "none"
      BY <2>3, Zenon DEF EndInv, StreamInv, Streams, StreamKeeps, Registered
    <3>6. source'[c] = "running"
      BY <2>3 DEF EndInv
    <3>7. Fits(c, new)
      BY <2>1, <3>2, <3>3, <3>5, <3>6 DEF Fits, Owns, Early
    <3>. QED
      BY <1>1, <2>3, <3>4, <3>5, <3>7, StepKeeps, Zenon
  <2>4. CASE /\ Registered /\ source' = [source EXCEPT ![c] = "running"]
             /\ Step(c, OverWith(c, "ended"))
             /\ stream' = Disconnected([stream EXCEPT !.pending = FALSE])
    <3>1. StreamKeeps /\ stream'.cancelled /\ stream'.state # "none"
      BY <2>4, Zenon DEF EndInv, StreamInv, Streams, StreamKeeps, Registered, Disconnected,
                         Cancelled
    <3>2. /\ OverWith(c, "ended") \in After /\ OverWith(c, "ended").pc = "done"
          /\ OverWith(c, "ended").lifecycle = "ended"
      BY OverTyped, Fields DEF EndInv
    <3>3. Fits(c, OverWith(c, "ended"))
      BY <3>1, <3>2 DEF Fits, Owns, Early
    <3>. QED
      BY <1>1, <2>4, <3>1, <3>3, StepKeeps, Zenon
  <2>. QED
    BY <1>3, <2>2, <2>3, <2>4 DEF ClaimPublish
<1>4. CASE ClaimPlay(c)
  <2>1. conn[c].pc = "subscribing" /\ conn[c].lifecycle = "none" /\ StreamKeeps
        /\ UNCHANGED <<source, stream>>
    BY <1>1, <1>4, StreamSteps DEF ClaimPlay, Owns, Early
  <2>2. CASE Step(c, Over(c))
    BY <1>1, <2>1, <2>2, OverKeeps
  <2>3. CASE Step(c, Writing(c, "serving", 0))
    <3>1. /\ Writing(c, "serving", 0) \in After /\ Writing(c, "serving", 0).pc = "writing"
          /\ Writing(c, "serving", 0).next = "serving"
          /\ Writing(c, "serving", 0).lifecycle = conn[c].lifecycle
      BY WritingTyped, Fields DEF EndInv, Nexts
    <3>2. ~Early(Writing(c, "serving", 0))
      BY <3>1 DEF Early
    <3>. QED
      BY <1>1, <2>1, <2>3, <3>1, <3>2, PlainKeeps
  <2>. QED
    BY <1>4, <2>2, <2>3 DEF ClaimPlay
<1>. QED
  BY <1>2, <1>3, <1>4

\* The handler.
LEMMA ServeKeeps ==
  ASSUME EndInv, NEW c \in Conns,
         \/ ServeRead(c) \/ PlayTag(c) \/ HandleOther(c) \/ HandleFinish(c) \/ HandleMedia(c)
         \/ Feed(c)
  PROVE  EndInv'
<1>1. /\ conn[c].pc \in {"serving", "handling", "feeding"} /\ conn[c].pc \in Pcs
      /\ UNCHANGED source
  BY DEF ServeRead, PlayTag, HandleOther, HandleFinish, HandleMedia, Feed, Resumes, Pcs
<1>2. /\ Owns(conn[c], source[c], stream) /\ source[c] \in {"none", "running", "ended"}
      /\ source' = [source EXCEPT ![c] = source[c]]
  BY <1>1 DEF EndInv
<1>3. CASE Leave(c)
  BY <1>1, <1>3, LeaveKeeps
<1>4. ASSUME NEW pc \in {"serving", "handling"}, NEW left \in Int, UNCHANGED stream,
             Step(c, Writing(c, pc, left))
      PROVE  EndInv'
  <2>1. /\ Writing(c, pc, left) \in After /\ Writing(c, pc, left).pc = "writing"
        /\ Writing(c, pc, left).next = pc
        /\ Writing(c, pc, left).lifecycle = conn[c].lifecycle
    BY WritingTyped, Fields DEF EndInv, Nexts
  <2>2. ~Early(Writing(c, pc, left))
    BY <2>1 DEF Early
  <2>. QED
    BY <1>1, <1>4, <2>1, <2>2, PlainKeeps
<1>5. ASSUME NEW pc \in {"serving", "handling", "feeding"}, NEW left \in Int,
             UNCHANGED stream, Step(c, Goto(c, pc, left))
      PROVE  EndInv'
  <2>1. /\ Goto(c, pc, left) \in After /\ Goto(c, pc, left).pc = pc
        /\ Goto(c, pc, left).lifecycle = conn[c].lifecycle
    BY GotoTyped, Fields DEF EndInv, Pcs
  <2>2. ~Early(Goto(c, pc, left))
    BY <2>1 DEF Early
  <2>. QED
    BY <1>1, <1>5, <2>1, <2>2, PlainKeeps
<1>6. ASSUME UNCHANGED stream, Step(c, Writing(c, "serving", 0))
      PROVE  EndInv'
  <2>1. 0 \in Int
    OBVIOUS
  <2>. QED
    BY <1>4, <1>6, <2>1
<1>7. ASSUME NEW pc \in {"serving", "handling", "feeding"}, NEW left \in Int,
             NEW l \in {"connected", "ended"}, StreamKeeps,
             conn[c].lifecycle # "none", conn[c].lifecycle = "ended" => l = "ended",
             stream'.cancelled /\ ~stream.cancelled => l = "ended",
             l = "ended" => stream'.cancelled,
             Step(c, [Goto(c, pc, left) EXCEPT !.lifecycle = l])
      PROVE  EndInv'
  <2>. DEFINE new == [Goto(c, pc, left) EXCEPT !.lifecycle = l]
  <2>1. Goto(c, pc, left) \in After
    BY GotoTyped DEF EndInv, Pcs
  <2>2. new \in After
    BY <2>1, FieldsTyped, Zenon DEF EndInv
  <2>3. new.pc = pc /\ new.lifecycle = l
    BY <2>1, Fields DEF EndInv, After, Connection
  <2>4. Step(c, new)
    BY <1>7
  <2>. HIDE DEF new
  <2>5. Owns(new, source'[c], stream')
    BY <1>1, <1>2, <1>7, <2>3 DEF Owns, Early, StreamKeeps
  <2>6. Fits(c, new)
    BY <1>7, <2>2, <2>3, <2>5 DEF Fits
  <2>. QED
    BY <1>1, <1>2, <1>7, <2>4, <2>6, StepKeeps, Zenon
<1>8. /\ Handled(c) \in {"serving", "handling"} /\ Later(c) \in Int /\ conn[c].left \in Int
  BY EventsTyped DEF EndInv
<1>9. CASE ServeRead(c)
  <2>1. \A n \in 1 .. MaxBatch : n \in Int
    BY RtmpConnectionAssumption
  <2>2. ASSUME NEW n \in 1 .. MaxBatch, UNCHANGED stream,
               Step(c, Goto(c, "handling", n)) \/ Step(c, Writing(c, "handling", n))
        PROVE  EndInv'
    BY <1>4, <1>5, <2>1, <2>2
  <2>. QED
    BY <1>3, <1>6, <1>9, <2>2 DEF ServeRead
<1>10. CASE PlayTag(c)
  BY <1>6, <1>10 DEF PlayTag
<1>11. CASE HandleOther(c)
  BY <1>5, <1>8, <1>11 DEF HandleOther
<1>12. CASE HandleFinish(c)
  <2>1. CASE IsPublisher(c)
    <3>1. StreamKeeps /\ stream'.cancelled
      BY <1>2, <1>12, <2>1, StreamSteps DEF HandleFinish, IsPublisher, Owns
    <3>2. Step(c, [Goto(c, Handled(c), Later(c)) EXCEPT !.lifecycle = "ended"])
      BY <1>12, <2>1 DEF HandleFinish
    <3>. QED
      BY <1>7, <1>8, <2>1, <3>1, <3>2, Zenon DEF IsPublisher
  <2>2. CASE ~IsPublisher(c)
    BY <1>4, <1>8, <1>12, <2>2 DEF HandleFinish
  <2>. QED
    BY <2>1, <2>2
<1>13. CASE HandleMedia(c)
  <2>1. CASE /\ conn[c].lifecycle = "held"
             /\ stream.state \in {"Pending", "Connecting", "Connected"}
             /\ Step(c, [Goto(c, "feeding", conn[c].left) EXCEPT !.lifecycle = "connected"])
             /\ stream' = [stream EXCEPT !.state = "Connected"]
    <3>1. StreamKeeps /\ stream'.cancelled = stream.cancelled
      BY <2>1 DEF EndInv, StreamInv, Streams, StreamKeeps
    <3>. QED
      BY <1>7, <1>8, <2>1, <3>1, Zenon
  <2>2. CASE Step(c, Goto(c, "feeding", conn[c].left)) /\ UNCHANGED stream
    BY <1>5, <1>8, <2>2
  <2>. QED
    BY <1>3, <1>13, <2>1, <2>2 DEF HandleMedia
<1>14. CASE Feed(c)
  BY <1>3, <1>5, <1>8, <1>14 DEF Feed
<1>. QED
  BY <1>9, <1>10, <1>11, <1>12, <1>13, <1>14

\* The end of a task, and of its client.
LEMMA EndKeeps ==
  ASSUME EndInv, NEW c \in Conns,
         ServeEnds(c) \/ ConnectEnds(c) \/ Lingered(c) \/ Abort(c) \/ Close(c)
  PROVE  EndInv'
<1>1. /\ Owns(conn[c], source[c], stream) /\ source[c] \in {"none", "running", "ended"}
      /\ source = [source EXCEPT ![c] = source[c]]
      /\ conn[c] \in Connection /\ StreamInv(stream)
      /\ conn[c].lifecycle \in {"none", "held", "connected", "ended"}
  BY DEF EndInv, ConnInv, Connection
<1>2. CASE ServeEnds(c)
  <2>1. conn[c].pc \in Pcs
    BY <1>2 DEF ServeEnds, TokenFired, Pcs
  <2>. QED
    BY <1>2, <2>1, LeaveKeeps DEF ServeEnds
<1>3. CASE ConnectEnds(c)
  <2>1. /\ conn[c].pc \in Pcs /\ UNCHANGED source
        /\ conn[c].lifecycle = "none" /\ source[c] = "none"
    BY <1>1, <1>3 DEF ConnectEnds, Pcs, Owns, Early
  <2>2. CASE Step(c, Over(c)) /\ UNCHANGED stream
    BY <2>1, <2>2, StreamSteps, OverKeeps
  <2>3. CASE /\ conn[c].next = "claiming" /\ Step(c, OverWith(c, "ended"))
             /\ stream' = Disconnected(stream)
    <3>1. StreamKeeps
      BY <1>1, <2>3, StreamSteps DEF Disconnected, Registered
    <3>2. /\ OverWith(c, "ended") \in After /\ OverWith(c, "ended").pc = "done"
          /\ OverWith(c, "ended").lifecycle = "ended"
      BY OverTyped, Fields DEF EndInv
    <3>3. Fits(c, OverWith(c, "ended"))
      BY <2>1, <3>2 DEF Fits, Owns, Early
    <3>. QED
      BY <1>1, <2>1, <2>3, <3>1, <3>3, StepKeeps
  <2>. QED
    BY <1>3, <2>2, <2>3 DEF ConnectEnds
<1>4. CASE Lingered(c)
  <2>1. StreamKeeps /\ stream'.cancelled = stream.cancelled
    BY <1>1, <1>4, Zenon DEF Lingered, StreamInv, Streams, StreamKeeps
  <2>2. conn[c].pc = "lingering" /\ conn[c].pc \in Pcs
    BY <1>4 DEF Lingered, Resumes, Pcs
  <2>. QED
    BY <1>1, <1>4, <2>1, <2>2, OverKeeps DEF Lingered, Owns
<1>5. CASE Abort(c)
  <2>1. conn[c].pc \in Pcs
    BY <1>5 DEF Abort, Pcs
  <2>2. CASE conn[c].lifecycle \in {"held", "connected"}
    <3>1. StreamKeeps /\ stream'.cancelled
      BY <1>1, <1>5, <2>2, StreamSteps DEF Abort, StreamWithout, Owns
    <3>. QED
      BY <1>5, <2>1, <2>2, <3>1, OverKeeps DEF Abort, IsPublisher
  <2>3. CASE conn[c].lifecycle \notin {"held", "connected"}
    <3>1. stream' = stream /\ StreamKeeps
      BY <1>5, <2>3, StreamSteps DEF Abort, StreamWithout
    <3>. QED
      BY <1>5, <2>1, <2>3, <3>1, OverKeeps DEF Abort
  <2>. QED
    BY <2>2, <2>3
<1>6. CASE Close(c)
  <2>. DEFINE new == [conn[c] EXCEPT !.closed = TRUE]
  <2>1. conn[c].pc \in Pcs
    BY <1>1, <1>6 DEF Close, Alive, Handler, Connection
  <2>2. new \in After /\ new.pc = conn[c].pc /\ new.next = conn[c].next
        /\ new.lifecycle = conn[c].lifecycle
    BY <1>1, <2>1, Zenon DEF After, Connection, EndInv, ConnInv
  <2>3. Step(c, new) /\ UNCHANGED <<source, stream>> /\ StreamKeeps
    BY <1>6, StreamSteps DEF Close
  <2>. HIDE DEF new
  <2>4. Fits(c, new)
    BY <1>1, <2>2, <2>3 DEF Fits, Owns, Early
  <2>. QED
    BY <1>1, <2>1, <2>3, <2>4, StepKeeps
<1>. QED
  BY <1>2, <1>3, <1>4, <1>5, <1>6

-----------------------------------------------------------------------------
(* The theorem *)

\* Before the first connection and the stream, nothing is owed.
LEMMA EndInvInit == ConnInit => EndInv
<1>. SUFFICES ASSUME ConnInit PROVE EndInv
  OBVIOUS
<1>1. ConnInv
  BY RtmpInit
<1>2. cancel \in BOOLEAN
  BY Zenon DEF ConnInit, Server!IngestInit
<1>3. StreamInv(stream) /\ ~stream.cancelled
  BY DEF ConnInit, NoStream, StreamInv, Streams
<1>4. ASSUME NEW c \in Conns
      PROVE  Owns(conn[c], source[c], stream)
  BY DEF ConnInit, Fresh, Owns
<1>. QED
  BY <1>1, <1>2, <1>3, <1>4 DEF EndInv, ConnInit

\* Every step pays what it owes.
LEMMA EndInvStep == EndInv /\ [RtmpNext]_connVars => EndInv'
<1>. SUFFICES ASSUME EndInv, [RtmpNext]_connVars PROVE EndInv'
  OBVIOUS
<1>1. ASSUME NEW c \in Conns, ConnTask(c) \/ ConnIO(c) \/ Close(c)
      PROVE  EndInv'
  BY <1>1, ConnectKeeps, ClaimKeeps, ServeKeeps, EndKeeps DEF ConnTask, ConnIO
<1>2. ASSUME NEW c \in Conns, Connect(c)
      PROVE  EndInv'
  <2>1. PICK pc \in {"handshake", "refused"} : conn' = [conn EXCEPT ![c].pc = pc]
    BY <1>2, Zenon DEF Connect
  <2>2. conn[c] \in Connection /\ conn[c].pc = "none" /\ UNCHANGED <<source, stream, cancel>>
    BY <1>2 DEF Connect, EndInv, ConnInv, Server!Accept
  <2>3. ConnInv'
    BY <1>2, RtmpStep DEF EndInv
  <2>4. conn'[c].pc = pc /\ conn'[c].lifecycle = conn[c].lifecycle
    BY <2>1, <2>2 DEF Connection, EndInv, ConnInv
  <2>5. \A d \in Conns \ {c} : conn'[d] = conn[d]
    BY <2>1 DEF EndInv, ConnInv
  <2>6. ASSUME NEW d \in Conns
        PROVE  Owns(conn'[d], source'[d], stream')
    <3>1. CASE d = c
      BY <2>2, <2>4, <3>1 DEF EndInv, Owns, Early
    <3>2. CASE d # c
      BY <2>2, <2>5, <3>2 DEF EndInv
    <3>. QED
      BY <3>1, <3>2
  <2>7. \A d \in Conns : conn'[d].lifecycle = conn[d].lifecycle
    BY <2>4, <2>5
  <2>. QED
    BY <2>2, <2>3, <2>6, <2>7 DEF EndInv
<1>3. CASE \/ Precreate \/ StopStream \/ Expire \/ Cleanup \/ Shutdown
           \/ \E c \in Conns : SourceEnds(c)
  BY <1>3, StreamActions
<1>4. CASE \/ ServerStep(Server!Bind) \/ ServerStep(Server!Pause) \/ ServerStep(Server!Resume)
           \/ ServerStep(Server!LoopLeaves) \/ ServerStep(Server!ServerEnds)
           \/ UNCHANGED connVars
  <2>1. UNCHANGED <<conn, source, stream, cancel>>
    BY <1>4 DEF ServerStep, Server!Bind, Server!Pause, Server!Resume, Server!LoopLeaves,
                Server!ServerEnds, connVars, serverVars
  <2>. QED
    BY <2>1 DEF EndInv, ConnInv
<1>. QED
  BY <1>1, <1>2, <1>3, <1>4 DEF RtmpNext

\* A stream that a publisher has claimed is cancelled when that connection lingers or is
\* over, however it ended, and a stream whose end nobody has asked for is cancelled only
\* by a connection that had its lifecycle: whatever the clients of rtmp/server.rs do, and
\* however many they are.
THEOREM StreamEndsWithItsPublisher == RtmpSpec => []StreamEndsWithPublisher
<1>1. EndInv => StreamEndsWithPublisher
  BY DEF EndInv, Owns, StreamEndsWithPublisher
<1>. QED
  BY <1>1, EndInvInit, EndInvStep, PTL DEF RtmpSpec
=============================================================================
