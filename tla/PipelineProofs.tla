--------------------------- MODULE PipelineProofs ---------------------------
(***************************************************************************)
(* Proofs about Pipeline, for any number of frames and queues of any size: *)
(* the subscribers get the frames in the publisher's order and none twice, *)
(* and a shutdown within its deadline leaves no task running that it has   *)
(* not aborted.                                                            *)
(***************************************************************************)
EXTENDS Pipeline, Integers, Functions, SequenceTheorems, TLAPS

Increasing(s) == \A i, j \in DOMAIN s : i < j => s[i] < s[j]

(***************************************************************************)
(* The way of a packet to the subscribers has ten stages: the publisher's  *)
(* hand (9), then by turns a queue and the hand of the task that receives  *)
(* from it, down to what has been broadcast (0).                           *)
(***************************************************************************)
Stages == 0 .. 9

\* What task t holds for the FLV branch.  The packet of seq is through with this branch
\* once only the HLS pad is due.
Hand(t) == IF task[t].pc = "holding" /\ task[t].out # <<"hls">> THEN {task[t].item} ELSE {}

Held(k) == CASE k = 0 -> Range(broadcast)
             [] k = 1 -> Hand("sink")
             [] k = 2 -> Range(pad["sink"])
             [] k = 3 -> Hand("mux")
             [] k = 4 -> Range(pad["mux"])
             [] k = 5 -> Hand("seq")
             [] k = 6 -> Range(pad["seq"])
             [] k = 7 -> Hand("source")
             [] k = 8 -> Range(frames)
             [] k = 9 -> IF publisher = "sending" THEN {made} ELSE {}

TaskRec == [pc : {"unborn", "idle", "holding", "building", "done"}, item : 0 .. MaxFrames,
            out : {<<>>, <<"seq">>, <<"mux", "hls">>, <<"hls">>, <<"sink">>}]

\* What task t can hold, and the outputs that it can still owe.
Carries(t, r) ==
  r.pc = "holding" =>
    /\ r.item \in Packets
    /\ t \in {"source", "seq", "mux", "sink"}
    /\ t = "seq" => r.out \in {<<"mux", "hls">>, <<"hls">>}
    /\ t = "mux" => r.out = <<"sink">>
    /\ t = "source" => r.out = <<"seq">>
    /\ t = "sink" => r.out = <<>>

FlowTypes ==
  /\ publisher \in {"reading", "sending", "gone"}
  /\ made \in 0 .. MaxFrames
  /\ publisher = "sending" => made \in Packets
  /\ frames \in Seq(Packets)
  /\ broadcast \in Seq(Packets)
  /\ pad \in [Pads -> Seq(Packets)]
  /\ task \in [Tasks -> TaskRec]
  /\ \A t \in Tasks : Carries(t, task[t])

QueuesIncrease ==
  /\ Increasing(broadcast) /\ Increasing(frames)
  /\ \A p \in Pads \ {"hls"} : Increasing(pad[p])

\* A packet that is further on is an earlier one, and all have been made.
StagesOrdered == \A a, b \in Stages : a < b => \A x \in Held(a), y \in Held(b) : x < y
StagesMade == \A a \in Stages : \A x \in Held(a) : x <= made

FlowInv == FlowTypes /\ QueuesIncrease /\ StagesOrdered /\ StagesMade

\* What the engine knows of the tasks, unless its deadline has passed: the tasks that run
\* are registered, waited for or aborted, and shutdown() waits for deferred_hls_init, so
\* that nothing is registered after it has taken the late handles.
Handles ==
  /\ phase \in {"Initializing", "Running", "Draining", "Terminated"}
  /\ ~timedOut =>
       /\ \A t \in Tasks \ {"source"} : Alive(t) => t \in registered \cup draining \cup aborted
       /\ Alive("hls") => /\ phase \in {"Initializing", "Running"} => "hls" \in registered
                          /\ phase = "Draining" => "hls" \in draining
                          /\ phase # "Terminated"
       /\ phase # "Draining" => draining = {}
       /\ phase = "Terminated" => registered = {}

PipelineInv == FlowInv /\ Handles

-----------------------------------------------------------------------------
(* Queues *)

\* The head of an increasing queue comes before the rest, which is increasing again.
LEMMA HeadFirst ==
  ASSUME NEW s \in Seq(Packets), s # <<>>, Increasing(s)
  PROVE  /\ Tail(s) \in Seq(Packets) /\ Increasing(Tail(s))
         /\ Head(s) \in Range(s) /\ Head(s) \in Packets
         /\ Range(Tail(s)) \subseteq Range(s)
         /\ \A x \in Range(Tail(s)) : Head(s) < x
<1>1. /\ Tail(s) \in Seq(Packets) /\ Head(s) = s[1] /\ 1 \in DOMAIN s
      /\ \A i \in DOMAIN Tail(s) : i + 1 \in DOMAIN s /\ Tail(s)[i] = s[i + 1] /\ 1 < i + 1
  OBVIOUS
<1>2. DOMAIN Tail(s) \subseteq Int /\ s[1] \in Packets
  BY <1>1
<1> QED BY <1>1, <1>2 DEF Increasing, Range

\* A packet later than all in the queue can be appended.
LEMMA AppendLast ==
  ASSUME NEW s \in Seq(Packets), Increasing(s), NEW x \in Packets, \A y \in Range(s) : y < x
  PROVE  /\ Append(s, x) \in Seq(Packets) /\ Increasing(Append(s, x))
         /\ Range(Append(s, x)) = Range(s) \cup {x}
<1>1. /\ Append(s, x) \in Seq(Packets) /\ DOMAIN s = 1 .. Len(s) /\ Len(s) \in Nat
      /\ DOMAIN Append(s, x) = 1 .. Len(s) + 1
      /\ \A i \in DOMAIN s : Append(s, x)[i] = s[i]
      /\ Append(s, x)[Len(s) + 1] = x
  OBVIOUS
<1>2. \A i \in 1 .. Len(s) : s[i] < x
  BY <1>1, Zenon DEF Range
<1>3. Increasing(Append(s, x))
  BY <1>1, <1>2 DEF Increasing
<1>4. Range(Append(s, x)) = Range(s) \cup {x}
  BY <1>1 DEF Range
<1> QED BY <1>1, <1>3, <1>4, Zenon

-----------------------------------------------------------------------------
(* Stages *)

\* What every stage holds are packets.
LEMMA HeldArePackets ==
  ASSUME FlowTypes
  PROVE  \A k \in Stages : Held(k) \subseteq Packets
<1>1. \A t \in Tasks : Hand(t) \subseteq Packets
  BY Zenon DEF FlowTypes, Carries, Hand
<1>2. \A q \in Seq(Packets) : Range(q) \subseteq Packets
  BY DEF Range
<1>3. {"sink", "mux", "seq"} \subseteq Pads /\ {"sink", "mux", "seq", "source"} \subseteq Tasks
  BY Zenon DEF Pads, Tasks, Processors, Sinks
<1>4. /\ Range(broadcast) \subseteq Packets /\ Range(frames) \subseteq Packets
      /\ \A p \in {"sink", "mux", "seq"} : Range(pad[p]) \subseteq Packets
      /\ \A t \in {"sink", "mux", "seq", "source"} : Hand(t) \subseteq Packets
      /\ publisher = "sending" => made \in Packets
  BY <1>1, <1>2, <1>3, Zenon DEF FlowTypes
<1> QED BY <1>4 DEF Stages, Held

\* The order survives when stages lose packets ...
LEMMA DropKeeps ==
  ASSUME StagesOrdered, StagesMade, made' = made,
         \A k \in Stages : Held(k)' \subseteq Held(k)
  PROVE  StagesOrdered' /\ StagesMade'
BY Zenon DEF StagesOrdered, StagesMade

\* ... and when one packet goes on to the next stage, before those that stay behind.
LEMMA MoveKeeps ==
  ASSUME StagesOrdered, StagesMade, made' = made,
         NEW d \in 0 .. 8, NEW x \in Held(d + 1),
         \A k \in Stages : k # d => Held(k)' \subseteq Held(k),
         Held(d)' \subseteq Held(d) \cup {x},
         \A y \in Held(d + 1)' : x < y
  PROVE  StagesOrdered' /\ StagesMade'
<1>0. d \in Stages /\ d + 1 \in Stages /\ d < d + 1
  BY DEF Stages
<1>1. StagesMade'
  BY <1>0, Zenon DEF StagesMade
<1>2. StagesOrdered'
  <2> SUFFICES ASSUME NEW a \in Stages, NEW b \in Stages, a < b,
                      NEW u \in Held(a)', NEW v \in Held(b)'
               PROVE  u < v
    BY Zenon DEF StagesOrdered
  <2>1. u \in Held(a) /\ v \in Held(b) => u < v
    BY Zenon DEF StagesOrdered
  <2>2. CASE a = d /\ u = x
    <3>1. CASE b = d + 1
      BY <2>2, <3>1, Zenon
    <3>2. CASE b # d + 1
      <4>1. d + 1 < b /\ b # d
        BY <2>2, <3>2 DEF Stages
      <4> QED BY <1>0, <2>2, <4>1, Zenon DEF StagesOrdered
    <3> QED BY <3>1, <3>2, Zenon
  <2>3. CASE b = d /\ v = x
    <3>1. a < d + 1 /\ a # d
      BY <2>3 DEF Stages
    <3> QED BY <1>0, <2>3, <3>1, Zenon DEF StagesOrdered
  <2> QED BY <2>1, <2>2, <2>3, Zenon
<1> QED BY <1>1, <1>2, Zenon

\* A packet that goes on comes after everything in the stage that it enters.
LEMMA MovesLast ==
  ASSUME StagesOrdered, NEW d \in 0 .. 8, NEW x \in Held(d + 1)
  PROVE  \A y \in Held(d) : y < x
<1>1. d \in Stages /\ d + 1 \in Stages /\ d < d + 1
  BY DEF Stages
<1> QED BY <1>1, Zenon DEF StagesOrdered

\* A stage holds what it held unless the variables that it is made of change.
LEMMA HeldStays ==
  /\ broadcast' = broadcast => Held(0)' = Held(0)
  /\ task'["sink"] = task["sink"] => Held(1)' = Held(1)
  /\ pad'["sink"] = pad["sink"] => Held(2)' = Held(2)
  /\ task'["mux"] = task["mux"] => Held(3)' = Held(3)
  /\ pad'["mux"] = pad["mux"] => Held(4)' = Held(4)
  /\ task'["seq"] = task["seq"] => Held(5)' = Held(5)
  /\ pad'["seq"] = pad["seq"] => Held(6)' = Held(6)
  /\ task'["source"] = task["source"] => Held(7)' = Held(7)
  /\ frames' = frames => Held(8)' = Held(8)
  /\ UNCHANGED <<publisher, made>> => Held(9)' = Held(9)
<1>1. /\ Held(0) = Range(broadcast) /\ Held(2) = Range(pad["sink"])
      /\ Held(4) = Range(pad["mux"]) /\ Held(6) = Range(pad["seq"]) /\ Held(8) = Range(frames)
      /\ Held(1) = Hand("sink") /\ Held(3) = Hand("mux") /\ Held(5) = Hand("seq")
      /\ Held(7) = Hand("source") /\ Held(9) = IF publisher = "sending" THEN {made} ELSE {}
  BY DEF Held
<1>2. /\ Held(0)' = Range(broadcast') /\ Held(2)' = Range(pad'["sink"])
      /\ Held(4)' = Range(pad'["mux"]) /\ Held(6)' = Range(pad'["seq"])
      /\ Held(8)' = Range(frames')
      /\ Held(1)' = Hand("sink")' /\ Held(3)' = Hand("mux")' /\ Held(5)' = Hand("seq")'
      /\ Held(7)' = Hand("source")' /\ Held(9)' = IF publisher' = "sending" THEN {made'} ELSE {}
  BY DEF Held
<1>3. \A t \in {"sink", "mux", "seq", "source"} : task'[t] = task[t] => Hand(t)' = Hand(t)
  BY Zenon DEF Hand
<1> QED BY <1>1, <1>2, <1>3, Zenon

\* The tasks after a step that changes one of them.
LEMMA SetTask ==
  ASSUME FlowTypes, NEW t \in Tasks, NEW r \in TaskRec, Carries(t, r),
         task' = [task EXCEPT ![t] = r]
  PROVE  /\ task' \in [Tasks -> TaskRec]
         /\ \A u \in Tasks : Carries(u, task'[u])
         /\ task'[t] = r /\ \A u \in Tasks : u # t => task'[u] = task[u]
BY Zenon DEF FlowTypes

\* The records that the steps leave.
LEMMA Records ==
  /\ Idle \in TaskRec /\ Idle.pc = "idle"
  /\ Done \in TaskRec /\ Done.pc = "done"
  /\ \A t \in Tasks : Carries(t, Idle) /\ Carries(t, Done)
  /\ \A x \in Packets :
       /\ Holding(x, <<"seq">>) \in TaskRec /\ Carries("source", Holding(x, <<"seq">>))
       /\ Holding(x, <<"mux", "hls">>) \in TaskRec
       /\ Carries("seq", Holding(x, <<"mux", "hls">>))
       /\ Holding(x, <<"sink">>) \in TaskRec /\ Carries("mux", Holding(x, <<"sink">>))
       /\ Holding(x, <<>>) \in TaskRec /\ Carries("sink", Holding(x, <<>>))
<1>1. 0 \in 0 .. MaxFrames /\ Packets \subseteq 0 .. MaxFrames
  BY PipelineAssumption DEF Packets
<1>2. /\ Idle = [pc |-> "idle", item |-> 0, out |-> <<>>]
      /\ Done = [pc |-> "done", item |-> 0, out |-> <<>>]
  BY DEF Idle, Done, Unborn
<1>3. /\ Idle \in TaskRec /\ Idle.pc = "idle" /\ Done \in TaskRec /\ Done.pc = "done"
      /\ \A t \in Tasks : Carries(t, Idle) /\ Carries(t, Done)
  BY <1>1, <1>2, Zenon DEF TaskRec, Carries
<1>4. \A x \in Packets :
        /\ Holding(x, <<"seq">>) \in TaskRec /\ Holding(x, <<"mux", "hls">>) \in TaskRec
        /\ Holding(x, <<"sink">>) \in TaskRec /\ Holding(x, <<>>) \in TaskRec
  BY <1>1, Zenon DEF TaskRec, Holding
<1>5. \A x \in Packets :
        /\ Carries("source", Holding(x, <<"seq">>)) /\ Carries("mux", Holding(x, <<"sink">>))
        /\ Carries("seq", Holding(x, <<"mux", "hls">>)) /\ Carries("sink", Holding(x, <<>>))
  BY Zenon DEF Carries, Holding
<1> QED BY <1>3, <1>4, <1>5, Zenon

\* The pads after a step that changes one of them.
LEMMA SetPad ==
  ASSUME FlowTypes, NEW p \in Pads, NEW q \in Seq(Packets), pad' = [pad EXCEPT ![p] = q]
  PROVE  /\ pad' \in [Pads -> Seq(Packets)]
         /\ pad'[p] = q /\ \A u \in Pads : u # p => pad'[u] = pad[u]
BY Zenon DEF FlowTypes

\* The outputs of seq and mux, one by one.
LEMMA OutputsDue ==
  /\ Head(<<"mux", "hls">>) = "mux" /\ Tail(<<"mux", "hls">>) = <<"hls">>
  /\ Head(<<"hls">>) = "hls" /\ Tail(<<"hls">>) = <<>>
  /\ Head(<<"sink">>) = "sink" /\ Tail(<<"sink">>) = <<>>
<1>1. Head(<<"mux", "hls">>) = "mux" /\ Head(<<"hls">>) = "hls" /\ Head(<<"sink">>) = "sink"
  OBVIOUS
<1>2. Tail(<<"hls">>) = <<>> /\ Tail(<<"sink">>) = <<>>
  OBVIOUS
<1>3. Tail(<<"mux", "hls">>) = <<"hls">>
  <2> DEFINE P == {"mux", "hls"}
             s == <<"mux", "hls">>
             u == Tail(s)
             v == <<"hls">>
  <2>1. s \in Seq(P) /\ Len(s) = 2 /\ s[2] = "hls"
    OBVIOUS
  <2>2. u \in Seq(P) /\ Len(u) = 1 /\ u[1] = "hls"
    BY <2>1
  <2>3. v \in Seq(P) /\ Len(v) = 1 /\ v[1] = "hls"
    OBVIOUS
  <2> HIDE DEF P, u, v
  <2>4. \A i \in 1 .. Len(u) : u[i] = v[i]
    BY <2>2, <2>3
  <2>5. u = v
    BY <2>2, <2>3, <2>4, SeqEqual, Zenon
  <2> QED BY <2>5, Zenon DEF u, v
<1> QED BY <1>1, <1>2, <1>3, Zenon

LEMMA Names ==
  /\ {"sink", "mux", "seq", "hls"} = Pads
  /\ {"sink", "mux", "seq", "source", "hls", "segmenter", "minio"} = Tasks
  /\ Outputs["source"] = <<"seq">> /\ Outputs["seq"] = <<"mux", "hls">>
  /\ Outputs["mux"] = <<"sink">>
<1>1. /\ {"sink", "mux", "seq", "hls"} = Pads
      /\ {"sink", "mux", "seq", "source", "hls", "segmenter", "minio"} = Tasks
  BY Zenon DEF Pads, Tasks, Processors, Sinks
<1>2. "source" \in {"source"} \cup Processors /\ "seq" \in {"source"} \cup Processors
      /\ "mux" \in {"source"} \cup Processors
  BY Zenon DEF Processors
<1> QED BY <1>1, <1>2, Zenon DEF Outputs

-----------------------------------------------------------------------------
(* The publisher *)

LEMMA PublisherKeepsFlow ==
  ASSUME FlowInv, PublisherStep
  PROVE  FlowInv'
<1> USE DEF FlowInv
<1>0. PublisherStep => UNCHANGED <<pad, broadcast, task>>
  BY Zenon DEF PublisherStep, PublishBegin, PublishSend, PublisherLeaves
<1>h. \A k \in 0 .. 7 : Held(k)' = Held(k)
  BY <1>0, HeldStays
<1>t. /\ pad' \in [Pads -> Seq(Packets)] /\ broadcast' \in Seq(Packets)
      /\ task' \in [Tasks -> TaskRec] /\ (\A t \in Tasks : Carries(t, task'[t]))
      /\ Increasing(broadcast') /\ \A p \in Pads \ {"hls"} : Increasing(pad'[p])
  BY <1>0, Zenon DEF FlowTypes, QueuesIncrease
<1>1. CASE PublishBegin
  <2>1. /\ publisher = "reading" /\ publisher' = "sending" /\ frames' = frames
        /\ made < MaxFrames /\ made' = made + 1 /\ made \in Nat /\ made' \in Packets
        /\ made' \in 0 .. MaxFrames
    BY <1>1, PipelineAssumption DEF PublishBegin, FlowTypes, Packets
  <2>2. FlowTypes' /\ QueuesIncrease'
    BY <1>t, <2>1, Zenon DEF FlowTypes, QueuesIncrease
  <2>3. Held(8)' = Held(8) /\ Held(9)' = {made + 1} /\ Held(9) = {}
    BY <2>1, HeldStays DEF Held
  <2>4. \A k \in Stages : k # 9 => Held(k)' = Held(k)
    BY <1>h, <2>3 DEF Stages
  <2>5. \A k \in Stages : k # 9 => \A x \in Held(k)' : x \in Int /\ x <= made
    BY <2>4, HeldArePackets DEF StagesMade, Packets
  <2>6. StagesMade'
    BY <2>1, <2>3, <2>5 DEF StagesMade
  <2>7. StagesOrdered'
    <3> SUFFICES ASSUME NEW a \in Stages, NEW b \in Stages, a < b,
                        NEW x \in Held(a)', NEW y \in Held(b)'
                 PROVE  x < y
      BY Zenon DEF StagesOrdered
    <3>1. a # 9
      BY DEF Stages
    <3>2. CASE b = 9
      BY <2>1, <2>3, <2>5, <3>1, <3>2
    <3>3. CASE b # 9
      BY <2>4, <3>1, <3>3, Zenon DEF StagesOrdered
    <3> QED BY <3>2, <3>3, Zenon
  <2> QED BY <2>2, <2>6, <2>7, Zenon
<1>2. CASE publisher' = "gone" /\ UNCHANGED <<made, frames>>
  <2>1. FlowTypes' /\ QueuesIncrease'
    BY <1>t, <1>2, Zenon DEF FlowTypes, QueuesIncrease
  <2>2. Held(8)' = Held(8) /\ Held(9)' = {}
    BY <1>2, HeldStays DEF Held
  <2>3. \A k \in Stages : Held(k)' \subseteq Held(k)
    BY <1>h, <2>2 DEF Stages
  <2> QED BY <1>2, <2>1, <2>3, DropKeeps, Zenon
<1>3. CASE /\ publisher = "sending" /\ publisher' = "reading" /\ made' = made
           /\ frames' = Append(frames, made)
  <2>1. made \in Packets /\ Held(9) = {made} /\ Held(9)' = {} /\ Held(8) = Range(frames)
    BY <1>3 DEF FlowTypes, Held
  <2>2. \A y \in Held(8) : y < made
    BY <2>1, MovesLast
  <2>3. /\ frames' \in Seq(Packets) /\ Increasing(frames')
        /\ Range(frames') = Range(frames) \cup {made}
    BY <1>3, <2>1, <2>2, AppendLast, Zenon DEF FlowTypes, QueuesIncrease
  <2>4. Held(8)' = Held(8) \cup {made}
    BY <2>1, <2>3 DEF Held
  <2>5. \A k \in Stages : k # 8 => Held(k)' \subseteq Held(k)
    BY <1>h, <2>1 DEF Stages
  <2>6. StagesOrdered' /\ StagesMade'
    BY <1>3, <2>1, <2>4, <2>5, MoveKeeps, SMTT(20)
  <2> QED BY <1>t, <1>3, <2>3, <2>6, Zenon DEF FlowTypes, QueuesIncrease
<1> QED BY <1>1, <1>2, <1>3, Zenon DEF PublisherStep, PublishSend, PublisherLeaves

-----------------------------------------------------------------------------
(* The tasks *)

\* A step that at most empties the hand of a task, and leaves the FLV queues alone.
LEMMA QuietKeepsFlow ==
  ASSUME FlowInv, UNCHANGED <<publisher, made, frames, broadcast>>,
         task' \in [Tasks -> TaskRec], \A t \in Tasks : Carries(t, task'[t]),
         \A t \in Tasks : task'[t] = task[t] \/ task'[t].pc # "holding",
         pad' \in [Pads -> Seq(Packets)], \A p \in Pads : p # "hls" => pad'[p] = pad[p]
  PROVE  FlowInv'
<1> USE DEF FlowInv
<1>1. FlowTypes' /\ QueuesIncrease'
  BY Zenon DEF FlowTypes, QueuesIncrease
<1>2. \A t \in Tasks : Hand(t)' \subseteq Hand(t)
  BY Zenon DEF Hand
<1>3. Held(1)' \subseteq Held(1) /\ Held(3)' \subseteq Held(3) /\ Held(5)' \subseteq Held(5)
      /\ Held(7)' \subseteq Held(7)
  BY <1>2, Names DEF Held
<1>4. /\ Held(0)' = Held(0) /\ Held(2)' = Held(2) /\ Held(4)' = Held(4) /\ Held(6)' = Held(6)
      /\ Held(8)' = Held(8) /\ Held(9)' = Held(9)
  BY HeldStays, Names, Zenon
<1>5. \A k \in Stages : Held(k)' \subseteq Held(k)
  BY <1>3, <1>4 DEF Stages
<1> QED BY <1>1, <1>5, DropKeeps, Zenon

\* The task of stage d takes the head of the queue of stage d + 1 into its hand or throws
\* it away.
LEMMA TakeKeepsFlow ==
  ASSUME FlowInv, NEW p \in {"sink", "mux", "seq"}, pad[p] # <<>>, IsIdle(p),
         pad' = [pad EXCEPT ![p] = Tail(@)],
         UNCHANGED <<publisher, made, frames, broadcast>>,
         \/ task' = task
         \/ task' = [task EXCEPT ![p] = Holding(Head(pad[p]),
                       IF p = "sink" THEN <<>> ELSE Outputs[p])]
  PROVE  FlowInv'
<1> USE DEF FlowInv
<1> DEFINE x == Head(pad[p])
           d == CASE p = "sink" -> 1 [] p = "mux" -> 3 [] p = "seq" -> 5
<1>1. /\ p \in Pads /\ p \in Tasks /\ p # "hls" /\ pad[p] \in Seq(Packets) /\ Increasing(pad[p])
      /\ d \in 0 .. 8
  BY Names DEF FlowTypes, QueuesIncrease
<1>2. /\ Tail(pad[p]) \in Seq(Packets) /\ Increasing(Tail(pad[p]))
      /\ x \in Range(pad[p]) /\ x \in Packets
      /\ Range(Tail(pad[p])) \subseteq Range(pad[p])
      /\ \A y \in Range(Tail(pad[p])) : x < y
  BY <1>1, HeadFirst, Zenon
<1>3. /\ pad' \in [Pads -> Seq(Packets)]
      /\ pad'[p] = Tail(pad[p]) /\ \A u \in Pads : u # p => pad'[u] = pad[u]
  BY <1>1, <1>2, SetPad, Zenon
<1>4. \A u \in Pads \ {"hls"} : Increasing(pad'[u])
  BY <1>2, <1>3, Zenon DEF QueuesIncrease
<1>5. Held(d + 1) = Range(pad[p]) /\ Held(d + 1)' = Range(Tail(pad[p]))
  BY <1>3 DEF Held
<1>6. /\ task' \in [Tasks -> TaskRec] /\ (\A t \in Tasks : Carries(t, task'[t]))
      /\ \A t \in Tasks : t # p => task'[t] = task[t]
      /\ task'[p] = task[p] \/ (task'[p].pc = "holding" /\ task'[p].item = x)
  <2>1. CASE task' = task
    BY <2>1, Zenon DEF FlowTypes
  <2>2. CASE task' # task
    <3> DEFINE r == Holding(x, IF p = "sink" THEN <<>> ELSE Outputs[p])
    <3>1. r \in TaskRec /\ Carries(p, r) /\ r.pc = "holding" /\ r.item = x
      BY <1>2, Names, Records, Zenon DEF Holding
    <3>2. task' = [task EXCEPT ![p] = r]
      BY <2>2, Zenon
    <3> HIDE DEF r, x
    <3> QED BY <1>1, <3>1, <3>2, SetTask, Zenon
  <2> QED BY <2>1, <2>2, Zenon
<1>7. Held(d) = Hand(p) /\ Held(d)' = Hand(p)'
  BY DEF Held
<1>8. Held(d)' \subseteq Held(d) \cup {x}
  BY <1>6, <1>7, Zenon DEF Hand
<1>9. \A k \in Stages : k # d => Held(k)' \subseteq Held(k)
  <2>1. \A k \in Stages : k # d /\ k # d + 1 => Held(k)' = Held(k)
    BY <1>3, <1>6, HeldStays, Names DEF Stages
  <2> QED BY <1>2, <1>5, <2>1, Zenon
<1> HIDE DEF d, x
<1>10. StagesOrdered' /\ StagesMade'
  BY <1>1, <1>2, <1>5, <1>8, <1>9, MoveKeeps, ZenonT(30)
<1> QED BY <1>3, <1>4, <1>6, <1>10, Zenon DEF FlowTypes, QueuesIncrease

\* A task puts its packet into the next queue and has its hand free, or throws the packet
\* away.  For seq the FLV pad is the first of two.
LEMMA PutKeepsFlow ==
  ASSUME FlowInv, NEW t \in {"source", "seq", "mux"},
         task[t].pc = "holding", task[t].out # <<"hls">>,
         UNCHANGED <<publisher, made, frames, broadcast>>,
         NEW p, p = (CASE t = "source" -> "seq" [] t = "seq" -> "mux" [] t = "mux" -> "sink"),
         pad' \in {pad, [pad EXCEPT ![p] = Append(@, task[t].item)]},
         NEW r \in TaskRec, Carries(t, r), task' = [task EXCEPT ![t] = r],
         r.pc = "holding" => r.out = <<"hls">>
  PROVE  FlowInv'
<1> USE DEF FlowInv
<1> DEFINE x == task[t].item
           d == CASE t = "source" -> 6 [] t = "seq" -> 4 [] t = "mux" -> 2
<1>1. /\ p \in Pads /\ t \in Tasks /\ p # "hls" /\ pad[p] \in Seq(Packets) /\ Increasing(pad[p])
      /\ d \in 0 .. 8 /\ x \in Packets
  BY Names DEF FlowTypes, QueuesIncrease, Carries
<1>2. Held(d) = Range(pad[p]) /\ Held(d)' = Range(pad'[p])
  BY DEF Held
<1>3. Held(d + 1) = {x}
  BY DEF Held, Hand
<1>4. /\ task' \in [Tasks -> TaskRec] /\ (\A u \in Tasks : Carries(u, task'[u]))
      /\ task'[t] = r /\ \A u \in Tasks : u # t => task'[u] = task[u]
  BY <1>1, SetTask, Zenon
<1>5. Held(d + 1)' = {}
  BY <1>4 DEF Held, Hand
<1>6. \A y \in Range(pad[p]) : y < x
  <2> HIDE DEF d, x
  <2> QED BY <1>1, <1>2, <1>3, MovesLast, ZenonT(30)
<1>7. /\ pad' \in [Pads -> Seq(Packets)] /\ \A u \in Pads : u # p => pad'[u] = pad[u]
      /\ Range(pad'[p]) \subseteq Range(pad[p]) \cup {x} /\ Increasing(pad'[p])
  <2>1. CASE pad' = pad
    BY <1>1, <2>1, Zenon DEF FlowTypes
  <2>2. CASE pad' = [pad EXCEPT ![p] = Append(@, x)]
    <3>1. /\ Append(pad[p], x) \in Seq(Packets) /\ Increasing(Append(pad[p], x))
          /\ Range(Append(pad[p], x)) = Range(pad[p]) \cup {x}
      BY <1>1, <1>6, AppendLast, Zenon
    <3> QED BY <1>1, <2>2, <3>1, SetPad, Zenon
  <2> QED BY <2>1, <2>2, Zenon
<1>8. \A u \in Pads \ {"hls"} : Increasing(pad'[u])
  BY <1>7, Zenon DEF QueuesIncrease
<1>9. \A k \in Stages : k # d => Held(k)' \subseteq Held(k)
  <2>1. \A k \in Stages : k # d /\ k # d + 1 => Held(k)' = Held(k)
    BY <1>4, <1>7, HeldStays, Names, SMTT(20) DEF Stages
  <2> QED BY <1>5, <2>1, Zenon
<1> HIDE DEF d, x
<1>10. StagesOrdered' /\ StagesMade'
  <2>1. /\ d \in 0 .. 8 /\ x \in Held(d + 1) /\ Held(d)' \subseteq Held(d) \cup {x}
        /\ \A y \in Held(d + 1)' : x < y
    BY <1>1, <1>2, <1>3, <1>5, <1>7, Zenon
  <2> QED BY <1>9, <2>1, MoveKeeps, Zenon
<1> QED BY <1>4, <1>7, <1>8, <1>10, Zenon DEF FlowTypes, QueuesIncrease

LEMMA SourceKeepsFlow ==
  ASSUME FlowInv, SourceStep
  PROVE  FlowInv'
<1> USE DEF FlowInv
<1>t. "source" \in Tasks
  BY Names, Zenon
<1>1. CASE SourceRecv
  <2> DEFINE x == Head(frames)
  <2>1. /\ IsIdle("source") /\ frames # <<>> /\ frames' = Tail(frames)
        /\ \/ task' = [task EXCEPT !["source"] = Holding(x, <<"seq">>)]
           \/ task' = task
        /\ UNCHANGED <<publisher, made, pad, broadcast>>
    BY <1>1, Names, Zenon DEF SourceRecv
  <2>2. /\ Tail(frames) \in Seq(Packets) /\ Increasing(Tail(frames))
        /\ x \in Range(frames) /\ x \in Packets
        /\ Range(Tail(frames)) \subseteq Range(frames)
        /\ \A y \in Range(Tail(frames)) : x < y
    BY <2>1, HeadFirst, Zenon DEF FlowTypes, QueuesIncrease
  <2>3. Held(8) = Range(frames) /\ Held(8)' = Range(Tail(frames))
    BY <2>1 DEF Held
  <2> HIDE DEF x
  <2>4. /\ task' \in [Tasks -> TaskRec] /\ (\A t \in Tasks : Carries(t, task'[t]))
        /\ \A t \in Tasks : t # "source" => task'[t] = task[t]
        /\ \/ task'["source"] = task["source"]
           \/ task'["source"].pc = "holding" /\ task'["source"].item = x
    <3>1. CASE task' = task
      BY <3>1, Zenon DEF FlowTypes
    <3>2. CASE task' = [task EXCEPT !["source"] = Holding(x, <<"seq">>)]
      <4>1. /\ Holding(x, <<"seq">>) \in TaskRec /\ Carries("source", Holding(x, <<"seq">>))
            /\ Holding(x, <<"seq">>).pc = "holding" /\ Holding(x, <<"seq">>).item = x
        BY <2>2, Records, Zenon DEF Holding
      <4> QED BY <1>t, <3>2, <4>1, SetTask, Zenon
    <3> QED BY <2>1, <3>1, <3>2, Zenon
  <2>5. Held(7)' \subseteq Held(7) \cup {x}
    BY <2>4 DEF Held, Hand
  <2>6. \A k \in Stages : k # 7 => Held(k)' \subseteq Held(k)
    <3>1. \A k \in Stages : k # 7 /\ k # 8 => Held(k)' = Held(k)
      BY <2>1, <2>4, HeldStays, Names DEF Stages
    <3> QED BY <2>2, <2>3, <3>1, Zenon
  <2>7. StagesOrdered' /\ StagesMade'
    BY <2>1, <2>2, <2>3, <2>5, <2>6, MoveKeeps
  <2> QED BY <2>1, <2>2, <2>4, <2>7, Zenon DEF FlowTypes, QueuesIncrease
<1>2. CASE SourceSend
  <2>1. /\ task["source"].pc = "holding" /\ task["source"].out = <<"seq">>
        /\ task' = [task EXCEPT !["source"] = Idle]
        /\ pad' \in {pad, [pad EXCEPT !["seq"] = Append(@, task["source"].item)]}
        /\ UNCHANGED <<publisher, made, frames, broadcast>>
    BY <1>2, <1>t, Zenon DEF SourceSend, FlowTypes, Carries
  <2>2. task["source"].out # <<"hls">>
    BY <2>1
  <2> QED BY <1>t, <2>1, <2>2, Records, PutKeepsFlow, Zenon
<1>3. CASE SourceEnds
  <2>1. /\ task' = [task EXCEPT !["source"] = Done]
        /\ UNCHANGED <<publisher, made, frames, pad, broadcast>>
    BY <1>3, Zenon DEF SourceEnds, queues
  <2>2. /\ task' \in [Tasks -> TaskRec]
        /\ \A u \in Tasks : Carries(u, task'[u])
        /\ task'["source"] = Done /\ \A u \in Tasks : u # "source" => task'[u] = task[u]
    BY <1>t, <2>1, Records, SetTask, Zenon
  <2> QED BY <2>1, <2>2, Records, QuietKeepsFlow, Zenon DEF FlowTypes
<1> QED BY <1>1, <1>2, <1>3, Zenon DEF SourceStep

\* seq and mux.
LEMMA ProcessorKeepsFlow ==
  ASSUME FlowInv, NEW t \in Processors, Recv(t) \/ Deliver(t)
  PROVE  FlowInv'
<1> USE DEF FlowInv
<1>t. t \in {"seq", "mux"} /\ t \in Tasks
  BY Names, Zenon DEF Processors
<1>1. CASE Recv(t)
  <2>1. /\ pad[t] # <<>> /\ IsIdle(t) /\ pad' = [pad EXCEPT ![t] = Tail(@)]
        /\ UNCHANGED <<publisher, made, frames, broadcast>>
        /\ \/ task' = task
           \/ task' = [task EXCEPT ![t] = Holding(Head(pad[t]), Outputs[t])]
    BY <1>1, Zenon DEF Recv
  <2> QED BY <1>t, <2>1, TakeKeepsFlow, Zenon
<1>2. CASE Deliver(t)
  <2> DEFINE p == Head(task[t].out)
             rest == IF PadClosed(p) THEN <<>> ELSE Tail(task[t].out)
             r == IF rest = <<>> THEN Idle ELSE [task[t] EXCEPT !.out = rest]
  <2>1. /\ task[t].pc = "holding" /\ UNCHANGED <<publisher, made, frames, broadcast>>
        /\ pad' \in {pad, [pad EXCEPT ![p] = Append(@, task[t].item)]}
        /\ task' = [task EXCEPT ![t] = r]
    BY <1>2, <1>t, Zenon DEF Deliver, FlowTypes
  <2>2. /\ task[t] \in TaskRec /\ task[t].item \in Packets
        /\ t = "seq" => task[t].out \in {<<"mux", "hls">>, <<"hls">>}
        /\ t = "mux" => task[t].out = <<"sink">>
    BY <1>t, <2>1, Zenon DEF FlowTypes, Carries
  <2>3. CASE task[t].out = <<"hls">>
    <3>1. p = "hls" /\ rest = <<>> /\ r = Idle
      BY <2>3
    <3>2. /\ task' \in [Tasks -> TaskRec]
          /\ \A u \in Tasks : Carries(u, task'[u])
          /\ task'[t] = Idle /\ \A u \in Tasks : u # t => task'[u] = task[u]
      BY <1>t, <2>1, <3>1, Records, SetTask, Zenon
    <3>3. pad["hls"] \in Seq(Packets) /\ "hls" \in Pads
      BY Names, Zenon DEF FlowTypes
    <3>4. /\ pad' \in [Pads -> Seq(Packets)]
          /\ \A u \in Pads : u # "hls" => pad'[u] = pad[u]
      <4>1. CASE pad' = pad
        BY <4>1, Zenon DEF FlowTypes
      <4>2. CASE pad' = [pad EXCEPT !["hls"] = Append(@, task[t].item)]
        <5>1. Append(pad["hls"], task[t].item) \in Seq(Packets)
          BY <2>2, <3>3
        <5> QED BY <3>3, <4>2, <5>1, SetPad, Zenon
      <4> QED BY <2>1, <3>1, <4>1, <4>2, Zenon
    <3>5. \A u \in Tasks : task'[u] = task[u] \/ task'[u].pc # "holding"
      BY <3>2, Records, Zenon
    <3> QED BY <2>1, <3>2, <3>4, <3>5, QuietKeepsFlow, Zenon
  <2>4. CASE task[t].out # <<"hls">>
    <3>0. \/ t = "seq" /\ task[t].out = <<"mux", "hls">>
          \/ t = "mux" /\ task[t].out = <<"sink">>
      BY <1>t, <2>2, <2>4, Zenon
    <3>1. /\ p = (CASE t = "source" -> "seq" [] t = "seq" -> "mux" [] t = "mux" -> "sink")
          /\ rest \in {<<>>, <<"hls">>} /\ (t = "mux" => rest = <<>>)
      <4>1. CASE t = "seq"
        <5>1. p = "mux" /\ Tail(task[t].out) = <<"hls">>
          BY <3>0, <4>1, OutputsDue, Zenon
        <5>2. rest \in {<<>>, <<"hls">>}
          BY <5>1, Zenon
        <5> QED BY <4>1, <5>1, <5>2, Zenon
      <4>2. CASE t = "mux"
        <5>1. p = "sink" /\ Tail(task[t].out) = <<>>
          BY <3>0, <4>2, OutputsDue, Zenon
        <5>2. rest = <<>>
          BY <5>1, Zenon
        <5> QED BY <4>2, <5>1, <5>2, Zenon
      <4> QED BY <1>t, <4>1, <4>2, Zenon
    <3>2. r \in TaskRec /\ Carries(t, r) /\ (r.pc = "holding" => r.out = <<"hls">>)
      <4>1. CASE rest = <<>>
        BY <1>t, <4>1, Records, Zenon
      <4>2. CASE rest # <<>>
        <5>1. rest = <<"hls">> /\ t = "seq" /\ r = [task[t] EXCEPT !.out = <<"hls">>]
          BY <1>t, <3>1, <4>2, Zenon
        <5>2. r.pc = "holding" /\ r.item = task[t].item /\ r.out = <<"hls">> /\ r \in TaskRec
          BY <2>1, <2>2, <5>1, Zenon DEF TaskRec
        <5> QED BY <2>2, <5>1, <5>2, Zenon DEF Carries
      <4> QED BY <4>1, <4>2, Zenon
    <3> HIDE DEF p, r
    <3> QED BY <1>t, <2>1, <2>4, <3>1, <3>2, PutKeepsFlow, Zenon
  <2> QED BY <2>3, <2>4, Zenon
<1> QED BY <1>1, <1>2, Zenon

\* sink.
LEMMA SinkKeepsFlow ==
  ASSUME FlowInv, SinkRecv \/ Consume
  PROVE  FlowInv'
<1> USE DEF FlowInv
<1>t. "sink" \in Tasks
  BY Names, Zenon
<1>1. CASE SinkRecv
  <2>1. /\ pad["sink"] # <<>> /\ IsIdle("sink") /\ pad' = [pad EXCEPT !["sink"] = Tail(@)]
        /\ UNCHANGED <<publisher, made, frames, broadcast>>
        /\ task' = [task EXCEPT !["sink"] = Holding(Head(pad["sink"]), <<>>)]
    BY <1>1, Zenon DEF SinkRecv
  <2> QED BY <2>1, TakeKeepsFlow, Zenon
<1>2. CASE Consume
  <2> DEFINE x == task["sink"].item
  <2>1. /\ task["sink"].pc = "holding" /\ broadcast' = Append(broadcast, x)
        /\ task' = [task EXCEPT !["sink"] = Idle] /\ UNCHANGED <<publisher, made, frames, pad>>
    BY <1>2, Zenon DEF Consume
  <2>2. /\ task' \in [Tasks -> TaskRec]
        /\ \A u \in Tasks : Carries(u, task'[u])
        /\ task'["sink"] = Idle /\ \A u \in Tasks : u # "sink" => task'[u] = task[u]
    BY <1>t, <2>1, Records, SetTask, Zenon
  <2>3. x \in Packets /\ task["sink"].out = <<>>
    BY <1>t, <2>1, Zenon DEF FlowTypes, Carries
  <2>4. Held(0) = Range(broadcast) /\ Held(0)' = Range(broadcast')
    BY DEF Held
  <2>5. Held(1) = {x} /\ Held(1)' = {}
    BY <2>1, <2>2, <2>3, Records DEF Held, Hand
  <2> HIDE DEF x
  <2>6. \A y \in Range(broadcast) : y < x
    BY <2>4, <2>5, MovesLast
  <2>7. /\ broadcast' \in Seq(Packets) /\ Increasing(broadcast')
        /\ Range(broadcast') = Range(broadcast) \cup {x}
    BY <2>1, <2>3, <2>6, AppendLast, Zenon DEF FlowTypes, QueuesIncrease
  <2>8. \A k \in Stages : k # 0 => Held(k)' \subseteq Held(k)
    <3>1. \A k \in Stages : k # 0 /\ k # 1 => Held(k)' = Held(k)
      BY <2>1, <2>2, HeldStays, Names DEF Stages
    <3> QED BY <2>5, <3>1, Zenon
  <2>9. StagesOrdered' /\ StagesMade'
    <3>1. /\ 0 \in 0 .. 8 /\ x \in Held(0 + 1) /\ Held(0)' \subseteq Held(0) \cup {x}
          /\ \A y \in Held(0 + 1)' : x < y
      BY <2>4, <2>5, <2>7
    <3> QED BY <2>1, <2>8, <3>1, MoveKeeps, Zenon
  <2> QED BY <2>1, <2>2, <2>7, <2>9, Zenon DEF FlowTypes, QueuesIncrease
<1> QED BY <1>1, <1>2, Zenon

\* The HLS branch and the ways in which a task ends never touch the FLV queues.
LEMMA RestKeepsFlow ==
  ASSUME FlowInv, NEW t \in Tasks,
         DeferredRecv \/ DeferredBuilt \/ SegmenterRecv \/ Ends(t) \/ Aborts(t)
  PROVE  FlowInv'
<1> USE DEF FlowInv
<1>t. /\ {"hls", "segmenter", "minio"} \subseteq Tasks /\ "hls" \in Pads
      /\ task \in [Tasks -> TaskRec] /\ pad \in [Pads -> Seq(Packets)]
      /\ \A u \in Tasks : Carries(u, task[u])
  BY Names, Zenon DEF FlowTypes
<1>1. CASE DeferredRecv \/ SegmenterRecv
  <2> DEFINE r == [task["hls"] EXCEPT !.pc = "building"]
  <2>1. /\ UNCHANGED <<publisher, made, frames, broadcast>>
        /\ pad["hls"] # <<>> /\ pad' = [pad EXCEPT !["hls"] = Tail(@)]
        /\ task' = task \/ task' = [task EXCEPT !["hls"] = r]
    BY <1>1, <1>t, Zenon DEF DeferredRecv, SegmenterRecv
  <2>2. Tail(pad["hls"]) \in Seq(Packets)
    BY <1>t, <2>1
  <2>3. pad' \in [Pads -> Seq(Packets)] /\ \A p \in Pads : p # "hls" => pad'[p] = pad[p]
    BY <1>t, <2>1, <2>2, SetPad, Zenon
  <2>4. r \in TaskRec /\ r.pc = "building" /\ Carries("hls", r)
    BY <1>t, ZenonT(30) DEF TaskRec, Carries
  <2> HIDE DEF r
  <2>5. /\ task' \in [Tasks -> TaskRec] /\ (\A u \in Tasks : Carries(u, task'[u]))
        /\ \A u \in Tasks : task'[u] = task[u] \/ task'[u].pc # "holding"
    <3>1. CASE task' = task
      BY <1>t, <3>1, Zenon
    <3>2. CASE task' = [task EXCEPT !["hls"] = r]
      BY <1>t, <2>4, <3>2, SetTask, Zenon
    <3> QED BY <2>1, <3>1, <3>2, Zenon
  <2> QED BY <2>1, <2>3, <2>5, QuietKeepsFlow, Zenon
<1>2. CASE DeferredBuilt
  <2>1. /\ UNCHANGED <<publisher, made, frames, pad, broadcast>>
        /\ \/ task' = [task EXCEPT !["hls"] = Done, !["segmenter"] = Idle, !["minio"] = Idle]
           \/ task' = [task EXCEPT !["hls"] = Done]
    BY <1>2, Zenon DEF DeferredBuilt, queues
  <2>2. /\ task' \in [Tasks -> TaskRec]
        /\ \A u \in Tasks : task'[u] \in {task[u], Idle, Done}
    BY <1>t, <2>1, Records, Zenon
  <2>3. \A u \in Tasks : Carries(u, task'[u])
    BY <1>t, <2>2, Records, Zenon
  <2>4. \A u \in Tasks : task'[u] = task[u] \/ task'[u].pc # "holding"
    BY <2>2, Records, Zenon
  <2> QED BY <1>t, <2>1, <2>2, <2>3, <2>4, QuietKeepsFlow, Zenon
<1>3. CASE Ends(t) \/ Aborts(t)
  <2>1. /\ UNCHANGED <<publisher, made, frames, pad, broadcast>>
        /\ task' = [task EXCEPT ![t] = Done]
    BY <1>3, Zenon DEF Ends, Aborts, queues
  <2>2. /\ task' \in [Tasks -> TaskRec] /\ (\A u \in Tasks : Carries(u, task'[u]))
        /\ \A u \in Tasks : task'[u] = task[u] \/ task'[u].pc # "holding"
    BY <2>1, Records, SetTask, Zenon
  <2> QED BY <1>t, <2>1, <2>2, QuietKeepsFlow, Zenon
<1> QED BY <1>1, <1>2, <1>3, Zenon

LEMMA FlowInvInit == Init => FlowInv
<1> SUFFICES ASSUME Init PROVE FlowInv
  BY Zenon
<1>1. /\ publisher = "reading" /\ made = 0 /\ frames = <<>> /\ broadcast = <<>>
      /\ \A p \in Pads : pad[p] = <<>>
      /\ pad \in [Pads -> Seq(Packets)] /\ <<>> \in Seq(Packets)
      /\ \A t \in Tasks : task[t] \in {Unborn, Idle}
      /\ 0 \in 0 .. MaxFrames
  BY PipelineAssumption DEF Init
<1>2. Unborn \in TaskRec /\ Unborn.pc = "unborn" /\ \A t \in Tasks : Carries(t, Unborn)
  BY <1>1, Zenon DEF Unborn, TaskRec, Carries
<1>3. /\ task \in [Tasks -> TaskRec] /\ (\A t \in Tasks : Carries(t, task[t]))
      /\ \A t \in Tasks : task[t].pc # "holding"
  <2>1. task = [t \in Tasks |-> IF t \in {"segmenter", "minio"} THEN Unborn ELSE Idle]
    BY Zenon DEF Init
  <2> QED BY <1>1, <1>2, <2>1, Records, Zenon
<1>4. FlowTypes
  BY <1>1, <1>3, Zenon DEF FlowTypes
<1>5. QueuesIncrease
  BY <1>1 DEF QueuesIncrease, Increasing
<1>6. Range(<<>>) = {} /\ \A t \in Tasks : Hand(t) = {}
  BY <1>3 DEF Range, Hand
<1>7. \A k \in Stages : Held(k) = {}
  BY <1>1, <1>6, Names, SMTT(20) DEF Stages, Held
<1> QED BY <1>4, <1>5, <1>7, Zenon DEF FlowInv, StagesOrdered, StagesMade

LEMMA FlowInvNext == FlowInv /\ [Next]_vars => FlowInv'
<1> SUFFICES ASSUME FlowInv, [Next]_vars PROVE FlowInv'
  BY Zenon
<1>1. CASE UNCHANGED <<queues, task>>
  <2>1. UNCHANGED <<publisher, made, frames, pad, broadcast, task>>
    BY <1>1, Zenon DEF queues
  <2> QED BY <2>1, QuietKeepsFlow, Zenon DEF FlowInv, FlowTypes
<1>2. CASE PublisherStep
  BY <1>2, PublisherKeepsFlow, Zenon
<1>3. CASE CancelSession \/ EngineStep
  BY <1>1, <1>3, Zenon DEF CancelSession, EngineStep, EngineRun, Shutdown, Drain, Terminate
<1>4. ASSUME NEW t \in Tasks, TaskStep(t) PROVE FlowInv'
  BY <1>4, SourceKeepsFlow, ProcessorKeepsFlow, SinkKeepsFlow, RestKeepsFlow, Zenon DEF TaskStep
<1> QED BY <1>1, <1>2, <1>3, <1>4, Zenon DEF Next, vars

\* Whatever a full pad, a closed pad or a task that ends drops, FlvSink broadcasts the
\* publisher's frames in their order and none of them twice.
THEOREM BroadcastInOrder == Spec => []OrderKept
<1>1. FlowInv => OrderKept
  BY Zenon DEF FlowInv, QueuesIncrease, Increasing, OrderKept
<1> QED BY <1>1, FlowInvInit, FlowInvNext, PTL DEF Spec

-----------------------------------------------------------------------------
(* The engine *)

LEMMA HandlesInit == Init => Handles
<1> SUFFICES ASSUME Init PROVE Handles
  OBVIOUS
<1>1. /\ phase = "Initializing" /\ registered = {"seq", "mux", "sink", "hls"} /\ draining = {}
      /\ task["segmenter"].pc = "unborn" /\ task["minio"].pc = "unborn"
  BY Names, Zenon DEF Init, Unborn
<1> QED BY <1>1, Names, Zenon DEF Handles, Alive

\* A step that brings no task to life and leaves the engine alone.
LEMMA QuietKeepsHandles ==
  ASSUME Handles, UNCHANGED engine, \A t \in Tasks : Alive(t)' => Alive(t)
  PROVE  Handles'
<1>1. UNCHANGED <<phase, registered, draining, aborted, timedOut>> /\ "hls" \in Tasks
  BY Names, Zenon DEF engine
<1> QED BY <1>1, Zenon DEF Handles

LEMMA HandlesNext == FlowTypes /\ Handles /\ [Next]_vars => Handles'
<1> SUFFICES ASSUME FlowTypes, Handles, [Next]_vars PROVE Handles'
  BY Zenon
<1>t. task \in [Tasks -> TaskRec] /\ "hls" \in Tasks
  BY Names, Zenon DEF FlowTypes
<1>1. CASE UNCHANGED <<task, engine>>
  BY <1>1, QuietKeepsHandles, Zenon DEF Alive
<1>2. CASE PublisherStep \/ CancelSession
  BY <1>1, <1>2, Zenon DEF PublisherStep, PublishBegin, PublishSend, PublisherLeaves, CancelSession
<1>3. CASE EngineStep
  <2>1. task' = task /\ \A t \in Tasks : Alive(t)' = Alive(t)
    BY <1>3, Zenon DEF EngineStep, EngineRun, Shutdown, Drain, Terminate, Alive
  <2>2. CASE EngineRun
    BY <1>t, <2>1, <2>2, Zenon DEF EngineRun, Handles
  <2>3. CASE Shutdown
    BY <1>t, <2>1, <2>3, Zenon DEF Shutdown, Handles
  <2>4. CASE Drain
    BY <1>t, <2>1, <2>4 DEF Drain, Handles
  <2>5. CASE Terminate
    BY <1>t, <2>1, <2>5, Zenon DEF Terminate, Handles
  <2> QED BY <1>3, <2>2, <2>3, <2>4, <2>5, Zenon DEF EngineStep
<1>4. ASSUME NEW t \in Tasks, TaskStep(t) PROVE Handles'
  <2>1. CASE DeferredBuilt
    <3>1. /\ task["hls"].pc = "building" /\ task'["hls"].pc = "done"
          /\ UNCHANGED <<phase, draining, aborted, timedOut>>
          /\ registered \subseteq registered'
          /\ registered' \subseteq registered \cup {"segmenter", "minio"}
          /\ \A u \in Tasks : u \in {"segmenter", "minio"} /\ Alive(u)' =>
               Alive(u) \/ u \in registered'
          /\ \A u \in Tasks : u \notin {"segmenter", "minio"} /\ Alive(u)' => Alive(u)
      BY <1>t, <2>1, Names, Records, Zenon DEF DeferredBuilt, Alive
    <3>2. Alive("hls") /\ ~Alive("hls")'
      BY <3>1, Zenon DEF Alive
    <3> QED BY <3>1, <3>2, Zenon DEF Handles
  <2>2. CASE ~DeferredBuilt
    <3>1. UNCHANGED engine
      BY <1>4, <2>2, Zenon
         DEF TaskStep, SourceStep, SourceRecv, SourceSend, SourceEnds, Recv, Deliver, SinkRecv,
             Consume, DeferredRecv, SegmenterRecv, Ends, Aborts
    <3>2. \A u \in Tasks : Alive(u)' => Alive(u)
      <4>1. CASE task' = task
        BY <4>1, Zenon DEF Alive
      <4>2. CASE \E r : task' = [task EXCEPT ![t] = r] /\ Alive(t)
        BY <1>t, <4>2, Zenon DEF Alive
      <4>3. CASE t = "source" /\ SourceStep
        BY <4>1, <4>2, <4>3, Zenon
           DEF SourceStep, SourceRecv, SourceSend, SourceEnds, Alive, IsIdle
      <4>4. CASE t \in Processors /\ (Recv(t) \/ Deliver(t))
        BY <4>1, <4>2, <4>4, Zenon DEF Recv, Deliver, Alive, IsIdle
      <4>5. CASE t = "sink" /\ (SinkRecv \/ Consume)
        BY <4>1, <4>2, <4>5, Zenon DEF SinkRecv, Consume, Alive, IsIdle
      <4>6. CASE t = "hls" /\ DeferredRecv
        BY <4>1, <4>2, <4>6, Zenon DEF DeferredRecv, Alive, IsIdle
      <4>7. CASE SegmenterRecv
        BY <4>1, <4>7, Zenon DEF SegmenterRecv
      <4>8. CASE Ends(t) \/ Aborts(t)
        BY <4>2, <4>8, <1>t, Records, Zenon DEF Ends, Aborts, Alive, IsIdle
      <4> QED BY <1>4, <2>2, <4>3, <4>4, <4>5, <4>6, <4>7, <4>8, Zenon DEF TaskStep
    <3> QED BY <3>1, <3>2, QuietKeepsHandles, Zenon
  <2> QED BY <2>1, <2>2, Zenon
<1> QED BY <1>1, <1>2, <1>3, <1>4, Zenon DEF Next, vars

\* shutdown() that comes to its end within its deadline leaves no task running that it has
\* not aborted, whenever deferred_hls_init spawned and registered the HLS tasks.
THEOREM ShutdownLeavesNothing == Spec => []NoTaskLeftBehind
<1>1. Handles => NoTaskLeftBehind
  BY Zenon DEF Handles, NoTaskLeftBehind
<1>2. FlowInv => FlowTypes
  BY Zenon DEF FlowInv
<1> QED BY <1>1, <1>2, FlowInvInit, FlowInvNext, HandlesInit, HandlesNext, PTL DEF Spec

=============================================================================
