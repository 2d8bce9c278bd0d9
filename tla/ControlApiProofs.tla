-------------------------- MODULE ControlApiProofs --------------------------
(***************************************************************************)
(* Proofs about the gRPC control plane, for every set of stream keys,      *)
(* sessions and concurrent calls, with one protocol server or both: no two *)
(* StartLivestream calls own the same session, a StopLivestream that       *)
(* reports success has removed the session that it was asked to stop, and  *)
(* a stop that was answered hits no session of its server started later.   *)
(***************************************************************************)
EXTENDS ControlApi, SessionRegistryProofs, SequenceTheorems

Replies == [is : {"nothing", "ok", "exists", "error", "true", "false", "not_found"},
            session : Sessions \cup {NoSession}]

PrecreateMessages == [op : {"precreate"}, key : LiveIds, call : StartCalls]
StopMessages == [op : {"stop"}, key : LiveIds, call : StopCalls]
Messages == PrecreateMessages \cup StopMessages

StartRecord == [pc : {"none", "new", "sending", "waiting", "done"},
                key : LiveIds \cup {NoKey}, proto : Protocols \cup {"rtmp"},
                ack : Replies, answer : Replies, after : SUBSET StopCalls]
StopRecord == [pc : {"none", "new", "finding", "sending", "polling", "done"},
               key : LiveIds \cup {NoKey}, proto : Protocols \cup {"rtmp"},
               answer : Replies, asked : Sessions \cup {NoSession}]

\* The types of the variables that the properties are about.
ApiTypes ==
  /\ protoOf \in [Sessions -> Protocols \cup {Unborn}]
  /\ inbox \in [Protocols -> Seq(Messages)]
  /\ loop \in [Protocols -> [pc : {"idle", "checked", "registered"},
                             key : LiveIds \cup {NoKey}, call : StartCalls \cup {NoCall}]]
  /\ \A p \in Protocols : loop[p].pc # "idle" =>
       loop[p].key \in LiveIds /\ loop[p].call \in StartCalls
  /\ start \in [StartCalls -> StartRecord]
  /\ \A c \in StartCalls : start[c].pc = "sending" =>
       start[c].key \in LiveIds /\ start[c].proto \in Protocols
  /\ stop \in [StopCalls -> StopRecord]
  /\ \A c \in StopCalls :
       /\ stop[c].pc \in {"finding", "sending", "polling"} => stop[c].key \in LiveIds
       /\ stop[c].pc = "sending" => stop[c].proto \in Protocols
  /\ startedBy \in [Sessions -> StartCalls \cup {NoCall}]
  /\ killed \subseteq [call : StopCalls, proto : Protocols, session : Sessions]

\* A call's acknowledgement: only a call whose message has been sent has one, and an
\* answer of success passes it on.
AcksPassedOn ==
  \A c \in StartCalls :
    /\ start[c].ack # Nothing => start[c].pc \in {"waiting", "done"}
    /\ start[c].answer.is = "ok" => start[c].pc = "done" /\ start[c].answer = start[c].ack

\* A session is registered before a call is told of it and before a stop hits it, under
\* the server that is known for it.
BornBefore ==
  /\ \A c \in StartCalls : start[c].ack.is = "ok" => start[c].ack.session \in Born
  /\ \A hit \in killed : hit.session \in Born
  /\ \A s \in Born : protoOf[s] \in Protocols

\* No two calls are acknowledged the same session.
AcksDiffer ==
  \A c, d \in StartCalls : start[c].ack.is = "ok" /\ start[d].ack = start[c].ack => c = d

\* A loop that has registered a session and has not acknowledged it yet is the only one
\* that knows of it: no call has been told of it.
LoopHolds ==
  \A p \in Protocols : loop[p].pc = "registered" =>
    LET s == sessions[loop[p].key]
    IN  /\ s \in Born /\ protoOf[s] = p
        /\ \A c \in StartCalls : start[c].ack # Reply("ok", s)

\* What a stop has been asked for is a session registered under its key, and is out of
\* the registry once the stop has been answered with success.
AskedOf(c) ==
  /\ stop[c].pc \in {"finding", "sending", "polling"} =>
       stop[c].asked \in Born /\ keyOf[stop[c].asked] = stop[c].key
  /\ stop[c].answer.is = "true" =>
       /\ stop[c].pc = "done"
       /\ stop[c].asked \in Born
       /\ \A k \in LiveIds : sessions[k] # stop[c].asked
AskedSessions == \A c \in StopCalls : AskedOf(c)

\* The stops that a start came after have been answered and send nothing any more.
AfterAnswered == \A c \in StartCalls : start[c].after \subseteq StopsDone

\* A precreate is sent by a call that waits for it or has given up, and no session is
\* registered without one.
Sent(c) == start[c].pc \in {"waiting", "done"}
SentBefore ==
  /\ \A p \in Protocols :
       /\ loop[p].pc # "idle" => Sent(loop[p].call)
       /\ \A i \in 1 .. Len(inbox[p]) : inbox[p][i].op = "precreate" => Sent(inbox[p][i].call)
  /\ \A s \in Born : startedBy[s] \in StartCalls /\ Sent(startedBy[s])

\* No stop that the start c came after is in the queue of p from position n on.
StopsBehind(c, p, n) ==
  \A i \in 1 .. Len(inbox[p]) :
    i >= n /\ inbox[p][i].op = "stop" => inbox[p][i].call \notin start[c].after

\* Such stops are before c's precreate in the queue, and gone when it has been received
\* and ever after, for the server of the session that it starts.
QueueOrder ==
  /\ \A p \in Protocols : \A i \in 1 .. Len(inbox[p]) :
       inbox[p][i].op = "precreate" => StopsBehind(inbox[p][i].call, p, i)
  /\ \A p \in Protocols : loop[p].pc # "idle" => StopsBehind(loop[p].call, p, 1)
  /\ \A s \in Born : StopsBehind(startedBy[s], protoOf[s], 1)

\* The inductive invariant.
ApiInv == /\ RegistryInv
          /\ ApiTypes
          /\ AcksPassedOn
          /\ BornBefore
          /\ AcksDiffer
          /\ LoopHolds
          /\ AskedSessions
          /\ AfterAnswered
          /\ SentBefore
          /\ QueueOrder
          /\ StopSparesLater

LEMMA ApiInvInit == ApiInit => ApiInv
<1> SUFFICES ASSUME ApiInit PROVE ApiInv
  BY Zenon
<1> USE DEF ApiInit
<1>0. PICK calls \in Scenarios :
        /\ start = [c \in StartCalls |-> Made(c, calls, NewStart)]
        /\ stop = [c \in StopCalls |-> Made(c, calls, NewStop)]
  BY Zenon
<1>1. RegistryInv /\ Born = {}
  BY RegistryInvInit, Zenon DEF RegistryInit, Born
<1>2. ApiTypes
  BY <1>0 DEF ApiTypes, StartRecord, StopRecord, Made, NewStart, NewStop, Nothing, Replies, Waiting
<1>3. /\ \A c \in StartCalls : /\ start[c].ack = Nothing /\ start[c].answer = Nothing
                               /\ start[c].after = {}
      /\ \A c \in StopCalls : stop[c].answer = Nothing /\ stop[c].pc \in {"none", "new"}
  BY <1>0, Zenon DEF Made, NewStart, NewStop
<1>4. AcksPassedOn /\ BornBefore /\ AcksDiffer
  BY <1>1, <1>3 DEF AcksPassedOn, BornBefore, AcksDiffer, Nothing
<1>5. LoopHolds /\ SentBefore
  BY <1>1 DEF LoopHolds, SentBefore, Waiting
<1>6. AskedSessions /\ AfterAnswered
  BY <1>3 DEF AskedSessions, AskedOf, AfterAnswered, Nothing
<1>7. QueueOrder /\ StopSparesLater
  BY <1>1, <1>3 DEF QueueOrder, StopsBehind, StopSparesLater, Nothing, Waiting
<1> QED
  BY <1>1, <1>2, <1>4, <1>5, <1>6, <1>7, Zenon DEF ApiInv

-----------------------------------------------------------------------------
(* What the control plane does to the registry *)

\* What a loop receives, and what is left in its queue.
LEMMA Received ==
  ASSUME ApiTypes, NEW p \in Protocols, NEW op, Receives(p, op)
  PROVE  /\ loop[p].pc = "idle"
         /\ Len(inbox[p]) \in Nat \ {0}
         /\ Dequeue(p).msg = inbox[p][1]
         /\ inbox[p][1] \in Messages /\ inbox[p][1].op = op
         /\ inbox' \in [Protocols -> Seq(Messages)]
         /\ Len(inbox'[p]) = Len(inbox[p]) - 1
         /\ \A i \in 1 .. Len(inbox'[p]) : inbox'[p][i] = inbox[p][i + 1]
         /\ \A q \in Protocols : q # p => inbox'[q] = inbox[q]
<1>1. inbox[p] \in Seq(Messages) /\ inbox[p] # <<>>
  BY Zenon DEF ApiTypes, Receives
<1>2. /\ Len(inbox[p]) \in Nat \ {0}
      /\ Head(inbox[p]) = inbox[p][1]
      /\ inbox[p][1] \in Messages
      /\ Tail(inbox[p]) \in Seq(Messages)
      /\ Len(Tail(inbox[p])) = Len(inbox[p]) - 1
      /\ \A i \in 1 .. Len(Tail(inbox[p])) : Tail(inbox[p])[i] = inbox[p][i + 1]
  BY <1>1, EmptySeq, HeadTailProperties, LenProperties
<1>3. inbox' = [inbox EXCEPT ![p] = Tail(inbox[p])]
  BY Zenon DEF Receives, Dequeue
<1>4. inbox'[p] = Tail(inbox[p]) /\ \A q \in Protocols : q # p => inbox'[q] = inbox[q]
  BY <1>3, Zenon DEF ApiTypes
<1> QED
  BY <1>2, <1>3, <1>4 DEF Receives, Dequeue, ApiTypes

\* What a call adds to a queue.
LEMMA Queued ==
  ASSUME ApiTypes, NEW p \in Protocols, NEW msg \in Messages,
         inbox' = [inbox EXCEPT ![p] = Append(@, msg)]
  PROVE  /\ inbox' \in [Protocols -> Seq(Messages)]
         /\ Len(inbox[p]) \in Nat
         /\ Len(inbox'[p]) = Len(inbox[p]) + 1
         /\ inbox'[p][Len(inbox[p]) + 1] = msg
         /\ \A i \in 1 .. Len(inbox[p]) : inbox'[p][i] = inbox[p][i]
         /\ \A q \in Protocols : q # p => inbox'[q] = inbox[q]
<1>1. inbox[p] \in Seq(Messages)
  BY Zenon DEF ApiTypes
<1>2. inbox'[p] = Append(inbox[p], msg)
  BY Zenon DEF ApiTypes
<1>3. inbox'[p] \in Seq(Messages)
  BY <1>1, <1>2, AppendProperties
<1> QED
  BY <1>1, <1>2, <1>3, AppendProperties, LenProperties DEF ApiTypes

\* What the invariant is about, and the steps that are about something else.
callCore == <<protoOf, startedBy, inbox, loop, start, stop, killed>>
WatchOrEvent ==
  \/ \E c \in WatchCalls, k \in LiveIds : WatchOpen(c, k)
  \/ \E c \in WatchCalls : WatchStep(c) \/ WatchCancel(c)
  \/ \E event \in due : SendEvent(event)

LEMMA WatchOrEventFrame ==
  ASSUME WatchOrEvent
  PROVE  UNCHANGED <<registryVars, callCore>>
BY Zenon DEF WatchOrEvent, callCore, loopVars, WatchOpen, WatchStep, WatchLook, WatchEvent,
             WatchIdle, WatchWakes, WatchCancel, SendEvent

\* Every step of the control plane is an operation of the registry or leaves it alone.
LEMMA ApiStepUsesRegistry ==
  ASSUME ApiInv, [ApiNext]_apiVars
  PROVE  [RegistryNext]_registryVars
<1> USE DEF ApiInv
<1>1. ASSUME NEW p \in Protocols, LoopStep(p)
      PROVE  [RegistryNext]_registryVars
  <2>1. CASE LoopRegister(p)
    <3>1. loop[p].key \in LiveIds
      BY <2>1, Zenon DEF LoopRegister, ApiTypes
    <3>2. PICK s \in Sessions : Register(loop[p].key, s)
      BY <2>1, Zenon DEF LoopRegister
    <3> QED BY <3>1, <3>2, Zenon DEF RegistryNext, ClientRegister
  <2>2. CASE LoopConflict(p)
    <3>1. loop[p].key \in LiveIds
      BY <2>2, Zenon DEF LoopConflict, ApiTypes
    <3> QED BY <2>2, <3>1, TokensAreBorn, CancelIsRegistryStep, Zenon DEF LoopConflict
  <2>3. CASE LoopStop(p)
    <3>1. inbox[p][1] \in Messages /\ Dequeue(p).msg = inbox[p][1]
      BY <2>3, Received, Zenon DEF LoopStop
    <3>2. TokensAt(inbox[p][1].key) \subseteq Born
      BY <3>1, TokensAreBorn, Zenon DEF Messages, PrecreateMessages, StopMessages
    <3>3. {s \in TokensAt(inbox[p][1].key) : ~cancelled[s]} \in SUBSET Born
      BY <3>2, Zenon
    <3> QED BY <2>3, <3>1, <3>3, CancelIsRegistryStep, Zenon DEF LoopStop
  <2>4. CASE LoopPrecreate(p) \/ LoopAck(p)
    BY <2>4, Zenon DEF LoopPrecreate, LoopAck
  <2> QED BY <1>1, <2>1, <2>2, <2>3, <2>4, Zenon DEF LoopStep
<1>2. ASSUME NEW k \in LiveIds, SessionEnds(k)
      PROVE  RegistryNext
  BY <1>2, TokensAreBorn, CancelIsRegistryStep, Zenon DEF SessionEnds
<1>3. ASSUME NEW k \in LiveIds, NEW new \in {"Connecting", "Connected"}, SessionMoves(k, new)
      PROVE  RegistryNext
  BY <1>3, UpdateIsRegistryStep, Zenon DEF SessionMoves, SessionState
<1>4. ASSUME NEW s \in Sessions, SessionCleanup(s)
      PROVE  RegistryNext
  BY <1>4, Zenon DEF SessionCleanup, RegistryNext, CleanupTask
<1>5. ASSUME NEW c \in StartCalls, NEW k \in LiveIds, NEW p \in Protocols, StartCheck(c, k, p)
      PROVE  UNCHANGED registryVars
  BY <1>5, Zenon DEF StartCheck
<1>6. ASSUME NEW c \in StartCalls, StartStep(c)
      PROVE  UNCHANGED registryVars
  BY <1>6, Zenon DEF StartStep, StartSend, StartAnswered, StartTimeout
<1>7. ASSUME NEW c \in StopCalls, NEW k \in LiveIds, StopCheck(c, k)
      PROVE  UNCHANGED registryVars
  BY <1>7, Zenon DEF StopCheck
<1>8. ASSUME NEW c \in StopCalls, StopStep(c)
      PROVE  UNCHANGED registryVars
  BY <1>8, Zenon DEF StopStep, StopFind, StopSend, StopPoll, StopTimeout
<1>9. ASSUME WatchOrEvent
      PROVE  UNCHANGED registryVars
  BY <1>9, WatchOrEventFrame, Zenon DEF callCore
<1> QED
  BY <1>1, <1>2, <1>3, <1>4, <1>5, <1>6, <1>7, <1>8, <1>9, Zenon DEF ApiNext, WatchOrEvent, apiVars

-----------------------------------------------------------------------------
(* The invariant is kept *)

\* Steps outside the registry's loops and calls: sessions move on and end.
LEMMA SessionsMoveOn ==
  ASSUME ApiInv, [RegistryNext]_registryVars, RegistryInv', UNCHANGED callCore, Born' = Born,
         \A p \in Protocols : loop[p].pc = "registered" =>
           sessions'[loop[p].key] = sessions[loop[p].key]
  PROVE  ApiInv'
<1> USE DEF ApiInv, callCore
<1>1. ApiTypes' /\ AcksPassedOn' /\ AcksDiffer' /\ BornBefore'
  BY Zenon DEF ApiTypes, AcksPassedOn, AcksDiffer, BornBefore
<1>2. LoopHolds'
  BY DEF LoopHolds
<1>3. AskedSessions'
  <2> SUFFICES ASSUME NEW c \in StopCalls PROVE AskedOf(c)'
    BY Zenon DEF AskedSessions
  <2>1. AskedOf(c)
    BY Zenon DEF AskedSessions
  <2> QED BY <2>1, BornForGood, GoneForGood, Zenon DEF AskedOf
<1>4. AfterAnswered' /\ SentBefore' /\ QueueOrder' /\ StopSparesLater'
  BY Zenon DEF AfterAnswered, StopsDone, SentBefore, Sent, QueueOrder, StopsBehind, StopSparesLater
<1> QED BY <1>1, <1>2, <1>3, <1>4, Zenon

\* A publisher moves a session on, a lifecycle or the cleanup task ends one.
LEMMA SessionStepKeeps ==
  ASSUME ApiInv, [RegistryNext]_registryVars, RegistryInv',
         \/ \E k \in LiveIds : SessionEnds(k)
         \/ \E k \in LiveIds, new \in {"Connecting", "Connected"} : SessionMoves(k, new)
         \/ \E s \in Sessions : SessionCleanup(s)
  PROVE  ApiInv'
<1> USE DEF ApiInv, callCore
<1>0. UNCHANGED callCore
  BY Zenon DEF SessionEnds, SessionMoves, SessionCleanup, loopVars, callVars
<1>1. ASSUME NEW k \in LiveIds, SessionEnds(k)
      PROVE  ApiInv'
  BY <1>0, <1>1, SessionsMoveOn, Zenon DEF SessionEnds, Born
<1>2. ASSUME NEW k \in LiveIds, NEW new \in {"Connecting", "Connected"}, SessionMoves(k, new)
      PROVE  ApiInv'
  <2>1. Born' = Born
    <3>1. CASE state' = state
      BY <3>1, Zenon DEF Born
    <3>2. CASE state' # state
      BY <1>2, <3>2, UpdateEffect
         DEF SessionMoves, Born, RegistryInv, RegistryTypeOK, Transitions, SessionState, Unborn
    <3> QED BY <3>1, <3>2, Zenon
  <2> QED BY <1>0, <1>2, <2>1, SessionsMoveOn, Zenon DEF SessionMoves
<1>3. ASSUME NEW s \in Sessions, SessionCleanup(s)
      PROVE  ApiInv'
  <2>1. Born' = Born
    BY <1>3 DEF SessionCleanup, CleanupMark, CleanupRemove, Born, RegistryInv, RegistryTypeOK,
                BornWithCleanup, Unborn
  <2>2. \A p \in Protocols : loop[p].pc = "registered" =>
          sessions'[loop[p].key] = sessions[loop[p].key]
    BY <1>3, Zenon DEF SessionCleanup, CleanupMark, CleanupRemove, GraceCoversAck, RegistryInv,
                RegistryTypeOK, ApiTypes
  <2> QED BY <1>0, <2>1, <2>2, SessionsMoveOn, Zenon
<1> QED BY <1>1, <1>2, <1>3, Zenon

-----------------------------------------------------------------------------
(* The control queues *)

\* What is in the queues, and who has sent it.
LEMMA QueueFacts ==
  ASSUME ApiInv
  PROVE  /\ \A p \in Protocols : Len(inbox[p]) \in Nat
         /\ \A p \in Protocols : \A i \in 1 .. Len(inbox[p]) :
              /\ inbox[p][i] \in Messages
              /\ inbox[p][i].op = "precreate" => inbox[p][i].call \in StartCalls
         /\ \A s \in Born : /\ startedBy[s] \in StartCalls /\ Sent(startedBy[s])
                            /\ protoOf[s] \in Protocols
         /\ \A p \in Protocols : loop[p].pc # "idle" =>
              loop[p].call \in StartCalls /\ Sent(loop[p].call)
<1> USE DEF ApiInv
<1>1. /\ \A p \in Protocols : \A i \in 1 .. Len(inbox[p]) : inbox[p][i] \in Messages
      /\ \A p \in Protocols : Len(inbox[p]) \in Nat
  BY LenProperties DEF ApiTypes
<1>2. \A p \in Protocols : \A i \in 1 .. Len(inbox[p]) :
        inbox[p][i].op = "precreate" => inbox[p][i].call \in StartCalls
  BY <1>1, Zenon DEF Messages, PrecreateMessages, StopMessages
<1>3. \A s \in Born : /\ startedBy[s] \in StartCalls /\ Sent(startedBy[s])
                       /\ protoOf[s] \in Protocols
  BY Zenon DEF SentBefore, BornBefore
<1>4. \A p \in Protocols : loop[p].pc # "idle" =>
        loop[p].call \in StartCalls /\ Sent(loop[p].call)
  BY Zenon DEF ApiTypes, SentBefore
<1> QED BY <1>1, <1>2, <1>3, <1>4, Zenon

\* A call that has sent its message keeps its acknowledgement and the stops that it
\* came after.
SentCallsKept ==
  \A d \in StartCalls :
    /\ start'[d].ack = start[d].ack
    /\ Sent(d) => start'[d].pc \in {"waiting", "done"} /\ start'[d].after = start[d].after

\* The order of the queues is kept if stops stay behind the same calls.
LEMMA OrderKept ==
  ASSUME ApiInv, SentCallsKept, UNCHANGED <<protoOf, startedBy, loop>>, Born' = Born,
         \A d \in StartCalls, q \in Protocols : Sent(d) /\ StopsBehind(d, q, 1) =>
           StopsBehind(d, q, 1)',
         \A q \in Protocols : \A i \in 1 .. Len(inbox'[q]) :
           inbox'[q][i].op = "precreate" =>
             /\ inbox'[q][i].call \in StartCalls
             /\ start'[inbox'[q][i].call].pc \in {"waiting", "done"}
             /\ \A j \in 1 .. Len(inbox'[q]) : j >= i /\ inbox'[q][j].op = "stop" =>
                  inbox'[q][j].call \notin start'[inbox'[q][i].call].after
  PROVE  SentBefore' /\ QueueOrder'
<1> USE DEF ApiInv
<1>1. SentBefore'
  BY QueueFacts, Zenon DEF SentBefore, Sent, SentCallsKept
<1>2. ASSUME NEW q \in Protocols, NEW i \in 1 .. Len(inbox'[q]),
             inbox'[q][i].op = "precreate"
      PROVE  StopsBehind(inbox[q][i].call, q, i)'
  BY <1>2, Zenon DEF StopsBehind
<1>3. ASSUME NEW q \in Protocols, loop[q].pc # "idle"
      PROVE  StopsBehind(loop[q].call, q, 1)'
  <2>1. PICK d \in StartCalls : d = loop[q].call
    BY <1>3, QueueFacts, Zenon
  <2>2. StopsBehind(d, q, 1)'
    BY <1>3, <2>1, QueueFacts, Zenon DEF QueueOrder
  <2> QED BY <2>1, <2>2, Zenon DEF StopsBehind
<1>4. ASSUME NEW s \in Born
      PROVE  StopsBehind(startedBy[s], protoOf[s], 1)'
  <2>1. PICK d \in StartCalls, q \in Protocols : d = startedBy[s] /\ q = protoOf[s]
    BY QueueFacts, Zenon
  <2>2. StopsBehind(d, q, 1)'
    BY <2>1, QueueFacts, Zenon DEF QueueOrder
  <2> QED BY <2>1, <2>2, Zenon DEF StopsBehind
<1> QED BY <1>1, <1>2, <1>3, <1>4, Zenon DEF QueueOrder

\* A queue that stays as it is keeps its order ...
LEMMA QueueStays ==
  ASSUME ApiInv, SentCallsKept, UNCHANGED <<protoOf, startedBy, loop, inbox>>, Born' = Born
  PROVE  SentBefore' /\ QueueOrder'
<1> USE DEF ApiInv
<1>1. \A d \in StartCalls, q \in Protocols : Sent(d) /\ StopsBehind(d, q, 1) =>
        StopsBehind(d, q, 1)'
  BY Zenon DEF StopsBehind, SentCallsKept
<1>2. ASSUME NEW q \in Protocols, NEW i \in 1 .. Len(inbox[q]), inbox[q][i].op = "precreate"
      PROVE  /\ inbox[q][i].call \in StartCalls
             /\ start'[inbox[q][i].call].pc \in {"waiting", "done"}
             /\ \A j \in 1 .. Len(inbox[q]) : j >= i /\ inbox[q][j].op = "stop" =>
                  inbox[q][j].call \notin start'[inbox[q][i].call].after
  BY <1>2, QueueFacts, Zenon DEF SentBefore, QueueOrder, StopsBehind, SentCallsKept
<1> QED BY <1>1, <1>2, OrderKept, Zenon

\* ... and so does one with a message at its end, if a stop there is not answered yet.
LEMMA QueueGrows ==
  ASSUME ApiInv, SentCallsKept, UNCHANGED <<protoOf, startedBy, loop>>, Born' = Born,
         NEW p \in Protocols, NEW msg \in Messages,
         inbox' = [inbox EXCEPT ![p] = Append(@, msg)],
         msg.op = "precreate" => msg.call \in StartCalls /\ start'[msg.call].pc = "waiting",
         msg.op = "stop" => msg.call \notin StopsDone
  PROVE  SentBefore' /\ QueueOrder'
<1> USE DEF ApiInv
<1>1. /\ Len(inbox'[p]) = Len(inbox[p]) + 1
      /\ inbox'[p][Len(inbox[p]) + 1] = msg
      /\ \A i \in 1 .. Len(inbox[p]) : inbox'[p][i] = inbox[p][i]
      /\ \A q \in Protocols : q # p => inbox'[q] = inbox[q]
  BY Queued, Zenon
<1>2. \A d \in StartCalls, q \in Protocols : Sent(d) /\ StopsBehind(d, q, 1) =>
        StopsBehind(d, q, 1)'
  BY <1>1, QueueFacts DEF StopsBehind, SentCallsKept, AfterAnswered
<1>3. ASSUME NEW q \in Protocols, NEW i \in 1 .. Len(inbox'[q]), inbox'[q][i].op = "precreate"
      PROVE  /\ inbox'[q][i].call \in StartCalls
             /\ start'[inbox'[q][i].call].pc \in {"waiting", "done"}
             /\ \A j \in 1 .. Len(inbox'[q]) : j >= i /\ inbox'[q][j].op = "stop" =>
                  inbox'[q][j].call \notin start'[inbox'[q][i].call].after
  <2>1. CASE i \in 1 .. Len(inbox[q])
    <3>1. inbox'[q][i] = inbox[q][i]
      BY <1>1, <2>1, Zenon
    <3>2. PICK d \in StartCalls : d = inbox[q][i].call
      BY <1>3, <2>1, <3>1, QueueFacts, Zenon
    <3>3. Sent(d) /\ StopsBehind(d, q, i)
      BY <1>3, <2>1, <3>1, <3>2, Zenon DEF SentBefore, QueueOrder
    <3>4. \A j \in 1 .. Len(inbox'[q]) : j >= i /\ inbox'[q][j].op = "stop" =>
            inbox'[q][j].call \notin start[d].after
      BY <1>1, <3>3, QueueFacts DEF StopsBehind, AfterAnswered
    <3> QED BY <3>1, <3>2, <3>3, <3>4, Zenon DEF SentCallsKept
  <2>2. CASE i \notin 1 .. Len(inbox[q])
    <3>1. q = p /\ i = Len(inbox[p]) + 1
      BY <1>1, <2>2, QueueFacts
    <3> QED BY <1>1, <1>3, <3>1, QueueFacts
  <2> QED BY <2>1, <2>2, Zenon
<1> QED BY <1>2, <1>3, OrderKept, Zenon

-----------------------------------------------------------------------------
(* The calls *)

\* A precreate of call c is put into the queue of p.
PrecreateQueued(c, p) ==
  \E k \in LiveIds :
    inbox' = [inbox EXCEPT ![p] = Append(@, [op |-> "precreate", key |-> k, call |-> c])]

\* What a StartLivestream call may do to itself without breaking the invariant: it keeps
\* its acknowledgement, and once its message is sent the stops that it came after.
LEMMA StartChanges ==
  ASSUME ApiInv, NEW c \in StartCalls, NEW new \in StartRecord,
         start' = [start EXCEPT ![c] = new],
         UNCHANGED <<registryVars, protoOf, startedBy, loop, stop, killed>>,
         new.ack = start[c].ack,
         new.pc = "sending" => new.key \in LiveIds /\ new.proto \in Protocols,
         Sent(c) => new.pc = "done" /\ new.after = start[c].after,
         new.after \subseteq StopsDone,
         new.answer.is = "ok" => new.pc = "done" /\ new.answer = new.ack,
         UNCHANGED inbox \/ (new.pc = "waiting" /\ \E p \in Protocols : PrecreateQueued(c, p))
  PROVE  ApiInv'
<1> USE DEF ApiInv
<1>a. /\ start'[c] = new /\ DOMAIN start' = StartCalls
      /\ \A d \in StartCalls : d # c => start'[d] = start[d]
      /\ \A d \in StartCalls : start'[d].ack = start[d].ack
  BY Zenon DEF ApiTypes
<1>b. start[c].ack # Nothing => Sent(c)
  BY Zenon DEF AcksPassedOn, Sent
<1>c. SentCallsKept
  BY <1>a, Zenon DEF SentCallsKept, Sent
<1>d. Born' = Born /\ RegistryInv' /\ StopsDone' = StopsDone
  BY DEF Born, StopsDone, registryVars, RegistryInv, RegistryTypeOK, EntryHasItsCleanup,
         GraceIsFinal, BornWithCleanup
<1>1. inbox' \in [Protocols -> Seq(Messages)]
  BY Queued, Zenon DEF PrecreateQueued, ApiTypes, Messages, PrecreateMessages
<1>2. ApiTypes'
  BY <1>1, <1>a, Zenon DEF ApiTypes
<1>3. AcksPassedOn'
  BY <1>a, <1>b, ZenonT(30) DEF AcksPassedOn, Sent
<1>4. BornBefore' /\ AcksDiffer'
  BY <1>a, <1>d DEF BornBefore, AcksDiffer
<1>5. LoopHolds'
  BY <1>a, <1>d DEF LoopHolds, registryVars
<1>6. AskedSessions'
  BY <1>d, Zenon DEF AskedSessions, AskedOf, registryVars
<1>7. AfterAnswered'
  BY <1>a, <1>d, Zenon DEF AfterAnswered
<1>8. StopSparesLater'
  <2> SUFFICES ASSUME NEW hit \in killed, protoOf[hit.session] = hit.proto
               PROVE  hit.call \notin start'[startedBy[hit.session]].after
    BY Zenon DEF StopSparesLater
  <2>1. PICK d \in StartCalls : d = startedBy[hit.session] /\ Sent(d)
    BY QueueFacts, Zenon DEF BornBefore
  <2> QED BY <2>1, <1>c, Zenon DEF SentCallsKept, StopSparesLater
<1>9. ASSUME UNCHANGED inbox
      PROVE  SentBefore' /\ QueueOrder'
  BY <1>c, <1>d, <1>9, QueueStays, Zenon
<1>10. ASSUME NEW p \in Protocols, PrecreateQueued(c, p), new.pc = "waiting"
       PROVE  SentBefore' /\ QueueOrder'
  <2>1. PICK msg \in PrecreateMessages :
          msg.call = c /\ inbox' = [inbox EXCEPT ![p] = Append(@, msg)]
    BY <1>10, Zenon DEF PrecreateQueued, PrecreateMessages
  <2>2. msg \in Messages /\ msg.op = "precreate" /\ start'[msg.call].pc = "waiting"
    BY <1>a, <1>10, <2>1, Zenon DEF PrecreateMessages, Messages
  <2> QED BY <1>c, <1>d, <2>1, <2>2, QueueGrows, Zenon
<1> QED BY <1>d, <1>2, <1>3, <1>4, <1>5, <1>6, <1>7, <1>8, <1>9, <1>10, Zenon

LEMMA StartStepKeeps ==
  ASSUME ApiInv, NEW c \in StartCalls,
         (\E k \in LiveIds, p \in Protocols : StartCheck(c, k, p)) \/ StartStep(c)
  PROVE  ApiInv'
<1> USE NoSessionAssumption DEF ApiInv
<1>0. start \in [StartCalls -> StartRecord] /\ start[c] \in StartRecord
  BY Zenon DEF ApiTypes
<1>1. ASSUME NEW k \in LiveIds, NEW p \in Protocols, StartCheck(c, k, p)
      PROVE  ApiInv'
  <2> DEFINE call == [start[c] EXCEPT !.key = k, !.proto = p, !.after = StopsDone]
             new == IF InUse(k) THEN Answered(call, "exists", NoSession)
                    ELSE [call EXCEPT !.pc = "sending"]
  <2>1. /\ start' = [start EXCEPT ![c] = new] /\ start[c].pc = "new"
        /\ UNCHANGED <<registryVars, protoOf, startedBy, loop, stop, killed, inbox>>
    BY <1>1, Zenon DEF StartCheck, loopVars
  <2>2. /\ new \in StartRecord /\ new.ack = start[c].ack
        /\ new.pc = "sending" => new.key \in LiveIds /\ new.proto \in Protocols
        /\ new.after \subseteq StopsDone
        /\ new.answer.is = "ok" => new.pc = "done" /\ new.answer = new.ack
    BY <1>0, <2>1, Zenon DEF StartRecord, Answered, Reply, Replies, StopsDone, AcksPassedOn
  <2>3. ~Sent(c)
    BY <2>1, Zenon DEF Sent
  <2> HIDE DEF new
  <2> QED BY <2>1, <2>2, <2>3, StartChanges, Zenon
<1>2. CASE StartSend(c)
  <2> DEFINE full == Len(inbox[start[c].proto]) >= QueueCap
             new == IF full THEN Answered(start[c], "error", NoSession)
                    ELSE [start[c] EXCEPT !.pc = "waiting"]
  <2>1. /\ start' = [start EXCEPT ![c] = new] /\ start[c].pc = "sending"
        /\ UNCHANGED <<registryVars, protoOf, startedBy, loop, stop, killed>>
    BY <1>2, Zenon DEF StartSend
  <2>2. /\ new \in StartRecord /\ new.ack = start[c].ack /\ new.after = start[c].after
        /\ new.pc \in {"waiting", "done"} /\ (~full => new.pc = "waiting")
        /\ new.answer.is = "ok" => new.pc = "done" /\ new.answer = new.ack
    BY <1>0, <2>1, Zenon DEF StartRecord, Answered, Reply, Replies, AcksPassedOn
  <2>3. ~Sent(c) /\ new.after \subseteq StopsDone
    BY <2>1, <2>2, Zenon DEF Sent, AfterAnswered
  <2>4. UNCHANGED inbox \/ (new.pc = "waiting" /\ \E q \in Protocols : PrecreateQueued(c, q))
    <3>1. start[c].proto \in Protocols /\ start[c].key \in LiveIds
      BY <2>1, Zenon DEF ApiTypes
    <3> QED BY <1>2, <2>2, <3>1, Zenon DEF StartSend, PrecreateQueued
  <2> HIDE DEF new, full
  <2> QED BY <2>1, <2>2, <2>3, <2>4, StartChanges, Zenon
<1>3. CASE StartAnswered(c) \/ StartTimeout(c)
  <2> DEFINE new == IF StartAnswered(c) THEN Answered(start[c], start[c].ack.is, start[c].ack.session)
                    ELSE Answered(start[c], "error", NoSession)
  <2>1. /\ start' = [start EXCEPT ![c] = new] /\ start[c].pc = "waiting"
        /\ UNCHANGED <<registryVars, protoOf, startedBy, loop, stop, killed, inbox>>
    BY <1>3, Zenon DEF StartAnswered, StartTimeout, loopVars
  <2>2. /\ new \in StartRecord /\ new.ack = start[c].ack /\ new.after = start[c].after
        /\ new.pc = "done"
        /\ new.answer.is = "ok" => new.answer = new.ack
    BY <1>0, <2>1, Zenon DEF StartRecord, Answered, Reply, Replies
  <2>3. new.after \subseteq StopsDone
    BY <2>2, Zenon DEF AfterAnswered
  <2> HIDE DEF new
  <2> QED BY <2>1, <2>2, <2>3, StartChanges, Zenon
<1> QED BY <1>1, <1>2, <1>3, Zenon DEF StartStep

\* What a StopLivestream call may do to itself without breaking the invariant.
LEMMA StopChanges ==
  ASSUME ApiInv, NEW b \in StopCalls, NEW new \in StopRecord,
         stop' = [stop EXCEPT ![b] = new],
         UNCHANGED <<registryVars, protoOf, startedBy, loop, start, killed>>,
         stop[b].pc # "done",
         new.pc \in {"finding", "sending", "polling"} => new.key \in LiveIds,
         new.pc = "sending" => new.proto \in Protocols,
         AskedOf(b)',
         \/ UNCHANGED inbox
         \/ \E p \in Protocols, msg \in StopMessages :
              msg.call = b /\ inbox' = [inbox EXCEPT ![p] = Append(@, msg)]
  PROVE  ApiInv'
<1> USE DEF ApiInv
<1>a. /\ stop'[b] = new /\ DOMAIN stop' = StopCalls
      /\ \A d \in StopCalls : d # b => stop'[d] = stop[d]
  BY Zenon DEF ApiTypes
<1>b. Born' = Born /\ RegistryInv'
  BY DEF Born, registryVars, RegistryInv, RegistryTypeOK, EntryHasItsCleanup,
         GraceIsFinal, BornWithCleanup
<1>c. SentCallsKept
  BY Zenon DEF SentCallsKept, Sent
<1>1. inbox' \in [Protocols -> Seq(Messages)]
  BY Queued, Zenon DEF ApiTypes, Messages
<1>2. ApiTypes'
  BY <1>1, <1>a, ZenonT(30) DEF ApiTypes
<1>3. AcksPassedOn' /\ BornBefore' /\ AcksDiffer'
  BY <1>b, Zenon DEF AcksPassedOn, BornBefore, AcksDiffer
<1>4. LoopHolds' /\ StopSparesLater'
  BY <1>b, Zenon DEF LoopHolds, StopSparesLater, registryVars
<1>5. AskedSessions'
  BY <1>a, <1>b DEF AskedSessions, AskedOf, registryVars
<1>6. AfterAnswered'
  BY <1>a DEF AfterAnswered, StopsDone
<1>7. SentBefore' /\ QueueOrder'
  <2>1. CASE UNCHANGED inbox
    BY <1>b, <1>c, <2>1, QueueStays, Zenon
  <2>2. ASSUME NEW p \in Protocols, NEW msg \in StopMessages, msg.call = b,
               inbox' = [inbox EXCEPT ![p] = Append(@, msg)]
        PROVE  SentBefore' /\ QueueOrder'
    <3>1. msg \in Messages /\ msg.op = "stop" /\ msg.call \notin StopsDone
      BY <2>2, Zenon DEF Messages, StopMessages, StopsDone
    <3> QED BY <1>b, <1>c, <2>2, <3>1, QueueGrows, Zenon
  <2> QED BY <2>1, <2>2, Zenon
<1> QED BY <1>b, <1>2, <1>3, <1>4, <1>5, <1>6, <1>7, Zenon

LEMMA StopStepKeeps ==
  ASSUME ApiInv, NEW b \in StopCalls,
         (\E k \in LiveIds : StopCheck(b, k)) \/ StopStep(b)
  PROVE  ApiInv'
<1> USE NoSessionAssumption DEF ApiInv
<1>0. stop \in [StopCalls -> StopRecord] /\ stop[b] \in StopRecord
  BY Zenon DEF ApiTypes
<1>a. AskedOf(b)
  BY Zenon DEF AskedSessions
<1>r. \A j \in LiveIds : InUse(j) => sessions[j] \in Born /\ keyOf[sessions[j]] = j
  BY DEF InUse, Born, RegistryInv, RegistryTypeOK, EntryHasItsCleanup, BornWithCleanup
<1>1. ASSUME NEW k \in LiveIds, StopCheck(b, k)
      PROVE  ApiInv'
  <2> DEFINE call == [stop[b] EXCEPT !.key = k, !.asked = sessions[k]]
             new == IF InUse(k) THEN [call EXCEPT !.pc = "finding"]
                    ELSE Answered(call, "not_found", NoSession)
  <2>1. /\ stop' = [stop EXCEPT ![b] = new] /\ stop[b].pc = "new"
        /\ UNCHANGED <<registryVars, protoOf, startedBy, loop, start, killed, inbox>>
    BY <1>1, Zenon DEF StopCheck, loopVars
  <2>2. /\ new \in StopRecord /\ new.key = k /\ new.asked = sessions[k]
        /\ new.pc \in {"finding", "done"} /\ (new.pc = "finding" => InUse(k))
        /\ new.answer.is # "true"
    BY <1>0, <1>a, <2>1, Zenon
       DEF StopRecord, Answered, Reply, Replies, RegistryInv, RegistryTypeOK, AskedOf
  <2> HIDE DEF new
  <2>3. AskedOf(b)'
    BY <1>0, <1>r, <2>1, <2>2, Zenon DEF AskedOf, Born, registryVars
  <2> QED BY <2>1, <2>2, <2>3, StopChanges, Zenon
<1>2. CASE StopFind(b)
  <2> DEFINE j == stop[b].key
             new == IF InUse(j) THEN [stop[b] EXCEPT !.pc = "sending", !.proto = protoOf[sessions[j]]]
                    ELSE Answered(stop[b], "true", NoSession)
  <2>1. /\ stop' = [stop EXCEPT ![b] = new] /\ stop[b].pc = "finding"
        /\ UNCHANGED <<registryVars, protoOf, startedBy, loop, start, killed, inbox>>
    BY <1>2, Zenon DEF StopFind, loopVars
  <2>2. j \in LiveIds /\ (InUse(j) => protoOf[sessions[j]] \in Protocols)
    BY <1>r, <2>1, Zenon DEF ApiTypes, BornBefore
  <2>3. /\ new \in StopRecord /\ new.key = j /\ new.asked = stop[b].asked
        /\ InUse(j) => new.pc = "sending" /\ new.proto \in Protocols /\ new.answer = stop[b].answer
        /\ ~InUse(j) => new.pc = "done"
    BY <1>0, <2>1, <2>2, Zenon DEF StopRecord, Answered, Reply, Replies
  <2> HIDE DEF new
  <2>4. AskedOf(b)'
    <3>1. stop[b].asked \in Born /\ keyOf[stop[b].asked] = j /\ stop[b].answer.is # "true"
      BY <1>a, <2>1, Zenon DEF AskedOf
    <3>2. ~InUse(j) => \A i \in LiveIds : sessions[i] # stop[b].asked
      BY <3>1, <2>2 DEF InUse, Born, RegistryInv, EntryHasItsCleanup
    <3> QED BY <1>0, <2>1, <2>3, <3>1, <3>2, Zenon DEF AskedOf, Born, registryVars
  <2> QED BY <2>1, <2>2, <2>3, <2>4, StopChanges, Zenon
<1>3. CASE StopSend(b)
  <2> DEFINE new == [stop[b] EXCEPT !.pc = "polling"]
  <2>1. /\ stop' = [stop EXCEPT ![b] = new] /\ stop[b].pc = "sending"
        /\ UNCHANGED <<registryVars, protoOf, startedBy, loop, start, killed>>
    BY <1>0, <1>3, Zenon DEF StopSend, StopRecord
  <2>2. /\ new \in StopRecord /\ new.key = stop[b].key /\ new.asked = stop[b].asked
        /\ new.pc = "polling" /\ new.answer = stop[b].answer
        /\ stop[b].key \in LiveIds /\ stop[b].proto \in Protocols
    BY <1>0, <2>1, Zenon DEF StopRecord, ApiTypes
  <2> HIDE DEF new
  <2>3. AskedOf(b)'
    BY <1>0, <1>a, <2>1, <2>2, Zenon DEF AskedOf, Born, registryVars
  <2>4. \/ UNCHANGED inbox
        \/ \E p \in Protocols, msg \in StopMessages :
             msg.call = b /\ inbox' = [inbox EXCEPT ![p] = Append(@, msg)]
    BY <1>3, <2>2, Zenon DEF StopSend, StopMessages
  <2> QED BY <2>1, <2>2, <2>3, <2>4, StopChanges, Zenon
<1>4. CASE StopPoll(b) \/ StopTimeout(b)
  <2> DEFINE new == Answered(stop[b], IF StopPoll(b) THEN "true" ELSE "false", NoSession)
  <2>1. /\ stop' = [stop EXCEPT ![b] = new] /\ stop[b].pc = "polling"
        /\ UNCHANGED <<registryVars, protoOf, startedBy, loop, start, killed, inbox>>
    BY <1>4, Zenon DEF StopPoll, StopTimeout, loopVars
  <2>2. /\ new \in StopRecord /\ new.key = stop[b].key /\ new.asked = stop[b].asked
        /\ new.pc = "done" /\ (new.answer.is = "true" => StopPoll(b))
    BY <1>0, <2>1, Zenon DEF StopRecord, Answered, Reply, Replies
  <2> HIDE DEF new
  <2>3. AskedOf(b)'
    <3>1. stop[b].asked \in Born /\ keyOf[stop[b].asked] = stop[b].key
      BY <1>a, <2>1, Zenon DEF AskedOf
    <3>2. StopPoll(b) => \A i \in LiveIds : sessions[i] # stop[b].asked
      BY <3>1 DEF StopPoll, InUse, Born, RegistryInv, EntryHasItsCleanup
    <3> QED BY <1>0, <2>1, <2>2, <3>1, <3>2, Zenon DEF AskedOf, Born, registryVars
  <2> QED BY <2>1, <2>2, <2>3, StopChanges, Zenon
<1> QED BY <1>1, <1>2, <1>3, <1>4, Zenon DEF StopStep

-----------------------------------------------------------------------------
(* The control loops *)

\* An acknowledgement reaches a call that waits for it and changes nothing else.
LEMMA AckEffect ==
  ASSUME ApiTypes, NEW c \in StartCalls, NEW is \in {"ok", "exists", "error"},
         NEW s \in Sessions \cup {NoSession}, Ack(c, is, s)
  PROVE  /\ start' \in [StartCalls -> StartRecord]
         /\ \A d \in StartCalls :
              /\ start'[d].pc = start[d].pc /\ start'[d].key = start[d].key
              /\ start'[d].proto = start[d].proto /\ start'[d].answer = start[d].answer
              /\ start'[d].after = start[d].after
              /\ \/ start'[d].ack = start[d].ack
                 \/ d = c /\ start[d].pc = "waiting" /\ start'[d].ack = Reply(is, s)
<1>1. start \in [StartCalls -> StartRecord] /\ Reply(is, s) \in Replies
  BY Zenon DEF ApiTypes, Reply, Replies
<1>2. /\ start' = [start EXCEPT ![c] = start'[c]]
      /\ start'[c] = IF start[c].pc = "waiting" THEN [start[c] EXCEPT !.ack = Reply(is, s)]
                     ELSE start[c]
  BY <1>1, Zenon DEF Ack
<1>3. /\ start'[c] \in StartRecord
      /\ start'[c].pc = start[c].pc /\ start'[c].key = start[c].key
      /\ start'[c].proto = start[c].proto /\ start'[c].answer = start[c].answer
      /\ start'[c].after = start[c].after
      /\ \/ start'[c].ack = start[c].ack
         \/ start[c].pc = "waiting" /\ start'[c].ack = Reply(is, s)
  BY <1>1, <1>2, Zenon DEF StartRecord
<1> QED BY <1>1, <1>2, <1>3, Zenon

\* The queues of a step that receives from the queue of p, or from none.
Shifted(p) ==
  /\ Len(inbox'[p]) = Len(inbox[p]) - 1
  /\ \A i \in 1 .. Len(inbox'[p]) : inbox'[p][i] = inbox[p][i + 1]
  /\ \A q \in Protocols : q # p => inbox'[q] = inbox[q]

\* The order of the queues is kept by a step of a loop, if the stops that the calls at
\* hand came after were gone before it.
LEMMA LoopOrder ==
  ASSUME ApiInv, NEW p \in Protocols, UNCHANGED inbox \/ Shifted(p),
         \A d \in StartCalls : start'[d].pc = start[d].pc /\ start'[d].after = start[d].after,
         \A q \in Protocols : loop'[q].pc # "idle" =>
           \E c \in StartCalls : loop'[q].call = c /\ Sent(c) /\ StopsBehind(c, q, 1),
         \A s \in Born' : \E d \in StartCalls, q \in Protocols :
           startedBy'[s] = d /\ protoOf'[s] = q /\ Sent(d) /\ StopsBehind(d, q, 1)
  PROVE  SentBefore' /\ QueueOrder'
<1> USE DEF ApiInv
<1>1. \A d \in StartCalls : start'[d].pc \in {"waiting", "done"} <=> Sent(d)
  BY Zenon DEF Sent
<1>2. ASSUME NEW q \in Protocols, NEW i \in 1 .. Len(inbox'[q])
      PROVE  \E j \in 1 .. Len(inbox[q]) : /\ inbox'[q][i] = inbox[q][j]
                                           /\ \A m \in 1 .. Len(inbox'[q]) : m >= i =>
                                                \E n \in 1 .. Len(inbox[q]) :
                                                  n >= j /\ inbox'[q][m] = inbox[q][n]
  <2>1. CASE inbox'[q] = inbox[q]
    BY <2>1, Zenon
  <2>2. CASE q = p /\ Shifted(p)
    BY <1>2, <2>2, QueueFacts DEF Shifted
  <2> QED BY <2>1, <2>2, Zenon DEF Shifted
<1>3. ASSUME NEW q \in Protocols, NEW i \in 1 .. Len(inbox'[q]), inbox'[q][i].op = "precreate"
      PROVE  /\ start'[inbox'[q][i].call].pc \in {"waiting", "done"}
             /\ StopsBehind(inbox[q][i].call, q, i)'
  <2>1. PICK j \in 1 .. Len(inbox[q]) :
           /\ inbox'[q][i] = inbox[q][j]
           /\ \A m \in 1 .. Len(inbox'[q]) : m >= i =>
                \E n \in 1 .. Len(inbox[q]) : n >= j /\ inbox'[q][m] = inbox[q][n]
    BY <1>2, Zenon
  <2>2. PICK d \in StartCalls : d = inbox[q][j].call
    BY <1>3, <2>1, QueueFacts, Zenon
  <2>3. Sent(d) /\ StopsBehind(d, q, j)
    BY <1>3, <2>1, <2>2, Zenon DEF SentBefore, QueueOrder
  <2>4. ASSUME NEW m \in 1 .. Len(inbox'[q]), m >= i, inbox'[q][m].op = "stop"
        PROVE  inbox'[q][m].call \notin start'[d].after
    <3>1. PICK n \in 1 .. Len(inbox[q]) : n >= j /\ inbox'[q][m] = inbox[q][n]
      BY <2>1, <2>4, Zenon
    <3> QED BY <2>3, <2>4, <3>1, ZenonT(30) DEF StopsBehind
  <2>5. start'[d].pc \in {"waiting", "done"} /\ inbox'[q][i].call = d
    BY <1>1, <2>1, <2>2, <2>3, Zenon
  <2> QED BY <2>4, <2>5, Zenon DEF StopsBehind
<1>4. ASSUME NEW d \in StartCalls, NEW q \in Protocols, StopsBehind(d, q, 1)
      PROVE  StopsBehind(d, q, 1)'
  <2> SUFFICES ASSUME NEW i \in 1 .. Len(inbox'[q]), inbox'[q][i].op = "stop"
               PROVE  inbox'[q][i].call \notin start'[d].after
    BY Zenon DEF StopsBehind
  <2>1. PICK j \in 1 .. Len(inbox[q]) : inbox'[q][i] = inbox[q][j]
    BY <1>2, Zenon
  <2> QED BY <1>4, <2>1 DEF StopsBehind
<1>5. SentBefore'
  BY <1>1, <1>3, ZenonT(30) DEF SentBefore, Sent
<1>6. ASSUME NEW q \in Protocols, loop'[q].pc # "idle"
      PROVE  StopsBehind(loop[q].call, q, 1)'
  <2>1. PICK c \in StartCalls : loop'[q].call = c /\ StopsBehind(c, q, 1)
    BY <1>6, Zenon
  <2> QED BY <1>4, <2>1, Zenon DEF StopsBehind
<1>7. ASSUME NEW s \in Born'
      PROVE  StopsBehind(startedBy[s], protoOf[s], 1)'
  <2>1. PICK d \in StartCalls, q \in Protocols :
          startedBy'[s] = d /\ protoOf'[s] = q /\ StopsBehind(d, q, 1)
    BY Zenon
  <2> QED BY <1>4, <2>1, Zenon DEF StopsBehind
<1> QED BY <1>3, <1>5, <1>6, <1>7, Zenon DEF QueueOrder

\* The steps of loop p that leave the sessions alone: a precreate is received, an
\* acknowledgement sent.
LEMMA LoopPrecreateKeeps ==
  ASSUME ApiInv, RegistryInv', NEW p \in Protocols, LoopPrecreate(p)
  PROVE  ApiInv'
<1> USE NoSessionAssumption DEF ApiInv
<1> DEFINE msg == inbox[p][1]
<1>0. /\ loop[p].pc = "idle" /\ Len(inbox[p]) \in Nat \ {0} /\ Dequeue(p).msg = msg
      /\ msg \in Messages /\ msg.op = "precreate"
      /\ inbox' \in [Protocols -> Seq(Messages)] /\ Shifted(p)
      /\ UNCHANGED <<registryVars, protoOf, startedBy, killed, stop>>
  BY Received, Zenon DEF LoopPrecreate, Shifted
<1>1. msg.call \in StartCalls /\ msg.key \in LiveIds /\ Sent(msg.call)
      /\ StopsBehind(msg.call, p, 1)
  BY <1>0 DEF Messages, PrecreateMessages, StopMessages, SentBefore, QueueOrder
<1>2. \/ Ack(msg.call, "exists", NoSession) /\ UNCHANGED loop
      \/ /\ loop' = [loop EXCEPT ![p] = [pc |-> "checked", key |-> msg.key, call |-> msg.call]]
         /\ UNCHANGED start
  BY <1>0, Zenon DEF LoopPrecreate
<1> HIDE DEF msg
<1>3. /\ start' \in [StartCalls -> StartRecord]
      /\ \A d \in StartCalls :
           /\ start'[d].pc = start[d].pc /\ start'[d].key = start[d].key
           /\ start'[d].proto = start[d].proto /\ start'[d].answer = start[d].answer
           /\ start'[d].after = start[d].after
           /\ \/ start'[d].ack = start[d].ack
              \/ /\ start[d].pc = "waiting" /\ start'[d].ack = Reply("exists", NoSession)
  BY <1>1, <1>2, AckEffect DEF ApiTypes
<1>4. /\ loop' \in [Protocols -> [pc : {"idle", "checked", "registered"},
                                  key : LiveIds \cup {NoKey}, call : StartCalls \cup {NoCall}]]
      /\ \A q \in Protocols : loop'[q] = loop[q] \/
           (q = p /\ loop'[q].pc = "checked" /\ loop'[q].key = msg.key /\ loop'[q].call = msg.call)
  <2>1. CASE UNCHANGED loop
    BY <2>1, Zenon DEF ApiTypes
  <2>2. CASE loop' = [loop EXCEPT ![p] = [pc |-> "checked", key |-> msg.key, call |-> msg.call]]
    BY <1>1, <2>2, Zenon DEF ApiTypes
  <2> QED BY <1>2, <2>1, <2>2, Zenon
<1>5. ApiTypes'
  <2>1. \A q \in Protocols : loop'[q].pc # "idle" =>
          loop'[q].key \in LiveIds /\ loop'[q].call \in StartCalls
    BY <1>1, <1>4, Zenon DEF ApiTypes
  <2>2. \A d \in StartCalls : start'[d].pc = "sending" =>
          start'[d].key \in LiveIds /\ start'[d].proto \in Protocols
    BY <1>3, Zenon DEF ApiTypes
  <2> QED BY <1>0, <1>3, <1>4, <2>1, <2>2, Zenon DEF ApiTypes
<1>6. Born' = Born
  BY <1>0, Zenon DEF Born, registryVars
<1>a. \A d \in StartCalls : start'[d].ack.is = "ok" => start'[d].ack = start[d].ack
  BY <1>3 DEF Reply
<1>b. AcksPassedOn'
  BY <1>3, ZenonT(30) DEF AcksPassedOn, Reply
<1>7. BornBefore' /\ AcksDiffer'
  BY <1>0, <1>6, <1>a, Zenon DEF BornBefore, AcksDiffer
<1>c. StopSparesLater'
  BY <1>0, <1>3, QueueFacts, Zenon DEF StopSparesLater, BornBefore
<1>8. LoopHolds'
  <2> SUFFICES ASSUME NEW q \in Protocols, loop'[q].pc = "registered"
               PROVE  LET s == sessions[loop[q].key]
                      IN  /\ s \in Born /\ protoOf[s] = q
                          /\ \A c \in StartCalls : start'[c].ack # Reply("ok", s)
    BY <1>0, <1>4, <1>6 DEF LoopHolds, registryVars
  <2>1. loop[q].pc = "registered"
    BY <1>4, Zenon
  <2> QED BY <1>a, <2>1 DEF LoopHolds, Reply
<1>9. AskedSessions' /\ AfterAnswered'
  BY <1>0, <1>3, <1>6, Zenon DEF AskedSessions, AskedOf, AfterAnswered, StopsDone, registryVars
<1>10. SentBefore' /\ QueueOrder'
  <2>1. \A q \in Protocols : loop'[q].pc # "idle" =>
           \E c \in StartCalls : loop'[q].call = c /\ Sent(c) /\ StopsBehind(c, q, 1)
    BY <1>1, <1>4, QueueFacts, ZenonT(30) DEF QueueOrder
  <2>2. \A t \in Born' : \E d \in StartCalls, q \in Protocols :
           startedBy'[t] = d /\ protoOf'[t] = q /\ Sent(d) /\ StopsBehind(d, q, 1)
    BY <1>0, <1>6, QueueFacts, Zenon DEF QueueOrder
  <2> QED BY <1>0, <1>3, <2>1, <2>2, LoopOrder, Zenon
<1> QED BY <1>5, <1>b, <1>7, <1>c, <1>8, <1>9, <1>10, Zenon

\* Loop p registers a session that nobody has heard of.
LEMMA LoopRegisterKeeps ==
  ASSUME ApiInv, [RegistryNext]_registryVars, RegistryInv', NEW p \in Protocols, LoopRegister(p)
  PROVE  ApiInv'
<1> USE NoSessionAssumption DEF ApiInv
<1>0. PICK s \in Sessions :
        /\ state[s] = Unborn /\ Register(loop[p].key, s)
        /\ protoOf' = [protoOf EXCEPT ![s] = p]
        /\ startedBy' = [startedBy EXCEPT ![s] = loop[p].call]
  BY Zenon DEF LoopRegister
<1>1. /\ loop[p].pc = "checked" /\ loop[p].key \in LiveIds /\ loop[p].call \in StartCalls
      /\ loop' = [loop EXCEPT ![p].pc = "registered"]
      /\ UNCHANGED <<inbox, killed, start, stop>>
  BY Zenon DEF LoopRegister, ApiTypes, callVars
<1>2. /\ loop' \in [Protocols -> [pc : {"idle", "checked", "registered"},
                                  key : LiveIds \cup {NoKey}, call : StartCalls \cup {NoCall}]]
      /\ loop'[p].key = loop[p].key /\ loop'[p].call = loop[p].call
      /\ \A q \in Protocols : q # p => loop'[q] = loop[q]
  BY <1>1, Zenon DEF ApiTypes
<1>3. /\ s \notin Born /\ Born' = Born \cup {s}
      /\ sessions[loop[p].key] = NoSession /\ sessions'[loop[p].key] = s
      /\ \A k \in LiveIds : k # loop[p].key => sessions'[k] = sessions[k]
  BY <1>0, <1>1 DEF Register, Born, RegistryInv, RegistryTypeOK, Unborn
<1>4. /\ protoOf' \in [Sessions -> Protocols \cup {Unborn}]
      /\ startedBy' \in [Sessions -> StartCalls \cup {NoCall}]
      /\ protoOf'[s] = p /\ startedBy'[s] = loop[p].call
      /\ \A t \in Born : protoOf'[t] = protoOf[t] /\ startedBy'[t] = startedBy[t]
  BY <1>0, <1>1, <1>3, Zenon DEF ApiTypes, Born
<1>5. ApiTypes'
  BY <1>1, <1>2, <1>4 DEF ApiTypes
<1>6. AcksPassedOn' /\ AcksDiffer' /\ AfterAnswered'
  BY <1>1, Zenon DEF AcksPassedOn, AcksDiffer, AfterAnswered, StopsDone
<1>7. BornBefore'
  BY <1>1, <1>3, <1>4, Zenon DEF BornBefore
<1>8. LoopHolds'
  <2>1. \A q \in Protocols : q # p /\ loop[q].pc = "registered" =>
          loop[q].key # loop[p].key /\ sessions'[loop[q].key] = sessions[loop[q].key]
    BY <1>3, Zenon DEF LoopHolds, ApiTypes, Born
  <2>2. \A c \in StartCalls : start[c].ack # Reply("ok", s)
    BY <1>3 DEF BornBefore, Reply
  <2>4. ASSUME NEW q \in Protocols, loop'[q].pc = "registered"
        PROVE  LET t == sessions'[loop'[q].key]
               IN  /\ t \in Born' /\ protoOf'[t] = q
                   /\ \A c \in StartCalls : start[c].ack # Reply("ok", t)
    <3>1. CASE q = p
      BY <1>2, <1>3, <1>4, <2>2, <3>1, Zenon
    <3>2. CASE q # p
      BY <1>2, <1>3, <1>4, <2>1, <2>4, <3>2 DEF LoopHolds
    <3> QED BY <3>1, <3>2, Zenon
  <2> QED BY <1>1, <2>4, ZenonT(30) DEF LoopHolds
<1>9. AskedSessions'
  <2> SUFFICES ASSUME NEW b \in StopCalls PROVE AskedOf(b)'
    BY Zenon DEF AskedSessions
  <2>1. AskedOf(b)
    BY Zenon DEF AskedSessions
  <2> QED BY <1>1, <2>1, BornForGood, GoneForGood, Zenon DEF AskedOf
<1>10. SentBefore' /\ QueueOrder'
  <2>1. \A q \in Protocols : loop'[q].pc # "idle" =>
           \E c \in StartCalls : loop'[q].call = c /\ Sent(c) /\ StopsBehind(c, q, 1)
    BY <1>1, <1>2, QueueFacts, Zenon DEF QueueOrder
  <2>2. Sent(loop[p].call) /\ StopsBehind(loop[p].call, p, 1)
    BY <1>1, Zenon DEF QueueOrder, SentBefore
  <2>3. \A t \in Born' : \E d \in StartCalls, q \in Protocols :
           startedBy'[t] = d /\ protoOf'[t] = q /\ Sent(d) /\ StopsBehind(d, q, 1)
    BY <1>1, <1>3, <1>4, <2>2, QueueFacts, Zenon DEF QueueOrder
  <2> QED BY <1>1, <2>1, <2>3, LoopOrder, Zenon
<1>11. StopSparesLater'
  BY <1>1, <1>4, Zenon DEF StopSparesLater, BornBefore
<1> QED BY <1>5, <1>6, <1>7, <1>8, <1>9, <1>10, <1>11, Zenon

\* Loop p tells the call of the message at hand what has become of it.
LEMMA LoopAckKeeps ==
  ASSUME ApiInv, RegistryInv', NEW p \in Protocols, LoopConflict(p) \/ LoopAck(p)
  PROVE  ApiInv'
<1> USE NoSessionAssumption DEF ApiInv
<1> DEFINE c == loop[p].call
           s == sessions[loop[p].key]
<1>1. /\ loop[p].pc # "idle" /\ loop[p].key \in LiveIds /\ c \in StartCalls
      /\ loop' = [loop EXCEPT ![p] = Waiting]
      /\ UNCHANGED <<sessions, keyOf, state, protoOf, startedBy, inbox, killed, stop>>
  BY Zenon DEF LoopConflict, LoopAck, ApiTypes, registryVars
<1>2. \/ Ack(c, "exists", NoSession)
      \/ loop[p].pc = "registered" /\ Ack(c, "ok", s)
  BY Zenon DEF LoopConflict, LoopAck, LoopHolds, Born, InUse
<1>s. s \in Sessions \cup {NoSession}
  BY <1>1, Zenon DEF RegistryInv, RegistryTypeOK
<1> DEFINE told(d) == /\ d = c /\ loop[p].pc = "registered" /\ start[d].pc = "waiting"
                      /\ start'[d].ack = Reply("ok", s)
<1> HIDE DEF s
<1>3. /\ start' \in [StartCalls -> StartRecord]
      /\ \A d \in StartCalls :
           /\ start'[d].pc = start[d].pc /\ start'[d].key = start[d].key
           /\ start'[d].proto = start[d].proto /\ start'[d].answer = start[d].answer
           /\ start'[d].after = start[d].after
           /\ \/ start'[d].ack = start[d].ack
              \/ start[d].pc = "waiting" /\ start'[d].ack = Reply("exists", NoSession)
              \/ told(d)
  <2>1. CASE Ack(c, "exists", NoSession)
    BY <1>1, <2>1, AckEffect
  <2>2. CASE loop[p].pc = "registered" /\ Ack(c, "ok", s)
    BY <1>1, <1>s, <2>2, AckEffect
  <2> QED BY <1>2, <2>1, <2>2, Zenon
<1>4. /\ loop' \in [Protocols -> [pc : {"idle", "checked", "registered"},
                                  key : LiveIds \cup {NoKey}, call : StartCalls \cup {NoCall}]]
      /\ loop'[p].pc = "idle" /\ \A q \in Protocols : q # p => loop'[q] = loop[q]
  BY <1>1, Zenon DEF ApiTypes, Waiting
<1>5. ApiTypes'
  <2>1. \A q \in Protocols : loop'[q].pc # "idle" =>
          loop'[q].key \in LiveIds /\ loop'[q].call \in StartCalls
    BY <1>4, Zenon DEF ApiTypes
  <2>2. \A d \in StartCalls : start'[d].pc = "sending" =>
          start'[d].key \in LiveIds /\ start'[d].proto \in Protocols
    BY <1>3, Zenon DEF ApiTypes
  <2> QED BY <1>1, <1>3, <1>4, <2>1, <2>2, Zenon DEF ApiTypes
<1>6. Born' = Born
  BY <1>1, Zenon DEF Born
<1>7. loop[p].pc = "registered" =>
        /\ s \in Born /\ protoOf[s] = p
        /\ \A d \in StartCalls : start[d].ack # Reply("ok", s)
  BY Zenon DEF LoopHolds, s
<1>8. \A d \in StartCalls : start'[d].ack.is = "ok" => start'[d].ack = start[d].ack \/ told(d)
  BY <1>3 DEF Reply
<1>9. AcksPassedOn'
  BY <1>3 DEF AcksPassedOn, Reply, Nothing
<1>10. BornBefore' /\ AcksDiffer'
  <2>1. BornBefore'
    BY <1>1, <1>6, <1>7, <1>8 DEF BornBefore, Reply
  <2>2. ASSUME NEW d \in StartCalls, NEW e \in StartCalls, start'[d].ack.is = "ok",
               start'[e].ack = start'[d].ack
        PROVE  d = e
    BY <1>7, <1>8, <2>2, Zenon DEF AcksDiffer
  <2> QED BY <2>1, <2>2, Zenon DEF AcksDiffer
<1>11. StopSparesLater'
  BY <1>1, <1>3, QueueFacts, Zenon DEF StopSparesLater, BornBefore
<1>12. LoopHolds'
  <2>1. ASSUME NEW q \in Protocols, loop'[q].pc = "registered"
        PROVE  /\ sessions[loop[q].key] \in Born /\ protoOf[sessions[loop[q].key]] = q
               /\ \A d \in StartCalls : start'[d].ack # Reply("ok", sessions[loop[q].key])
    <3>1. q # p /\ loop[q].pc = "registered"
      BY <1>4, <2>1, Zenon
    <3> QED BY <1>7, <1>8, <3>1 DEF LoopHolds, Reply
  <2>2. \A q \in Protocols : loop'[q].pc = "registered" => loop'[q].key = loop[q].key
    BY <1>4, Zenon
  <2>3. sessions' = sessions /\ protoOf' = protoOf
    BY <1>1, Zenon
  <2> QED BY <1>6, <2>1, <2>2, <2>3 DEF LoopHolds
<1>13. AskedSessions' /\ AfterAnswered'
  BY <1>1, <1>3, <1>6, ZenonT(30) DEF AskedSessions, AskedOf, AfterAnswered, StopsDone
<1>14. SentBefore' /\ QueueOrder'
  <2>1. \A q \in Protocols : loop'[q].pc # "idle" =>
           \E d \in StartCalls : loop'[q].call = d /\ Sent(d) /\ StopsBehind(d, q, 1)
    BY <1>4, QueueFacts, Zenon DEF QueueOrder
  <2>2. \A t \in Born' : \E d \in StartCalls, q \in Protocols :
           startedBy'[t] = d /\ protoOf'[t] = q /\ Sent(d) /\ StopsBehind(d, q, 1)
    BY <1>1, <1>6, QueueFacts, Zenon DEF QueueOrder
  <2> QED BY <1>1, <1>3, <2>1, <2>2, LoopOrder, Zenon
<1> QED BY <1>5, <1>9, <1>10, <1>11, <1>12, <1>13, <1>14, Zenon

\* Loop p receives a stop.
LEMMA LoopStopKeeps ==
  ASSUME ApiInv, RegistryInv', NEW p \in Protocols, LoopStop(p)
  PROVE  ApiInv'
<1> USE NoSessionAssumption DEF ApiInv
<1> DEFINE msg == inbox[p][1]
           hits == {s \in TokensAt(msg.key) : ~cancelled[s]}
<1>1. /\ loop[p].pc = "idle" /\ Len(inbox[p]) \in Nat \ {0} /\ Dequeue(p).msg = msg
      /\ msg \in Messages /\ msg.op = "stop"
      /\ inbox' \in [Protocols -> Seq(Messages)] /\ Shifted(p)
  BY Received, Zenon DEF LoopStop, Shifted
<1>2. /\ killed' = killed \cup {[call |-> msg.call, proto |-> p, session |-> s] : s \in hits}
      /\ UNCHANGED <<sessions, keyOf, state, protoOf, startedBy, loop, start, stop>>
  BY <1>1, Zenon DEF LoopStop, callVars
<1>3. msg.call \in StopCalls /\ msg.key \in LiveIds
  BY <1>1, Zenon DEF Messages, PrecreateMessages, StopMessages
<1>4. hits \subseteq Born /\ Born' = Born
  BY <1>2, <1>3, TokensAreBorn, Zenon DEF Born
<1> HIDE DEF msg, hits
<1>5. \A hit \in killed' : hit \in killed \/ (/\ hit.call = msg.call /\ hit.proto = p
                                              /\ hit.session \in Born)
  BY <1>2, <1>4
<1>6. ApiTypes'
  <2>1. killed' \subseteq [call : StopCalls, proto : Protocols, session : Sessions]
    BY <1>2, <1>3, <1>4 DEF ApiTypes, Born
  <2> QED BY <1>1, <1>2, <2>1, Zenon DEF ApiTypes
<1>7. AcksPassedOn' /\ AcksDiffer' /\ AskedSessions' /\ AfterAnswered'
  BY <1>2, <1>4, Zenon DEF AcksPassedOn, AcksDiffer, AskedSessions, AskedOf, AfterAnswered, StopsDone
<1>8. BornBefore'
  BY <1>2, <1>4, <1>5, Zenon DEF BornBefore
<1>9. LoopHolds'
  BY <1>1, <1>2, <1>4, <1>5, Zenon DEF LoopHolds
<1>10. SentBefore' /\ QueueOrder'
  <2>1. \A q \in Protocols : loop'[q].pc # "idle" =>
           \E d \in StartCalls : loop'[q].call = d /\ Sent(d) /\ StopsBehind(d, q, 1)
    BY <1>2, QueueFacts, Zenon DEF QueueOrder
  <2>2. \A t \in Born' : \E d \in StartCalls, q \in Protocols :
           startedBy'[t] = d /\ protoOf'[t] = q /\ Sent(d) /\ StopsBehind(d, q, 1)
    BY <1>2, <1>4, QueueFacts, Zenon DEF QueueOrder
  <2> QED BY <1>1, <1>2, <2>1, <2>2, LoopOrder, Zenon
<1>11. StopSparesLater'
  <2> SUFFICES ASSUME NEW hit \in killed', protoOf[hit.session] = hit.proto
               PROVE  hit.call \notin start[startedBy[hit.session]].after
    BY <1>2, Zenon DEF StopSparesLater
  <2>1. CASE hit \in killed
    BY <2>1, Zenon DEF StopSparesLater
  <2>2. CASE hit.call = msg.call /\ hit.proto = p /\ hit.session \in Born
    <3>1. StopsBehind(startedBy[hit.session], p, 1)
      BY <2>2 DEF QueueOrder
    <3> QED BY <1>1, <2>2, <3>1 DEF StopsBehind, msg
  <2> QED BY <1>5, <2>1, <2>2, Zenon
<1> QED BY <1>6, <1>7, <1>8, <1>9, <1>10, <1>11, Zenon

-----------------------------------------------------------------------------
LEMMA ApiInvNext == ApiInv /\ [ApiNext]_apiVars => ApiInv'
<1> SUFFICES ASSUME ApiInv, [ApiNext]_apiVars
             PROVE  ApiInv'
  BY Zenon
<1>0. [RegistryNext]_registryVars /\ RegistryInv'
  BY ApiStepUsesRegistry, RegistryInvNext, Zenon DEF ApiInv
<1>1. ASSUME NEW c \in StartCalls,
             (\E k \in LiveIds, p \in Protocols : StartCheck(c, k, p)) \/ StartStep(c)
      PROVE  ApiInv'
  BY <1>1, StartStepKeeps, Zenon
<1>2. ASSUME NEW b \in StopCalls, (\E k \in LiveIds : StopCheck(b, k)) \/ StopStep(b)
      PROVE  ApiInv'
  BY <1>2, StopStepKeeps, Zenon
<1>3. ASSUME NEW p \in Protocols, LoopStep(p)
      PROVE  ApiInv'
  BY <1>0, <1>3, LoopPrecreateKeeps, LoopRegisterKeeps, LoopAckKeeps, LoopStopKeeps, Zenon
     DEF LoopStep
<1>4. ASSUME \/ \E k \in LiveIds : SessionEnds(k)
             \/ \E k \in LiveIds, new \in {"Connecting", "Connected"} : SessionMoves(k, new)
             \/ \E s \in Sessions : SessionCleanup(s)
      PROVE  ApiInv'
  BY <1>0, <1>4, SessionStepKeeps, Zenon
<1>5. ASSUME WatchOrEvent \/ UNCHANGED apiVars
      PROVE  ApiInv'
  <2>1. UNCHANGED <<registryVars, callCore>>
    BY <1>5, WatchOrEventFrame, Zenon DEF apiVars, loopVars, callVars, callCore
  <2>2. Born' = Born /\ UNCHANGED sessions
    BY <2>1, Zenon DEF Born, registryVars
  <2> QED BY <1>0, <2>1, <2>2, SessionsMoveOn, Zenon
<1> QED
  BY <1>1, <1>2, <1>3, <1>4, <1>5, Zenon DEF ApiNext, WatchOrEvent

\* No two calls of StartLivestream are told that they have started the same session,
\* however their messages, the other server's and the stops interleave, timeouts included.
THEOREM StartsOwnTheirSessions == ApiSpec => []StartOwnsSession
<1>1. ApiInv => StartOwnsSession
  BY Zenon DEF ApiInv, AcksPassedOn, AcksDiffer, StartOwnsSession
<1> QED BY <1>1, ApiInvInit, ApiInvNext, PTL DEF ApiSpec

\* A StopLivestream that reports success has removed the session that was under the key
\* when it was called, whatever has been started under that key since.
THEOREM StopsAreTruthful == ApiSpec => []StopTruthful
<1>1. ApiInv => StopTruthful
  BY Zenon DEF ApiInv, AskedSessions, AskedOf, StopTruthful
<1> QED BY <1>1, ApiInvInit, ApiInvNext, PTL DEF ApiSpec

\* The queue of a server is first in, first out: a stop that was answered, by its timeout
\* even, is not carried out on a session of that server whose StartLivestream was called
\* after that, whether or not the start was still there to be told.  It says nothing of a
\* session that the other server has started under the key.
THEOREM StopsSpareLaterSessions == ApiSpec => []StopSparesLater
<1>1. ApiInv => StopSparesLater
  BY Zenon DEF ApiInv
<1> QED BY <1>1, ApiInvInit, ApiInvNext, PTL DEF ApiSpec

\* The registry's guarantees hold of the control plane: every entry has its cleanup task.
THEOREM ApiKeepsRegistry == ApiSpec => []EntryHasItsCleanup
<1>1. ApiInv => EntryHasItsCleanup
  BY Zenon DEF ApiInv, RegistryInv
<1> QED BY <1>1, ApiInvInit, ApiInvNext, PTL DEF ApiSpec
=============================================================================
