------------------------------ MODULE LiveStream ------------------------------
(***************************************************************************)
(* What the ingest service promises about one stream key: the phases that  *)
(* a reader of the session registry (GetLivestreamInfo, WatchLivestream,   *)
(* the play handlers, the HTTP-FLV health endpoint) can see, and the order *)
(* in which it sees them.  SessionRegistry implements this specification.  *)
(***************************************************************************)

CONSTANT LiveIds           \* the stream keys

VARIABLE phase             \* the phase of every stream key

Phases == {"Absent", "Pending", "Connecting", "Connected", "Disconnected"}

Init == phase = [k \in LiveIds |-> "Absent"]

\* Move stream key k from one of the phases `from' to phase `to'.
Step(k, from, to) == /\ phase[k] \in from
                     /\ phase' = [phase EXCEPT ![k] = to]

\* A key is taken only when nobody holds it.
Open(k) == Step(k, {"Absent"}, "Pending")

\* A publisher was accepted but has sent no media yet (RTMP only).
Accept(k) == Step(k, {"Pending"}, "Connecting")

\* Media is flowing.
Start(k) == Step(k, {"Pending", "Connecting"}, "Connected")

\* The session is over; nothing but its removal can follow.
Close(k) == Step(k, {"Pending", "Connecting", "Connected"}, "Disconnected")

\* The key is free again, and only a closed session frees it.
Forget(k) == Step(k, {"Disconnected"}, "Absent")

Next == \E k \in LiveIds : Open(k) \/ Accept(k) \/ Start(k) \/ Close(k) \/ Forget(k)

Spec == Init /\ [][Next]_phase

\* A closed session does not hold its key for ever.
FairSpec == Spec /\ \A k \in LiveIds : WF_phase(Forget(k))
=============================================================================
