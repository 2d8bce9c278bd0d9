-------------------------- MODULE FlvEgressProofs --------------------------
(***************************************************************************)
(* Proofs about FlvEgress, for any set of viewers, any number of sessions, *)
(* tags and headers, a ring buffer and a semaphore of any size.            *)
(*                                                                         *)
(* What a viewer owes the channels is stated of its record r, with the     *)
(* channels' contents as a parameter, so that most lemmas are about one    *)
(* record before and after a step.                                         *)
(***************************************************************************)
EXTENDS FlvEgress, Integers, FiniteSetTheorems, SequenceTheorems, TLAPS

-----------------------------------------------------------------------------
(* Types *)

Kinds == Headers \cup {"key", "inter", "audio"}
Pipe == [pc : {"off", "idle", "sending"}, version : [Slots -> Nat], tag : Tag \cup {NoTag}]
Output == [pos : Nat, tag : Tag]
Viewer == [pc : {"away", "accepting", "accepted", "joining", "reading", "playing", "finished"},
           http : BOOLEAN, token : 0 .. MaxSessions, ch : 0 .. MaxSessions, next : Nat \ {0},
           waiting : BOOLEAN, lagged : BOOLEAN, out : Seq(Output)]

Subscribed == {"joining", "reading", "playing", "finished"}
Plays == {"playing", "finished"}

\* A viewer that has subscribed is at a place that its channel has reached; before it plays
\* it has been sent nothing but cached headers.
Placed(r, tags) ==
  /\ r.pc = "away" => r = Away
  /\ r.pc = "accepting" => ~r.http
  /\ r.pc \in Subscribed => r.ch \in SessionIds /\ r.next <= Len(tags[r.ch]) + 1
  /\ r.pc \notin Subscribed => r.out = <<>>
  /\ r.pc \notin Plays =>
       ~r.lagged /\ ~r.waiting /\ \A i \in DOMAIN r.out : r.out[i].pos = 0
  /\ r.waiting => r.lagged

SessionTypes ==
  /\ session \in [id : 0 .. MaxSessions, cancelled : BOOLEAN, published : BOOLEAN,
                  state : {"Absent", "Pending", "Connected", "Disconnected"}]
  /\ session.state # "Absent" => session.id \in SessionIds
  /\ session.cancelled => session.state # "Absent"
  /\ channel \in 0 .. MaxSessions

PipeTypes ==
  /\ cache \in [SessionIds -> [Slots -> Tag \cup {NoTag}]]
  /\ pipe \in [SessionIds -> Pipe]
  /\ \A n \in SessionIds : pipe[n].pc = "sending" => pipe[n].tag \in Tag /\ channel # 0

ViewerTypes ==
  /\ viewer \in [Viewers -> Viewer]
  /\ \A v \in Viewers : Placed(viewer[v], sent)

EgressTypes == /\ SessionTypes
               /\ PipeTypes
               /\ sent \in [SessionIds -> Seq(Tag)]
               /\ ViewerTypes
               /\ permits \in Nat

-----------------------------------------------------------------------------
(* Permits and gaps *)

HttpViewers == {v \in Viewers : viewer[v].http}

Permits == IsFiniteSet(HttpViewers) /\ PermitsConserved

\* VideoSent and GapsEndAtKeyframes, of a record.
VideoOut(r) == {r.out[i].pos : i \in {j \in DOMAIN r.out : r.out[j].tag.kind \in VideoKinds}} \ {0}

GapsClosed(r, tags) ==
  \A p, q \in VideoOut(r) :
    (/\ p < q
     /\ \A x \in VideoOut(r) : x <= p \/ x >= q
     /\ \E x \in p + 1 .. q - 1 : tags[x].kind \in VideoKinds) => IsKeyframe(tags[q])

\* A viewer that has missed video since the last video tag that it was sent is waiting for
\* a keyframe.
MissingWaits(r, tags) ==
  \A p \in VideoOut(r) :
    /\ p < r.next
    /\ ~r.waiting => \A x \in p + 1 .. r.next - 1 :
         tags[x].kind \in VideoKinds => \E q \in VideoOut(r) : x <= q

GapInv == \A v \in Viewers : LET r == viewer[v] IN
            MissingWaits(r, sent[r.ch]) /\ GapsClosed(r, sent[r.ch])

-----------------------------------------------------------------------------
(* One channel, one pipeline: needs PipelineWatchesSession *)

\* The pipeline that runs is that of the key's session, which is published to.  The channel
\* stays while a viewer subscribes, and outlives only a session that nobody published to.
OwnChannel ==
  /\ channel # 0 => /\ session.id \in SessionIds /\ channel <= session.id
                    /\ session.state = "Absent" => ~session.published
  /\ \A n \in SessionIds : pipe[n].pc # "off" =>
       n = session.id /\ session.published /\ session.state \in {"Connected", "Disconnected"}
  /\ \A v \in Viewers : viewer[v].pc \in {"joining", "reading"} => viewer[v].ch = channel

\* Sessions to come have left nothing yet ...
NothingYet ==
  \A n \in SessionIds : n > session.id =>
    /\ sent[n] = <<>> /\ cache[n] = NoHeaders
    /\ \A s \in Slots : pipe[n].version[s] = 0

\* ... and a session that nobody has published to has left nothing in its channel.
Unpublished ==
  channel # 0 /\ ~session.published =>
    /\ sent[channel] = <<>> /\ cache[channel] = NoHeaders
    /\ \A s \in Slots : pipe[session.id].version[s] = 0

\* A tag that is being broadcast has its pipeline's version.
TagCurrent ==
  \A n \in SessionIds : pipe[n].pc = "sending" =>
    pipe[n].tag.version = pipe[n].version[Slot(pipe[n].tag.kind)]

\* While the channel is there its cache has the pipeline's current headers, and nothing in
\* it needs a later one.
CacheCurrent ==
  channel # 0 => \A s \in Slots :
    LET cached == cache[channel][s]
        version == pipe[session.id].version[s]
    IN  /\ cached = NoTag => version = 0
        /\ cached # NoTag =>
             cached.version = version /\ cached.kind \in Headers /\ Slot(cached.kind) = s
        /\ \A i \in DOMAIN sent[channel] : Slot(sent[channel][i].kind) = s =>
             sent[channel][i].version <= version

\* tag is a header of slot s with which a frame of this version can be decoded.
Serves(tag, s, version) ==
  tag.kind \in Headers /\ Slot(tag.kind) = s /\ tag.version >= version

\* Such a header is in what the viewer was sent, or comes to it before place p.
Supplied(r, tags, s, version, p) ==
  \/ \E i \in DOMAIN r.out : Serves(r.out[i].tag, s, version)
  \/ \E q \in r.next .. p - 1 : Serves(tags[q], s, version)

\* The slots whose cached header the viewer has read.
SlotsRead(r) == {s \in Slots : r.pc \in Plays \/ (r.pc = "reading" /\ s = "video")}

\* A header for every frame that the viewer has still to receive reaches it before them ...
HeadersQueued(r, tags) ==
  ~r.lagged => \A s \in SlotsRead(r) : \A p \in r.next .. Len(tags) :
    tags[p].kind \notin Headers /\ tags[p].version > 0 /\ Slot(tags[p].kind) = s =>
      Supplied(r, tags, s, tags[p].version, p)

\* ... and so does one for the frames that pipeline record b is going to make.
HeadersComing(r, tags, b) ==
  ~r.lagged => \A s \in SlotsRead(r) : b.version[s] > 0 =>
    \/ Supplied(r, tags, s, b.version[s], Len(tags) + 1)
    \/ b.pc = "sending" /\ Serves(b.tag, s, b.version[s])

\* HeaderBeforeFrame, of a record.
HeaderFirst(r) ==
  ~r.lagged => \A i \in DOMAIN r.out :
    r.out[i].tag.kind \notin Headers /\ r.out[i].tag.version > 0 =>
      \E j \in 1 .. i - 1 : Serves(r.out[j].tag, Slot(r.out[i].tag.kind), r.out[i].tag.version)

HeaderInv == \A v \in Viewers : LET r == viewer[v] IN
               /\ HeaderFirst(r)
               /\ HeadersQueued(r, sent[r.ch])
               /\ r.ch = channel /\ channel # 0 =>
                    HeadersComing(r, sent[channel], pipe[session.id])

\* The sessions of the key, their pipelines and their channels; and what their viewers get.
SourceInv == OwnChannel /\ NothingYet /\ Unpublished /\ TagCurrent /\ CacheCurrent
WatchInv == SourceInv /\ HeaderInv

-----------------------------------------------------------------------------
(* One viewer's record: gaps *)

\* Places are counted from one.
LEMMA VideoOutPlaces ==
  ASSUME NEW r \in Viewer
  PROVE  VideoOut(r) \subseteq Nat \ {0}
<1>1. r.out \in Seq(Output)
  BY Zenon DEF Viewer
<1>2. \A i \in DOMAIN r.out : r.out[i] \in Output
  BY <1>1
<1>3. \A i \in DOMAIN r.out : r.out[i].pos \in Nat
  BY <1>2, Zenon DEF Output
<1> QED BY <1>3, Zenon DEF VideoOut

\* A viewer that was sent nothing but cached headers has no gaps.
LEMMA NoVideoNoGaps ==
  ASSUME NEW r \in Viewer, \A i \in DOMAIN r.out : r.out[i].pos = 0, NEW tags
  PROVE  MissingWaits(r, tags) /\ GapsClosed(r, tags)
<1>1. VideoOut(r) = {}
  BY Zenon DEF VideoOut
<1> QED BY <1>1, Zenon DEF MissingWaits, GapsClosed

\* A viewer that only moves on, waiting, or only changes its pc, has no new gaps.
LEMMA SameOutSameGaps ==
  ASSUME NEW r \in Viewer, NEW r2 \in Viewer, r2.out = r.out, NEW tags,
         MissingWaits(r, tags), GapsClosed(r, tags),
         \/ r2.next = r.next /\ r2.waiting = r.waiting
         \/ r2.next > r.next /\ r2.waiting
  PROVE  MissingWaits(r2, tags) /\ GapsClosed(r2, tags)
<1>1. VideoOut(r2) = VideoOut(r)
  BY Zenon DEF VideoOut
<1>2. VideoOut(r) \subseteq Nat
  BY VideoOutPlaces, Zenon
<1>3. r.next \in Nat /\ r2.next \in Nat
  BY Zenon DEF Viewer
<1> QED BY <1>1, <1>2, <1>3 DEF MissingWaits, GapsClosed

\* A tag that is sent later changes nothing for what has been received.
LEMMA GrowKeepsGaps ==
  ASSUME NEW r \in Viewer, NEW tags \in Seq(Tag), NEW tag \in Tag, r.next <= Len(tags) + 1,
         MissingWaits(r, tags), GapsClosed(r, tags)
  PROVE  MissingWaits(r, Append(tags, tag)) /\ GapsClosed(r, Append(tags, tag))
<1>1. VideoOut(r) \subseteq Nat \ {0}
  BY VideoOutPlaces, Zenon
<1>2. r.next \in Nat /\ Len(tags) \in Nat
  BY DEF Viewer
<1>3. \A p \in VideoOut(r) : p < r.next
  BY Zenon DEF MissingWaits
<1>4. \A x \in 1 .. Len(tags) : Append(tags, tag)[x] = tags[x]
  OBVIOUS
<1>5. \A p \in VideoOut(r) : \A x \in p + 1 .. r.next - 1 : Append(tags, tag)[x] = tags[x]
  BY <1>1, <1>2, <1>4
<1>6. MissingWaits(r, Append(tags, tag))
  BY <1>5, Zenon DEF MissingWaits
<1>7. \A p \in VideoOut(r) : Append(tags, tag)[p] = tags[p]
  BY <1>1, <1>2, <1>3, <1>4
<1>8. \A p, q \in VideoOut(r) : \A x \in p + 1 .. q - 1 : x \in p + 1 .. r.next - 1
  BY <1>1, <1>2, <1>3
<1>9. GapsClosed(r, Append(tags, tag))
  BY <1>5, <1>7, <1>8, Zenon DEF GapsClosed
<1> QED BY <1>6, <1>9, Zenon

\* The viewer r receives the next tag, skips it or not, and is r2.
Receives(r, tags, r2) ==
  LET tag == tags[r.next]
      skip == r.waiting /\ tag.kind \in VideoKinds /\ ~IsKeyframe(tag)
  IN  /\ r.next <= Len(tags)
      /\ r2.next = r.next + 1
      /\ r2.waiting = (r.waiting /\ ~(tag.kind \in VideoKinds /\ IsKeyframe(tag)))
      /\ r2.out = IF skip THEN r.out ELSE Append(r.out, [pos |-> r.next, tag |-> tag])
      /\ r2.lagged = r.lagged /\ r2.ch = r.ch /\ r2.pc = r.pc

\* What the viewer was sent, after an append.
LEMMA AppendOut ==
  ASSUME NEW r \in Viewer, NEW r2 \in Viewer, NEW x \in Output, r2.out = Append(r.out, x)
  PROVE  /\ DOMAIN r.out = 1 .. Len(r.out) /\ Len(r.out) \in Nat
         /\ DOMAIN r2.out = 1 .. Len(r.out) + 1
         /\ \A i \in 1 .. Len(r.out) : r2.out[i] = r.out[i]
         /\ r2.out[Len(r.out) + 1] = x
<1>1. r.out \in Seq(Output)
  BY Zenon DEF Viewer
<1> QED BY <1>1

\* Only a video tag from the receiver adds a place.
LEMMA VideoOutAppend ==
  ASSUME NEW r \in Viewer, NEW r2 \in Viewer, NEW x \in Output, r2.out = Append(r.out, x)
  PROVE  /\ x.tag.kind \in VideoKinds /\ x.pos # 0 => VideoOut(r2) = VideoOut(r) \cup {x.pos}
         /\ x.tag.kind \notin VideoKinds => VideoOut(r2) = VideoOut(r)
<1>1. /\ DOMAIN r.out = 1 .. Len(r.out) /\ Len(r.out) \in Nat
      /\ DOMAIN r2.out = 1 .. Len(r.out) + 1
      /\ \A i \in 1 .. Len(r.out) : r2.out[i] = r.out[i]
      /\ r2.out[Len(r.out) + 1] = x
  BY AppendOut, Zenon
<1> DEFINE S == {r.out[i].pos : i \in {j \in DOMAIN r.out : r.out[j].tag.kind \in VideoKinds}}
           S2 == {r2.out[i].pos : i \in {j \in DOMAIN r2.out : r2.out[j].tag.kind \in VideoKinds}}
<1>2. S \subseteq S2
  BY <1>1
<1>3. x.tag.kind \in VideoKinds => S2 = S \cup {x.pos}
  BY <1>1, <1>2
<1>4. x.tag.kind \notin VideoKinds => S2 = S
  BY <1>1, <1>2
<1> QED BY <1>3, <1>4, Zenon DEF VideoOut

\* should_skip_while_waiting_keyframe: receiving keeps the gaps closed.
LEMMA ReceiveKeepsGaps ==
  ASSUME NEW r \in Viewer, NEW tags \in Seq(Tag), NEW r2 \in Viewer, Receives(r, tags, r2),
         MissingWaits(r, tags), GapsClosed(r, tags)
  PROVE  MissingWaits(r2, tags) /\ GapsClosed(r2, tags)
<1> DEFINE n == r.next
           tag == tags[n]
           video == tag.kind \in VideoKinds
           x == [pos |-> n, tag |-> tag]
<1>1. n \in Nat \ {0} /\ n \in 1 .. Len(tags) /\ tag \in Tag /\ x \in Output
  <2>1. n \in Nat \ {0} /\ Len(tags) \in Nat /\ n <= Len(tags)
    BY DEF Viewer, Receives
  <2>2. n \in 1 .. Len(tags) /\ tag \in Tag
    BY <2>1
  <2> QED BY <2>1, <2>2, Zenon DEF Output
<1>2. VideoOut(r) \subseteq Nat \ {0} /\ \A p \in VideoOut(r) : p < n
  BY VideoOutPlaces, Zenon DEF MissingWaits
<1>3. /\ r2.next = n + 1
      /\ r.waiting \in BOOLEAN /\ r2.waiting \in BOOLEAN
  BY Zenon DEF Receives, Viewer
<1>4. \/ r.waiting /\ video /\ ~IsKeyframe(tag) /\ r2.waiting /\ VideoOut(r2) = VideoOut(r)
      \/ ~video /\ r2.waiting = r.waiting /\ VideoOut(r2) = VideoOut(r)
      \/ /\ video /\ (~r.waiting \/ IsKeyframe(tag)) /\ ~r2.waiting
         /\ VideoOut(r2) = VideoOut(r) \cup {n}
  <2>1. x.tag = tag /\ x.pos = n /\ n # 0
    BY <1>1, Zenon
  <2>2. CASE r.waiting /\ video /\ ~IsKeyframe(tag)
    BY <2>2, Zenon DEF Receives, VideoOut
  <2>3. CASE ~(r.waiting /\ video /\ ~IsKeyframe(tag))
    <3>1. r2.out = Append(r.out, x)
      BY <2>3, Zenon DEF Receives
    <3>2. /\ video => VideoOut(r2) = VideoOut(r) \cup {n}
          /\ ~video => VideoOut(r2) = VideoOut(r)
      BY <1>1, <2>1, <3>1, VideoOutAppend
    <3>3. r2.waiting = (r.waiting /\ ~(video /\ IsKeyframe(tag)))
      BY Zenon DEF Receives
    <3> QED BY <1>3, <2>3, <3>2, <3>3, Zenon
  <2> QED BY <2>2, <2>3, Zenon
<1> HIDE DEF n, tag, video, x
<1>5. CASE r.waiting /\ video /\ ~IsKeyframe(tag) /\ r2.waiting /\ VideoOut(r2) = VideoOut(r)
  <2>1. MissingWaits(r2, tags)
    BY <1>1, <1>2, <1>3, <1>5 DEF MissingWaits
  <2> QED BY <1>5, <2>1, Zenon DEF GapsClosed
<1>6. CASE ~video /\ r2.waiting = r.waiting /\ VideoOut(r2) = VideoOut(r)
  <2>1. MissingWaits(r2, tags)
    <3> SUFFICES ASSUME NEW p \in VideoOut(r), ~r.waiting, NEW y \in p + 1 .. n,
                        tags[y].kind \in VideoKinds
                 PROVE  \E q \in VideoOut(r) : y <= q
      BY <1>1, <1>2, <1>3, <1>6 DEF MissingWaits
    <3>1. y # n
      BY <1>6, Zenon DEF video, tag
    <3>2. y \in p + 1 .. n - 1
      BY <1>1, <1>2, <3>1
    <3> QED BY <3>2, Zenon DEF MissingWaits, n
  <2> QED BY <1>6, <2>1, Zenon DEF GapsClosed
<1>7. CASE /\ video /\ (~r.waiting \/ IsKeyframe(tag)) /\ ~r2.waiting
           /\ VideoOut(r2) = VideoOut(r) \cup {n}
  <2>1. MissingWaits(r2, tags)
    BY <1>1, <1>2, <1>3, <1>7 DEF MissingWaits
  <2>2. GapsClosed(r2, tags)
    <3> SUFFICES ASSUME NEW p \in VideoOut(r2), NEW q \in VideoOut(r2), p < q,
                        \A y \in VideoOut(r2) : y <= p \/ y >= q,
                        NEW y \in p + 1 .. q - 1, tags[y].kind \in VideoKinds
                 PROVE  IsKeyframe(tags[q])
      BY Zenon DEF GapsClosed
    <3>1. p \in VideoOut(r)
      BY <1>1, <1>2, <1>7
    <3>2. CASE q \in VideoOut(r)
      BY <1>7, <3>1, <3>2, Zenon DEF GapsClosed
    <3>3. CASE q = n /\ IsKeyframe(tag)
      BY <3>3, Zenon DEF tag
    <3>4. CASE q = n /\ ~r.waiting
      <4>1. PICK z \in VideoOut(r) : y <= z
        BY <3>1, <3>4, Zenon DEF MissingWaits, n
      <4>2. z > p /\ z < q
        BY <1>1, <1>2, <3>1, <3>4, <4>1
      <4> QED BY <1>1, <1>2, <1>7, <3>1, <3>4, <4>1, <4>2
    <3> QED BY <1>7, <3>2, <3>3, <3>4, Zenon
  <2> QED BY <2>1, <2>2, Zenon
<1> QED BY <1>4, <1>5, <1>6, <1>7, Zenon

-----------------------------------------------------------------------------
(* What a viewer's steps make of its record *)

Asks(r, r2) == /\ r.pc \in {"away", "accepting"} /\ r2.pc \in {"accepting", "accepted"}
               /\ r2.pc = "accepting" => ~r2.http
               /\ r2.out = r.out /\ r2.lagged = r.lagged /\ r2.waiting = r.waiting

Joins(r, r2) == /\ r.pc = "accepted" /\ r2.pc = "joining" /\ channel # 0
                /\ r2.ch = channel /\ r2.next = Len(sent[channel]) + 1
                /\ r2.out = r.out /\ r2.lagged = r.lagged /\ r2.waiting = r.waiting

SamePlace(r, r2) == /\ r2.ch = r.ch /\ r2.next = r.next
                    /\ r2.lagged = r.lagged /\ r2.waiting = r.waiting

ReadsCache(r, slot, r2) ==
  LET tag == cache[r.ch][slot]
  IN  /\ SamePlace(r, r2)
      /\ \/ slot = "video" /\ r.pc = "joining" /\ r2.pc = "reading"
         \/ slot = "audio" /\ r.pc = "reading" /\ r2.pc = "playing"
      /\ \/ tag = NoTag /\ r2.out = r.out
         \/ tag # NoTag /\ r2.out = Append(r.out, [pos |-> 0, tag |-> tag])

Lags(r, r2) == /\ r.pc \in Plays /\ r2.pc = r.pc /\ r2.ch = r.ch /\ r2.out = r.out
               /\ r2.next > r.next /\ r2.next <= Len(sent[r.ch]) + 1
               /\ r2.waiting /\ r2.lagged

Finishes(r, r2) == /\ SamePlace(r, r2) /\ r.pc = "playing" /\ r2.pc = "finished"
                   /\ r2.out = r.out

Moves(r, r2) == \/ r2 = Away
                \/ Asks(r, r2) \/ Joins(r, r2) \/ Lags(r, r2) \/ Finishes(r, r2)
                \/ \E slot \in Slots : ReadsCache(r, slot, r2)
                \/ r.pc \in Plays /\ Receives(r, sent[r.ch], r2)

\* The semaphore's permit goes with the record.
PermitGoesWith(r, r2) ==
  \/ r2.http = r.http /\ permits' = permits
  \/ r.http /\ ~r2.http /\ permits' = permits + 1
  \/ r.pc = "away" /\ r2.http /\ permits > 0 /\ permits' = permits - 1

ViewerMoves(v) ==
  /\ UNCHANGED <<session, channel, sent, cache, pipe>>
  /\ \E r2 \in Viewer : /\ viewer' = [viewer EXCEPT ![v] = r2]
                        /\ Moves(viewer[v], r2)
                        /\ PermitGoesWith(viewer[v], r2)

\* A connection that has ended leaves a well-formed record.
LEMMA AwayTyped == Away \in Viewer
<1>1. 0 \in 0 .. MaxSessions /\ 1 \in Nat \ {0} /\ <<>> \in Seq(Output)
  BY FlvEgressAssumption
<1> QED BY <1>1, Zenon DEF Away, Viewer

\* The connection ends, for whatever reason.
LEMMA LeavingMoves ==
  ASSUME EgressTypes, NEW v \in Viewers, Leaves(v),
         UNCHANGED <<session, channel, sent, cache, pipe>>
  PROVE  ViewerMoves(v)
<1>1. viewer[v] \in Viewer /\ viewer[v].http \in BOOLEAN
  BY Zenon DEF EgressTypes, ViewerTypes, Viewer
<1>2. viewer' = [viewer EXCEPT ![v] = Away] /\ Away \in Viewer /\ ~Away.http
  BY AwayTyped, Zenon DEF Leaves, Away
<1>3. PermitGoesWith(viewer[v], Away)
  <2>1. permits' = IF viewer[v].http THEN permits + 1 ELSE permits
    BY Zenon DEF Leaves
  <2>2. CASE viewer[v].http
    BY <1>2, <2>1, <2>2, Zenon DEF PermitGoesWith
  <2>3. CASE ~viewer[v].http
    <3>1. viewer[v].http = Away.http
      BY <1>1, <2>3, Zenon DEF Away
    <3> QED BY <2>1, <2>3, <3>1, Zenon DEF PermitGoesWith
  <2> QED BY <2>2, <2>3, Zenon
<1> QED BY <1>2, <1>3, Zenon DEF ViewerMoves, Moves

\* The request handlers, up to the play token.
LEMMA RequestMoves ==
  ASSUME EgressTypes, NEW v \in Viewers, RequestHttp(v) \/ RequestRtmp(v) \/ PlayToken(v)
  PROVE  ViewerMoves(v)
<1> DEFINE r == viewer[v]
<1>1. viewer \in [Viewers -> Viewer] /\ r \in Viewer /\ r.http \in BOOLEAN
  BY Zenon DEF EgressTypes, ViewerTypes, Viewer
<1>2. CASE RequestHttp(v)
  <2> DEFINE r2 == [r EXCEPT !.pc = "accepted", !.http = TRUE]
  <2>1. /\ r2 \in Viewer /\ r2.pc = "accepted" /\ r2.http /\ r2.out = r.out
        /\ r2.lagged = r.lagged /\ r2.waiting = r.waiting
    BY <1>1, Zenon DEF Viewer
  <2>2. viewer' = [viewer EXCEPT ![v] = r2] /\ r.pc = "away"
    BY <1>1, <1>2, Zenon DEF RequestHttp
  <2>3. PermitGoesWith(r, r2)
    BY <1>2, <2>1, Zenon DEF RequestHttp, PermitGoesWith
  <2> HIDE DEF r2
  <2> QED BY <1>2, <2>1, <2>2, <2>3, Zenon DEF RequestHttp, ViewerMoves, Moves, Asks
<1>3. CASE RequestRtmp(v)
  <2> DEFINE r2 == [r EXCEPT !.pc = "accepting"]
  <2>1. /\ r2 \in Viewer /\ r2.pc = "accepting" /\ r2.http = r.http /\ r2.out = r.out
        /\ r2.lagged = r.lagged /\ r2.waiting = r.waiting
    BY <1>1, Zenon DEF Viewer
  <2>2. viewer' = [viewer EXCEPT ![v] = r2] /\ r.pc = "away" /\ ~r.http
    BY <1>1, <1>3, AwayTyped DEF RequestRtmp, EgressTypes, ViewerTypes, Placed, Away
  <2> HIDE DEF r2
  <2> QED BY <1>3, <2>1, <2>2, Zenon DEF RequestRtmp, ViewerMoves, Moves, Asks, PermitGoesWith
<1>4. CASE PlayToken(v) /\ session.state = "Absent"
  <2>1. viewer' = [viewer EXCEPT ![v] = Away] /\ Away \in Viewer /\ ~Away.http
    BY <1>4, AwayTyped, Zenon DEF PlayToken, Away
  <2>2. ~r.http
    BY <1>4, Zenon DEF PlayToken, EgressTypes, ViewerTypes, Placed
  <2>3. Away.http = r.http
    BY <1>1, <2>2, Zenon DEF Away
  <2> QED BY <1>4, <2>1, <2>3, Zenon DEF PlayToken, ViewerMoves, Moves, PermitGoesWith
<1>5. CASE PlayToken(v) /\ session.state # "Absent"
  <2> DEFINE r2 == [r EXCEPT !.pc = "accepted", !.token = session.id]
  <2>1. session.id \in 0 .. MaxSessions
    BY Zenon DEF EgressTypes, SessionTypes
  <2>2. /\ r2 \in Viewer /\ r2.pc = "accepted" /\ r2.http = r.http /\ r2.out = r.out
        /\ r2.lagged = r.lagged /\ r2.waiting = r.waiting
    BY <1>1, <2>1, Zenon DEF Viewer
  <2>3. viewer' = [viewer EXCEPT ![v] = r2] /\ r.pc = "accepting"
    BY <1>1, <1>5, Zenon DEF PlayToken
  <2> HIDE DEF r2
  <2> QED BY <1>5, <2>2, <2>3, Zenon DEF PlayToken, ViewerMoves, Moves, Asks, PermitGoesWith
<1> QED BY <1>2, <1>3, <1>4, <1>5, Zenon

\* FlvEgressHub::subscribe, and the cached headers after it.
LEMMA JoiningMoves ==
  ASSUME EgressTypes, NEW v \in Viewers, Subscribe(v) \/ ReadVideoCache(v) \/ ReadAudioCache(v)
  PROVE  ViewerMoves(v)
<1> DEFINE r == viewer[v]
<1>1. viewer \in [Viewers -> Viewer] /\ r \in Viewer /\ r.out \in Seq(Output)
  BY Zenon DEF EgressTypes, ViewerTypes, Viewer
<1>2. CASE Subscribe(v) /\ channel = 0
  <2>1. Leaves(v) /\ UNCHANGED <<session, channel, sent, cache, pipe>>
    BY <1>2, Zenon DEF Subscribe
  <2> QED BY <2>1, LeavingMoves, Zenon
<1>3. CASE Subscribe(v) /\ channel # 0
  <2> DEFINE next == Len(sent[channel]) + 1
             r2 == [r EXCEPT !.pc = "joining", !.ch = channel, !.next = next]
  <2>1. channel \in 0 .. MaxSessions /\ next \in Nat \ {0}
    BY <1>3 DEF EgressTypes, SessionTypes, SessionIds
  <2> HIDE DEF next
  <2>2. /\ r2 \in Viewer /\ r2.pc = "joining" /\ r2.ch = channel /\ r2.next = next
        /\ r2.http = r.http /\ r2.out = r.out /\ r2.lagged = r.lagged /\ r2.waiting = r.waiting
    BY <1>1, <2>1, Zenon DEF Viewer
  <2>3. viewer' = [viewer EXCEPT ![v] = r2] /\ r.pc = "accepted" /\ permits' = permits
    BY <1>1, <1>3, Zenon DEF Subscribe, next
  <2> HIDE DEF r2
  <2>4. Joins(r, r2) /\ PermitGoesWith(r, r2)
    BY <1>3, <2>2, <2>3, Zenon DEF Joins, PermitGoesWith, next
  <2> QED BY <1>3, <2>2, <2>3, <2>4, Zenon DEF Subscribe, ViewerMoves, Moves
<1>4. ASSUME NEW slot \in Slots, NEW pc \in {"reading", "playing"},
             viewer' = [viewer EXCEPT ![v].pc = pc, ![v].out = @ \o Cached(v, slot)],
             \/ slot = "video" /\ r.pc = "joining" /\ pc = "reading"
             \/ slot = "audio" /\ r.pc = "reading" /\ pc = "playing",
             UNCHANGED <<session, channel, sent, cache, pipe, permits>>
      PROVE  ViewerMoves(v)
  <2> DEFINE tag == cache[r.ch][slot]
             out == r.out \o Cached(v, slot)
             r2 == [r EXCEPT !.pc = pc, !.out = out]
  <2>1. tag \in Tag \cup {NoTag}
    BY <1>4, Zenon DEF EgressTypes, ViewerTypes, Placed, Subscribed, PipeTypes
  <2>2. /\ out \in Seq(Output)
        /\ \/ tag = NoTag /\ out = r.out
           \/ tag # NoTag /\ out = Append(r.out, [pos |-> 0, tag |-> tag])
    <3>1. CASE tag = NoTag
      <4>1. Cached(v, slot) = <<>>
        BY <3>1, Zenon DEF Cached
      <4> QED BY <1>1, <3>1, <4>1, ConcatEmptySeq, Zenon
    <3>2. CASE tag # NoTag
      <4> DEFINE x == [pos |-> 0, tag |-> tag]
      <4>1. Cached(v, slot) = <<x>>
        BY <3>2, Zenon DEF Cached
      <4>2. x \in Output
        BY <2>1, <3>2, Zenon DEF Output
      <4> HIDE DEF x
      <4>3. out = Append(r.out, x) /\ Append(r.out, x) \in Seq(Output)
        BY <1>1, <4>1, <4>2, AppendIsConcat, AppendProperties, ZenonT(30)
      <4> QED BY <3>2, <4>3, Zenon DEF x
    <3> QED BY <3>1, <3>2, Zenon
  <2>3. viewer' = [viewer EXCEPT ![v] = r2]
    BY <1>1, <1>4, Zenon
  <2> HIDE DEF out
  <2>4. /\ r2 \in Viewer /\ r2.pc = pc /\ r2.out = out /\ r2.http = r.http
        /\ r2.ch = r.ch /\ r2.next = r.next /\ r2.lagged = r.lagged /\ r2.waiting = r.waiting
    BY <1>1, <2>2, Zenon DEF Viewer
  <2> HIDE DEF r2
  <2>5. ReadsCache(r, slot, r2)
    BY <1>4, <2>2, <2>4, Zenon DEF ReadsCache, SamePlace
  <2> QED BY <1>4, <2>3, <2>4, <2>5, Zenon DEF ViewerMoves, Moves, PermitGoesWith
<1>5. CASE ReadVideoCache(v)
  BY <1>4, <1>5, Zenon DEF ReadVideoCache, Slots
<1>6. CASE ReadAudioCache(v)
  BY <1>4, <1>6, Zenon DEF ReadAudioCache, Slots
<1> QED BY <1>2, <1>3, <1>5, <1>6, Zenon

\* The viewer's receive loop.
LEMMA PlayingMoves ==
  ASSUME EgressTypes, NEW v \in Viewers, Lag(v) \/ Receive(v) \/ PlayFinished(v)
  PROVE  ViewerMoves(v)
<1> DEFINE r == viewer[v]
           tags == sent[r.ch]
<1>1. /\ viewer \in [Viewers -> Viewer] /\ r \in Viewer /\ r.out \in Seq(Output)
      /\ r.next \in Nat \ {0} /\ r.waiting \in BOOLEAN
  BY Zenon DEF EgressTypes, ViewerTypes, Viewer
<1>2. r.pc \in Plays => r.ch \in SessionIds /\ tags \in Seq(Tag) /\ Len(tags) \in Nat
  BY DEF EgressTypes, ViewerTypes, Placed, Plays, Subscribed
<1>3. CASE Lag(v)
  <2> DEFINE old == Oldest(v)
             r2 == [r EXCEPT !.next = old, !.waiting = TRUE, !.lagged = TRUE]
  <2>1. r.pc \in Plays /\ r.next < old /\ viewer' = [viewer EXCEPT ![v] = r2]
    BY <1>1, <1>3, Zenon DEF Lag, Plays
  <2>2. old \in Nat \ {0} /\ old <= Len(tags) + 1
    BY <1>2, <2>1, FlvEgressAssumption, SMTT(20) DEF Oldest
  <2> HIDE DEF old
  <2>3. /\ r2 \in Viewer /\ r2.pc = r.pc /\ r2.out = r.out /\ r2.http = r.http
        /\ r2.ch = r.ch /\ r2.next = old /\ r2.lagged /\ r2.waiting
    BY <1>1, <2>2, Zenon DEF Viewer
  <2> HIDE DEF r2
  <2>4. Lags(r, r2)
    BY <1>1, <2>1, <2>2, <2>3, Zenon DEF Lags
  <2> QED BY <1>3, <2>1, <2>3, <2>4, Zenon DEF Lag, ViewerMoves, Moves, PermitGoesWith
<1>4. CASE Receive(v)
  <2> DEFINE tag == tags[r.next]
             skip == Skipped(v, tag)
             wait == r.waiting /\ ~(tag.kind \in VideoKinds /\ IsKeyframe(tag))
             x == [pos |-> r.next, tag |-> tag]
             out == IF skip THEN r.out ELSE Append(r.out, x)
             r2 == [r EXCEPT !.next = r.next + 1, !.waiting = wait, !.out = out]
  <2>1. /\ r.pc \in Plays /\ r.next \in Oldest(v) .. Len(tags)
        /\ viewer' = [viewer EXCEPT ![v] = r2]
    BY <1>1, <1>4, Zenon DEF Receive, Waits, Plays
  <2>2. r.next \in 1 .. Len(tags) /\ tag \in Tag
    BY <1>1, <1>2, <2>1
  <2>3. x \in Output
    BY <1>1, <2>2, Zenon DEF Output
  <2>4. out \in Seq(Output) /\ wait \in BOOLEAN /\ r.next + 1 \in Nat \ {0}
    BY <1>1, <2>3, AppendProperties
  <2>5. out = IF r.waiting /\ tag.kind \in VideoKinds /\ ~IsKeyframe(tag) THEN r.out
              ELSE Append(r.out, [pos |-> r.next, tag |-> tag])
    BY Zenon DEF Skipped
  <2> HIDE DEF out, wait
  <2>6. /\ r2 \in Viewer /\ r2.pc = r.pc /\ r2.out = out /\ r2.http = r.http
        /\ r2.ch = r.ch /\ r2.next = r.next + 1 /\ r2.lagged = r.lagged /\ r2.waiting = wait
    BY <1>1, <2>4, Zenon DEF Viewer
  <2> HIDE DEF r2
  <2>7. Receives(r, tags, r2)
    BY <2>2, <2>5, <2>6 DEF Receives, wait
  <2> QED BY <1>4, <2>1, <2>6, <2>7, Zenon DEF Receive, ViewerMoves, Moves, PermitGoesWith
<1>5. CASE PlayFinished(v)
  <2> DEFINE r2 == [r EXCEPT !.pc = "finished"]
  <2>1. r.pc = "playing" /\ viewer' = [viewer EXCEPT ![v] = r2]
    BY <1>1, <1>5, Zenon DEF PlayFinished
  <2>2. /\ r2 \in Viewer /\ r2.pc = "finished" /\ r2.out = r.out /\ r2.http = r.http
        /\ SamePlace(r, r2)
    BY <1>1, Zenon DEF Viewer, SamePlace
  <2> HIDE DEF r2
  <2> QED BY <1>5, <2>1, <2>2, Zenon DEF PlayFinished, ViewerMoves, Moves, PermitGoesWith, Finishes
<1> QED BY <1>3, <1>4, <1>5, Zenon

\* Every step of a viewer is one of these moves.
LEMMA ViewersMove ==
  ASSUME EgressTypes, NEW v \in Viewers,
         \/ RequestHttp(v) \/ RequestRtmp(v) \/ PlayFinished(v) \/ Disconnects(v) \/ ViewerStep(v)
  PROVE  ViewerMoves(v)
<1>1. SendFails(v) \/ Closed(v) \/ PlayCancelled(v) \/ Disconnects(v) =>
        Leaves(v) /\ UNCHANGED <<session, channel, sent, cache, pipe>>
  BY Zenon DEF SendFails, Closed, PlayCancelled, Disconnects
<1> QED BY <1>1, LeavingMoves, RequestMoves, JoiningMoves, PlayingMoves, Zenon DEF ViewerStep

-----------------------------------------------------------------------------
(* Types are kept *)

\* Wherever a viewer moves to, its record is in order.
LEMMA MovesPlaced ==
  ASSUME EgressTypes, NEW v \in Viewers, NEW r2 \in Viewer, Moves(viewer[v], r2)
  PROVE  Placed(r2, sent)
<1> DEFINE r == viewer[v]
<1>1. r \in Viewer /\ Placed(r, sent) /\ r.out \in Seq(Output) /\ r.next \in Nat
  BY Zenon DEF EgressTypes, ViewerTypes, Viewer
<1> HIDE DEF r
<1>2. CASE r2 = Away
  <2>1. /\ Away.pc = "away" /\ ~Away.http /\ Away.out = <<>> /\ ~Away.lagged /\ ~Away.waiting
        /\ DOMAIN Away.out = {}
    BY DEF Away
  <2> QED BY <1>2, <2>1, Zenon DEF Placed, Subscribed, Plays
<1>3. CASE Asks(r, r2)
  BY <1>1, <1>3, Zenon DEF Asks, Placed, Subscribed, Plays, Away
<1>4. CASE Joins(r, r2)
  <2>1. channel \in SessionIds /\ Len(sent[channel]) + 1 <= Len(sent[channel]) + 1
    BY <1>4 DEF Joins, EgressTypes, SessionTypes, SessionIds
  <2> QED BY <1>1, <1>4, <2>1, Zenon DEF Joins, Placed, Subscribed, Plays
<1>5. CASE Lags(r, r2)
  BY <1>1, <1>5, Zenon DEF Lags, Placed, Subscribed, Plays
<1>6. CASE Finishes(r, r2)
  BY <1>1, <1>6, Zenon DEF Finishes, SamePlace, Placed, Subscribed, Plays
<1>7. CASE \E slot \in Slots : ReadsCache(r, slot, r2)
  <2>1. PICK slot \in Slots : ReadsCache(r, slot, r2)
    BY <1>7, Zenon
  <2>2. \A i \in DOMAIN r2.out : r2.out[i].pos = 0
    <3>1. \A i \in DOMAIN r.out : r.out[i].pos = 0
      BY <1>1, <2>1, Zenon DEF ReadsCache, Placed, Plays
    <3> DEFINE x == [pos |-> 0, tag |-> cache[r.ch][slot]]
    <3>2. x.pos = 0
      BY Zenon
    <3>3. r2.out = r.out \/ r2.out = Append(r.out, x)
      BY <2>1, Zenon DEF ReadsCache
    <3> HIDE DEF x
    <3> QED BY <1>1, <3>1, <3>2, <3>3, SMTT(20)
  <2> QED BY <1>1, <2>1, <2>2, Zenon DEF ReadsCache, SamePlace, Placed, Subscribed, Plays
<1>8. CASE r.pc \in Plays /\ Receives(r, sent[r.ch], r2)
  <2>1. /\ r2.pc = r.pc /\ r2.ch = r.ch /\ r2.lagged = r.lagged /\ r2.next = r.next + 1
        /\ r.next <= Len(sent[r.ch])
        /\ r2.waiting => r.waiting
    BY <1>8, Zenon DEF Receives
  <2>2. r.ch \in SessionIds /\ Len(sent[r.ch]) \in Nat
    BY <1>1, <1>8 DEF Placed, Plays, Subscribed, EgressTypes
  <2>3. r2.next <= Len(sent[r2.ch]) + 1
    BY <1>1, <2>1, <2>2
  <2>4. r2.waiting => r2.lagged
    BY <1>1, <2>1, Zenon DEF Placed
  <2> QED BY <1>8, <2>1, <2>2, <2>3, <2>4, Zenon DEF Placed, Subscribed, Plays
<1> QED BY <1>2, <1>3, <1>4, <1>5, <1>6, <1>7, <1>8, Zenon DEF Moves, r

\* A viewer's step leaves every record in order.
LEMMA ViewerKeepsTypes ==
  ASSUME EgressTypes, NEW v \in Viewers, ViewerMoves(v)
  PROVE  EgressTypes'
<1>1. PICK r2 \in Viewer : /\ viewer' = [viewer EXCEPT ![v] = r2]
                           /\ Moves(viewer[v], r2)
                           /\ PermitGoesWith(viewer[v], r2)
  BY Zenon DEF ViewerMoves
<1>2. UNCHANGED <<session, channel, sent, cache, pipe>>
  BY Zenon DEF ViewerMoves
<1>3. Placed(r2, sent)
  BY <1>1, MovesPlaced, Zenon
<1>4. /\ viewer' \in [Viewers -> Viewer]
      /\ \A w \in Viewers : viewer'[w] = viewer[w] \/ viewer'[w] = r2
  BY <1>1, Zenon DEF EgressTypes, ViewerTypes
<1>5. \A w \in Viewers : Placed(viewer'[w], sent)
  BY <1>3, <1>4, Zenon DEF EgressTypes, ViewerTypes
<1>6. ViewerTypes'
  BY <1>2, <1>4, <1>5, Zenon DEF ViewerTypes
<1>7. permits' \in Nat
  BY <1>1 DEF PermitGoesWith, EgressTypes
<1>8. SessionTypes' /\ PipeTypes' /\ sent' \in [SessionIds -> Seq(Tag)]
  BY <1>2, Zenon DEF EgressTypes, SessionTypes, PipeTypes
<1> QED BY <1>6, <1>7, <1>8, Zenon DEF EgressTypes

\* The tag that pipeline n makes next, and what making it leaves behind.
LEMMA MadeTyped ==
  ASSUME EgressTypes, NEW n \in SessionIds, NEW kind \in Kinds
  PROVE  LET tag == NextTag(n, kind)
             made == Made(n, tag)
         IN  /\ tag \in Tag /\ tag.kind = kind /\ tag.by = n
             /\ tag.version = pipe[n].version[Slot(kind)] + (IF kind \in Headers THEN 1 ELSE 0)
             /\ made \in Pipe /\ made.pc = pipe[n].pc /\ made.tag = pipe[n].tag
             /\ made.version = [pipe[n].version EXCEPT ![Slot(kind)] = tag.version]
<1> DEFINE tag == NextTag(n, kind)
           made == Made(n, tag)
<1>1. pipe[n] \in Pipe /\ pipe[n].version \in [Slots -> Nat]
  BY Zenon DEF EgressTypes, PipeTypes, Pipe
<1>2. Slot(kind) \in Slots /\ pipe[n].version[Slot(kind)] \in Nat
  BY <1>1, Zenon DEF Slot, Slots
<1>3. /\ tag.kind = kind /\ tag.by = n
      /\ tag.version = pipe[n].version[Slot(kind)] + (IF kind \in Headers THEN 1 ELSE 0)
  BY Zenon DEF NextTag
<1>4. tag.version \in Nat
  BY <1>2, <1>3
<1>5. tag \in Tag
  BY <1>4, Zenon DEF NextTag, Tag, Kinds
<1> HIDE DEF tag
<1> DEFINE version == [pipe[n].version EXCEPT ![Slot(kind)] = tag.version]
<1>6. version \in [Slots -> Nat]
  BY <1>1, <1>2, <1>4, Zenon
<1>7. made = [pipe[n] EXCEPT !.version = version]
  BY <1>1, <1>3, Zenon DEF Made, Pipe
<1> HIDE DEF version, made
<1>8. /\ made \in Pipe /\ made.pc = pipe[n].pc /\ made.tag = pipe[n].tag
      /\ made.version = version
  BY <1>1, <1>6, <1>7, Zenon DEF Pipe
<1> QED BY <1>3, <1>5, <1>8, Zenon DEF version, made, tag

\* The session's steps.
LEMMA SessionKeepsTypes ==
  ASSUME EgressTypes, SessionStep
  PROVE  EgressTypes'
<1>1. /\ session \in [id : 0 .. MaxSessions, cancelled : BOOLEAN, published : BOOLEAN,
                      state : {"Absent", "Pending", "Connected", "Disconnected"}]
      /\ session.state # "Absent" => session.id \in SessionIds
      /\ session.cancelled => session.state # "Absent"
      /\ channel \in 0 .. MaxSessions /\ session.id \in Nat /\ MaxSessions \in Nat
  BY FlvEgressAssumption DEF EgressTypes, SessionTypes
<1>2. pipe \in [SessionIds -> Pipe]
  BY Zenon DEF EgressTypes, PipeTypes
<1>3. UNCHANGED <<sent, cache, viewer, permits>>
  BY Zenon DEF SessionStep, Precreate, Connect, CancelSession, MarkDisconnected, RemoveChannel,
               Forget
<1>4. sent' \in [SessionIds -> Seq(Tag)] /\ ViewerTypes' /\ permits' \in Nat
  BY <1>3, Zenon DEF EgressTypes, ViewerTypes
<1>5. CASE Precreate
  <2>1. session' = [id |-> session.id + 1, state |-> "Pending", cancelled |-> FALSE,
                    published |-> FALSE]
    BY <1>5, Zenon DEF Precreate
  <2>2. session.id + 1 \in SessionIds /\ session.id + 1 \in 0 .. MaxSessions /\ session.id + 1 # 0
    BY <1>1, <1>5 DEF Precreate, SessionIds
  <2>3. channel' \in 0 .. MaxSessions /\ channel' # 0
    BY <1>1, <1>5, <2>2, Zenon DEF Precreate
  <2>4. SessionTypes'
    BY <2>1, <2>2, <2>3, Zenon DEF SessionTypes
  <2>5. PipeTypes'
    BY <1>3, <1>5, <2>3, Zenon DEF Precreate, PipeTypes, EgressTypes
  <2> QED BY <1>4, <2>4, <2>5, Zenon DEF EgressTypes
<1>6. CASE Connect
  <2>1. /\ session' \in [id : 0 .. MaxSessions, cancelled : BOOLEAN, published : BOOLEAN,
                         state : {"Absent", "Pending", "Connected", "Disconnected"}]
        /\ session'.id = session.id /\ session.id \in SessionIds /\ channel' = channel
        /\ session'.state # "Absent"
    BY <1>1, <1>6, Zenon DEF Connect
  <2>2. SessionTypes'
    BY <1>1, <2>1, Zenon DEF SessionTypes
  <2>3. pipe' = [pipe EXCEPT ![session.id] = [pipe[session.id] EXCEPT !.pc = "idle"]]
    BY <1>2, <1>6, <2>1, Zenon DEF Connect
  <2>4. /\ [pipe[session.id] EXCEPT !.pc = "idle"] \in Pipe
        /\ [pipe[session.id] EXCEPT !.pc = "idle"].pc = "idle"
    BY <1>2, <2>1, Zenon DEF Pipe
  <2>5. /\ pipe' \in [SessionIds -> Pipe]
        /\ \A n \in SessionIds : pipe'[n].pc = "sending" => pipe'[n] = pipe[n]
    BY <1>2, <2>1, <2>3, <2>4, Zenon
  <2>6. PipeTypes'
    BY <1>3, <2>1, <2>5, Zenon DEF PipeTypes, EgressTypes
  <2> QED BY <1>4, <2>2, <2>6 DEF EgressTypes
<1>7. CASE RemoveChannel
  <2>1. \A n \in SessionIds : pipe[n].pc # "sending"
    BY <1>7, Zenon DEF RemoveChannel, EntryLocked
  <2>2. session' = session /\ pipe' = pipe /\ channel' \in 0 .. MaxSessions
    BY <1>1, <1>7 DEF RemoveChannel
  <2>3. PipeTypes'
    BY <1>3, <2>1, <2>2, Zenon DEF PipeTypes, EgressTypes
  <2>4. SessionTypes'
    BY <1>1, <2>2, Zenon DEF SessionTypes
  <2> QED BY <1>4, <2>3, <2>4, Zenon DEF EgressTypes
<1>8. CASE CancelSession \/ MarkDisconnected \/ Forget
  <2>1. /\ session' \in [id : 0 .. MaxSessions, cancelled : BOOLEAN, published : BOOLEAN,
                         state : {"Absent", "Pending", "Connected", "Disconnected"}]
        /\ session'.id = session.id
        /\ channel' = channel /\ pipe' = pipe
    BY <1>1, <1>8, Zenon DEF CancelSession, MarkDisconnected, Forget
  <2>2. session'.state # "Absent" => session.id \in SessionIds
    BY <1>1, <1>8, Zenon DEF CancelSession, MarkDisconnected, Forget
  <2>3. session'.cancelled => session'.state # "Absent"
    BY <1>1, <1>8, Zenon DEF CancelSession, MarkDisconnected, Forget
  <2>4. SessionTypes'
    BY <1>1, <2>1, <2>2, <2>3, Zenon DEF SessionTypes
  <2>5. PipeTypes'
    BY <1>3, <2>1, Zenon DEF PipeTypes, EgressTypes
  <2> QED BY <1>4, <2>4, <2>5 DEF EgressTypes
<1> QED BY <1>5, <1>6, <1>7, <1>8, Zenon DEF SessionStep

\* FlvEgressHub::broadcast up to cache_seq_header: what it makes of the pipeline's record.
CachesFirst(n, kind, b) ==
  LET tag == NextTag(n, kind)
  IN  /\ pipe[n].pc = "idle" /\ MayCome(n, kind) /\ channel \in SessionIds
      /\ b \in Pipe /\ b.pc = "sending" /\ b.tag = tag
      /\ b.version = [pipe[n].version EXCEPT ![Slot(kind)] = tag.version]
      /\ pipe' = [pipe EXCEPT ![n] = b]
      /\ cache' = IF kind \in Headers
                  THEN [cache EXCEPT ![channel] = [@ EXCEPT ![Slot(kind)] = tag]] ELSE cache
      /\ UNCHANGED <<session, channel, sent, viewer, permits>>

\* BroadcastCache is that step.
LEMMA BroadcastCaches ==
  ASSUME EgressTypes, NEW n \in SessionIds, BroadcastCache(n)
  PROVE  \E kind \in Kinds, b \in Pipe : CachesFirst(n, kind, b)
<1>1. PICK kind \in Kinds :
        LET tag == NextTag(n, kind)
        IN  /\ pipe[n].pc = "idle" /\ MayCome(n, kind) /\ channel # 0
            /\ cache' = IF kind \in Headers
                        THEN [cache EXCEPT ![channel][Slot(kind)] = tag] ELSE cache
            /\ pipe' = [pipe EXCEPT ![n] = [Made(n, tag) EXCEPT !.pc = "sending", !.tag = tag]]
            /\ UNCHANGED <<session, channel, sent, viewer, permits>>
  BY Zenon DEF BroadcastCache, Kinds
<1> DEFINE tag == NextTag(n, kind)
           made == Made(n, tag)
           b == [made EXCEPT !.pc = "sending", !.tag = tag]
<1>2. /\ tag \in Tag /\ made \in Pipe
      /\ made.version = [pipe[n].version EXCEPT ![Slot(kind)] = tag.version]
  BY MadeTyped
<1>3. pipe' = [pipe EXCEPT ![n] = b]
  BY <1>1, Zenon
<1> HIDE DEF tag, made
<1>4. b \in Pipe /\ b.pc = "sending" /\ b.tag = tag /\ b.version = made.version
  BY <1>2, Zenon DEF Pipe
<1>5. channel \in SessionIds
  BY <1>1 DEF EgressTypes, SessionTypes, SessionIds
<1>6. kind \in Headers => cache' = [cache EXCEPT ![channel] = [@ EXCEPT ![Slot(kind)] = tag]]
  BY <1>1, Zenon DEF tag
<1>7. kind \notin Headers => cache' = cache
  BY <1>1, Zenon
<1> HIDE DEF b
<1>8. CachesFirst(n, kind, b)
  BY <1>1, <1>2, <1>3, <1>4, <1>5, <1>6, <1>7, Zenon DEF CachesFirst, tag
<1> QED BY <1>4, <1>8, Zenon

\* sender.send.
Sends(n, b) ==
  /\ pipe[n].pc = "sending" /\ channel \in SessionIds
  /\ b \in Pipe /\ b.pc = "idle" /\ b.version = pipe[n].version
  /\ pipe' = [pipe EXCEPT ![n] = b]
  /\ sent' = [sent EXCEPT ![channel] = Append(sent[channel], pipe[n].tag)]
  /\ UNCHANGED <<session, channel, cache, viewer, permits>>

\* BroadcastSend is that step.
LEMMA BroadcastSends ==
  ASSUME EgressTypes, NEW n \in SessionIds, BroadcastSend(n)
  PROVE  \E b \in Pipe : Sends(n, b)
<1> DEFINE b == [pipe[n] EXCEPT !.pc = "idle", !.tag = NoTag]
<1>1. pipe \in [SessionIds -> Pipe] /\ pipe[n] \in Pipe
  BY Zenon DEF EgressTypes, PipeTypes
<1>2. pipe' = [pipe EXCEPT ![n] = b]
  BY <1>1, Zenon DEF BroadcastSend
<1>3. b \in Pipe /\ b.pc = "idle" /\ b.version = pipe[n].version
  BY <1>1, Zenon DEF Pipe
<1>4. channel \in SessionIds /\ pipe[n].pc = "sending"
  BY DEF BroadcastSend, EgressTypes, SessionTypes, PipeTypes, SessionIds
<1>5. sent' = [sent EXCEPT ![channel] = Append(sent[channel], pipe[n].tag)]
  BY Zenon DEF BroadcastSend, EgressTypes
<1> HIDE DEF b
<1> QED BY <1>2, <1>3, <1>4, <1>5, Zenon DEF Sends, BroadcastSend

\* The pipeline's end.
Stops(n, b) ==
  /\ b \in Pipe /\ pipe[n].pc = "idle" /\ b.pc = "off" /\ b.version = pipe[n].version
  /\ pipe' = [pipe EXCEPT ![n] = b]
  /\ UNCHANGED <<session, channel, sent, cache, viewer, permits>>

\* PipelineStops is that step.
LEMMA PipelineEnds ==
  ASSUME EgressTypes, NEW n \in SessionIds, PipelineStops(n)
  PROVE  \E b \in Pipe : Stops(n, b)
<1> DEFINE b == [pipe[n] EXCEPT !.pc = "off"]
<1>1. pipe \in [SessionIds -> Pipe] /\ pipe[n] \in Pipe
  BY Zenon DEF EgressTypes, PipeTypes
<1>2. pipe' = [pipe EXCEPT ![n] = b]
  BY <1>1, Zenon DEF PipelineStops
<1>3. b \in Pipe /\ b.pc = "off" /\ b.version = pipe[n].version
  BY <1>1, Zenon DEF Pipe
<1> HIDE DEF b
<1> QED BY <1>2, <1>3, Zenon DEF Stops, PipelineStops

\* A longer channel keeps a viewer in its place.
LEMMA GrowKeepsPlaced ==
  ASSUME NEW tags \in [SessionIds -> Seq(Tag)], NEW c \in SessionIds, NEW tag \in Tag,
         NEW r \in Viewer, Placed(r, tags)
  PROVE  Placed(r, [tags EXCEPT ![c] = Append(tags[c], tag)])
<1> DEFINE tags2 == [tags EXCEPT ![c] = Append(tags[c], tag)]
<1>1. \A n \in SessionIds : Len(tags2[n]) \in Nat /\ Len(tags[n]) \in Nat
                            /\ Len(tags2[n]) >= Len(tags[n])
  OBVIOUS
<1>2. r.next \in Nat
  BY Zenon DEF Viewer
<1> HIDE DEF tags2
<1>3. r.pc \in Subscribed => r.ch \in SessionIds /\ r.next <= Len(tags2[r.ch]) + 1
  BY <1>1, <1>2 DEF Placed
<1>4. Placed(r, tags2)
  BY <1>3, Zenon DEF Placed
<1> QED BY <1>4, Zenon DEF tags2

\* The pipelines' steps.
LEMMA PipeKeepsTypes ==
  ASSUME EgressTypes, NEW n \in SessionIds, PipeStep(n)
  PROVE  EgressTypes'
<1>1. pipe \in [SessionIds -> Pipe] /\ cache \in [SessionIds -> [Slots -> Tag \cup {NoTag}]]
  BY Zenon DEF EgressTypes, PipeTypes
<1>2. CASE BroadcastCache(n)
  <2>1. PICK kind \in Kinds, b \in Pipe : CachesFirst(n, kind, b)
    BY <1>2, BroadcastCaches, Zenon
  <2> DEFINE tag == NextTag(n, kind)
  <2>2. tag \in Tag /\ Slot(kind) \in Slots
    BY MadeTyped, Zenon DEF Slot, Slots
  <2> HIDE DEF tag
  <2>3. /\ channel \in SessionIds /\ b.tag = tag /\ pipe' = [pipe EXCEPT ![n] = b]
        /\ UNCHANGED <<session, channel, sent, viewer, permits>>
        /\ \/ cache' = cache
           \/ cache' = [cache EXCEPT ![channel] = [cache[channel] EXCEPT ![Slot(kind)] = tag]]
    BY <2>1, Zenon DEF CachesFirst, tag
  <2>4. cache' \in [SessionIds -> [Slots -> Tag \cup {NoTag}]]
    BY <1>1, <2>2, <2>3
  <2>5. channel # 0
    BY <2>3 DEF SessionIds
  <2>6. /\ pipe' \in [SessionIds -> Pipe]
        /\ \A m \in SessionIds : pipe'[m].pc = "sending" => pipe'[m].tag \in Tag
    BY <1>1, <2>2, <2>3, Zenon DEF EgressTypes, PipeTypes
  <2>7. PipeTypes'
    BY <2>3, <2>4, <2>5, <2>6, Zenon DEF PipeTypes
  <2> QED BY <2>3, <2>7, Zenon DEF EgressTypes, SessionTypes, ViewerTypes
<1>3. CASE BroadcastSend(n)
  <2>1. PICK b \in Pipe : Sends(n, b)
    BY <1>3, BroadcastSends, Zenon
  <2>2. /\ b.pc = "idle" /\ pipe' = [pipe EXCEPT ![n] = b] /\ channel \in SessionIds
        /\ UNCHANGED <<session, channel, cache, viewer, permits>>
    BY <2>1, Zenon DEF Sends
  <2>3. /\ pipe' \in [SessionIds -> Pipe]
        /\ \A m \in SessionIds : pipe'[m].pc = "sending" => pipe'[m] = pipe[m]
    BY <1>1, <2>2, Zenon
  <2>4. PipeTypes'
    BY <2>2, <2>3, Zenon DEF PipeTypes, EgressTypes
  <2>5. pipe[n].tag \in Tag /\ sent \in [SessionIds -> Seq(Tag)]
    BY <2>1, Zenon DEF Sends, EgressTypes, PipeTypes
  <2>6. sent' = [sent EXCEPT ![channel] = Append(sent[channel], pipe[n].tag)]
    BY <2>1, Zenon DEF Sends
  <2>7. sent' \in [SessionIds -> Seq(Tag)]
    BY <2>2, <2>5, <2>6
  <2>8. \A v \in Viewers : viewer[v] \in Viewer /\ Placed(viewer[v], sent)
    BY Zenon DEF EgressTypes, ViewerTypes
  <2>9. \A v \in Viewers : Placed(viewer[v], sent')
    BY <2>2, <2>5, <2>6, <2>8, GrowKeepsPlaced, Zenon
  <2>10. ViewerTypes'
    BY <2>2, <2>9, Zenon DEF ViewerTypes, EgressTypes
  <2> QED BY <2>2, <2>4, <2>7, <2>10, Zenon DEF EgressTypes, SessionTypes
<1>4. CASE PipelineStops(n)
  <2>1. PICK b \in Pipe : Stops(n, b)
    BY <1>4, PipelineEnds, Zenon
  <2>2. /\ b.pc # "sending" /\ pipe' = [pipe EXCEPT ![n] = b]
        /\ UNCHANGED <<session, channel, sent, cache, viewer, permits>>
    BY <2>1, Zenon DEF Stops
  <2>3. /\ pipe' \in [SessionIds -> Pipe]
        /\ \A m \in SessionIds : pipe'[m].pc = "sending" => pipe'[m] = pipe[m]
    BY <1>1, <2>2, Zenon
  <2>4. PipeTypes'
    BY <2>2, <2>3, Zenon DEF PipeTypes, EgressTypes
  <2> QED BY <2>2, <2>4, Zenon DEF EgressTypes, SessionTypes, ViewerTypes
<1> QED BY <1>2, <1>3, <1>4, Zenon DEF PipeStep, Broadcast

\* The types hold at the start ...
LEMMA InitTypes ==
  ASSUME Init
  PROVE  EgressTypes
<1>1. Off \in Pipe /\ Off.pc = "off"
  BY Zenon DEF Off, Pipe, Slots
<1>2. NoHeaders \in [Slots -> Tag \cup {NoTag}]
  BY Zenon DEF NoHeaders
<1>3. PipeTypes
  BY <1>1, <1>2, Zenon DEF Init, PipeTypes
<1>4. SessionTypes
  BY FlvEgressAssumption DEF Init, SessionTypes
<1>5. \A v \in Viewers : viewer[v] = Away
  BY Zenon DEF Init
<1>6. Placed(Away, sent)
  <2>1. /\ Away.pc = "away" /\ ~Away.http /\ Away.out = <<>> /\ ~Away.lagged /\ ~Away.waiting
        /\ DOMAIN Away.out = {}
    BY DEF Away
  <2> QED BY <2>1, Zenon DEF Placed, Subscribed, Plays
<1>7. ViewerTypes
  BY <1>5, <1>6, AwayTyped, Zenon DEF ViewerTypes, Init
<1>8. sent \in [SessionIds -> Seq(Tag)] /\ permits \in Nat
  BY FlvEgressAssumption DEF Init
<1> QED BY <1>3, <1>4, <1>7, <1>8, Zenon DEF EgressTypes

\* ... and every step keeps them.
LEMMA NextKeepsTypes ==
  ASSUME EgressTypes, [Next]_vars
  PROVE  EgressTypes'
<1>1. CASE SessionStep
  BY <1>1, SessionKeepsTypes, Zenon
<1>2. ASSUME NEW n \in SessionIds, PipeStep(n) PROVE EgressTypes'
  BY <1>2, PipeKeepsTypes, Zenon
<1>3. ASSUME NEW v \in Viewers,
             \/ RequestHttp(v) \/ RequestRtmp(v) \/ PlayFinished(v) \/ Disconnects(v)
             \/ ViewerStep(v)
      PROVE  EgressTypes'
  BY <1>3, ViewersMove, ViewerKeepsTypes, Zenon
<1>4. CASE UNCHANGED vars
  BY <1>4, Zenon DEF vars, EgressTypes, SessionTypes, PipeTypes, ViewerTypes
<1> QED BY <1>1, <1>2, <1>3, <1>4, Zenon DEF Next

-----------------------------------------------------------------------------
(* The semaphore *)

\* What is not a viewer's step leaves viewers and permits alone.
LEMMA OthersKeepViewers ==
  ASSUME EgressTypes, SessionStep \/ (\E n \in SessionIds : PipeStep(n)) \/ UNCHANGED vars
  PROVE  UNCHANGED <<viewer, permits>>
BY Zenon DEF SessionStep, Precreate, Connect, CancelSession, MarkDisconnected, RemoveChannel,
             Forget,
       PipeStep, Broadcast, BroadcastCache, BroadcastSend, PipelineStops, vars

\* handle_http_flv: a permit is taken with the request and comes back with the connection's
\* end, however it ends.
LEMMA ViewerKeepsPermits ==
  ASSUME EgressTypes, Permits, NEW v \in Viewers, ViewerMoves(v)
  PROVE  Permits'
<1>1. PICK r2 \in Viewer : /\ viewer' = [viewer EXCEPT ![v] = r2]
                           /\ PermitGoesWith(viewer[v], r2)
  BY Zenon DEF ViewerMoves
<1>2. /\ viewer \in [Viewers -> Viewer] /\ viewer[v].http \in BOOLEAN /\ r2.http \in BOOLEAN
      /\ permits \in Nat
  BY Zenon DEF EgressTypes, ViewerTypes, Viewer
<1>3. viewer'[v] = r2 /\ \A w \in Viewers : w # v => viewer'[w] = viewer[w]
  BY <1>1, <1>2, Zenon
<1> DEFINE S == HttpViewers
           S2 == {w \in Viewers : viewer'[w].http}
<1>4. IsFiniteSet(S) /\ Cardinality(S) \in Nat /\ permits + Cardinality(S) = MaxConnections
  BY FS_CardinalityType, Zenon DEF Permits, PermitsConserved, HttpViewers
<1>5. CASE r2.http = viewer[v].http /\ permits' = permits
  <2>1. S2 = S
    BY <1>3, <1>5, Zenon DEF HttpViewers
  <2> QED BY <1>4, <1>5, <2>1, Zenon DEF Permits, PermitsConserved, HttpViewers
<1>6. CASE viewer[v].http /\ ~r2.http /\ permits' = permits + 1
  <2>1. S2 = S \ {v} /\ v \in S
    BY <1>3, <1>6, Zenon DEF HttpViewers
  <2>2. IsFiniteSet(S2) /\ Cardinality(S2) = Cardinality(S) - 1
    BY <1>4, <2>1, FS_RemoveElement, Zenon
  <2>3. permits' + Cardinality(S2) = MaxConnections
    BY <1>2, <1>4, <1>6, <2>2
  <2> QED BY <2>2, <2>3, Zenon DEF Permits, PermitsConserved, HttpViewers
<1>7. CASE viewer[v].pc = "away" /\ r2.http /\ permits > 0 /\ permits' = permits - 1
  <2>1. ~viewer[v].http
    BY <1>7 DEF EgressTypes, ViewerTypes, Placed, Away
  <2>2. S2 = S \cup {v} /\ v \notin S
    BY <1>3, <1>7, <2>1, Zenon DEF HttpViewers
  <2>3. IsFiniteSet(S2) /\ Cardinality(S2) = Cardinality(S) + 1
    BY <1>4, <2>2, FS_AddElement, SMTT(20)
  <2>4. permits' + Cardinality(S2) = MaxConnections
    BY <1>2, <1>4, <1>7, <2>3
  <2> QED BY <2>3, <2>4, Zenon DEF Permits, PermitsConserved, HttpViewers
<1> QED BY <1>1, <1>5, <1>6, <1>7, Zenon DEF PermitGoesWith

\* The permits of the semaphore and the HTTP-FLV viewers being served always add up, for
\* any number of viewers and permits: no way a connection ends (the 404 path included) loses
\* a permit or returns it twice.
THEOREM PermitsAreConserved == Spec => []PermitsConserved
<1>1. Init => EgressTypes /\ Permits
  <2> SUFFICES ASSUME Init PROVE Permits
    BY InitTypes, Zenon
  <2>1. \A v \in Viewers : ~viewer[v].http
    BY Zenon DEF Init, Away
  <2>2. HttpViewers = {} /\ permits = MaxConnections
    BY <2>1, Zenon DEF HttpViewers, Init
  <2>3. IsFiniteSet(HttpViewers) /\ Cardinality(HttpViewers) = 0
    BY <2>2, FS_EmptySet, Zenon
  <2>4. permits + Cardinality(HttpViewers) = MaxConnections
    BY <2>2, <2>3, FlvEgressAssumption
  <2> QED BY <2>3, <2>4, Zenon DEF Permits, PermitsConserved, HttpViewers
<1>2. EgressTypes /\ Permits /\ [Next]_vars => EgressTypes' /\ Permits'
  <2> SUFFICES ASSUME EgressTypes, Permits, [Next]_vars PROVE Permits'
    BY NextKeepsTypes, Zenon
  <2>1. CASE SessionStep \/ (\E n \in SessionIds : PipeStep(n)) \/ UNCHANGED vars
    <3>1. viewer' = viewer /\ permits' = permits
      BY <2>1, OthersKeepViewers, Zenon
    <3> QED BY <3>1, Zenon DEF Permits, PermitsConserved, HttpViewers
  <2>2. ASSUME NEW v \in Viewers,
               \/ RequestHttp(v) \/ RequestRtmp(v) \/ PlayFinished(v) \/ Disconnects(v)
               \/ ViewerStep(v)
        PROVE  Permits'
    BY <2>2, ViewersMove, ViewerKeepsPermits, Zenon
  <2> QED BY <2>1, <2>2, Zenon DEF Next
<1>3. Permits => PermitsConserved
  BY Zenon DEF Permits
<1> QED BY <1>1, <1>2, <1>3, PTL DEF Spec

-----------------------------------------------------------------------------
(* Gaps *)

\* Whichever way a viewer moves, its gaps end at keyframes.
LEMMA MovesKeepGaps ==
  ASSUME EgressTypes, GapInv, NEW v \in Viewers, NEW r2 \in Viewer, Moves(viewer[v], r2)
  PROVE  MissingWaits(r2, sent[r2.ch]) /\ GapsClosed(r2, sent[r2.ch])
<1> DEFINE r == viewer[v]
<1>1. /\ r \in Viewer /\ MissingWaits(r, sent[r.ch]) /\ GapsClosed(r, sent[r.ch])
      /\ Placed(r, sent) /\ Placed(r2, sent)
  BY MovesPlaced, Zenon DEF EgressTypes, ViewerTypes, GapInv
<1> HIDE DEF r
<1>2. CASE r2.pc \notin Plays
  BY <1>1, <1>2, NoVideoNoGaps, Zenon DEF Placed
<1>3. CASE \E slot \in Slots : ReadsCache(r, slot, r2)
  <2>1. PICK slot \in Slots : ReadsCache(r, slot, r2)
    BY <1>3, Zenon
  <2>2. r.out \in Seq(Output) /\ \A i \in DOMAIN r.out : r.out[i].pos = 0
    BY <1>1, <2>1, Zenon DEF ReadsCache, Placed, Plays, Viewer
  <2> DEFINE x == [pos |-> 0, tag |-> cache[r.ch][slot]]
  <2>3. x.pos = 0 /\ (r2.out = r.out \/ r2.out = Append(r.out, x))
    BY <2>1, Zenon DEF ReadsCache
  <2> HIDE DEF x
  <2>4. \A i \in DOMAIN r2.out : r2.out[i].pos = 0
    BY <2>2, <2>3, SMTT(20)
  <2> QED BY <2>4, NoVideoNoGaps, Zenon
<1>4. CASE Lags(r, r2)
  <2>1. r2.ch = r.ch /\ r2.out = r.out /\ r2.next > r.next /\ r2.waiting
    BY <1>4, Zenon DEF Lags
  <2> QED BY <1>1, <2>1, SameOutSameGaps, Zenon
<1>5. CASE Finishes(r, r2)
  <2>1. r2.ch = r.ch /\ r2.out = r.out /\ r2.next = r.next /\ r2.waiting = r.waiting
    BY <1>5, Zenon DEF Finishes, SamePlace
  <2> QED BY <1>1, <2>1, SameOutSameGaps, Zenon
<1>6. CASE r.pc \in Plays /\ Receives(r, sent[r.ch], r2)
  <2>1. r2.ch = r.ch /\ sent[r.ch] \in Seq(Tag)
    BY <1>1, <1>6, Zenon DEF Receives, Placed, Plays, Subscribed, EgressTypes
  <2> QED BY <1>1, <1>6, <2>1, ReceiveKeepsGaps, Zenon
<1>7. r2 = Away \/ Asks(r, r2) \/ Joins(r, r2) => r2.pc \notin Plays
  BY DEF Away, Asks, Joins, Plays
<1> QED BY <1>2, <1>3, <1>4, <1>5, <1>6, <1>7, Zenon DEF Moves, r

\* Every step keeps the gaps closed.
LEMMA NextKeepsGaps ==
  ASSUME EgressTypes, GapInv, [Next]_vars
  PROVE  GapInv'
<1>1. /\ viewer \in [Viewers -> Viewer]
      /\ \A w \in Viewers : LET r == viewer[w] IN
           /\ r \in Viewer /\ Placed(r, sent)
           /\ MissingWaits(r, sent[r.ch]) /\ GapsClosed(r, sent[r.ch])
  BY Zenon DEF EgressTypes, ViewerTypes, GapInv
<1>2. CASE UNCHANGED <<viewer, sent>>
  BY <1>1, <1>2, Zenon DEF GapInv
<1>3. ASSUME NEW n \in SessionIds, BroadcastSend(n) PROVE GapInv'
  <2>1. PICK b \in Pipe : Sends(n, b)
    BY <1>3, BroadcastSends, Zenon
  <2>2. /\ channel \in SessionIds /\ viewer' = viewer
        /\ sent' = [sent EXCEPT ![channel] = Append(sent[channel], pipe[n].tag)]
    BY <2>1, Zenon DEF Sends
  <2>3. pipe[n].tag \in Tag /\ sent \in [SessionIds -> Seq(Tag)]
    BY <2>1, Zenon DEF Sends, EgressTypes, PipeTypes
  <2> SUFFICES ASSUME NEW w \in Viewers
               PROVE  /\ MissingWaits(viewer[w], sent'[viewer[w].ch])
                      /\ GapsClosed(viewer[w], sent'[viewer[w].ch])
    BY <2>2, Zenon DEF GapInv
  <2> DEFINE r == viewer[w]
  <2>4. /\ r \in Viewer /\ Placed(r, sent)
        /\ MissingWaits(r, sent[r.ch]) /\ GapsClosed(r, sent[r.ch])
    BY <1>1, Zenon
  <2> HIDE DEF r
  <2>5. CASE r.pc \notin Plays
    <3>1. \A i \in DOMAIN r.out : r.out[i].pos = 0
      BY <2>4, <2>5, Zenon DEF Placed
    <3> QED BY <2>4, <3>1, NoVideoNoGaps, Zenon DEF r
  <2>6. CASE r.pc \in Plays /\ r.ch = channel
    <3>1. r.next <= Len(sent[channel]) + 1 /\ sent[channel] \in Seq(Tag)
      BY <2>2, <2>3, <2>4, <2>6, Zenon DEF Placed, Plays, Subscribed
    <3>2. sent'[r.ch] = Append(sent[channel], pipe[n].tag)
      BY <2>2, <2>3, <2>6, Zenon
    <3> QED BY <2>3, <2>4, <2>6, <3>1, <3>2, GrowKeepsGaps, Zenon DEF r
  <2>7. CASE r.pc \in Plays /\ r.ch # channel
    <3>1. sent'[r.ch] = sent[r.ch]
      BY <2>2, <2>3, <2>4, <2>7, Zenon DEF Placed, Plays, Subscribed
    <3> QED BY <2>4, <3>1, Zenon DEF r
  <2> QED BY <2>5, <2>6, <2>7, Zenon
<1>4. ASSUME NEW v \in Viewers,
             \/ RequestHttp(v) \/ RequestRtmp(v) \/ PlayFinished(v) \/ Disconnects(v)
             \/ ViewerStep(v)
      PROVE  GapInv'
  <2>1. ViewerMoves(v)
    BY <1>4, ViewersMove, Zenon
  <2>2. PICK r2 \in Viewer : viewer' = [viewer EXCEPT ![v] = r2] /\ Moves(viewer[v], r2)
    BY <2>1, Zenon DEF ViewerMoves
  <2>3. MissingWaits(r2, sent[r2.ch]) /\ GapsClosed(r2, sent[r2.ch])
    BY <2>2, MovesKeepGaps, Zenon
  <2>4. sent' = sent /\ \A w \in Viewers : viewer'[w] = viewer[w] \/ viewer'[w] = r2
    BY <1>1, <2>1, <2>2, Zenon DEF ViewerMoves
  <2> QED BY <1>1, <2>3, <2>4, Zenon DEF GapInv
<1>5. ASSUME SessionStep PROVE UNCHANGED <<viewer, sent>>
  BY <1>5, Zenon DEF SessionStep, Precreate, Connect, CancelSession, MarkDisconnected,
                     RemoveChannel,
              Forget
<1>6. ASSUME NEW n \in SessionIds, PipeStep(n)
      PROVE  BroadcastSend(n) \/ UNCHANGED <<viewer, sent>>
  BY <1>6, Zenon DEF PipeStep, Broadcast, BroadcastCache, PipelineStops
<1>7. CASE UNCHANGED vars
  BY <1>2, <1>7, Zenon DEF vars
<1> QED BY <1>2, <1>3, <1>4, <1>5, <1>6, <1>7, Zenon DEF Next

\* should_skip_while_waiting_keyframe: after a gap in the video that a viewer is sent, however
\* often it lags and however far, the next video tag it is sent is a keyframe.
THEOREM LaggingViewersResumeAtKeyframes == Spec => []GapsEndAtKeyframes
<1>1. Init => EgressTypes /\ GapInv
  <2> SUFFICES ASSUME Init PROVE GapInv
    BY InitTypes
  <2>1. \A v \in Viewers : viewer[v] = Away
    BY DEF Init
  <2>2. \A i \in DOMAIN Away.out : Away.out[i].pos = 0
    BY DEF Away
  <2> QED BY <2>1, <2>2, AwayTyped, NoVideoNoGaps, Zenon DEF GapInv
<1>2. EgressTypes /\ GapInv /\ [Next]_vars => EgressTypes' /\ GapInv'
  BY NextKeepsTypes, NextKeepsGaps, Zenon
<1>3. GapInv => GapsEndAtKeyframes
  <2>1. \A v \in Viewers : VideoSent(v) = VideoOut(viewer[v])
    BY Zenon DEF VideoSent, VideoOut
  <2> QED BY <2>1, Zenon DEF GapInv, GapsClosed, GapsEndAtKeyframes
<1> QED BY <1>1, <1>2, <1>3, PTL DEF Spec

-----------------------------------------------------------------------------
(* One session, one channel, one pipeline *)

\* What the next tag makes of its pipeline's versions.
LEMMA MadeVersions ==
  ASSUME EgressTypes, NEW n \in SessionIds, NEW kind \in Kinds, NEW b \in Pipe,
         b.version = [pipe[n].version EXCEPT ![Slot(kind)] = NextTag(n, kind).version]
  PROVE  /\ NextTag(n, kind).version \in Nat /\ Slot(kind) \in Slots
         /\ kind \in Headers => NextTag(n, kind).version > 0
         /\ b.version[Slot(kind)] = NextTag(n, kind).version
         /\ \A s \in Slots : /\ b.version[s] >= pipe[n].version[s]
                             /\ s # Slot(kind) => b.version[s] = pipe[n].version[s]
                             /\ kind \notin Headers => b.version[s] = pipe[n].version[s]
<1> DEFINE tag == NextTag(n, kind)
           old == pipe[n].version
<1>1. tag.version = old[Slot(kind)] + (IF kind \in Headers THEN 1 ELSE 0)
  BY MadeTyped, ZenonT(30)
<1>2. old \in [Slots -> Nat] /\ Slot(kind) \in Slots
  BY Zenon DEF EgressTypes, PipeTypes, Pipe, Slot, Slots
<1>3. tag.version \in Nat /\ tag.version >= old[Slot(kind)]
      /\ (kind \in Headers => tag.version > 0)
      /\ (kind \notin Headers => tag.version = old[Slot(kind)])
  BY <1>1, <1>2
<1> HIDE DEF tag, old
<1>4. b.version = [old EXCEPT ![Slot(kind)] = tag.version]
  BY Zenon DEF tag, old
<1>5. /\ b.version[Slot(kind)] = tag.version
      /\ \A s \in Slots : /\ b.version[s] >= old[s]
                          /\ s # Slot(kind) => b.version[s] = old[s]
                          /\ kind \notin Headers => b.version[s] = old[s]
  <2> DEFINE slot == Slot(kind)
             new == tag.version
  <2> HIDE DEF slot, new
  <2>1. /\ old \in [Slots -> Nat] /\ slot \in Slots /\ new \in Nat /\ new >= old[slot]
        /\ b.version = [old EXCEPT ![slot] = new]
        /\ kind \notin Headers => new = old[slot]
    BY <1>2, <1>3, <1>4, Zenon DEF slot, new
  <2>2. b.version[slot] = new /\ \A s \in Slots : s # slot => b.version[s] = old[s]
    BY <2>1, Zenon
  <2>3. \A s \in Slots : old[s] \in Nat
    BY <2>1, Zenon
  <2>4. \A s \in Slots : b.version[s] >= old[s]
    BY <2>1, <2>2, <2>3
  <2> QED BY <2>1, <2>2, <2>4, Zenon DEF slot, new
<1> QED BY <1>2, <1>3, <1>5, Zenon DEF tag, old

\* The steps of a session, for the channel and the pipelines.
LEMMA SessionKeepsOwn ==
  ASSUME PipelineWatchesSession, EgressTypes, OwnChannel, SessionStep
  PROVE  OwnChannel'
<1>1. session.id \in Nat /\ session.id \in 0 .. MaxSessions
  BY FlvEgressAssumption DEF EgressTypes, SessionTypes
<1>2. viewer' = viewer
  BY Zenon DEF SessionStep, Precreate, Connect, CancelSession, MarkDisconnected, RemoveChannel,
               Forget
<1>3. CASE Precreate
  <2>1. /\ session'.id = session.id + 1 /\ session'.state = "Pending" /\ pipe' = pipe
        /\ session.state = "Absent" /\ ~EntryLocked
    BY <1>3, Zenon DEF Precreate
  <2>2. session'.id \in SessionIds
    BY <1>1, <1>3, <2>1, FlvEgressAssumption DEF Precreate, SessionIds
  <2>3. \A n \in SessionIds : pipe[n].pc = "off"
    BY <2>1, Zenon DEF OwnChannel
  <2>4. \A v \in Viewers : viewer[v].pc \notin {"joining", "reading"}
    BY <2>1, Zenon DEF EntryLocked
  <2>5. channel' <= session'.id
    BY <1>1, <1>3, <2>1 DEF Precreate, OwnChannel, EgressTypes, SessionTypes
  <2> QED BY <1>2, <2>1, <2>2, <2>3, <2>4, <2>5, Zenon DEF OwnChannel
<1>4. CASE Connect
  <2>1. /\ session'.id = session.id /\ session'.state = "Connected" /\ channel' = channel
        /\ session'.published /\ session.state = "Pending"
    BY <1>4, Zenon DEF Connect, EgressTypes, SessionTypes
  <2>2. session.id \in SessionIds /\ \A n \in SessionIds : pipe[n].pc = "off"
    BY <2>1, Zenon DEF OwnChannel, EgressTypes, SessionTypes
  <2>3. \A n \in SessionIds : /\ n # session.id => pipe'[n] = pipe[n]
                              /\ pipe'[session.id].pc = "idle"
    BY <1>4, <2>2 DEF Connect, EgressTypes, PipeTypes, Pipe
  <2> QED BY <1>2, <2>1, <2>2, <2>3, Zenon DEF OwnChannel
<1>5. CASE CancelSession
  <2>1. /\ session'.id = session.id /\ session'.state = session.state
        /\ session'.published = session.published
    BY <1>5, Zenon DEF CancelSession, EgressTypes, SessionTypes
  <2> QED BY <1>2, <1>5, <2>1, Zenon DEF CancelSession, OwnChannel
<1>6. CASE MarkDisconnected
  <2>1. /\ session'.id = session.id /\ session'.state = "Disconnected"
        /\ session'.published = session.published
    BY <1>6, Zenon DEF MarkDisconnected, EgressTypes, SessionTypes
  <2> QED BY <1>2, <1>6, <2>1, Zenon DEF MarkDisconnected, OwnChannel
<1>7. CASE RemoveChannel
  <2>1. \A v \in Viewers : viewer[v].pc \notin {"joining", "reading"}
    BY <1>7, Zenon DEF RemoveChannel, EntryLocked
  <2> QED BY <1>2, <1>7, <2>1, Zenon DEF RemoveChannel, OwnChannel
<1>8. CASE Forget
  <2>1. /\ session'.id = session.id /\ session'.state = "Absent"
        /\ session'.published = session.published /\ pipe' = pipe /\ channel' = channel
    BY <1>8, Zenon DEF Forget, EgressTypes, SessionTypes
  <2>2. session.published => channel = 0
    BY <1>8, Zenon DEF Forget, GraceCovers
  <2>3. \A n \in SessionIds : pipe[n].pc = "off"
    BY <1>8, Zenon DEF Forget, GraceCovers, OwnChannel
  <2> QED BY <1>2, <2>1, <2>2, <2>3, Zenon DEF OwnChannel
<1> QED BY <1>3, <1>4, <1>5, <1>6, <1>7, <1>8, Zenon DEF SessionStep

\* The steps of a session make nothing that is sent or cached, and give no pipeline a version.
\* A new session takes a new channel, or the one that was left.
LEMMA SessionKeepsVersions ==
  ASSUME EgressTypes, SessionStep
  PROVE  /\ UNCHANGED <<sent, cache, viewer>>
         /\ \A n \in SessionIds : /\ pipe'[n].version = pipe[n].version
                                  /\ pipe'[n].pc = "sending" => pipe'[n] = pipe[n]
                                  /\ n # session.id \/ session.state # "Pending" =>
                                       pipe'[n] = pipe[n]
         /\ \/ /\ session'.id = session.id /\ channel' \in {channel, 0}
               /\ session.published => session'.published
            \/ /\ session.state = "Absent" /\ session'.id = session.id + 1
               /\ IF channel = 0 THEN channel' = session.id + 1 ELSE channel' = channel
<1>1. session.id \in Nat /\ (session.state = "Pending" => session.id \in SessionIds)
  BY FlvEgressAssumption DEF EgressTypes, SessionTypes
<1>2. CASE Connect
  <2>1. session'.id = session.id /\ session.id \in SessionIds /\ session'.published
    BY <1>1, <1>2, Zenon DEF Connect, EgressTypes, SessionTypes
  <2> DEFINE b == [pipe[session.id] EXCEPT !.pc = "idle"]
  <2>2. pipe \in [SessionIds -> Pipe] /\ pipe' = [pipe EXCEPT ![session.id] = b]
    BY <1>2, <2>1, Zenon DEF Connect, EgressTypes, PipeTypes
  <2>3. b.pc = "idle" /\ b.version = pipe[session.id].version
    BY <2>1, <2>2, Zenon DEF Pipe
  <2> HIDE DEF b
  <2>4. \A n \in SessionIds : /\ n # session.id => pipe'[n] = pipe[n]
                              /\ n = session.id => pipe'[n] = b
    BY <2>1, <2>2, Zenon
  <2>5. \A n \in SessionIds : /\ pipe'[n].version = pipe[n].version
                              /\ pipe'[n].pc = "sending" => pipe'[n] = pipe[n]
    BY <2>3, <2>4, Zenon
  <2> QED BY <1>1, <1>2, <2>1, <2>4, <2>5 DEF Connect
<1>3. CASE Precreate
  BY <1>1, <1>3 DEF Precreate
<1>4. CASE CancelSession \/ MarkDisconnected \/ RemoveChannel \/ Forget
  <2>1. session'.id = session.id /\ session'.published = session.published
    BY <1>4, Zenon DEF CancelSession, MarkDisconnected, RemoveChannel, Forget, EgressTypes,
                       SessionTypes
  <2> QED BY <1>1, <1>4, <2>1 DEF CancelSession, MarkDisconnected, RemoveChannel, Forget
<1> QED BY <1>2, <1>3, <1>4, Zenon DEF SessionStep

\* A new session finds nothing of an earlier one: its pipeline is new, and its channel is new
\* or was never used.
LEMMA SessionKeepsSource ==
  ASSUME PipelineWatchesSession, EgressTypes, SourceInv, SessionStep
  PROVE  SourceInv'
<1>1. OwnChannel'
  BY SessionKeepsOwn, Zenon DEF SourceInv
<1>2. /\ sent' = sent /\ cache' = cache
      /\ \A n \in SessionIds : /\ pipe'[n].version = pipe[n].version
                               /\ pipe'[n].pc = "sending" => pipe'[n] = pipe[n]
      /\ \/ /\ session'.id = session.id /\ channel' \in {channel, 0}
            /\ session.published => session'.published
         \/ /\ session.state = "Absent" /\ session'.id = session.id + 1
            /\ IF channel = 0 THEN channel' = session.id + 1 ELSE channel' = channel
  BY SessionKeepsVersions, Zenon
<1>3. session.id \in Nat /\ session'.id \in 0 .. MaxSessions
  <2>1. EgressTypes'
    BY SessionKeepsTypes, Zenon
  <2> QED BY <2>1, FlvEgressAssumption DEF EgressTypes, SessionTypes
<1>4. NothingYet'
  <2> SUFFICES ASSUME NEW n \in SessionIds, n > session'.id
               PROVE  /\ sent[n] = <<>> /\ cache[n] = NoHeaders
                      /\ \A s \in Slots : pipe[n].version[s] = 0
    BY <1>2, Zenon DEF NothingYet
  <2>1. n > session.id
    BY <1>2, <1>3 DEF SessionIds
  <2> QED BY <2>1, Zenon DEF SourceInv, NothingYet
<1>5. TagCurrent'
  BY <1>2, Zenon DEF SourceInv, TagCurrent
<1>6. CASE /\ session'.id = session.id /\ channel' \in {channel, 0}
           /\ session.published => session'.published
  <2>1. channel # 0 => session.id \in SessionIds
    BY Zenon DEF SourceInv, OwnChannel
  <2>2. Unpublished'
    BY <1>2, <1>6, <2>1, Zenon DEF SourceInv, Unpublished
  <2>3. CacheCurrent'
    <3>1. channel # 0 => pipe'[session'.id].version = pipe[session.id].version
      BY <1>2, <1>6, <2>1, Zenon
    <3> QED BY <1>2, <1>6, <3>1 DEF SourceInv, CacheCurrent
  <2> QED BY <1>1, <1>4, <1>5, <2>2, <2>3, Zenon DEF SourceInv
<1>7. CASE /\ session.state = "Absent" /\ session'.id = session.id + 1
           /\ IF channel = 0 THEN channel' = session.id + 1 ELSE channel' = channel
  <2>1. session'.id \in SessionIds /\ session'.id > session.id
    BY <1>3, <1>7 DEF SessionIds
  <2>2. /\ sent[session'.id] = <<>> /\ cache[session'.id] = NoHeaders
        /\ \A s \in Slots : pipe[session'.id].version[s] = 0
    BY <2>1, Zenon DEF SourceInv, NothingYet
  <2>3. channel # 0 => sent[channel] = <<>> /\ cache[channel] = NoHeaders
    BY <1>7, Zenon DEF SourceInv, OwnChannel, Unpublished
  <2>4. sent'[channel'] = <<>> /\ cache'[channel'] = NoHeaders
    BY <1>2, <1>7, <2>2, <2>3, Zenon
  <2>5. \A s \in Slots : pipe'[session'.id].version[s] = 0
    BY <1>2, <2>1, <2>2, Zenon
  <2>6. Unpublished'
    BY <2>4, <2>5, Zenon DEF Unpublished
  <2>7. CacheCurrent'
    <3>1. \A s \in Slots : NoHeaders[s] = NoTag
      BY Zenon DEF NoHeaders
    <3>2. DOMAIN sent'[channel'] = {}
      BY <2>4
    <3> QED BY <2>4, <2>5, <3>1, <3>2, Zenon DEF CacheCurrent
  <2> QED BY <1>1, <1>4, <1>5, <2>6, <2>7, Zenon DEF SourceInv
<1> QED BY <1>2, <1>6, <1>7, Zenon

\* A pipeline's record alone changes: it is still the session's.
LEMMA PipeKeepsOwn ==
  ASSUME EgressTypes, OwnChannel, NEW n \in SessionIds, NEW b \in Pipe, pipe[n].pc # "off",
         pipe' = [pipe EXCEPT ![n] = b], UNCHANGED <<session, channel, viewer>>
  PROVE  OwnChannel'
<1>1. \A m \in SessionIds : pipe'[m] = IF m = n THEN b ELSE pipe[m]
  BY Zenon DEF EgressTypes, PipeTypes
<1> QED BY <1>1 DEF OwnChannel

\* A pipeline that runs is the session's, which is published to: of the other sessions
\* nothing changes.
LEMMA RunningKeepsOthers ==
  ASSUME EgressTypes, SourceInv, NEW n \in SessionIds, NEW b \in Pipe, pipe[n].pc # "off",
         pipe' = [pipe EXCEPT ![n] = b], UNCHANGED <<session, channel, viewer>>,
         \A m \in SessionIds : m # channel => sent'[m] = sent[m] /\ cache'[m] = cache[m],
         channel <= session.id
  PROVE  OwnChannel' /\ NothingYet' /\ Unpublished'
<1>1. n = session.id /\ session.published
  BY Zenon DEF SourceInv, OwnChannel
<1>2. OwnChannel'
  BY PipeKeepsOwn, Zenon DEF SourceInv
<1>3. NothingYet'
  <2> SUFFICES ASSUME NEW m \in SessionIds, m > session.id
               PROVE  /\ sent'[m] = <<>> /\ cache'[m] = NoHeaders
                      /\ \A s \in Slots : pipe'[m].version[s] = 0
    BY Zenon DEF NothingYet
  <2>1. m # n /\ m # channel
    BY <1>1 DEF SessionIds, EgressTypes, SessionTypes
  <2>2. pipe'[m] = pipe[m]
    BY <2>1, Zenon DEF EgressTypes, PipeTypes
  <2> QED BY <2>1, <2>2, Zenon DEF SourceInv, NothingYet
<1>4. Unpublished'
  BY <1>1, Zenon DEF Unpublished
<1> QED BY <1>2, <1>3, <1>4, Zenon

\* cache_seq_header: the cache follows the pipeline's versions.
LEMMA CacheKeepsSource ==
  ASSUME EgressTypes, SourceInv, NEW n \in SessionIds, NEW kind \in Kinds, NEW b \in Pipe,
         CachesFirst(n, kind, b)
  PROVE  SourceInv'
<1> DEFINE tag == NextTag(n, kind)
           c == channel
<1>1. tag \in Tag /\ tag.kind = kind
  <2>1. tag \in Tag
    BY MadeTyped, Zenon
  <2> QED BY <2>1, Zenon DEF NextTag
<1>2. /\ pipe[n].pc = "idle" /\ c \in SessionIds
      /\ b.pc = "sending" /\ b.tag = tag
      /\ pipe' = [pipe EXCEPT ![n] = b] /\ UNCHANGED <<session, channel, sent, viewer>>
      /\ kind \in Headers => cache' = [cache EXCEPT ![c] = [@ EXCEPT ![Slot(kind)] = tag]]
      /\ kind \notin Headers => cache' = cache
  BY Zenon DEF CachesFirst
<1>3. /\ Slot(kind) \in Slots /\ b.version[Slot(kind)] = tag.version
      /\ \A s \in Slots : /\ b.version[s] >= pipe[n].version[s]
                          /\ s # Slot(kind) => b.version[s] = pipe[n].version[s]
                          /\ kind \notin Headers => b.version[s] = pipe[n].version[s]
  <2>1. b.version = [pipe[n].version EXCEPT ![Slot(kind)] = NextTag(n, kind).version]
    BY Zenon DEF CachesFirst
  <2> QED BY <2>1, MadeVersions, Zenon
<1> HIDE DEF tag
<1>4. n = session.id /\ c # 0 /\ c <= session.id
  BY <1>2 DEF SourceInv, OwnChannel, SessionIds
<1>5. pipe'[n] = b /\ \A m \in SessionIds : m # n => pipe'[m] = pipe[m]
  BY <1>2, Zenon DEF EgressTypes, PipeTypes
<1>6. /\ \A m \in SessionIds : m # c => cache'[m] = cache[m]
      /\ \A s \in Slots : IF kind \in Headers /\ s = Slot(kind) THEN cache'[c][s] = tag
                          ELSE cache'[c][s] = cache[c][s]
  <2>1. cache \in [SessionIds -> [Slots -> Tag \cup {NoTag}]]
    BY Zenon DEF EgressTypes, PipeTypes
  <2> HIDE DEF c
  <2>2. CASE kind \in Headers
    <3>1. cache' = [cache EXCEPT ![c] = [cache[c] EXCEPT ![Slot(kind)] = tag]]
      BY <1>2, <2>2, Zenon
    <3>2. \A s \in Slots : [cache[c] EXCEPT ![Slot(kind)] = tag][s] =
                           IF s = Slot(kind) THEN tag ELSE cache[c][s]
      BY <1>2, <2>1, Zenon
    <3> QED BY <1>2, <2>1, <2>2, <3>1, <3>2, Zenon
  <2>3. CASE kind \notin Headers
    BY <1>2, <2>3, Zenon
  <2> QED BY <2>2, <2>3, Zenon
<1>7. OwnChannel' /\ NothingYet' /\ Unpublished'
  BY <1>2, <1>4, <1>6, RunningKeepsOthers, Zenon
<1>8. TagCurrent'
  BY <1>1, <1>2, <1>3, <1>5, ZenonT(30) DEF SourceInv, TagCurrent
<1>9. CacheCurrent'
  <2> SUFFICES ASSUME NEW s \in Slots
               PROVE  /\ cache'[c][s] = NoTag => b.version[s] = 0
                      /\ cache'[c][s] # NoTag => /\ cache'[c][s].version = b.version[s]
                                                 /\ cache'[c][s].kind \in Headers
                                                 /\ Slot(cache'[c][s].kind) = s
                      /\ \A i \in DOMAIN sent[c] : Slot(sent[c][i].kind) = s =>
                           sent[c][i].version <= b.version[s]
    BY <1>2, <1>4, <1>5 DEF CacheCurrent
  <2>1. /\ cache[c][s] = NoTag => pipe[n].version[s] = 0
        /\ cache[c][s] # NoTag => /\ cache[c][s].version = pipe[n].version[s]
                                  /\ cache[c][s].kind \in Headers
                                  /\ Slot(cache[c][s].kind) = s
        /\ \A i \in DOMAIN sent[c] : Slot(sent[c][i].kind) = s =>
             sent[c][i].version <= pipe[n].version[s]
    BY <1>4, Zenon DEF SourceInv, CacheCurrent
  <2>2. /\ pipe[n].version[s] \in Nat /\ b.version[s] \in Nat
        /\ \A i \in DOMAIN sent[c] : sent[c][i].version \in Nat
    <3>1. sent[c] \in Seq(Tag) /\ pipe[n].version \in [Slots -> Nat] /\ b.version \in [Slots -> Nat]
      BY <1>2, Zenon DEF EgressTypes, PipeTypes, Pipe
    <3>2. \A i \in DOMAIN sent[c] : sent[c][i] \in Tag
      BY <3>1
    <3> QED BY <3>1, <3>2, Zenon DEF Tag
  <2> HIDE DEF c
  <2>3. \A i \in DOMAIN sent[c] : Slot(sent[c][i].kind) = s => sent[c][i].version <= b.version[s]
    BY <1>3, <2>1, <2>2
  <2>4. CASE kind \in Headers /\ s = Slot(kind)
    <3>1. cache'[c][s] = tag
      BY <1>6, <2>4, Zenon
    <3>2. tag # NoTag
      BY <1>1, <2>4 DEF NoTag, Headers
    <3> QED BY <1>1, <1>3, <2>3, <2>4, <3>1, <3>2, Zenon
  <2>5. CASE ~(kind \in Headers /\ s = Slot(kind))
    <3>1. cache'[c][s] = cache[c][s] /\ b.version[s] = pipe[n].version[s]
      BY <1>3, <1>6, <2>5, Zenon
    <3> QED BY <2>1, <2>3, <3>1, Zenon
  <2> QED BY <2>4, <2>5, Zenon
<1> QED BY <1>7, <1>8, <1>9, Zenon DEF SourceInv

\* sender.send: the tag needs no header that is not cached.
LEMMA SendKeepsSource ==
  ASSUME EgressTypes, SourceInv, NEW n \in SessionIds, NEW b \in Pipe, Sends(n, b)
  PROVE  SourceInv'
<1> DEFINE tag == pipe[n].tag
           c == channel
<1>1. /\ pipe[n].pc = "sending" /\ c \in SessionIds
      /\ b.pc = "idle" /\ b.version = pipe[n].version
      /\ pipe' = [pipe EXCEPT ![n] = b] /\ UNCHANGED <<session, channel, cache, viewer>>
      /\ sent' = [sent EXCEPT ![c] = Append(sent[c], tag)]
  BY Zenon DEF Sends
<1>2. n = session.id /\ c # 0 /\ c <= session.id
  BY <1>1 DEF SourceInv, OwnChannel, SessionIds
<1>3. tag \in Tag /\ tag.version = pipe[n].version[Slot(tag.kind)]
  BY <1>1, Zenon DEF SourceInv, TagCurrent, EgressTypes, PipeTypes
<1> HIDE DEF tag
<1>4. pipe'[n] = b /\ \A m \in SessionIds : m # n => pipe'[m] = pipe[m]
  BY <1>1, Zenon DEF EgressTypes, PipeTypes
<1>5. /\ \A m \in SessionIds : m # c => sent'[m] = sent[m]
      /\ sent[c] \in Seq(Tag) /\ sent'[c] = Append(sent[c], tag)
  BY <1>1, Zenon DEF EgressTypes
<1>6. \A i \in DOMAIN sent'[c] :
        sent'[c][i] = tag \/ (i \in DOMAIN sent[c] /\ sent'[c][i] = sent[c][i])
  BY <1>3, <1>5
<1>7. OwnChannel' /\ NothingYet' /\ Unpublished'
  BY <1>1, <1>2, <1>5, RunningKeepsOthers, Zenon
<1>8. TagCurrent'
  BY <1>1, <1>4, Zenon DEF SourceInv, TagCurrent
<1>9. CacheCurrent'
  <2>1. \A s \in Slots : b.version[s] = pipe[n].version[s] /\ b.version[s] \in Nat
    BY <1>1, ZenonT(30) DEF Pipe
  <2>2. \A s \in Slots : \A i \in DOMAIN sent[c] : Slot(sent[c][i].kind) = s =>
          sent[c][i].version <= b.version[s]
    BY <1>2, <2>1, Zenon DEF SourceInv, CacheCurrent
  <2>3. \A s \in Slots : /\ cache[c][s] = NoTag => b.version[s] = 0
                         /\ cache[c][s] # NoTag => /\ cache[c][s].version = b.version[s]
                                                   /\ cache[c][s].kind \in Headers
                                                   /\ Slot(cache[c][s].kind) = s
    BY <1>2, <2>1, Zenon DEF SourceInv, CacheCurrent
  <2>4. \A s \in Slots : Slot(tag.kind) = s => tag.version <= b.version[s]
    BY <1>3, <2>1
  <2> HIDE DEF c
  <2>5. \A s \in Slots : \A i \in DOMAIN sent'[c] : Slot(sent'[c][i].kind) = s =>
          sent'[c][i].version <= b.version[s]
    BY <1>6, <2>2, <2>4, Zenon
  <2> QED BY <1>1, <1>2, <1>4, <2>3, <2>5 DEF CacheCurrent, c
<1> QED BY <1>7, <1>8, <1>9, Zenon DEF SourceInv

\* The pipeline's end leaves its versions.
LEMMA StopKeepsSource ==
  ASSUME EgressTypes, SourceInv, NEW n \in SessionIds, NEW b \in Pipe, Stops(n, b)
  PROVE  SourceInv'
<1>1. /\ pipe[n].pc = "idle" /\ b.pc = "off" /\ b.version = pipe[n].version
      /\ pipe' = [pipe EXCEPT ![n] = b] /\ UNCHANGED <<session, channel, sent, cache, viewer>>
  BY Zenon DEF Stops
<1>2. pipe'[n] = b /\ \A m \in SessionIds : m # n => pipe'[m] = pipe[m]
  BY <1>1, Zenon DEF EgressTypes, PipeTypes
<1>3. \A m \in SessionIds : /\ pipe'[m].version = pipe[m].version
                            /\ pipe'[m].pc = "sending" => pipe'[m] = pipe[m]
  BY <1>1, <1>2, Zenon
<1>4. OwnChannel'
  BY <1>1, PipeKeepsOwn, Zenon DEF SourceInv
<1>5. NothingYet' /\ TagCurrent'
  BY <1>1, <1>3, ZenonT(30) DEF SourceInv, NothingYet, TagCurrent
<1>6. channel # 0 => session.id \in SessionIds
  BY Zenon DEF SourceInv, OwnChannel
<1>7. channel # 0 => pipe'[session'.id].version = pipe[session.id].version
  BY <1>1, <1>3, <1>6, Zenon
<1>8. Unpublished'
  BY <1>1, <1>7, Zenon DEF SourceInv, Unpublished
<1>9. CacheCurrent'
  BY <1>1, <1>7 DEF SourceInv, CacheCurrent
<1> QED BY <1>4, <1>5, <1>8, <1>9, Zenon DEF SourceInv

\* The sources' invariant is kept by every step.
LEMMA NextKeepsSource ==
  ASSUME PipelineWatchesSession, EgressTypes, SourceInv, [Next]_vars
  PROVE  SourceInv'
<1>1. CASE SessionStep
  BY <1>1, SessionKeepsSource, Zenon
<1>2. ASSUME NEW n \in SessionIds, PipeStep(n) PROVE SourceInv'
  <2>1. CASE BroadcastCache(n)
    BY <2>1, BroadcastCaches, CacheKeepsSource, Zenon
  <2>2. CASE BroadcastSend(n)
    BY <2>2, BroadcastSends, SendKeepsSource, Zenon
  <2>3. CASE PipelineStops(n)
    BY <2>3, PipelineEnds, StopKeepsSource, Zenon
  <2> QED BY <1>2, <2>1, <2>2, <2>3, Zenon DEF PipeStep, Broadcast
<1>3. ASSUME NEW v \in Viewers,
             \/ RequestHttp(v) \/ RequestRtmp(v) \/ PlayFinished(v) \/ Disconnects(v)
             \/ ViewerStep(v)
      PROVE  SourceInv'
  <2>1. ViewerMoves(v)
    BY <1>3, ViewersMove, Zenon
  <2>2. PICK r2 \in Viewer : viewer' = [viewer EXCEPT ![v] = r2] /\ Moves(viewer[v], r2)
    BY <2>1, Zenon DEF ViewerMoves
  <2>3. UNCHANGED <<session, channel, sent, cache, pipe>>
    BY <2>1, Zenon DEF ViewerMoves
  <2>4. r2.pc \in {"joining", "reading"} => r2.ch = channel
    <3> DEFINE r == viewer[v]
    <3>1. r.pc \in {"joining", "reading"} => r.ch = channel
      BY Zenon DEF SourceInv, OwnChannel
    <3>2. CASE r2 = Away \/ Asks(r, r2) \/ Joins(r, r2) \/ Finishes(r, r2)
      BY <3>2 DEF Away, Asks, Joins, Finishes
    <3>3. CASE Lags(r, r2) \/ (r.pc \in Plays /\ Receives(r, sent[r.ch], r2))
      BY <3>3, Zenon DEF Lags, Receives, Plays
    <3>4. CASE \E slot \in Slots : ReadsCache(r, slot, r2)
      BY <3>1, <3>4, Zenon DEF ReadsCache, SamePlace
    <3> QED BY <2>2, <3>2, <3>3, <3>4, Zenon DEF Moves
  <2>5. \A w \in Viewers : viewer'[w] = viewer[w] \/ viewer'[w] = r2
    BY <2>2, Zenon DEF EgressTypes, ViewerTypes
  <2>6. OwnChannel'
    BY <2>3, <2>4, <2>5, Zenon DEF SourceInv, OwnChannel
  <2> QED BY <2>3, <2>6, Zenon DEF SourceInv, NothingYet, Unpublished, TagCurrent, CacheCurrent
<1>4. CASE UNCHANGED vars
  BY <1>4, Zenon DEF vars, SourceInv, OwnChannel, NothingYet, Unpublished, TagCurrent,
                     CacheCurrent
<1> QED BY <1>1, <1>2, <1>3, <1>4, Zenon DEF Next

\* It holds at the start.
LEMMA InitSource ==
  ASSUME Init
  PROVE  SourceInv
<1>1. /\ \A n \in SessionIds : pipe[n] = Off /\ sent[n] = <<>> /\ cache[n] = NoHeaders
      /\ \A v \in Viewers : viewer[v].pc = "away"
      /\ channel = 0
  BY Zenon DEF Init, Away
<1>2. Off.pc = "off" /\ \A s \in Slots : Off.version[s] = 0 /\ NoHeaders[s] = NoTag
  BY Zenon DEF Off, NoHeaders
<1>3. OwnChannel /\ NothingYet /\ CacheCurrent
  BY <1>1, <1>2, Zenon DEF OwnChannel, NothingYet, CacheCurrent
<1>4. Unpublished /\ TagCurrent
  BY <1>1, <1>2 DEF Unpublished, TagCurrent
<1> QED BY <1>3, <1>4, Zenon DEF SourceInv

-----------------------------------------------------------------------------
(* A header before every frame *)

\* A viewer that stays where it is, sent one more tag or none, has what it had.
LEMMA SuppliedStays ==
  ASSUME NEW r \in Viewer, NEW r2 \in Viewer, r2.next = r.next,
         r2.out = r.out \/ \E x \in Output : r2.out = Append(r.out, x),
         NEW tags, NEW s, NEW version, NEW p, Supplied(r, tags, s, version, p)
  PROVE  Supplied(r2, tags, s, version, p)
<1>1. CASE r2.out = r.out
  BY <1>1, Zenon DEF Supplied
<1>2. ASSUME NEW x \in Output, r2.out = Append(r.out, x)
      PROVE  Supplied(r2, tags, s, version, p)
  <2>1. \A i \in DOMAIN r.out : i \in DOMAIN r2.out /\ r2.out[i] = r.out[i]
    BY <1>2, AppendOut
  <2> QED BY <2>1, Zenon DEF Supplied
<1> QED BY <1>1, <1>2, Zenon

\* What is supplied before a place is supplied before a later one, and a longer channel
\* supplies it as well.
LEMMA SuppliedLater ==
  ASSUME NEW r \in Viewer, NEW tags \in Seq(Tag), NEW tag \in Tag, NEW s, NEW version,
         NEW p \in Nat, NEW p2 \in Nat, p <= p2, p <= Len(tags) + 1,
         Supplied(r, tags, s, version, p)
  PROVE  Supplied(r, Append(tags, tag), s, version, p2)
<1>1. r.next \in Nat \ {0} /\ Len(tags) \in Nat
  BY DEF Viewer
<1>2. \A q \in r.next .. p - 1 : q \in r.next .. p2 - 1 /\ q \in 1 .. Len(tags)
  BY <1>1
<1>3. \A q \in 1 .. Len(tags) : Append(tags, tag)[q] = tags[q]
  OBVIOUS
<1> QED BY <1>2, <1>3, Zenon DEF Supplied

\* A header that was to come has come, or is still to come, once the next tag is received.
LEMMA ReceiveSupplies ==
  ASSUME NEW r \in Viewer, NEW r2 \in Viewer, NEW tags \in Seq(Tag), Receives(r, tags, r2),
         ~r.waiting, NEW s, NEW version, NEW p \in Nat, Supplied(r, tags, s, version, p)
  PROVE  Supplied(r2, tags, s, version, p)
<1> DEFINE x == [pos |-> r.next, tag |-> tags[r.next]]
<1>1. r.next \in Nat \ {0} /\ r.next <= Len(tags) /\ r2.next = r.next + 1
  BY Zenon DEF Receives, Viewer
<1>2. tags[r.next] \in Tag
  BY <1>1
<1>3. x \in Output /\ x.tag = tags[r.next]
  BY <1>1, <1>2, Zenon DEF Output
<1>4. r2.out = Append(r.out, x)
  BY Zenon DEF Receives
<1> HIDE DEF x
<1>5. /\ \A i \in DOMAIN r.out : i \in DOMAIN r2.out /\ r2.out[i] = r.out[i]
      /\ \E i \in DOMAIN r2.out : r2.out[i] = x
  <2>1. /\ DOMAIN r.out = 1 .. Len(r.out) /\ Len(r.out) \in Nat
        /\ DOMAIN r2.out = 1 .. Len(r.out) + 1
        /\ \A i \in 1 .. Len(r.out) : r2.out[i] = r.out[i]
        /\ r2.out[Len(r.out) + 1] = x
    BY <1>3, <1>4, AppendOut
  <2> QED BY <2>1
<1>6. \A q \in r.next .. p - 1 : q = r.next \/ q \in r2.next .. p - 1
  BY <1>1
<1> QED BY <1>3, <1>5, <1>6, Zenon DEF Supplied

\* One more tag is sent to the viewer: a header, or a frame whose header it has.
LEMMA AppendHeaderFirst ==
  ASSUME NEW r \in Viewer, NEW r2 \in Viewer, NEW x \in Output, r2.out = Append(r.out, x),
         r2.lagged = r.lagged, HeaderFirst(r),
         \/ x.tag.kind \in Headers
         \/ ~(x.tag.version > 0)
         \/ \E i \in DOMAIN r.out : Serves(r.out[i].tag, Slot(x.tag.kind), x.tag.version)
  PROVE  HeaderFirst(r2)
<1>1. /\ DOMAIN r.out = 1 .. Len(r.out) /\ Len(r.out) \in Nat
      /\ DOMAIN r2.out = 1 .. Len(r.out) + 1
      /\ \A i \in 1 .. Len(r.out) : r2.out[i] = r.out[i]
      /\ r2.out[Len(r.out) + 1] = x
  BY AppendOut, Zenon
<1> SUFFICES ASSUME ~r.lagged, NEW i \in DOMAIN r2.out,
                    r2.out[i].tag.kind \notin Headers, r2.out[i].tag.version > 0
             PROVE  \E j \in 1 .. i - 1 :
                      Serves(r2.out[j].tag, Slot(r2.out[i].tag.kind), r2.out[i].tag.version)
  BY Zenon DEF HeaderFirst
<1>2. CASE i \in 1 .. Len(r.out)
  <2>1. PICK j \in 1 .. i - 1 :
               Serves(r.out[j].tag, Slot(r.out[i].tag.kind), r.out[i].tag.version)
    BY <1>1, <1>2, Zenon DEF HeaderFirst
  <2>2. r2.out[j] = r.out[j] /\ r2.out[i] = r.out[i]
    BY <1>1, <1>2
  <2> QED BY <2>1, <2>2, Zenon
<1>3. CASE i = Len(r.out) + 1
  <2>1. r2.out[i] = x
    BY <1>1, <1>3, Zenon
  <2>2. PICK j \in DOMAIN r.out : Serves(r.out[j].tag, Slot(x.tag.kind), x.tag.version)
    BY <2>1, Zenon
  <2>3. j \in 1 .. i - 1 /\ r2.out[j] = r.out[j]
    BY <1>1, <1>3
  <2> QED BY <2>1, <2>2, <2>3, Zenon
<1> QED BY <1>1, <1>2, <1>3

\* The receive loop: a frame that is received finds its header sent.
LEMMA ReceiveKeepsHeaders ==
  ASSUME NEW r \in Viewer, NEW r2 \in Viewer, NEW tags \in Seq(Tag), Receives(r, tags, r2),
         r.pc \in Plays, ~r.lagged, ~r.waiting, HeaderFirst(r), HeadersQueued(r, tags)
  PROVE  HeaderFirst(r2) /\ HeadersQueued(r2, tags)
<1> DEFINE tag == tags[r.next]
           x == [pos |-> r.next, tag |-> tag]
<1>1. /\ r.next \in Nat \ {0} /\ r.next <= Len(tags) /\ r2.next = r.next + 1
      /\ r2.lagged = r.lagged /\ r2.pc = r.pc /\ Len(tags) \in Nat
  BY DEF Receives, Viewer
<1>2. tag \in Tag
  BY <1>1
<1>3. x \in Output /\ x.tag = tag
  BY <1>1, <1>2, Zenon DEF Output
<1>4. r2.out = Append(r.out, x)
  BY Zenon DEF Receives
<1>5. \/ tag.kind \in Headers
      \/ ~(tag.version > 0)
      \/ \E i \in DOMAIN r.out : Serves(r.out[i].tag, Slot(tag.kind), tag.version)
  <2> SUFFICES ASSUME tag.kind \notin Headers, tag.version > 0
               PROVE  \E i \in DOMAIN r.out : Serves(r.out[i].tag, Slot(tag.kind), tag.version)
    BY Zenon
  <2>1. Slot(tag.kind) \in SlotsRead(r) /\ r.next \in r.next .. Len(tags)
    BY <1>1 DEF SlotsRead, Slot, Slots
  <2>2. Supplied(r, tags, Slot(tag.kind), tag.version, r.next)
    BY <2>1, Zenon DEF HeadersQueued
  <2>3. r.next .. r.next - 1 = {}
    BY <1>1
  <2> QED BY <2>2, <2>3, Zenon DEF Supplied
<1> HIDE DEF x, tag
<1>6. HeaderFirst(r2)
  BY <1>1, <1>3, <1>4, <1>5, AppendHeaderFirst, Zenon
<1>7. HeadersQueued(r2, tags)
  <2> SUFFICES ASSUME NEW s \in SlotsRead(r2), NEW p \in r2.next .. Len(tags),
                      tags[p].kind \notin Headers, tags[p].version > 0, Slot(tags[p].kind) = s
               PROVE  Supplied(r2, tags, s, tags[p].version, p)
    BY Zenon DEF HeadersQueued
  <2>1. s \in SlotsRead(r) /\ p \in r.next .. Len(tags) /\ p \in Nat
    BY <1>1 DEF SlotsRead
  <2>2. Supplied(r, tags, s, tags[p].version, p)
    BY <2>1, Zenon DEF HeadersQueued
  <2> QED BY <2>1, <2>2, ReceiveSupplies, Zenon
<1> QED BY <1>6, <1>7, Zenon

\* FlvEgressHub::subscribe reads the cache after it has taken its receiver: what it reads
\* serves every frame that comes, until the next header.
LEMMA ReadKeepsHeaders ==
  ASSUME EgressTypes, SourceInv, HeaderInv, NEW v \in Viewers, NEW r2 \in Viewer,
         NEW slot \in Slots, ReadsCache(viewer[v], slot, r2)
  PROVE  /\ HeaderFirst(r2) /\ HeadersQueued(r2, sent[r2.ch])
         /\ r2.ch = channel => HeadersComing(r2, sent[channel], pipe[session.id])
<1> DEFINE r == viewer[v]
           tags == sent[channel]
           b == pipe[session.id]
           tag == cache[channel][slot]
           x == [pos |-> 0, tag |-> tag]
<1>1. /\ r \in Viewer /\ Placed(r, sent) /\ HeaderFirst(r) /\ r.pc \in {"joining", "reading"}
      /\ HeadersQueued(r, sent[r.ch])
      /\ r.ch = channel /\ channel # 0 => HeadersComing(r, sent[channel], pipe[session.id])
  BY Zenon DEF EgressTypes, ViewerTypes, HeaderInv, ReadsCache
<1>2. r.ch = channel /\ channel \in SessionIds /\ channel # 0
  BY <1>1 DEF SourceInv, OwnChannel, Placed, Subscribed, SessionIds
<1>3. tags \in Seq(Tag) /\ Len(tags) \in Nat /\ b.version \in [Slots -> Nat]
  BY <1>2 DEF SourceInv, OwnChannel, EgressTypes, PipeTypes, Pipe
<1>4. /\ r2.ch = channel /\ r2.next = r.next /\ r2.lagged = r.lagged
      /\ r2.next \in Nat \ {0}
      /\ SlotsRead(r2) = SlotsRead(r) \cup {slot}
  <2>1. SlotsRead(r2) = SlotsRead(r) \cup {slot}
    BY Zenon DEF ReadsCache, SlotsRead, Slots, Plays
  <2> QED BY <1>2, <2>1, Zenon DEF ReadsCache, SamePlace, Viewer
<1>5. \/ tag = NoTag /\ r2.out = r.out
      \/ tag # NoTag /\ r2.out = Append(r.out, x)
  BY <1>2, Zenon DEF ReadsCache
<1>6. /\ tag = NoTag => b.version[slot] = 0
      /\ tag # NoTag =>
           tag.version = b.version[slot] /\ tag.kind \in Headers /\ Slot(tag.kind) = slot
      /\ \A i \in DOMAIN tags : Slot(tags[i].kind) = slot => tags[i].version <= b.version[slot]
  BY <1>2, Zenon DEF SourceInv, CacheCurrent
<1>7. tag # NoTag => x \in Output
  <2>1. tag \in Tag \cup {NoTag}
    BY <1>2, Zenon DEF EgressTypes, PipeTypes
  <2> QED BY <2>1, Zenon DEF Output
<1>8. x.tag = tag
  BY Zenon
<1>9. \A i \in DOMAIN tags : tags[i].version \in Nat
  <2>1. \A i \in DOMAIN tags : tags[i] \in Tag
    BY <1>3
  <2> QED BY <2>1, Zenon DEF Tag
<1> HIDE DEF r, tags, b, tag, x
<1>10. HeaderFirst(r2)
  <2>1. CASE r2.out = r.out
    BY <1>1, <1>4, <2>1, Zenon DEF HeaderFirst
  <2>2. CASE tag # NoTag /\ r2.out = Append(r.out, x)
    BY <1>1, <1>4, <1>6, <1>7, <1>8, <2>2, AppendHeaderFirst, Zenon
  <2> QED BY <1>5, <2>1, <2>2, Zenon
<1>11. r2.out = r.out \/ \E y \in Output : r2.out = Append(r.out, y)
  BY <1>5, <1>7, Zenon
<1>12. ASSUME NEW version \in Nat, version > 0, version <= b.version[slot], NEW p
       PROVE  Supplied(r2, tags, slot, version, p)
  <2>1. tag # NoTag
    BY <1>3, <1>6, <1>12
  <2>2. Serves(x.tag, slot, version)
    BY <1>6, <1>8, <1>12, <2>1, Zenon DEF Serves
  <2>3. \E i \in DOMAIN r2.out : r2.out[i] = x
    <3>1. r2.out = Append(r.out, x) /\ x \in Output
      BY <1>5, <1>7, <2>1, Zenon
    <3>2. /\ Len(r.out) \in Nat /\ DOMAIN r2.out = 1 .. Len(r.out) + 1
          /\ r2.out[Len(r.out) + 1] = x
      BY <1>1, <3>1, AppendOut
    <3> QED BY <3>2
  <2> QED BY <2>2, <2>3, Zenon DEF Supplied
<1>13. HeadersQueued(r2, tags)
  <2> SUFFICES ASSUME ~r2.lagged, NEW s \in SlotsRead(r2), NEW p \in r2.next .. Len(tags),
                      tags[p].kind \notin Headers, tags[p].version > 0, Slot(tags[p].kind) = s
               PROVE  Supplied(r2, tags, s, tags[p].version, p)
    BY Zenon DEF HeadersQueued
  <2>1. CASE s = slot
    <3>1. p \in DOMAIN tags
      BY <1>3, <1>4
    <3> QED BY <1>6, <1>9, <1>12, <2>1, <3>1, ZenonT(30)
  <2>2. CASE s \in SlotsRead(r)
    <3>1. Supplied(r, tags, s, tags[p].version, p)
      BY <1>1, <1>2, <1>4, <2>2, Zenon DEF HeadersQueued, tags
    <3> QED BY <1>1, <1>4, <1>11, <3>1, SuppliedStays, Zenon
  <2> QED BY <1>4, <2>1, <2>2, Zenon
<1>14. HeadersComing(r2, tags, b)
  <2> SUFFICES ASSUME ~r2.lagged, NEW s \in SlotsRead(r2), b.version[s] > 0
               PROVE  \/ Supplied(r2, tags, s, b.version[s], Len(tags) + 1)
                      \/ b.pc = "sending" /\ Serves(b.tag, s, b.version[s])
    BY Zenon DEF HeadersComing
  <2>1. CASE s = slot
    BY <1>3, <1>12, <2>1
  <2>2. CASE s \in SlotsRead(r)
    <3>1. \/ Supplied(r, tags, s, b.version[s], Len(tags) + 1)
          \/ b.pc = "sending" /\ Serves(b.tag, s, b.version[s])
      BY <1>1, <1>2, <1>4, <2>2, Zenon DEF HeadersComing, tags, b
    <3> QED BY <1>1, <1>4, <1>11, <3>1, SuppliedStays, Zenon
  <2> QED BY <1>4, <2>1, <2>2, Zenon
<1> QED BY <1>4, <1>10, <1>13, <1>14, Zenon DEF tags, b

\* Whichever way a viewer moves.
LEMMA MovesKeepHeaders ==
  ASSUME EgressTypes, SourceInv, HeaderInv, NEW v \in Viewers, NEW r2 \in Viewer,
         Moves(viewer[v], r2)
  PROVE  /\ HeaderFirst(r2) /\ HeadersQueued(r2, sent[r2.ch])
         /\ r2.ch = channel /\ channel # 0 => HeadersComing(r2, sent[channel], pipe[session.id])
<1> DEFINE r == viewer[v]
<1>1. /\ r \in Viewer /\ Placed(r, sent) /\ HeaderFirst(r) /\ HeadersQueued(r, sent[r.ch])
      /\ r.ch = channel /\ channel # 0 => HeadersComing(r, sent[channel], pipe[session.id])
  BY Zenon DEF EgressTypes, ViewerTypes, HeaderInv
<1> HIDE DEF r
<1>2. CASE r2 = Away \/ Asks(r, r2) \/ Joins(r, r2)
  <2>1. SlotsRead(r2) = {}
    BY <1>2 DEF Away, Asks, Joins, SlotsRead, Plays
  <2>2. HeaderFirst(r2)
    <3>1. CASE r2 = Away
      BY <3>1 DEF Away, HeaderFirst
    <3>2. CASE r2.out = r.out /\ r2.lagged = r.lagged
      BY <1>1, <3>2, Zenon DEF HeaderFirst
    <3> QED BY <1>2, <3>1, <3>2, Zenon DEF Asks, Joins
  <2> QED BY <2>1, <2>2, Zenon DEF HeadersQueued, HeadersComing
<1>3. CASE r2.lagged
  BY <1>3, Zenon DEF HeaderFirst, HeadersQueued, HeadersComing
<1>4. CASE Finishes(r, r2)
  <2>1. /\ r2.out = r.out /\ r2.ch = r.ch /\ r2.next = r.next /\ r2.lagged = r.lagged
        /\ SlotsRead(r2) = SlotsRead(r)
    BY <1>4, Zenon DEF Finishes, SamePlace, SlotsRead, Plays
  <2> QED BY <1>1, <2>1, Zenon DEF HeaderFirst, HeadersQueued, HeadersComing, Supplied
<1>5. CASE \E slot \in Slots : ReadsCache(r, slot, r2)
  BY <1>5, ReadKeepsHeaders, Zenon DEF r
<1>6. CASE r.pc \in Plays /\ Receives(r, sent[r.ch], r2) /\ ~r2.lagged
  <2>1. /\ r2.ch = r.ch /\ r2.pc = r.pc /\ ~r.lagged /\ ~r.waiting
        /\ sent[r.ch] \in Seq(Tag) /\ Len(sent[r.ch]) + 1 \in Nat
    BY <1>1, <1>6 DEF Receives, Placed, Plays, Subscribed, EgressTypes
  <2>2. HeaderFirst(r2) /\ HeadersQueued(r2, sent[r2.ch])
    BY <1>1, <1>6, <2>1, ReceiveKeepsHeaders, Zenon
  <2>3. ASSUME r2.ch = channel, channel # 0
        PROVE  HeadersComing(r2, sent[channel], pipe[session.id])
    <3> SUFFICES ASSUME NEW s \in SlotsRead(r2), pipe[session.id].version[s] > 0
                 PROVE  \/ Supplied(r2, sent[channel], s, pipe[session.id].version[s],
                                    Len(sent[channel]) + 1)
                        \/ /\ pipe[session.id].pc = "sending"
                           /\ Serves(pipe[session.id].tag, s, pipe[session.id].version[s])
      BY Zenon DEF HeadersComing
    <3>1. s \in SlotsRead(r)
      BY <2>1, Zenon DEF SlotsRead
    <3>2. \/ Supplied(r, sent[channel], s, pipe[session.id].version[s], Len(sent[channel]) + 1)
          \/ /\ pipe[session.id].pc = "sending"
             /\ Serves(pipe[session.id].tag, s, pipe[session.id].version[s])
      BY <1>1, <2>1, <2>3, <3>1, Zenon DEF HeadersComing
    <3> QED BY <1>1, <1>6, <2>1, <2>3, <3>2, ReceiveSupplies, Zenon
  <2> QED BY <2>2, <2>3, Zenon
<1>7. Lags(r, r2) => r2.lagged
  BY Zenon DEF Lags
<1> QED BY <1>2, <1>3, <1>4, <1>5, <1>6, <1>7, ZenonT(30) DEF Moves, r

\* sender.send: what was still to be sent is now in the channel.
LEMMA SendKeepsHeaders ==
  ASSUME EgressTypes, SourceInv, HeaderInv, NEW n \in SessionIds, NEW b \in Pipe, Sends(n, b)
  PROVE  HeaderInv'
<1> DEFINE c == channel
           tags == sent[c]
           tag == pipe[n].tag
           tags2 == Append(tags, tag)
<1>1. /\ pipe[n].pc = "sending" /\ b.pc = "idle" /\ b.version = pipe[n].version
      /\ pipe' = [pipe EXCEPT ![n] = b] /\ UNCHANGED <<session, channel, viewer>>
      /\ c \in SessionIds
      /\ sent' = [sent EXCEPT ![c] = Append(sent[c], tag)]
  BY Zenon DEF Sends
<1>2. n = session.id /\ c # 0
  BY <1>1 DEF SourceInv, OwnChannel, SessionIds
<1>3. tag \in Tag /\ tag.version = pipe[n].version[Slot(tag.kind)]
  BY <1>1, Zenon DEF SourceInv, TagCurrent, EgressTypes, PipeTypes
<1>4. /\ pipe'[n] = b /\ sent'[c] = tags2 /\ tags \in Seq(Tag) /\ Len(tags) \in Nat
      /\ \A m \in SessionIds : m # c => sent'[m] = sent[m]
  BY <1>1, <1>2 DEF EgressTypes, PipeTypes
<1>5. /\ Len(tags2) = Len(tags) + 1 /\ tags2[Len(tags) + 1] = tag
      /\ \A i \in 1 .. Len(tags) : tags2[i] = tags[i]
  BY <1>3, <1>4
<1> HIDE DEF tags2
<1> SUFFICES ASSUME NEW v \in Viewers
             PROVE  LET r == viewer[v] IN
                      /\ HeaderFirst(r) /\ HeadersQueued(r, sent'[r.ch])
                      /\ r.ch = c => HeadersComing(r, tags2, b)
  BY <1>1, <1>2, <1>4, Zenon DEF HeaderInv
<1> DEFINE r == viewer[v]
<1>6. /\ r \in Viewer /\ Placed(r, sent) /\ HeaderFirst(r) /\ HeadersQueued(r, sent[r.ch])
      /\ r.ch = c => HeadersComing(r, tags, pipe[n])
      /\ r.next \in Nat \ {0}
  BY <1>2, Zenon DEF EgressTypes, ViewerTypes, HeaderInv, Viewer
<1> HIDE DEF r, tag, tags, c
<1>7. CASE SlotsRead(r) = {}
  BY <1>6, <1>7, Zenon DEF HeadersQueued, HeadersComing, r
<1>8. CASE SlotsRead(r) # {} /\ r.ch # c
  <2>1. r.ch \in SessionIds
    BY <1>6, <1>8, Zenon DEF SlotsRead, Placed, Subscribed, Plays
  <2>2. sent'[r.ch] = sent[r.ch]
    BY <1>4, <1>8, <2>1, Zenon
  <2> QED BY <1>6, <1>8, <2>2, Zenon DEF r
<1>9. CASE SlotsRead(r) # {} /\ r.ch = c
  <2>1. r.next <= Len(tags) + 1
    BY <1>6, <1>9, Zenon DEF SlotsRead, Placed, Subscribed, Plays, tags
  <2>2. HeadersQueued(r, tags) /\ HeadersComing(r, tags, pipe[n])
    BY <1>6, <1>9, Zenon DEF tags
  <2>3. HeadersQueued(r, tags2)
    <3> SUFFICES ASSUME ~r.lagged, NEW s \in SlotsRead(r), NEW p \in r.next .. Len(tags2),
                        tags2[p].kind \notin Headers, tags2[p].version > 0, Slot(tags2[p].kind) = s
                 PROVE  Supplied(r, tags2, s, tags2[p].version, p)
      BY Zenon DEF HeadersQueued
    <3>1. CASE p <= Len(tags)
      <4>1. p \in r.next .. Len(tags) /\ tags2[p] = tags[p] /\ p \in Nat /\ p <= Len(tags) + 1
        BY <1>4, <1>5, <1>6, <3>1
      <4>2. Supplied(r, tags, s, tags[p].version, p)
        BY <2>2, <4>1, Zenon DEF HeadersQueued
      <4> QED BY <1>3, <1>4, <1>6, <4>1, <4>2, SuppliedLater, SMTT(20) DEF tags2
    <3>2. CASE p = Len(tags) + 1
      <4>1. tags2[p] = tag /\ tag.version = pipe[n].version[s] /\ pipe[n].version[s] > 0
        BY <1>3, <1>5, <3>2, Zenon DEF tag
      <4>2. ~Serves(pipe[n].tag, s, pipe[n].version[s])
        BY <4>1, Zenon DEF Serves, tag
      <4>3. Supplied(r, tags, s, tag.version, Len(tags) + 1)
        BY <2>2, <4>1, <4>2, Zenon DEF HeadersComing
      <4>4. Len(tags) + 1 \in Nat /\ Len(tags) + 1 <= Len(tags) + 1
        BY <1>4
      <4> QED BY <1>3, <1>4, <1>6, <3>2, <4>1, <4>3, <4>4, SuppliedLater, ZenonT(30) DEF tags2
    <3> QED BY <1>4, <1>5, <1>6, <3>1, <3>2
  <2>4. HeadersComing(r, tags2, b)
    <3> SUFFICES ASSUME ~r.lagged, NEW s \in SlotsRead(r), pipe[n].version[s] > 0
                 PROVE  Supplied(r, tags2, s, pipe[n].version[s], Len(tags2) + 1)
      BY <1>1, Zenon DEF HeadersComing
    <3>1. CASE Supplied(r, tags, s, pipe[n].version[s], Len(tags) + 1)
      <4>1. /\ Len(tags) + 1 \in Nat /\ Len(tags2) + 1 \in Nat
            /\ Len(tags) + 1 <= Len(tags) + 1 /\ Len(tags) + 1 <= Len(tags2) + 1
        BY <1>4, <1>5
      <4> QED BY <1>3, <1>4, <1>6, <3>1, <4>1, SuppliedLater, Zenon DEF tags2
    <3>2. CASE Serves(tag, s, pipe[n].version[s])
      <4>1. Len(tags) + 1 \in r.next .. (Len(tags2) + 1) - 1
        BY <1>4, <1>5, <1>6, <2>1
      <4> QED BY <1>5, <3>2, <4>1, Zenon DEF Supplied
    <3> QED BY <2>2, <3>1, <3>2, Zenon DEF HeadersComing, tag
  <2> QED BY <1>4, <1>6, <1>9, <2>3, <2>4, Zenon DEF r
<1> QED BY <1>7, <1>8, <1>9, Zenon

\* Steps that leave channels and viewers alone: it is enough that the pipeline of the channel
\* goes on with headers that are supplied.
LEMMA OthersKeepHeaders ==
  ASSUME EgressTypes, HeaderInv, sent' = sent, viewer' = viewer,
         \A v \in Viewers : viewer[v].ch = channel' /\ channel' # 0 =>
           HeadersComing(viewer[v], sent[channel'], pipe'[session'.id])
  PROVE  HeaderInv'
BY Zenon DEF HeaderInv

\* cache_seq_header: a viewer that has read the cache gets the new header from the channel.
LEMMA CacheKeepsHeaders ==
  ASSUME EgressTypes, SourceInv, HeaderInv, NEW n \in SessionIds, NEW kind \in Kinds,
         NEW b \in Pipe, CachesFirst(n, kind, b)
  PROVE  HeaderInv'
<1> DEFINE tag == NextTag(n, kind)
<1>1. /\ pipe[n].pc = "idle" /\ channel \in SessionIds
      /\ b.pc = "sending" /\ b.tag = tag /\ pipe' = [pipe EXCEPT ![n] = b]
      /\ UNCHANGED <<session, channel, sent, viewer>>
  BY Zenon DEF CachesFirst
<1>2. /\ tag.version \in Nat /\ b.version[Slot(kind)] = tag.version
      /\ \A s \in Slots : /\ s # Slot(kind) => b.version[s] = pipe[n].version[s]
                          /\ kind \notin Headers => b.version[s] = pipe[n].version[s]
  <2>1. b.version = [pipe[n].version EXCEPT ![Slot(kind)] = NextTag(n, kind).version]
    BY Zenon DEF CachesFirst
  <2>2. /\ NextTag(n, kind).version \in Nat /\ Slot(kind) \in Slots
        /\ kind \in Headers => NextTag(n, kind).version > 0
        /\ b.version[Slot(kind)] = NextTag(n, kind).version
        /\ \A s \in Slots : /\ b.version[s] >= pipe[n].version[s]
                            /\ s # Slot(kind) => b.version[s] = pipe[n].version[s]
                            /\ kind \notin Headers => b.version[s] = pipe[n].version[s]
    BY <2>1, MadeVersions, Zenon
  <2> QED BY <2>2, Zenon
<1>3. tag.kind = kind
  BY Zenon DEF NextTag
<1>4. n = session.id /\ channel # 0 /\ pipe'[session.id] = b
  <2>1. n = session.id /\ channel # 0
    BY <1>1 DEF SourceInv, OwnChannel, SessionIds
  <2> QED BY <1>1, <2>1, Zenon DEF EgressTypes, PipeTypes
<1> HIDE DEF tag
<1>5. ASSUME NEW v \in Viewers, viewer[v].ch = channel
      PROVE  HeadersComing(viewer[v], sent[channel], b)
  <2> DEFINE r == viewer[v]
  <2>1. HeadersComing(r, sent[channel], pipe[n])
    BY <1>4, <1>5, Zenon DEF HeaderInv
  <2> HIDE DEF r
  <2> SUFFICES ASSUME ~r.lagged, NEW s \in SlotsRead(r), b.version[s] > 0
               PROVE  \/ Supplied(r, sent[channel], s, b.version[s], Len(sent[channel]) + 1)
                      \/ b.pc = "sending" /\ Serves(b.tag, s, b.version[s])
    BY Zenon DEF HeadersComing, r
  <2>2. s \in Slots
    BY Zenon DEF SlotsRead
  <2>3. CASE kind \in Headers /\ s = Slot(kind)
    BY <1>1, <1>2, <1>3, <2>3 DEF Serves
  <2>4. CASE b.version[s] = pipe[n].version[s]
    BY <1>1, <2>1, <2>4, Zenon DEF HeadersComing
  <2> QED BY <1>2, <2>2, <2>3, <2>4, Zenon
<1> QED BY <1>1, <1>4, <1>5, OthersKeepHeaders, Zenon

\* The pipeline's end: it makes no more tags.
LEMMA StopKeepsHeaders ==
  ASSUME EgressTypes, SourceInv, HeaderInv, NEW n \in SessionIds, NEW b \in Pipe, Stops(n, b)
  PROVE  HeaderInv'
<1>1. /\ pipe[n].pc = "idle" /\ pipe' = [pipe EXCEPT ![n] = b] /\ b.version = pipe[n].version
      /\ UNCHANGED <<session, channel, sent, viewer>>
  BY Zenon DEF Stops
<1>2. n = session.id /\ pipe'[n] = b
  BY <1>1, Zenon DEF SourceInv, OwnChannel, EgressTypes, PipeTypes
<1>3. ASSUME NEW v \in Viewers, viewer[v].ch = channel, channel # 0
      PROVE  HeadersComing(viewer[v], sent[channel], b)
  <2>1. HeadersComing(viewer[v], sent[channel], pipe[n])
    BY <1>2, <1>3, Zenon DEF HeaderInv
  <2> QED BY <1>1, <2>1, Zenon DEF HeadersComing
<1> QED BY <1>1, <1>2, <1>3, OthersKeepHeaders, Zenon

\* The session's steps: a new session's pipeline has made no header, and a pipeline that
\* starts is in the middle of nothing.
LEMMA SessionKeepsHeaders ==
  ASSUME EgressTypes, SourceInv, HeaderInv, SessionStep
  PROVE  HeaderInv'
<1>1. /\ sent' = sent /\ viewer' = viewer
      /\ \A n \in SessionIds : /\ pipe'[n].version = pipe[n].version
                               /\ n # session.id \/ session.state # "Pending" => pipe'[n] = pipe[n]
      /\ \/ session'.id = session.id /\ channel' \in {channel, 0}
         \/ session'.id = session.id + 1
  BY SessionKeepsVersions, Zenon
<1>2. session.id \in Nat /\ session'.id \in 0 .. MaxSessions
  <2>1. EgressTypes'
    BY SessionKeepsTypes, Zenon
  <2> QED BY <2>1, FlvEgressAssumption DEF EgressTypes, SessionTypes
<1>3. ASSUME NEW v \in Viewers, viewer[v].ch = channel', channel' # 0
      PROVE  HeadersComing(viewer[v], sent[channel'], pipe'[session'.id])
  <2>1. CASE session'.id = session.id /\ channel' \in {channel, 0}
    <3> DEFINE n == session.id
    <3>1. n \in SessionIds /\ HeadersComing(viewer[v], sent[channel], pipe[n])
      BY <1>3, <2>1, Zenon DEF HeaderInv, SourceInv, OwnChannel
    <3>2. pipe'[n].version = pipe[n].version
      BY <1>1, <3>1, Zenon
    <3>3. pipe[n].pc = "sending" => pipe'[n] = pipe[n]
      <4>1. pipe[n].pc = "sending" => session.state # "Pending"
        BY <3>1, Zenon DEF SourceInv, OwnChannel
      <4> QED BY <1>1, <3>1, <4>1, Zenon
    <3> QED BY <1>3, <2>1, <3>1, <3>2, <3>3, Zenon DEF HeadersComing
  <2>2. CASE session'.id = session.id + 1
    <3>1. session'.id \in SessionIds /\ session'.id > session.id
      BY <1>2, <2>2 DEF SessionIds
    <3>2. \A s \in Slots : pipe'[session'.id].version[s] = 0
      BY <1>1, <3>1, Zenon DEF SourceInv, NothingYet
    <3>3. \A s \in SlotsRead(viewer[v]) : ~(pipe'[session'.id].version[s] > 0)
      BY <3>2 DEF SlotsRead
    <3> QED BY <3>3, Zenon DEF HeadersComing
  <2> QED BY <1>1, <2>1, <2>2, Zenon
<1> QED BY <1>1, <1>3, OthersKeepHeaders, Zenon

\* Every step keeps the viewers' headers coming.
LEMMA NextKeepsHeaders ==
  ASSUME EgressTypes, SourceInv, HeaderInv, [Next]_vars
  PROVE  HeaderInv'
<1>1. CASE SessionStep
  BY <1>1, SessionKeepsHeaders, Zenon
<1>2. ASSUME NEW n \in SessionIds, PipeStep(n) PROVE HeaderInv'
  <2>1. CASE BroadcastCache(n)
    BY <2>1, BroadcastCaches, CacheKeepsHeaders, Zenon
  <2>2. CASE BroadcastSend(n)
    BY <2>2, BroadcastSends, SendKeepsHeaders, Zenon
  <2>3. CASE PipelineStops(n)
    BY <2>3, PipelineEnds, StopKeepsHeaders, Zenon
  <2> QED BY <1>2, <2>1, <2>2, <2>3, Zenon DEF PipeStep, Broadcast
<1>3. ASSUME NEW v \in Viewers,
             \/ RequestHttp(v) \/ RequestRtmp(v) \/ PlayFinished(v) \/ Disconnects(v)
             \/ ViewerStep(v)
      PROVE  HeaderInv'
  <2>1. ViewerMoves(v)
    BY <1>3, ViewersMove, Zenon
  <2>2. PICK r2 \in Viewer : viewer' = [viewer EXCEPT ![v] = r2] /\ Moves(viewer[v], r2)
    BY <2>1, Zenon DEF ViewerMoves
  <2>3. /\ HeaderFirst(r2) /\ HeadersQueued(r2, sent[r2.ch])
        /\ r2.ch = channel /\ channel # 0 => HeadersComing(r2, sent[channel], pipe[session.id])
    BY <2>2, MovesKeepHeaders, Zenon
  <2>4. /\ sent' = sent /\ channel' = channel /\ session' = session /\ pipe' = pipe
        /\ \A w \in Viewers : viewer'[w] = viewer[w] \/ viewer'[w] = r2
    BY <2>1, <2>2, Zenon DEF ViewerMoves, EgressTypes, ViewerTypes
  <2> QED BY <2>3, <2>4, Zenon DEF HeaderInv
<1>4. CASE UNCHANGED vars
  BY <1>4, Zenon DEF vars, HeaderInv
<1> QED BY <1>1, <1>2, <1>3, <1>4, Zenon DEF Next

\* A viewer that has not lagged is never sent a frame before the sequence header it needs,
\* when the pipeline watches the session's token: wherever in a broadcast it subscribes, the
\* header is in the cache that it reads or in the channel from its place on.
THEOREM HeadersComeFirst ==
  ASSUME PipelineWatchesSession
  PROVE  Spec => []HeaderBeforeFrame
<1>1. Init => EgressTypes /\ WatchInv
  <2> SUFFICES ASSUME Init PROVE HeaderInv
    BY InitTypes, InitSource, Zenon DEF WatchInv
  <2>1. \A v \in Viewers : viewer[v] = Away
    BY Zenon DEF Init
  <2>2. SlotsRead(Away) = {} /\ DOMAIN Away.out = {}
    BY DEF Away, SlotsRead, Plays
  <2> QED BY <2>1, <2>2, Zenon DEF HeaderInv, HeaderFirst, HeadersQueued, HeadersComing
<1>2. EgressTypes /\ WatchInv /\ [Next]_vars => EgressTypes' /\ WatchInv'
  BY NextKeepsTypes, NextKeepsSource, NextKeepsHeaders, Zenon DEF WatchInv
<1>3. WatchInv => HeaderBeforeFrame
  <2> SUFFICES ASSUME WatchInv, NEW v \in Viewers, ~viewer[v].lagged,
                      NEW i \in DOMAIN viewer[v].out,
                      viewer[v].out[i].tag.kind \notin Headers,
                      viewer[v].out[i].tag.version > 0
               PROVE  \E j \in 1 .. i - 1 :
                        LET header == viewer[v].out[j].tag
                        IN  /\ header.kind \in Headers
                            /\ Slot(header.kind) = Slot(viewer[v].out[i].tag.kind)
                            /\ header.version >= viewer[v].out[i].tag.version
    BY Zenon DEF HeaderBeforeFrame
  <2>1. HeaderFirst(viewer[v])
    BY Zenon DEF WatchInv, HeaderInv
  <2> QED BY <2>1, Zenon DEF HeaderFirst, Serves
<1> QED BY <1>1, <1>2, <1>3, PTL DEF Spec
=============================================================================
