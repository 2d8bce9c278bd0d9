-------------------------------- MODULE FlvFile --------------------------------
(***************************************************************************)
(* The FLV file that an HTTP-FLV viewer is sent (flv/encode.rs,            *)
(* http_flv/server.rs): the header, and a tag as bytes, with its sizes and *)
(* timestamp in fields of three and four bytes.                            *)
(*                                                                         *)
(* A byte has ByteBase values instead of 256, so that sizes and timestamps *)
(* at the edge of their fields are small numbers.  Read is the reference:  *)
(* what a reader of the FLV format makes of the bytes.  No task of the     *)
(* program makes script data tags, so there are none here.                 *)
(***************************************************************************)
EXTENDS FlvMedia

CONSTANT ByteBase     \* 256 in the code

ASSUME ByteAssumption ==
  /\ ByteBase \in Nat \ {0, 1}
  /\ MaxStamp < ByteBase * ByteBase * ByteBase * ByteBase

MaxData == ByteBase * ByteBase * ByteBase - 1      \* 0xFFFFFF

\* put_u24: the lowest three bytes of a value.
PutU24(n) == <<(n \div (ByteBase * ByteBase)) % ByteBase, (n \div ByteBase) % ByteBase,
               n % ByteBase>>
PutU32(n) == <<(n \div (ByteBase * ByteBase * ByteBase)) % ByteBase>> \o PutU24(n)

\* The payload of a tag, as mux_video and mux_audio put it together.
TagPayload(tag) ==
  LET type == IF tag.header THEN 0 ELSE 1
  IN  IF tag.media = "video"
      THEN <<(IF tag.key THEN 16 ELSE 32) + (IF tag.codec = "H264" THEN 7 ELSE 12), type>>
           \o PutU24(tag.offset) \o tag.payload
      ELSE <<175, type>> \o tag.payload

TagType(tag) == IF tag.media = "audio" THEN 8 ELSE 9

\* Mutation: no limit on the size of a payload.
EncodeTagUnchecked(tag) ==
  LET payload == TagPayload(tag)
  IN  Some(<<TagType(tag)>> \o PutU24(Len(payload))
           \o PutU24(tag.stamp) \o <<tag.stamp \div (MaxData + 1)>> \o PutU24(0)
           \o payload \o PutU32(11 + Len(payload)))

\* encode_flv_tag: a payload that DataSize cannot hold is refused.
EncodeTag(tag) ==
  LET payload == TagPayload(tag)
  IN  IF Len(payload) > MaxData THEN None
      ELSE Some(<<TagType(tag)>> \o PutU24(Len(payload))
                \o PutU24(tag.stamp) \o <<tag.stamp \div (MaxData + 1)>> \o PutU24(0)
                \o payload \o PutU32(11 + Len(payload)))

\* build_flv_header: is there a track of that kind in the cached tags?
HasTrack(cached, media) == \E i \in 1 .. Len(cached) : cached[i].media = media

\* encode_flv_header: the flags of the tracks.
EncodeHeader(cached) ==
  <<"F", "L", "V", 1, (IF HasTrack(cached, "audio") THEN 4 ELSE 0)
                        + (IF HasTrack(cached, "video") THEN 1 ELSE 0)>>
  \o PutU32(9) \o PutU32(0)

\* stream_response: header, cached tags, live tags.  A live tag that cannot be encoded ends
\* the response there, a cached one before the first tag.
EncodeFile(cached, live) ==
  LET Refused(tags) == {i \in 1 .. Len(tags) : EncodeTag(tags[i]) = None}
      Encoded(tags) == IF Refused(tags) = {} THEN tags
                       ELSE SubSeq(tags, 1, Min(Refused(tags)) - 1)
      body == IF Refused(cached) = {} THEN cached \o Encoded(live) ELSE <<>>
  IN  EncodeHeader(cached) \o FlattenSeq([i \in 1 .. Len(body) |-> EncodeTag(body[i])[1]])

-----------------------------------------------------------------------------
(* The reference *)

Number(bytes) == FoldLeft(LAMBDA n, byte : n * ByteBase + byte, 0, bytes)

\* No tag has type 0.
Broken == <<[type |-> 0, stamp |-> 0, payload |-> <<>>]>>

\* The tags in the bytes from pos on.
Read(data) ==
  LET From[pos \in 0 .. Len(data)] ==
        IF pos = Len(data) THEN <<>>
        ELSE IF pos + 15 > Len(data) THEN Broken
        ELSE LET size == Number(Slice(data, pos + 1, pos + 4))
                 end == pos + 11 + size
             IN  IF end + 4 > Len(data) \/ Number(Slice(data, end, end + 4)) # 11 + size
                 THEN Broken
                 ELSE <<[type |-> Byte(data, pos),
                         stamp |-> Number(<<Byte(data, pos + 7)>> \o Slice(data, pos + 4, pos + 7)),
                         payload |-> Slice(data, pos + 11, end)]>> \o From[end + 4]
  IN  From[13]
=============================================================================
