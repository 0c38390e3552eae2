------------------------------- MODULE Codec --------------------------------
(***************************************************************************)
(* The codecs that ship with protosocket, between the encoder at one end   *)
(* of a stream and the decoder at the other: ProstSerializer and           *)
(* ProstDecoder, MessagePackSerializer and MessagePackDecoder, raw or in a *)
(* PooledEncoder, which reuses the buffers that were written.              *)
(*                                                                         *)
(* A message stands for its size.  A byte is a tag, a digit of a length    *)
(* (one that says more digits follow, in a varint), or one of a message's  *)
(* body, known by the message and its place.                               *)
(*                                                                         *)
(* The peer at the encoder's end is protosocket's own, or a foreign one    *)
(* that sends whatever bytes it likes.                                     *)
(***************************************************************************)
EXTENDS Naturals, Sequences, SequencesExt

CONSTANTS Codecs,           \* a subset of {"prost", "messagepack"}
          Peers,            \* a subset of {"own", "foreign"}
          Messages, Known,  \* what is sent; what the receiver's type can represent
          Base,             \* of a digit: 256 in an u32, 128 in a varint
          LengthDigits,     \* digits of an u32: 4
          VarintMax,        \* digits of the longest varint: 10
          MaxPooled,        \* max_pooled
          MaxQueued,        \* max_queued_send_messages
          MaxSent,          \* bound: messages sent
          MaxForeign        \* bound: bytes of a foreign peer that wait to be decoded

(* Base ^ n *)
Power[n \in Nat] == IF n = 0 THEN 1 ELSE Base * Power[n - 1]

ASSUME CodecAssumption ==
    /\ Codecs \subseteq {"prost", "messagepack"} /\ Peers \subseteq {"own", "foreign"}
    /\ Messages \subseteq Nat /\ Known \subseteq Messages
    /\ Base \in Nat \ {0, 1} /\ LengthDigits \in Nat \ {0} /\ VarintMax \in Nat \ {0}
    /\ MaxPooled \in Nat /\ MaxQueued \in Nat \ {0} /\ MaxSent \in Nat /\ MaxForeign \in Nat
    /\ \A m \in Messages : LengthDigits + m + 2 < Power[LengthDigits] /\ VarintMax + m < Power[VarintMax]

VARIABLES
    peer,               \* whose bytes the decoder is given
    codec, pooled,      \* the codec; whether its serializer is in a PooledEncoder
    buffer_pool,        \* the buffers for reuse, with their contents
    sent,               \* history: the messages given to encode
    send_buffer,        \* encoded messages: the bytes, and how many are written
    received,           \* the bytes the decoder is given
    state,              \* of a MessagePackDecoder: Waiting is <<>>, ReadingLength(n) is <<n>>
    asked,              \* next_message_size of an IncompleteBuffer for these bytes, or 0
    decoded,            \* history: the messages decode returned
    failed              \* InvalidBuffer: the connection closes

senderVars == <<buffer_pool, sent, send_buffer>>
vars == <<peer, codec, pooled, senderVars, received, state, asked, decoded, failed>>

Byte(kind, of, place) == [kind |-> kind, of |-> of, place |-> place]
Digit(n) == Byte("digit", n, 0)
MoreDigit(n) == Byte("more", n, 0)

(* A prost body may be empty; a MessagePack value describes itself, in a byte at least. *)
BodySize(m) == IF codec = "prost" THEN m ELSE m + 1
Body(m) == [i \in 1 .. BodySize(m) |-> Byte("body", m, i)]

-----------------------------------------------------------------------------
(* Lengths on the wire. *)

Prefix == 1 + LengthDigits
U32 == Power[LengthDigits]
Usize == Power[VarintMax]

(* rmp::encode::write_u32 and read_u32: a tag, and digits from the highest on. *)
WriteU32(n) == <<Byte("tag", 0, 0)>> \o [i \in 1 .. LengthDigits |-> Digit((n \div Power[LengthDigits - i]) % Base)]
ReadU32(bytes) ==
    LET value[k \in 0 .. LengthDigits] == IF k = 0 THEN 0 ELSE value[k - 1] * Base + bytes[k + 1].of
    IN  value[LengthDigits]

(* prost::length_delimiter_len, encode_length_delimiter and decode_length_delimiter: digits *)
(* from the lowest on, as many as the number needs.                                          *)
DelimiterLen(n) == CHOOSE l \in 1 .. VarintMax : n < Power[l] /\ (l = 1 \/ Power[l - 1] <= n)
WriteVarint(n) ==
    LET l == DelimiterLen(n)
        d(i) == (n \div Power[i - 1]) % Base
    IN  [i \in 1 .. l |-> IF i < l THEN MoreDigit(d(i)) ELSE Digit(d(i))]
VarintEnds(bytes) ==
    {i \in DOMAIN bytes : i <= VarintMax /\ bytes[i].kind = "digit" /\ \A j \in 1 .. i - 1 : bytes[j].kind = "more"}
ReadVarint(bytes, end) ==
    LET value[k \in 0 .. end] == IF k = 0 THEN 0 ELSE value[k - 1] + bytes[k].of * Power[k - 1]
    IN  value[end]

-----------------------------------------------------------------------------
(* Serialize::serialize_into_buffer. *)

(* ProstSerializer appends. *)
ProstSerialize(m, buffer) == buffer \o WriteVarint(BodySize(m)) \o Body(m)

(* MessagePackSerializer reserves a prefix, appends the value, and writes the length of the  *)
(* rest over the first bytes of the buffer: it relies on a buffer that was empty.            *)
MessagePackSerialize(m, buffer) ==
    LET filled == buffer \o WriteU32(0) \o Body(m)
    IN  WriteU32((Len(filled) % U32) - Prefix) \o SubSeq(filled, Prefix + 1, Len(filled))

Serialize(m, buffer) == IF codec = "prost" THEN ProstSerialize(m, buffer) ELSE MessagePackSerialize(m, buffer)

Init ==
    /\ peer \in Peers /\ codec \in Codecs /\ pooled \in BOOLEAN
    /\ buffer_pool = <<>> /\ sent = <<>> /\ send_buffer = <<>>
    /\ received = <<>> /\ state = <<>> /\ asked = 0 /\ decoded = <<>> /\ failed = FALSE

(* encode: of a PooledEncoder, in the buffer that was returned last; of a raw Serialize, in  *)
(* a new OwnedBuffer.                                                                        *)
Encode(m) ==
    /\ peer = "own" /\ Len(sent) < MaxSent /\ Len(send_buffer) < MaxQueued
    /\ LET buffer == IF buffer_pool = <<>> THEN <<>> ELSE Last(buffer_pool) IN
       send_buffer' = Append(send_buffer, [inner |-> Serialize(m, buffer), cursor |-> 0])
    /\ buffer_pool' = IF buffer_pool = <<>> THEN <<>> ELSE Front(buffer_pool)
    /\ sent' = Append(sent, m)
    /\ UNCHANGED <<peer, codec, pooled, received, state, asked, decoded, failed>>

Remaining(buffer) == Len(buffer.inner) - buffer.cursor

PoolHasRoom == Len(buffer_pool) < MaxPooled

(* Mutant: the buffer is kept with what is in it. *)
MutReset(inner) == inner

(* set_len(0) *)
Reset(inner) == <<>>

(* return_buffer *)
Returned(buffer) ==
    IF pooled /\ PoolHasRoom THEN Append(buffer_pool, Reset(buffer.inner)) ELSE buffer_pool

(* n bytes of the front buffer are written and arrive; it is returned when it is written, *)
(* else advanced.                                                                          *)
Write(n) ==
    LET front == Head(send_buffer) IN
    /\ received' = received \o SubSeq(front.inner, front.cursor + 1, front.cursor + n)
    /\ asked' = 0
    /\ IF Remaining(front) <= n
       THEN /\ send_buffer' = Tail(send_buffer)
            /\ buffer_pool' = Returned(front)
       ELSE /\ send_buffer' = [send_buffer EXCEPT ![1].cursor = @ + n]
            /\ UNCHANGED buffer_pool
    /\ UNCHANGED <<peer, codec, pooled, sent, state, decoded, failed>>

(* A byte of a foreign peer, as this decoder reads one: in a varint it is a digit, with or   *)
(* without the mark that more follow; a MessagePack u32 has its tag.  No body is among them: *)
(* a peer that frames bodies this receiver knows is the encoder above.                       *)
ForeignByte ==
    {Digit(d) : d \in 0 .. Base - 1}
        \cup IF codec = "prost" THEN {MoreDigit(d) : d \in 0 .. Base - 1} ELSE {Byte("tag", 0, 0)}

Foreign(b) ==
    /\ peer = "foreign" /\ Len(received) < MaxForeign /\ Len(decoded) < MaxSent
    /\ received' = Append(received, b)
    /\ asked' = 0
    /\ UNCHANGED <<peer, codec, pooled, senderVars, state, decoded, failed>>

-----------------------------------------------------------------------------
(* Decoder::decode: what it returns, and the state it leaves. *)

Outcome(is, size, message, next) == [is |-> is, size |-> size, message |-> message, next |-> next]

(* Mutant: the size excludes a byte of the framing. *)
MutIncomplete(n, next) == Outcome("incomplete", n - 1, <<>>, next)

(* IncompleteBuffer { next_message_size } *)
Incomplete(n, next) == Outcome("incomplete", n, <<>>, next)

(* A message, if the bytes are one the receiver can represent, else InvalidBuffer. *)
Read(found, framing, next) ==
    IF found = {} THEN Outcome("invalid", 0, <<>>, next)
    ELSE LET m == CHOOSE x \in found : TRUE
         IN  Outcome("message", framing + BodySize(m), <<m>>, next)

(* No length can be read from bytes that end within a varint, and none from a varint that is *)
(* too long: both are answered alike.  The size of the frame is an usize (the release build  *)
(* wraps it), computed from the length as this codec would write it; decode_length_delimited *)
(* then reads the varint that is there.                                                      *)
ProstDecode ==
    IF VarintEnds(received) = {} THEN Incomplete(VarintMax, <<>>)
    ELSE LET end == CHOOSE i \in VarintEnds(received) : TRUE
             length == ReadVarint(received, end)
             framed == (length + DelimiterLen(length)) % Usize
         IN  IF Len(received) < framed THEN Incomplete(framed, <<>>)
             ELSE Read({m \in Known : /\ end + length <= Len(received)
                                      /\ Body(m) = SubSeq(received, end + 1, end + length)}, end, <<>>)

(* Mutant: a byte more than the message. *)
MutFramed(length) == length + Prefix + 1

(* (length + 5), an u32 *)
Framed(length) == (length + Prefix) % U32

MessagePackDecode ==
    IF state = <<>> /\ Len(received) < Prefix THEN Incomplete(Prefix, <<>>)
    ELSE IF state = <<>> /\ received[1].kind # "tag" THEN Outcome("invalid", 0, <<>>, <<>>)
    ELSE LET length == IF state = <<>> THEN ReadU32(received) ELSE state[1]
             rest == SubSeq(received, Prefix + 1, Len(received))
         IN  IF Len(received) < Framed(length) THEN Incomplete(Framed(length), <<length>>)
             ELSE Read({m \in Known : IsPrefix(Body(m), rest)}, Prefix, <<>>)

(* The Connection calls decode with a byte at least, and closes on InvalidBuffer. *)
Decoding(is) ==
    LET outcome == IF codec = "prost" THEN ProstDecode ELSE MessagePackDecode IN
    /\ received # <<>> /\ ~failed
    /\ outcome.is = is
    /\ state' = outcome.next
    /\ asked' = IF is = "incomplete" THEN outcome.size ELSE 0
    /\ decoded' = decoded \o outcome.message
    /\ received' = IF is = "message" THEN SubSeq(received, outcome.size + 1, Len(received)) ELSE received
    /\ UNCHANGED <<peer, codec, pooled, senderVars>>

DecodeMessage == Decoding("message") /\ UNCHANGED failed
DecodeIncomplete == Decoding("incomplete") /\ UNCHANGED failed
DecodeInvalid == Decoding("invalid") /\ failed' = TRUE

Decode == DecodeMessage \/ DecodeIncomplete \/ DecodeInvalid

Transmit == send_buffer # <<>> /\ \E n \in 1 .. Remaining(Head(send_buffer)) : Write(n)

Next == (\E m \in Messages : Encode(m)) \/ Transmit \/ (\E b \in ForeignByte : Foreign(b)) \/ Decode

Spec == Init /\ [][Next]_vars

(* The connection writes what it has serialized, and decodes what it reads. *)
FairSpec == Spec /\ WF_vars(Transmit) /\ WF_vars(Decode)

-----------------------------------------------------------------------------
(* Properties. *)

(* Whatever the sizes, the cuts of the stream and the reuse of buffers, what is decoded of   *)
(* the encoder's stream is what was encoded, in order, and decoding fails only at a message  *)
(* the receiver's type does not know (encode, return_buffer, advance, decode).               *)
RoundTrip ==
    peer = "own" =>
        /\ IsPrefix(decoded, sent)
        /\ failed => sent[Len(decoded) + 1] \notin Known

(* The bytes begin with a varint that is too long to be a length. *)
OverlongVarint(bytes) == Len(bytes) >= VarintMax /\ \A i \in 1 .. VarintMax : bytes[i].kind = "more"

(* "Undercounting wedges a connection on a message it can never buffer": a decoder that says *)
(* it needs more bytes asks for more than it was given, in every state of the encoder's      *)
(* stream and, whatever a foreign peer sends, except before an overlong varint               *)
(* (ProstDecoder::decode, MessagePackDecoder::decode).                                       *)
AsksForMore ==
    asked # 0 => \/ Len(received) < asked
                 \/ peer = "foreign" /\ codec = "prost" /\ OverlongVarint(received)

(* The same without the exception, which holds of the encoder's stream (see the proofs). *)
NeverUndercounts == asked # 0 => Len(received) < asked

(* "You must not consume more bytes than the message you produce", nor wait for more: every  *)
(* message is decoded though nothing follows it, unless decoding failed.                     *)
Delivered == \A n \in 1 .. MaxSent : Len(sent) >= n ~> (Len(decoded) >= n \/ failed)
=============================================================================
