----------------------------- MODULE Connection -----------------------------
(***************************************************************************)
(* protosocket::Connection, the future that owns a byte stream, a codec, a *)
(* MessageReactor and the receiving end of a spillway queue.  One poll of  *)
(* the future reads and decodes until the stream is pending (poll_receive),*)
(* polls the reactor, then serializes and writes until the stream or the   *)
(* sources are pending (poll_writev_buffers).                              *)
(*                                                                         *)
(* One action is one call the future makes to the stream, the codec, the   *)
(* reactor or the queue; the environment may act between two of them.      *)
(*                                                                         *)
(* An inbound byte is known by its position in the peer's stream, an       *)
(* outbound byte by its message and its place in that message's encoding.  *)
(***************************************************************************)
EXTENDS Integers, Sequences, FiniteSets, SequencesExt

CONSTANTS Traffic,          \* what may pass: the peer's bytes, and the encoded sizes of the
                            \* messages put in the queue and of those the reactor makes
          Header,           \* bytes the decoder needs to know a frame's size
          MaxBuffer,        \* max_buffer_length
          Increment,        \* buffer_allocation_increment
          MaxQueued,        \* max_queued_send_messages
          MaxIov,           \* UIO_MAXIOV
          Window,           \* bytes the peer takes before it must read again
          MaxFaults         \* bound: interrupted calls, I/O errors, disconnects by the reactor

(* A frame's first byte carries its header; "msg" is a whole message, "skip" one *)
(* the decoder skips, "bad" an invalid one, and "over" one for which the decoder *)
(* claims a byte more than it was given.                                         *)
Kinds == {"msg", "skip", "bad", "over"}
Body == [kind |-> "body", size |-> 0]

(* What is inside of a frame begins no other: a stream is cut into frames from its start. *)
WellFramed(w) == \A i, j \in DOMAIN w : i < j /\ j < i + w[i].size => w[j] = Body

ASSUME ConnectionAssumption ==
    /\ \A t \in Traffic : /\ t.wire \in Seq([kind : Kinds, size : Nat \ {0}] \cup {Body})
                          /\ WellFramed(t.wire)
                          /\ t.queue \in Seq(Nat) /\ t.reactor \in Seq(Nat)
    /\ Header \in Nat \ {0}
    /\ MaxBuffer \in Nat \ {0} /\ Increment \in Nat \ {0}
    /\ MaxQueued \in Nat \ {0} /\ MaxIov \in Nat \ {0} /\ Window \in Nat \ {0}
    /\ MaxFaults \in Nat

VARIABLES
    pc, notified,           \* the step the task is at; it is scheduled to be polled
    traffic, arrived, eof,  \* what this connection carries; bytes that reached the socket; peer closed
    taken,                  \* bytes read out of the socket
    receive_buffer,         \* the buffer, zero fill included (a zero is position 0)
    unread,                 \* receive_buffer_unread_index: the end of the bytes read
    cursor,                 \* buffer_cursor of the decode pass
    dispatched,             \* history: the bytes of each message given to the reactor
    q_sent, q_taken,        \* messages put in and taken out of the queue
    queue_open,             \* some Sender of the queue is alive
    r_made, r_taken,        \* messages the reactor has ready and has emitted
    source_open,            \* poll_outbound_many does not return Ready(None) yet
    queue_closed,           \* local of poll_serialize_outbound_messages
    send_buffer,            \* encoded messages, the first perhaps partly written
    serialized, out,        \* history: messages encoded, bytes written
    room,                   \* bytes the stream accepts before it is pending
    wakes,                  \* who holds the task's waker: "read", "write", "queue", "reactor"
    faults, reason          \* faults so far; why the connection closed

taskVars == <<pc, notified, faults, reason>>
peerVars == <<traffic, arrived, eof>>
readVars == <<taken, receive_buffer, unread, cursor, dispatched>>
sourceVars == <<q_sent, queue_open, r_made, source_open>>
sendVars == <<q_taken, r_taken, queue_closed, send_buffer, serialized, out>>
vars == <<taskVars, peerVars, readVars, sourceVars, sendVars, room, wakes>>

inbound == <<peerVars, readVars>>
outbound == <<sourceVars, sendVars, room>>

Running == {"read", "decode", "reactor", "serialize", "emit", "write"}

wire == traffic.wire
QueueSizes == traffic.queue
ReactorSizes == traffic.reactor

Least(m, n) == IF m < n THEN m ELSE n

Message == [from : {"queue", "reactor"}, seq : Nat]
SizeOf(m) == IF m.from = "queue" THEN QueueSizes[m.seq] ELSE ReactorSizes[m.seq]

(* Encoder::encode: the bytes of a message. *)
Encode(m) == [k \in 1 .. SizeOf(m) |-> [of |-> m, byte |-> k]]

-----------------------------------------------------------------------------
(* Connection::new.  A spawned task is polled once at the start. *)
Init ==
    /\ pc = "parked" /\ notified = TRUE
    /\ traffic \in Traffic /\ arrived = 0 /\ eof = FALSE
    /\ taken = 0 /\ receive_buffer = <<>> /\ unread = 0 /\ cursor = 0
    /\ dispatched = <<>>
    /\ q_sent = 0 /\ q_taken = 0 /\ queue_open = TRUE
    /\ r_made = 0 /\ r_taken = 0 /\ source_open \in BOOLEAN
    /\ queue_closed = FALSE
    /\ send_buffer = <<>> /\ serialized = <<>> /\ out = <<>>
    /\ room = Window
    /\ wakes = {}
    /\ faults = 0 /\ reason = "open"

(* Poll::Ready(()): the task ends and drops the connection. *)
CloseFor(why) ==
    /\ pc' = "closed"
    /\ reason' = why
    /\ UNCHANGED <<notified, wakes>>

Goto(step) ==
    /\ pc' = step
    /\ UNCHANGED <<notified, wakes, reason>>

(* Mutant: the callee is not given the task's waker. *)
MutPendingOn(w, step) == Goto(step)

(* Poll::Pending: whoever was polled keeps the task's waker. *)
PendingOn(w, step) ==
    /\ pc' = step
    /\ wakes' = wakes \cup {w}
    /\ UNCHANGED <<notified, reason>>

(* An event of the environment wakes the task, if its waker is registered for it. *)
Wake(w) ==
    /\ notified' = (notified \/ w \in wakes)
    /\ wakes' = wakes \ {w}
    /\ UNCHANGED <<pc, faults, reason>>

Fault ==
    /\ faults < MaxFaults
    /\ faults' = faults + 1

-----------------------------------------------------------------------------
(* The environment: the peer, the queue's senders and the reactor's own work. *)

PeerSends ==
    /\ ~eof
    /\ arrived < Len(wire)
    /\ arrived' = arrived + 1
    /\ Wake("read")
    /\ UNCHANGED <<traffic, eof, readVars, outbound>>

PeerCloses ==
    /\ ~eof
    /\ eof' = TRUE
    /\ Wake("read")
    /\ UNCHANGED <<traffic, arrived, readVars, outbound>>

PeerReads ==
    /\ room < Window
    /\ room' = Window
    /\ Wake("write")
    /\ UNCHANGED <<inbound, sourceVars, sendVars>>

QueueSend ==
    /\ queue_open
    /\ q_sent < Len(QueueSizes)
    /\ q_sent' = q_sent + 1
    /\ Wake("queue")
    /\ UNCHANGED <<inbound, queue_open, r_made, source_open, sendVars, room>>

QueueClose ==
    /\ queue_open
    /\ queue_open' = FALSE
    /\ Wake("queue")
    /\ UNCHANGED <<inbound, q_sent, r_made, source_open, sendVars, room>>

ReactorMakes ==
    /\ source_open
    /\ r_made < Len(ReactorSizes)
    /\ r_made' = r_made + 1
    /\ Wake("reactor")
    /\ UNCHANGED <<inbound, q_sent, queue_open, source_open, sendVars, room>>

ReactorExhausts ==
    /\ source_open
    /\ source_open' = FALSE
    /\ Wake("reactor")
    /\ UNCHANGED <<inbound, q_sent, queue_open, r_made, sendVars, room>>

Ended == pc \in {"closed", "panicked"}

Environment ==
    /\ ~Ended
    /\ \/ PeerSends \/ PeerCloses \/ PeerReads
       \/ QueueSend \/ QueueClose \/ ReactorMakes \/ ReactorExhausts

-----------------------------------------------------------------------------
(* Future::poll: begins with poll_receive. *)
StartPoll ==
    /\ pc = "parked" /\ notified
    /\ pc' = "read" /\ notified' = FALSE
    /\ UNCHANGED <<wakes, faults, reason, inbound, outbound>>

(* Mutant: the buffer grows whenever it is nearly full. *)
MutMayGrow == TRUE

MayGrow == Len(receive_buffer) < MaxBuffer

(* poll_read_inbound: the buffer after the resize. *)
Grown ==
    IF MayGrow /\ Len(receive_buffer) - unread < Increment
    THEN receive_buffer \o [i \in 1 .. Increment |-> 0]
    ELSE receive_buffer

Space == Len(Grown) - unread

(* No room to read: MoreToRead, so the decoder looks at the buffer again. *)
ReadFull ==
    /\ pc = "read"
    /\ Space = 0
    /\ cursor' = 0
    /\ Goto("decode")
    /\ UNCHANGED <<faults, peerVars, taken, receive_buffer, unread, dispatched, outbound>>

(* poll_read returns n bytes, at most what has arrived and what fits. *)
ReadSome(n) ==
    /\ pc = "read"
    /\ n <= arrived - taken
    /\ receive_buffer' = [i \in DOMAIN Grown |->
                             IF unread < i /\ i <= unread + n THEN taken + (i - unread) ELSE Grown[i]]
    /\ unread' = unread + n
    /\ taken' = taken + n
    /\ cursor' = 0
    /\ Goto("decode")
    /\ UNCHANGED <<faults, peerVars, dispatched, outbound>>

(* poll_read returns without bytes. *)
ReadNothing ==
    /\ pc = "read"
    /\ Space > 0
    /\ receive_buffer' = Grown
    /\ cursor' = 0
    /\ UNCHANGED <<peerVars, taken, unread, dispatched, outbound>>

(* Pending, whose waker the stream keeps: poll_receive is over for this poll.  The code takes *)
(* a Ready(would_block) for the same; tokio's streams do not return one.                      *)
ReadPending ==
    /\ ReadNothing
    /\ arrived = taken /\ ~eof
    /\ PendingOn("read", "reactor")
    /\ UNCHANGED faults

(* Ok with 0 bytes: the peer has closed and everything it sent has been read. *)
ReadEof ==
    /\ ReadNothing
    /\ arrived = taken /\ eof
    /\ CloseFor("eof")
    /\ UNCHANGED faults

(* An interrupted read is MoreToRead: the decoder runs on what is there. *)
ReadInterrupted == ReadNothing /\ Fault /\ Goto("decode")

ReadError == ReadNothing /\ Fault /\ CloseFor("io")

-----------------------------------------------------------------------------
(* read_inbound_messages_and_react: one decode per step, from the cursor. *)

Available == unread - cursor

(* What the decoder makes of the byte at the cursor. *)
Frame == LET b == receive_buffer[cursor + 1] IN IF b = 0 THEN Body ELSE wire[b]

AtFrame ==
    /\ pc = "decode"
    /\ cursor < unread

Decoding(kinds) ==
    /\ AtFrame
    /\ Header <= Available
    /\ Frame.kind \in kinds

(* Mutant: the bytes left over are not moved to the front. *)
MutMoved(i) == receive_buffer[i]

(* copy_within: the bytes from the cursor on move to the front of the buffer. *)
Moved(i) == IF i <= unread - cursor THEN receive_buffer[i + cursor] ELSE receive_buffer[i]

(* The loop breaks with Pending: compact and go read again. *)
EndPass ==
    /\ unread' = unread - cursor
    /\ receive_buffer' = [i \in DOMAIN receive_buffer |-> Moved(i)]
    /\ cursor' = 0
    /\ Goto("read")
    /\ UNCHANGED <<faults, peerVars, taken, dispatched, outbound>>

(* The cursor moves past length bytes, which the reactor is given if it reacts.  It may *)
(* have a reply ready as soon as it has seen the message.                               *)
React(length) ==
    /\ cursor' = cursor + length
    /\ dispatched' = Append(dispatched, SubSeq(receive_buffer, cursor + 1, Least(cursor + length, unread)))
    /\ r_made' \in {r_made, IF source_open THEN Least(r_made + 1, Len(ReactorSizes)) ELSE r_made}
    /\ UNCHANGED <<peerVars, taken, receive_buffer, unread, q_sent, queue_open, source_open,
                   sendVars, room>>

(* Mutant: the header is not counted in the length the decoder consumed. *)
MutLength == Frame.size - 1

(* The length decode returns with a message. *)
Length == Frame.size

Whole == Decoding({"msg"}) /\ Frame.size <= Available

DecodeMessage ==
    /\ Whole
    /\ React(Length)
    /\ Goto("decode")
    /\ UNCHANGED faults

(* on_inbound_message returns Disconnect: no compaction, the task ends. *)
DecodeDisconnect ==
    /\ Whole
    /\ React(Length)
    /\ Fault
    /\ CloseFor("reactor")

(* A decoder that consumes a byte it was not given. *)
DecodeOver ==
    /\ Decoding({"over"})
    /\ React(Available + 1)
    /\ Goto("decode")
    /\ UNCHANGED faults

(* IncompleteBuffer { next_message_size }. *)
Incomplete ==
    /\ AtFrame
    /\ Available < Header \/ (Frame.kind = "msg" /\ Available < Frame.size)

NextMessageSize == IF Available < Header THEN Header ELSE Frame.size

(* Mutant: a size the buffer can never hold is waited for. *)
MutTooLong == FALSE

TooLong == MaxBuffer < NextMessageSize

DecodeWait ==
    /\ Incomplete
    /\ ~TooLong
    /\ EndPass

DecodeTooLong ==
    /\ Incomplete
    /\ TooLong
    /\ CloseFor("too long")
    /\ UNCHANGED <<faults, inbound, outbound>>

(* InvalidBuffer, also what bytes that begin no frame decode to. *)
DecodeInvalid ==
    /\ Decoding({"bad", "body"})
    /\ CloseFor("invalid")
    /\ UNCHANGED <<faults, inbound, outbound>>

(* Mutant: the distance is skipped before it has arrived. *)
MutCanSkip == TRUE

(* SkipMessage { distance }: the whole distance must be in the buffer. *)
CanSkip == Frame.size <= Available

DecodeSkipWait ==
    /\ Decoding({"skip"})
    /\ ~CanSkip
    /\ EndPass

DecodeSkip ==
    /\ Decoding({"skip"})
    /\ CanSkip
    /\ cursor' = cursor + Frame.size
    /\ Goto("decode")
    /\ UNCHANGED <<faults, peerVars, taken, receive_buffer, unread, dispatched, outbound>>

DecodeDone ==
    /\ pc = "decode"
    /\ cursor = unread
    /\ EndPass

(* The loop breaks with an Error, but the compaction after it slices                 *)
(* buffer_cursor..receive_buffer_unread_index, whose start is past its end: a panic. *)
DecodeBeyond ==
    /\ pc = "decode"
    /\ unread < cursor
    /\ Goto("panicked")
    /\ UNCHANGED <<faults, inbound, outbound>>

-----------------------------------------------------------------------------
(* Another round of poll_writev_buffers, which begins with serialization. *)
Round ==
    /\ queue_closed' = FALSE
    /\ Goto("serialize")

(* MessageReactor::poll, between reading and writing. *)
ReactorPoll ==
    /\ pc = "reactor"
    /\ Round
    /\ UNCHANGED <<faults, inbound, sourceVars, q_taken, r_taken, send_buffer, serialized, out, room>>

ReactorBreak ==
    /\ pc = "reactor"
    /\ Fault
    /\ CloseFor("reactor")
    /\ UNCHANGED <<inbound, outbound>>

-----------------------------------------------------------------------------
(* poll_serialize_outbound_messages: first the queue, then the reactor. *)

Full == MaxQueued <= Len(send_buffer)

(* The budget is spent, on entry or by the queue: the reactor is not polled. *)
SerializeFull ==
    /\ pc = "serialize" /\ Full
    /\ Goto("write")
    /\ UNCHANGED <<faults, inbound, outbound>>

PollQueue == pc = "serialize" /\ ~Full

Push(ms) ==
    /\ send_buffer' = send_buffer \o [i \in DOMAIN ms |-> Encode(ms[i])]
    /\ serialized' = serialized \o ms
    /\ UNCHANGED <<faults, inbound, sourceVars, queue_closed, out, room>>

TakeQueued ==
    /\ PollQueue
    /\ q_taken < q_sent
    /\ Push(<<[from |-> "queue", seq |-> q_taken + 1]>>)
    /\ q_taken' = q_taken + 1
    /\ Goto("serialize")
    /\ UNCHANGED r_taken

QueuePending ==
    /\ PollQueue
    /\ q_taken = q_sent /\ queue_open
    /\ PendingOn("queue", "emit")
    /\ UNCHANGED <<faults, inbound, outbound>>

QueueNone ==
    /\ PollQueue
    /\ q_taken = q_sent /\ ~queue_open
    /\ queue_closed' = TRUE
    /\ Goto("emit")
    /\ UNCHANGED <<faults, inbound, sourceVars, q_taken, r_taken, send_buffer, serialized, out, room>>

(* The spillway's None leaves messages behind: after the receiver's last scan, the last Sender *)
(* sends n and goes away, which wakes the task that is being polled.                           *)
QueueMisses(n) ==
    /\ PollQueue
    /\ q_taken = q_sent /\ queue_open
    /\ q_sent' = q_sent + n /\ queue_open' = FALSE
    /\ queue_closed' = TRUE
    /\ pc' = "emit" /\ notified' = TRUE /\ wakes' = wakes \ {"queue"}
    /\ UNCHANGED <<faults, reason, inbound, r_made, source_open, q_taken, r_taken, send_buffer, serialized, out, room>>

(* SendBudget: the permits left for the reactor. *)
Budget == MaxQueued - Len(send_buffer)

(* poll_outbound_many emits n messages, within the budget: Ready(Some(())). *)
EmitSome(n) ==
    /\ pc = "emit"
    /\ n <= r_made - r_taken
    /\ Push([i \in 1 .. n |-> [from |-> "reactor", seq |-> r_taken + i]])
    /\ r_taken' = r_taken + n
    /\ Goto("write")
    /\ UNCHANGED q_taken

EmitPending ==
    /\ pc = "emit"
    /\ r_taken = r_made /\ source_open
    /\ PendingOn("reactor", "write")
    /\ UNCHANGED <<faults, inbound, outbound>>

(* Ready(None).  With the queue closed too, all sources are exhausted: the poll is *)
(* Ready, whether or not everything serialized is written.                         *)
EmitNone ==
    /\ pc = "emit"
    /\ r_taken = r_made /\ ~source_open
    /\ IF queue_closed THEN CloseFor("exhausted") ELSE Goto("write")
    /\ UNCHANGED <<faults, inbound, outbound>>

-----------------------------------------------------------------------------
(* poll_writev_buffers. *)

(* The slices of one writev: up to MaxIov buffers, up to the first empty one. *)
Slices ==
    LET first == SelectInSeq(send_buffer, LAMBDA b : b = <<>>)
        full == IF first = 0 THEN Len(send_buffer) ELSE first - 1
    IN  FlattenSeq(SubSeq(send_buffer, 1, Least(full, MaxIov)))

(* Bytes in the first k buffers. *)
Total(k) == Len(FlattenSeq(SubSeq(send_buffer, 1, k)))

(* Mutant: a partly written buffer is put back whole. *)
MutRest(buffer, left) == IF left = 0 THEN <<>> ELSE <<buffer>>

(* The buffer to put back in front when left of its bytes are not written. *)
Rest(buffer, left) ==
    IF left = 0 THEN <<>> ELSE <<SubSeq(buffer, Len(buffer) - left + 1, Len(buffer))>>

(* advance_send_buffers: drop the buffers that n bytes cover, advance the next. *)
Advanced(n) ==
    LET k == CHOOSE j \in 1 .. Len(send_buffer) : Total(j - 1) < n /\ n <= Total(j)
    IN  Rest(send_buffer[k], Total(k) - n) \o SubSeq(send_buffer, k + 1, Len(send_buffer))

(* Nothing to write: poll_flush, Ready(Ok) or Pending; this poll is over. *)
Flush ==
    /\ pc = "write"
    /\ send_buffer = <<>>
    /\ Goto("parked")
    /\ UNCHANGED <<faults, inbound, outbound>>

(* Mutant: the poll ends after one write, with no waker at the stream. *)
MutAfterWrite ==
    /\ Goto("parked")
    /\ UNCHANGED queue_closed

(* Go around again, to make sure it is done writing or pending. *)
AfterWrite == Round

WriteSome(n) ==
    /\ pc = "write"
    /\ n <= Least(room, Len(Slices))
    /\ out' = out \o SubSeq(Slices, 1, n)
    /\ send_buffer' = Advanced(n)
    /\ room' = room - n
    /\ AfterWrite
    /\ UNCHANGED <<faults, inbound, sourceVars, q_taken, r_taken, serialized>>

WritePending ==
    /\ pc = "write"
    /\ Slices # <<>>
    /\ room = 0
    /\ PendingOn("write", "parked")
    /\ UNCHANGED <<faults, inbound, outbound>>

(* Ok(0): what a write of no slices returns. *)
WriteZero ==
    /\ pc = "write"
    /\ send_buffer # <<>> /\ Slices = <<>>
    /\ CloseFor("write zero")
    /\ UNCHANGED <<faults, inbound, outbound>>

(* would_block and interrupted errors of poll_write_vectored and of poll_flush. *)
WriteInterrupted ==
    /\ pc = "write"
    /\ Fault
    /\ Round
    /\ UNCHANGED <<inbound, sourceVars, q_taken, r_taken, send_buffer, serialized, out, room>>

WriteError ==
    /\ pc = "write"
    /\ Fault
    /\ CloseFor("io")
    /\ UNCHANGED <<inbound, outbound>>

-----------------------------------------------------------------------------
Receive ==
    \/ ReadFull \/ ReadPending \/ ReadEof \/ ReadInterrupted \/ ReadError
    \/ \E n \in 1 .. Space : ReadSome(n)
    \/ DecodeMessage \/ DecodeDisconnect \/ DecodeOver
    \/ DecodeWait \/ DecodeTooLong \/ DecodeInvalid \/ DecodeSkipWait \/ DecodeSkip \/ DecodeDone \/ DecodeBeyond

Serialize ==
    \/ SerializeFull \/ TakeQueued \/ QueuePending \/ QueueNone
    \/ \E n \in 1 .. Len(QueueSizes) - q_sent : QueueMisses(n)
    \/ \E n \in 1 .. Budget : EmitSome(n)
    \/ EmitPending \/ EmitNone

Write ==
    \/ Flush \/ WritePending \/ WriteZero \/ WriteInterrupted \/ WriteError
    \/ \E n \in 1 .. room : WriteSome(n)

Task == StartPoll \/ Receive \/ ReactorPoll \/ ReactorBreak \/ Serialize \/ Write

Next == Environment \/ Task

Spec == Init /\ [][Next]_vars

(* The runtime polls a woken task and the task runs on until its poll returns; the *)
(* peer goes on reading what it is sent.                                           *)
FairSpec == Spec /\ WF_vars(Task) /\ WF_vars(PeerReads /\ ~Ended)

-----------------------------------------------------------------------------
(* Properties. *)

(* Growing, filling and compacting the receive buffer never loses, repeats or moves a *)
(* byte: what is unread is exactly the stretch of the stream read last                *)
(* (poll_read_inbound, poll_read_from_stream, the compaction of the decode pass).     *)
BytesInStep ==
    \A i \in 1 .. unread : receive_buffer[i] = taken - unread + i

(* The first byte of each message frame before stream position p. *)
MessagesBefore(p) == {i \in 1 .. p : wire[i].kind = "msg"}

(* However the stream is cut into reads, the reactor has been given every message      *)
(* frame the decode cursor has passed, whole, once, in the order of the stream, and no *)
(* other bytes, as long as the decoder has claimed no byte beyond those read           *)
(* (read_inbound_messages_and_react).                                                  *)
DispatchedInOrder ==
    cursor <= unread =>
    /\ {dispatched[k][1] : k \in DOMAIN dispatched} = MessagesBefore(taken - unread + cursor)
    /\ \A k \in DOMAIN dispatched : LET first == dispatched[k][1]
                                    IN  dispatched[k] = [i \in 1 .. wire[first].size |-> first + i - 1]
    /\ \A j, k \in DOMAIN dispatched : j < k => dispatched[j][1] < dispatched[k][1]

(* Both buffers are bounded.  The receive buffer stays below max_buffer_length plus one *)
(* increment: the guard of the resize in poll_read_inbound looks at the length before  *)
(* it grows.  The send buffer never holds more than max_queued_send_messages, so the   *)
(* subtraction that computes max_outbound (a usize) cannot underflow, whatever the     *)
(* queue and the reactor add.                                                          *)
BufferBound ==
    /\ Len(receive_buffer) < MaxBuffer + Increment
    /\ Len(send_buffer) <= MaxQueued

(* No partial write, gather over several buffers, interruption or refill tears the   *)
(* outbound stream: what was written, followed by what waits in the send buffer, is  *)
(* the encodings of the messages in the order they were serialized                   *)
(* (poll_writev_buffers, advance_send_buffers).                                      *)
SendIntegrity ==
    out \o FlattenSeq(send_buffer) = FlattenSeq([i \in DOMAIN serialized |-> Encode(serialized[i])])

(* A connection parks only when nothing can move: no byte to read, no byte to write   *)
(* that the stream would take, and, when there is nothing left to write, no message   *)
(* in the queue or in the reactor and not both exhausted.  Otherwise it has been      *)
(* woken (the wakers registered by the three pollings of one poll).                   *)
NothingForgotten ==
    pc = "parked" /\ ~notified =>
        /\ arrived = taken /\ ~eof
        /\ send_buffer # <<>> => room = 0
        /\ send_buffer = <<>> => /\ q_taken = q_sent /\ r_taken = r_made
                                 /\ queue_open \/ source_open

(* The compaction never slices backwards (a panic): only a decoder that claims more    *)
(* than it was given can move the cursor past the bytes read, whatever is skipped,     *)
(* interrupted or cut off (copy_within at the end of read_inbound_messages_and_react). *)
NoPanic == pc = "panicked" => \E i \in DOMAIN wire : wire[i].kind = "over"

(* Every poll returns: the loops of poll_receive and poll_writev_buffers do not spin. *)
PollReturns == pc \in Running ~> pc \notin Running

(* Every message in the queue and every message the reactor makes is serialized and, *)
(* as the peer reads on, written to its last byte, unless the connection ends.       *)
Written(m) == m \in {serialized[i] : i \in DOMAIN serialized} /\ \A i \in DOMAIN send_buffer :
                  \A k \in DOMAIN send_buffer[i] : send_buffer[i][k].of # m

Outbound ==
    /\ \A n \in UNION {DOMAIN t.queue : t \in Traffic} :
          q_sent >= n ~> (Written([from |-> "queue", seq |-> n]) \/ Ended)
    /\ \A n \in UNION {DOMAIN t.reactor : t \in Traffic} :
          r_made >= n ~> (Written([from |-> "reactor", seq |-> n]) \/ Ended)

=============================================================================
