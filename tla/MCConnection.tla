---------------------------- MODULE MCConnection ----------------------------
(* Small instances of Connection for TLC: what the peer sends, and the messages. *)
EXTENDS Connection

FrameOf(kind, size) == <<[kind |-> kind, size |-> size]>> \o [i \in 1 .. size - 1 |-> Body]

Carrying(wires, queue, reactor) == [wire : wires, queue : {queue}, reactor : {reactor}]

(* Frames that fit in a buffer of three, one after another, then also: a message that is too  *)
(* long, an invalid one, one that is cut off, a skip that just fits in the buffer as it grows *)
(* (to four) and one that never does.                                                         *)
Inbounds ==
    LET fits == {FrameOf("msg", 2), FrameOf("msg", 3), FrameOf("skip", 2)}
        last == fits \cup {FrameOf("msg", 5), FrameOf("bad", 2), <<[kind |-> "msg", size |-> 3], Body>>,
                           FrameOf("skip", 4), FrameOf("skip", 5)}
    IN  {a \o b : a \in fits, b \in last} \cup {FrameOf("msg", 3) \o FrameOf("skip", 3) \o FrameOf("msg", 2)}

(* Much to read and one reply to write; then little to read (one message, or one decoded to *)
(* more than it is) and replies that meet queued messages, one of them of no bytes.          *)
BothWays ==
    Carrying(Inbounds, <<>>, <<1>>)
        \cup Carrying({FrameOf("msg", 2), FrameOf("over", 2)}, <<1, 2>>, <<2, 0>>)

(* A skip that fills the buffer, and a message that no buffer can hold. *)
Mixed == Carrying({FrameOf("skip", 3) \o FrameOf("msg", 2), FrameOf("msg", 5)}, <<1>>, <<1>>)

LongSkip == Carrying({FrameOf("skip", 6)}, <<>>, <<>>)
=============================================================================
