---------------------------- MODULE SpillwayInv ----------------------------
(***************************************************************************)
(* The inductive strengthenings behind the theorems of SpillwayProofs.     *)
(***************************************************************************)
EXTENDS Spillway

(* A queue, for the positions g received and n enqueued, and the batch ends e *)
(* of each sender, holds values that are enqueued and not yet received,       *)
Pending(q, g, n) == \A i \in 1 .. Len(q) : g[q[i].from] < q[i].seq /\ q[i].seq <= n[q[i].from]

(* in sending order per sender, *)
Ordered(q) == \A i, j \in 1 .. Len(q) :
                 i < j /\ q[i].from = q[j].from => q[i].seq < q[j].seq

(* and changing sender only where a batch ends. *)
Whole(q, e) ==
    /\ \A i \in 1 .. Len(q) - 1 :
          q[i].from # q[i + 1].from => q[i].seq \in e[q[i].from]
    /\ Len(q) > 0 => q[Len(q)].seq \in e[q[Len(q)].from]

Queued(q, g, n, e) == Pending(q, g, n) /\ Ordered(q) /\ Whole(q, e)

Contains(q, s, n) == \E i \in 1 .. Len(q) : q[i].from = s /\ q[i].seq = n

(* The receiver has emptied its buffer before it looks at the chutes. *)
BufferEmptyWhileScanning ==
    rpc \in {"scan1", "register", "scan2", "senders", "parked", "swap", "done"} => buffer = <<>>

UnbornSentNothing == \A s \in Senders : pc[s] = "unborn" => sent[s] = 0

CountFromCall == \A s \in Senders : pc[s] \in {"rollback", "commit"} => count[s] \in BatchSizes

ChutesQueued == \A c \in Chutes : Queued(chutes[c], got, sent, ends)

(* Values wait in the chute of their sender. *)
InOwnChute == \A c \in Chutes : \A i \in 1 .. Len(chutes[c]) : chute[chutes[c][i].from] = c

(* What is in the buffer was sent before what is still in a chute. *)
BufferFirst ==
    \A c \in Chutes : \A i \in 1 .. Len(buffer), j \in 1 .. Len(chutes[c]) :
        buffer[i].from = chutes[c][j].from => buffer[i].seq < chutes[c][j].seq

NothingMissing ==
    \A s \in Senders :
        /\ got[s] <= sent[s]
        /\ \A n \in got[s] + 1 .. sent[s] :
              Contains(buffer, s, n) \/ Contains(chutes[chute[s]], s, n)

(* A batch that has been received in part goes on at the head of the buffer. *)
BatchGoesOn ==
    last # Nobody => \/ Len(buffer) > 0 /\ buffer[1].from = last
                     \/ got[last] \in ends[last]

(* Where the values of the channel are, and in which order. *)
FifoInv ==
    /\ BufferEmptyWhileScanning /\ UnbornSentNothing /\ CountFromCall
    /\ Queued(buffer, got, sent, ends) /\ ChutesQueued
    /\ InOwnChute /\ BufferFirst /\ NothingMissing /\ BatchGoesOn

-----------------------------------------------------------------------------
(* How far a chute is from the cursor in the order of the scan. *)
Distance(c) == IF c >= cursor THEN c - cursor ELSE c - cursor + NChutes

CleanMeansEmpty == \A c \in Chutes : clean[c] => chutes[c] = <<>>

ScanComplete == rpc \in {"senders", "parked"} => scan = NChutes

(* Between registering its waker and the next poll, a receiver that has not been *)
(* notified has its waker in place, and whoever filled a chute behind the scan   *)
(* has not called wake yet.                                                      *)
Watching ==
    rpc \in {"scan2", "senders", "parked"} /\ mode # "try" /\ ~notified =>
        /\ waker
        /\ \A c \in Chutes : Distance(c) < scan /\ chutes[c] # <<>> => Locked(c)

SendersCounted == senders = Cardinality(Live)

EndAnnounced ==
    rpc = "parked" /\ ~notified /\ Live = {} => \E s \in Senders : pc[s] = "wakedrop"

WakeInv ==
    /\ CleanMeansEmpty
    /\ rpc = "parked" => mode # "try"
    /\ ScanComplete /\ Watching /\ SendersCounted
    /\ rpc = "done" => Live = {}
    /\ EndAnnounced

-----------------------------------------------------------------------------
(* Whatever is dirty has a value, and the chute about to be swapped out is dirty: *)
(* only the receiver, which does so when it swaps, marks a chute clean.           *)
DirtyInv ==
    /\ \A c \in Chutes : ~clean[c] => chutes[c] # <<>>
    /\ rpc = "swap" => ~clean[Scanned]
    /\ ExpectHolds

-----------------------------------------------------------------------------
(* The positions after lo[s] and up to hi[s], of every sender s. *)
Region(lo, hi) == UNION {{<<s, n>> : n \in lo[s] + 1 .. hi[s]} : s \in Senders}

(* Of the values in flight or reserved, those that will not be refused. *)
Granted(s) == IF pc[s] = "commit" THEN count[s] ELSE 0
Admitted == Region(got, [s \in Senders |-> sent[s] + Granted(s)])

(* What is counted, and how an admission was decided. *)
SizeInv ==
    /\ IsFiniteSet(Held) /\ SizeIsExact
    /\ rpc = "drain" => Len(buffer) <= initial_len
    /\ rpc = "putback" => mode = "batch"
    /\ mode = "batch" => "batch" \in Modes
    /\ Bounded => Cardinality(Admitted) <= Capacity + Slack
=============================================================================
