------------------------------ MODULE Spillway ------------------------------
(***************************************************************************)
(* The spillway channel: many Senders, one Receiver, NChutes mutex-guarded *)
(* queues ("chutes") with an atomic clean flag each, a shared counter that *)
(* enforces a soft capacity and one AtomicWaker.                           *)
(*                                                                         *)
(* One action is one access to shared memory that another thread can       *)
(* observe.  The code between two such accesses touches only state of the  *)
(* thread itself (the receiver's buffer and cursor, the sender's           *)
(* arguments) and is folded into the access before or after it.            *)
(***************************************************************************)
EXTENDS Integers, Sequences, FiniteSets

CONSTANTS Senders,      \* the Sender handles that may ever exist
          First,        \* the handle that channel() returns
          Nobody,       \* not a sender
          NChutes,      \* the channel's concurrency
          Bounded,      \* whether capacity # u64::MAX
          Capacity,     \* the capacity, when Bounded
          BatchSizes,   \* sizes of the batches given to send (1) and send_many
          Modes,        \* ways the receiver is polled: "next", "batch", "try"
          MaxSend       \* bound: values one sender enqueues

ASSUME SpillwayAssumption ==
    /\ IsFiniteSet(Senders) /\ First \in Senders /\ Nobody \notin Senders
    /\ NChutes \in Nat \ {0}
    /\ Bounded \in BOOLEAN /\ Capacity \in Nat
    /\ BatchSizes \subseteq Nat
    /\ Modes \subseteq {"next", "batch", "try"}
    /\ MaxSend \in Nat

VARIABLES
    chutes, clean,          \* per chute: the queue and its atomic flag
    waker,                  \* AtomicWaker: a waker of the receiver's task is registered
    senders,                \* atomic count of Sender handles
    chute_clock,            \* atomic clock, modulo NChutes, that spreads senders
    channel_size,           \* atomic count for the capacity limit
    pc, chute, count,       \* per sender: its step, its chute, the batch size of its call
    rpc, mode,              \* the receiver's step and the method it is in
    cursor, scan,           \* first chute to look at, chutes already looked at
    buffer, initial_len,    \* values taken out of a chute; length at BatchDrain's creation
    notified,               \* the receiver's task has been woken and not polled since
    sent, got, ends, last   \* history: see SenderFifo

sharedVars == <<chutes, clean, waker, senders, chute_clock, channel_size>>
senderVars == <<pc, chute, count>>
receiverVars == <<rpc, mode, cursor, scan, buffer, initial_len>>
history == <<sent, got, ends, last>>
vars == <<sharedVars, senderVars, receiverVars, notified, history>>

Chutes == 0 .. NChutes - 1

(* A value is known by its sender and its position among that sender's values. *)
Value == [from : Senders, seq : Nat]

SenderSteps == {"unborn", "idle", "rollback", "commit", "wake", "wakedrop", "dropped"}
ReceiverSteps == {"idle", "scan1", "register", "scan2", "senders", "parked", "swap",
                  "take", "putback", "drain", "done", "dropped"}

(* Mutant: wraps one late. *)
MutWrap(n) == IF n <= NChutes THEN n ELSE n - NChutes

(* n % chutes.len(), for the n < 2 * chutes.len() that occur. *)
Wrap(n) == IF n < NChutes THEN n ELSE n - NChutes

(* Shared::dead is created false and stored nowhere in the crate. *)
Dead == FALSE

-----------------------------------------------------------------------------
(* channel_with_capacity_and_concurrency: one Sender and the Receiver. *)
Init ==
    /\ chutes = [c \in Chutes |-> <<>>]
    /\ clean = [c \in Chutes |-> TRUE]
    /\ waker = FALSE
    /\ senders = 1
    /\ chute_clock = Wrap(1)
    /\ channel_size = 0
    /\ pc = [s \in Senders |-> IF s = First THEN "idle" ELSE "unborn"]
    /\ chute = [s \in Senders |-> 0]
    /\ count = [s \in Senders |-> 0]
    /\ rpc = "idle"
    /\ mode = "next"
    /\ cursor = 0
    /\ scan = 0
    /\ buffer = <<>>
    /\ initial_len = 0
    /\ notified = FALSE
    /\ sent = [s \in Senders |-> 0]
    /\ got = [s \in Senders |-> 0]
    /\ ends = [s \in Senders |-> {0}]
    /\ last = Nobody

(* AtomicWaker::wake: take the registered waker, if any, and schedule its task. *)
WakeReceiver ==
    /\ waker' = FALSE
    /\ notified' = (notified \/ waker)

(* A sender that found the chute empty keeps the mutex until it has called wake. *)
Locked(c) == \E s \in Senders : pc[s] = "wake" /\ chute[s] = c

-----------------------------------------------------------------------------
(* Mutant: the clone is not counted. *)
MutClone(s, t) ==
    /\ pc[s] = "idle"
    /\ pc[t] = "unborn"
    /\ chute_clock' = Wrap(chute_clock + 1)
    /\ chute' = [chute EXCEPT ![t] = chute_clock]
    /\ pc' = [pc EXCEPT ![t] = "idle"]
    /\ UNCHANGED <<chutes, clean, waker, senders, channel_size, count, receiverVars, notified, history>>

(* Sender::clone: count the handle, then take the next chute of the clock. *)
Clone(s, t) ==
    /\ pc[s] = "idle"
    /\ pc[t] = "unborn"
    /\ senders' = senders + 1
    /\ chute_clock' = Wrap(chute_clock + 1)
    /\ chute' = [chute EXCEPT ![t] = chute_clock]
    /\ pc' = [pc EXCEPT ![t] = "idle"]
    /\ UNCHANGED <<chutes, clean, waker, channel_size, count, receiverVars, notified, history>>

(* Mutant: checks the count before this batch. *)
MutOverCapacity(prev, k) == Capacity < prev

(* capacity < prev + count: the reservation made by fetch_add is too much. *)
OverCapacity(prev, k) == Capacity < prev + k

(* Shared::send and Shared::send_many up to the outcome of the reservation.  *)
BeginSend(s, k) ==
    /\ pc[s] = "idle"
    /\ sent[s] + k <= MaxSend
    /\ ~Dead
    /\ count' = [count EXCEPT ![s] = k]
    /\ channel_size' = IF Bounded THEN channel_size + k ELSE channel_size
    /\ pc' = [pc EXCEPT ![s] = IF Bounded /\ OverCapacity(channel_size, k)
                               THEN "rollback" ELSE "commit"]
    /\ UNCHANGED <<chutes, clean, waker, senders, chute_clock, chute, receiverVars,
                   notified, history>>

(* Mutant: the reservation of a rejected batch leaks. *)
MutRollback(s) ==
    /\ pc[s] = "rollback"
    /\ pc' = [pc EXCEPT ![s] = "idle"]
    /\ UNCHANGED <<sharedVars, chute, count, receiverVars, notified, history>>

(* Error::Full: the reservation is given back. *)
Rollback(s) ==
    /\ pc[s] = "rollback"
    /\ channel_size' = channel_size - count[s]
    /\ pc' = [pc EXCEPT ![s] = "idle"]
    /\ UNCHANGED <<chutes, clean, waker, senders, chute_clock, chute, count, receiverVars,
                   notified, history>>

Batch(s) == [i \in 1 .. count[s] |-> [from |-> s, seq |-> sent[s] + i]]

(* Mutant: looks at the length after the queue was extended by one. *)
MutFallingEdge(queue) == Len(queue) = 1

(* Whether the sender that found this queue in its chute wakes the receiver. *)
FallingEdge(queue) == queue = <<>>

(* Chute::send_many under the mutex: extend the queue and, when it was empty, *)
(* clear the clean flag.                                                      *)
Commit(s) ==
    LET c == chute[s] IN
    /\ pc[s] = "commit"
    /\ ~Locked(c)
    /\ chutes' = [chutes EXCEPT ![c] = @ \o Batch(s)]
    /\ clean' = [clean EXCEPT ![c] = @ /\ ~FallingEdge(chutes[c])]
    /\ pc' = [pc EXCEPT ![s] = IF FallingEdge(chutes[c]) THEN "wake" ELSE "idle"]
    /\ sent' = [sent EXCEPT ![s] = @ + count[s]]
    /\ ends' = [ends EXCEPT ![s] = @ \cup {sent[s] + count[s]}]
    /\ UNCHANGED <<waker, senders, chute_clock, channel_size, chute, count, receiverVars,
                   notified, got, last>>

(* on_dirty() and the release of the mutex. *)
WakeForDirty(s) ==
    /\ pc[s] = "wake"
    /\ WakeReceiver
    /\ pc' = [pc EXCEPT ![s] = "idle"]
    /\ UNCHANGED <<chutes, clean, senders, chute_clock, channel_size, chute, count,
                   receiverVars, history>>

(* Mutant: compares the old count with the new one's bound. *)
MutLastSender(was) == was = 0

(* Whether the handle that found this count when it was dropped wakes the receiver. *)
LastSender(was) == was = 1

(* Sender::drop: uncount the handle. *)
DropSender(s) ==
    /\ pc[s] = "idle"
    /\ senders' = senders - 1
    /\ pc' = [pc EXCEPT ![s] = IF LastSender(senders) THEN "wakedrop" ELSE "dropped"]
    /\ UNCHANGED <<chutes, clean, waker, chute_clock, channel_size, chute, count,
                   receiverVars, notified, history>>

(* The last handle wakes the receiver. *)
WakeForLastDrop(s) ==
    /\ pc[s] = "wakedrop"
    /\ WakeReceiver
    /\ pc' = [pc EXCEPT ![s] = "dropped"]
    /\ UNCHANGED <<chutes, clean, senders, chute_clock, channel_size, chute, count,
                   receiverVars, history>>

-----------------------------------------------------------------------------
(* Mutant: looks for a dirty chute while the buffer still has values. *)
MutStartPoll(m) ==
    /\ rpc = "idle"
    /\ mode' = m
    /\ scan' = 0
    /\ rpc' = "scan1"
    /\ UNCHANGED <<sharedVars, senderVars, cursor, buffer, initial_len, notified, history>>

(* A call of next ("next"), next_batch ("batch") or try_next ("try").  They  *)
(* all call poll_next, which first looks at the receiver's own buffer.       *)
StartPoll(m) ==
    /\ rpc = "idle"
    /\ mode' = m
    /\ scan' = 0
    /\ rpc' = IF buffer # <<>> THEN "take" ELSE "scan1"
    /\ UNCHANGED <<sharedVars, senderVars, cursor, buffer, initial_len, notified, history>>

(* race_find_dirty: one load of a clean flag per step, from the cursor on. *)
Scanned == Wrap(cursor + scan)

FindDirty ==
    /\ rpc \in {"scan1", "scan2"}
    /\ ~clean[Scanned]
    /\ rpc' = "swap"
    /\ UNCHANGED <<sharedVars, senderVars, mode, cursor, scan, buffer, initial_len,
                   notified, history>>

(* What poll_next does after a scan that found every chute clean. *)
AfterCleanScan == IF rpc = "scan1" THEN "register" ELSE "senders"

FindClean ==
    /\ rpc \in {"scan1", "scan2"}
    /\ clean[Scanned]
    /\ scan' = scan + 1
    /\ rpc' = IF scan + 1 = NChutes THEN AfterCleanScan ELSE rpc
    /\ UNCHANGED <<sharedVars, senderVars, mode, cursor, buffer, initial_len, notified, history>>

(* Mutant: no second look at the chutes after registering. *)
MutRegister ==
    /\ rpc = "register"
    /\ waker' = (mode # "try")
    /\ rpc' = "senders"
    /\ UNCHANGED <<chutes, clean, senders, chute_clock, channel_size, senderVars, mode, cursor, scan,
                   buffer, initial_len, notified, history>>

(* AtomicWaker::register; try_next registers a waker that does nothing. *)
Register ==
    /\ rpc = "register"
    /\ waker' = (mode # "try")
    /\ scan' = 0
    /\ rpc' = "scan2"
    /\ UNCHANGED <<chutes, clean, senders, chute_clock, channel_size, senderVars, mode, cursor,
                   buffer, initial_len, notified, history>>

(* Ready(None) when there is no sender, else Pending; both are None to try_next. *)
CheckSenders ==
    /\ rpc = "senders"
    /\ rpc' = CASE mode = "try" -> "idle"
                [] mode # "try" /\ senders = 0 -> "done"
                [] mode # "try" /\ senders # 0 -> "parked"
    /\ UNCHANGED <<sharedVars, senderVars, mode, cursor, scan, buffer, initial_len, notified, history>>

(* Mutant: the flag is not restored when the chute is emptied. *)
MutSwap ==
    /\ rpc = "swap"
    /\ ~Locked(Scanned)
    /\ buffer' = chutes[Scanned]
    /\ chutes' = [chutes EXCEPT ![Scanned] = <<>>]
    /\ cursor' = Wrap(Scanned + 1)
    /\ rpc' = "take"
    /\ UNCHANGED <<clean, waker, senders, chute_clock, channel_size, senderVars, mode, scan, initial_len,
                   notified, history>>

(* Chute::swap of the dirty chute with the empty buffer, under the mutex. *)
Swap ==
    /\ rpc = "swap"
    /\ ~Locked(Scanned)
    /\ buffer' = chutes[Scanned]
    /\ chutes' = [chutes EXCEPT ![Scanned] = <<>>]
    /\ clean' = [clean EXCEPT ![Scanned] = TRUE]
    /\ cursor' = Wrap(Scanned + 1)
    /\ rpc' = "take"
    /\ UNCHANGED <<waker, senders, chute_clock, channel_size, senderVars, mode, scan, initial_len,
                   notified, history>>

(* The caller has received the first value of the buffer. *)
Deliver ==
    /\ buffer' = Tail(buffer)
    /\ got' = [got EXCEPT ![Head(buffer).from] = Head(buffer).seq]
    /\ last' = Head(buffer).from
    /\ UNCHANGED <<sent, ends>>

Sized(delta) == channel_size' = IF Bounded THEN channel_size + delta ELSE channel_size

(* pop_front and decrement_size(1).  The pop is an expect(): on an empty     *)
(* buffer the receiver panics and takes no further step.                     *)
TakeOne ==
    /\ rpc = "take" /\ mode # "batch" /\ buffer # <<>>
    /\ Sized(-1)
    /\ Deliver
    /\ rpc' = "idle"
    /\ UNCHANGED <<chutes, clean, waker, senders, chute_clock, senderVars, mode, cursor, scan,
                   initial_len, notified>>

(* In next_batch the popped value goes back to the front of the buffer, which *)
(* no other thread sees, but the decrement is visible until PutBack.         *)
TakeForBatch ==
    /\ rpc = "take" /\ mode = "batch" /\ buffer # <<>>
    /\ Sized(-1)
    /\ rpc' = "putback"
    /\ UNCHANGED <<chutes, clean, waker, senders, chute_clock, senderVars, mode, cursor, scan,
                   buffer, initial_len, notified, history>>

(* next_batch restores the count and hands out a BatchDrain. *)
PutBack ==
    /\ rpc = "putback"
    /\ Sized(1)
    /\ initial_len' = Len(buffer)
    /\ rpc' = "drain"
    /\ UNCHANGED <<chutes, clean, waker, senders, chute_clock, senderVars, mode, cursor, scan,
                   buffer, notified, history>>

(* BatchDrain::next *)
DrainNext ==
    /\ rpc = "drain" /\ buffer # <<>>
    /\ Deliver
    /\ UNCHANGED <<sharedVars, senderVars, rpc, mode, cursor, scan, initial_len, notified>>

(* BatchDrain::drop, possibly before every value was taken. *)
DrainDrop ==
    /\ rpc = "drain"
    /\ Sized(Len(buffer) - initial_len)
    /\ rpc' = "idle"
    /\ UNCHANGED <<chutes, clean, waker, senders, chute_clock, senderVars, mode, cursor, scan,
                   buffer, initial_len, notified, history>>

(* The parked task is polled: because it was woken, or for a reason of its own. *)
TaskPolled ==
    /\ rpc = "parked"
    /\ rpc' = "idle"
    /\ notified' = FALSE
    /\ UNCHANGED <<sharedVars, senderVars, mode, cursor, scan, buffer, initial_len, history>>

Wakeup == notified /\ TaskPolled
SpuriousPoll == ~notified /\ TaskPolled

(* The Receiver has no Drop: its buffer goes away and nobody is told. *)
DropReceiver ==
    /\ rpc \in {"idle", "parked", "done"}
    /\ rpc' = "dropped"
    /\ UNCHANGED <<sharedVars, senderVars, mode, cursor, scan, buffer, initial_len, notified, history>>

(* Everything has been dropped. *)
Finished ==
    /\ rpc = "dropped"
    /\ \A s \in Senders : pc[s] \in {"unborn", "dropped"}
    /\ UNCHANGED vars

-----------------------------------------------------------------------------
SenderStep(s) ==
    \/ \E t \in Senders : Clone(s, t)
    \/ \E k \in BatchSizes : BeginSend(s, k)
    \/ Rollback(s)
    \/ Commit(s)
    \/ WakeForDirty(s)
    \/ DropSender(s)
    \/ WakeForLastDrop(s)

(* Steps inside a call that the receiver's task is executing. *)
ReceiverStep ==
    \/ FindDirty \/ FindClean \/ Register \/ CheckSenders
    \/ Swap \/ TakeOne \/ TakeForBatch \/ PutBack \/ DrainNext \/ DrainDrop

Next ==
    \/ \E s \in Senders : SenderStep(s)
    \/ \E m \in Modes : StartPoll(m)
    \/ ReceiverStep
    \/ Wakeup \/ SpuriousPoll
    \/ DropReceiver
    \/ Finished

Spec == Init /\ [][Next]_vars

(***************************************************************************)
(* Fairness: a thread inside a call of the channel keeps running, a woken  *)
(* task is polled, the receiver's owner keeps asking for values and takes  *)
(* values from the batches it is given.  Nothing makes a sender start a    *)
(* call, and nobody is obliged to drop anything.                           *)
(***************************************************************************)
InCall(s) == Rollback(s) \/ Commit(s) \/ WakeForDirty(s) \/ WakeForLastDrop(s)

Fairness ==
    /\ \A s \in Senders : WF_vars(InCall(s))
    /\ WF_vars(\E m \in Modes : StartPoll(m))
    /\ WF_vars(ReceiverStep)
    /\ WF_vars(Wakeup)
    /\ SF_vars(DrainNext)

FairSpec == Spec /\ Fairness

-----------------------------------------------------------------------------
(* Type invariant, in four parts.  That the two counters never go below zero  *)
(* (an unsigned wrap in the code) is left to SizeIsExact and NoneMeansNoSender. *)
TypeShared ==
    /\ chutes \in [Chutes -> Seq(Value)]
    /\ clean \in [Chutes -> BOOLEAN]
    /\ waker \in BOOLEAN /\ notified \in BOOLEAN
    /\ senders \in Int /\ channel_size \in Int
    /\ chute_clock \in Chutes

TypeSender ==
    /\ pc \in [Senders -> SenderSteps]
    /\ chute \in [Senders -> Chutes]
    /\ count \in [Senders -> Nat]

TypeReceiver ==
    /\ rpc \in ReceiverSteps
    /\ mode \in {"next", "batch", "try"}
    /\ cursor \in Chutes
    /\ scan \in 0 .. NChutes
    /\ rpc \in {"scan1", "scan2", "swap"} => scan < NChutes
    /\ buffer \in Seq(Value)
    /\ initial_len \in Nat

TypeHistory ==
    /\ sent \in [Senders -> Nat] /\ got \in [Senders -> Nat]
    /\ ends \in [Senders -> SUBSET Nat]
    /\ last \in Senders \cup {Nobody}

TypeOK == TypeShared /\ TypeSender /\ TypeReceiver /\ TypeHistory

(* Handles that have been counted and not yet uncounted. *)
Live == {s \in Senders : pc[s] \notin {"unborn", "wakedrop", "dropped"}}

(* Values that were enqueued and that the receiver's caller has not seen. *)
InFlight == UNION {{<<s, n>> : n \in got[s] + 1 .. sent[s]} : s \in Senders}

(* The same, with the reservations of calls in progress. *)
Reserved(s) == IF pc[s] \in {"rollback", "commit"} THEN count[s] ELSE 0
Held == UNION {{<<s, n>> : n \in got[s] + 1 .. sent[s] + Reserved(s)} : s \in Senders}

(* receiver.rs:97: the buffer swapped out of a dirty chute has a first value. *)
(* The flag is read without the mutex, and senders and swap race on it.       *)
ExpectHolds == rpc = "take" => buffer # <<>>

(* No wakeup is lost.  Senders only wake on the edge from empty to non-empty  *)
(* and on the last drop, and the receiver looks, registers and looks again:   *)
(* when its task sleeps with no wakeup on the way, every non-empty chute has  *)
(* a sender about to call wake, and so has the end of the channel.            *)
NoLostWakeup ==
    rpc = "parked" /\ ~notified =>
        /\ waker
        /\ \A c \in Chutes : chutes[c] # <<>> => Locked(c)
        /\ Live = {} => \E s \in Senders : pc[s] = "wakedrop"

(* next_batch gives one unit of capacity away for a moment. *)
Slack == IF "batch" \in Modes THEN 1 ELSE 0

(* lib.rs:38: capacity bounds the values in flight, whatever reservations,    *)
(* rollbacks and drains overlap; next_batch adds a slack of one.              *)
InFlightBounded == Bounded => Cardinality(InFlight) <= Capacity + Slack

(* channel_size is never out of step: it is the number of values in flight or *)
(* reserved by a call in progress, plus what an open BatchDrain has consumed, *)
(* less the one next_batch took and is about to put back.  A leak would make  *)
(* the channel Full for ever, an excess decrement would wrap.                 *)
SizeIsExact ==
    Bounded => channel_size = Cardinality(Held)
                              + (IF rpc = "drain" THEN initial_len - Len(buffer) ELSE 0)
                              - (IF rpc = "putback" THEN 1 ELSE 0)

(* Ready(None) is given only when no handle is left that could send or clone. *)
NoneMeansNoSender ==
    /\ rpc = "done" => Live = {}
    /\ senders = Cardinality(Live)

(* The channel implements SenderFifo: per-sender order, no loss, no           *)
(* duplicate, and batches that are received whole.                            *)
Fifo == INSTANCE SenderFifo
FifoSpec == Fifo!Spec

(* Every value that was enqueued is received unless the receiver ended first. *)
Delivery ==
    \A s \in Senders : \A n \in 1 .. MaxSend :
        sent[s] >= n ~> got[s] >= n \/ rpc \in {"done", "dropped"}

(* When the last handle is gone the receiver learns of it. *)
EndIsSeen == Live = {} ~> rpc \in {"done", "dropped"}

(* receiver.rs:46: None "when all senders have been dropped and the Receiver  *)
(* is caught up".                                                             *)
NoneMeansCaughtUp == rpc = "done" => InFlight = {}
=============================================================================
