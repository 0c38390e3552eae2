----------------------------- MODULE SenderFifo -----------------------------
(***************************************************************************)
(* What a spillway channel promises (spillway/src/sender.rs, the docs of   *)
(* Sender::send and Sender::send_many): every sender's values are received *)
(* in the order they were sent, none twice and none skipped, and the       *)
(* values of one batch are received with nothing in between.  There is no  *)
(* order between the values of different senders.                          *)
(*                                                                         *)
(* A value is known by its sender and its position among that sender's     *)
(* values, so a channel is two counters per sender and the set of          *)
(* positions at which a batch ends.                                        *)
(***************************************************************************)
EXTENDS Naturals

CONSTANTS Senders,      \* the Sender handles that may ever exist
          BatchSizes,   \* how many values one call may send
          Nobody        \* not a sender

VARIABLES sent,   \* sent[s]: how many values s has enqueued
          got,    \* got[s]: position of the last value of s that was received
          ends,   \* ends[s]: the positions that are the last of a batch of s
          last    \* the sender of the value received last

fifoVars == <<sent, got, ends, last>>

Init == /\ sent = [s \in Senders |-> 0]
        /\ got  = [s \in Senders |-> 0]
        /\ ends = [s \in Senders |-> {0}]
        /\ last = Nobody

(* The whole batch is enqueued in one step. *)
Send(s, k) ==
    /\ sent' = [sent EXCEPT ![s] = @ + k]
    /\ ends' = [ends EXCEPT ![s] = @ \cup {sent[s] + k}]
    /\ UNCHANGED <<got, last>>

(* The next value of s; another sender's batch must not be left half read. *)
Receive(s) ==
    /\ got[s] < sent[s]
    /\ last \in {Nobody, s} \/ got[last] \in ends[last]
    /\ got' = [got EXCEPT ![s] = @ + 1]
    /\ last' = s
    /\ UNCHANGED <<sent, ends>>

Next == \E s \in Senders : Receive(s) \/ \E k \in BatchSizes : Send(s, k)

Spec == Init /\ [][Next]_fifoVars
=============================================================================
