------------------------------ MODULE RpcWire -------------------------------
(***************************************************************************)
(* What an rpc client and an rpc server share: one Connection each way, as *)
(* the sequences of messages that were serialized by one end and not yet   *)
(* decoded by the other.  Connection.tla shows that a connection neither   *)
(* loses nor reorders them while it is open.                               *)
(***************************************************************************)
EXTENDS Integers, Sequences, FiniteSets, SequencesExt

CONSTANTS Rpcs,             \* the rpcs; each has a message id of its own, so it is its id
          Streaming,        \* those that are server-streaming; the others are unary
          MaxItems,         \* bound: items of one response stream
          MaxSent           \* max_queued_send_messages, for one direction

ASSUME RpcAssumption ==
    /\ IsFiniteSet(Rpcs) /\ Streaming \subseteq Rpcs
    /\ MaxItems \in Nat \ {0} /\ MaxSent \in Nat \ {0}

VARIABLES requests, responses,      \* messages on their way to the server, to the client
          client_up, server_up      \* the connection's future at either end is alive

wireVars == <<requests, responses, client_up, server_up>>

(* A message: its ProtosocketControlCode, its id and, of a response, its place among those *)
(* of its rpc.                                                                             *)
Normal(r, n) == [code |-> "normal", id |-> r, item |-> n]

(* Message::cancelled and Message::ended. *)
Cancelled(r) == [code |-> "cancel", id |-> r, item |-> 0]
EndMessage(r) == [code |-> "end", id |-> r, item |-> 0]

(* The connection serializes a message only when it has a permit to send. *)
HasPermit(channel) == Len(channel) < MaxSent

(* Some message about r is on the channel. *)
OnWire(channel, r) == \E i \in DOMAIN channel : channel[i].id = r

WireInit ==
    /\ requests = <<>> /\ responses = <<>>
    /\ client_up = TRUE /\ server_up = TRUE
=============================================================================
