---------------------------- MODULE SocketServer ----------------------------
(* The accept loops of ProtosocketServer and SocketRpcServer over a TcpSocketListener or a    *)
(* TlsSocketListener.  A server is a future: its poll runs on one thread, step by step, while *)
(* peers connect and TLS handshakes, tasks of their own in the listener's JoinSet, finish on  *)
(* others.  Polls of the listener register wakers; a parked server is polled only if woken.   *)
EXTENDS Naturals, Sequences, FiniteSets, SequencesExt

CONSTANTS Servers,      \* listening sockets, each with its server
          Clients,      \* the peers that ever connect
          Kinds,        \* of server and listener: elements of {"plain", "rpc"} \X {"tcp", "tls"}
          Backlog,      \* listen_backlog
          MaxFaults     \* accept errors and panics of handshake tasks

ASSUME ServerAssumption == /\ Kinds \subseteq {"plain", "rpc"} \X {"tcp", "tls"}
                           /\ Backlog \in Nat /\ MaxFaults \in Nat

VARIABLES
    kind,       \* the kind of every server
    pc,         \* of a server: "unbound", "parked", "accept", "join", "spawned", "ended"
    woken,      \* its task is to be polled
    armed,      \* who holds its waker: "accept" (the socket), "join" (the JoinSet)
    backlog,    \* connections the kernel holds for its socket
    stage,      \* of a client: "away", "backlog", "shaking", "shaken", "failed" (the handshake),
                \* "panicked" (its task), "serving", "closed", "lost", "refused"
    at,         \* the sockets a client is, or was, connected to: none or one
    senders,    \* live Senders of the connection's outbound queue
    held,       \* the connections whose Sender the server's loop holds: none or one
    faults

serverVars == <<kind, pc, woken, armed, backlog, stage, at, senders, held, faults>>

ServerInit ==
    /\ \E k \in Kinds : kind = [s \in Servers |-> k]
    /\ pc = [s \in Servers |-> "unbound"]
    /\ woken = [s \in Servers |-> FALSE]
    /\ armed = [s \in Servers |-> {}]
    /\ backlog = [s \in Servers |-> <<>>]
    /\ stage = [c \in Clients |-> "away"]
    /\ at = [c \in Clients |-> {}]
    /\ senders = [c \in Clients |-> 0]
    /\ held = [s \in Servers |-> {}]
    /\ faults = 0

Tls(s) == kind[s][2] = "tls"
Rpc(s) == kind[s][1] = "rpc"

(* The handshakes in the JoinSet of a listener: in_flight_connections. *)
InFlight(s) == {c \in Clients : s \in at[c] /\ stage[c] \in {"shaking", "shaken", "failed", "panicked"}}

Finished(s) == {c \in InFlight(s) : stage[c] # "shaking"}

(* A waker is used once. *)
Wake(s, who) ==
    /\ woken' = [woken EXCEPT ![s] = @ \/ who \in armed[s]]
    /\ armed' = [armed EXCEPT ![s] = @ \ {who}]

-----------------------------------------------------------------------------
(* Peers, and the handshake tasks. *)

(* The kernel gives a connection to one of the sockets that share the port (SO_REUSEPORT). *)
Connect(c, s) ==
    /\ stage[c] = "away" /\ pc[s] \notin {"unbound", "ended"} /\ Len(backlog[s]) < Backlog
    /\ stage' = [stage EXCEPT ![c] = "backlog"] /\ at' = [at EXCEPT ![c] = {s}]
    /\ backlog' = [backlog EXCEPT ![s] = Append(@, c)]
    /\ Wake(s, "accept")
    /\ UNCHANGED <<kind, pc, senders, held, faults>>

Refuse(c, s) ==
    /\ stage[c] = "away" /\ (pc[s] \in {"unbound", "ended"} \/ Len(backlog[s]) = Backlog)
    /\ stage' = [stage EXCEPT ![c] = "refused"]
    /\ UNCHANGED <<kind, pc, woken, armed, backlog, at, senders, held, faults>>

(* A handshake task ends: with a stream, with an error of the peer's making, or by a panic. *)
Handshake(c, s, result) ==
    /\ stage[c] = "shaking" /\ s \in at[c]
    /\ result = "panicked" => faults < MaxFaults
    /\ faults' = faults + (IF result = "panicked" THEN 1 ELSE 0)
    /\ stage' = [stage EXCEPT ![c] = result]
    /\ Wake(s, "join")
    /\ UNCHANGED <<kind, pc, backlog, at, senders, held>>

(* The connection's future is complete: its reactor, with its Sender, is dropped. *)
Close(c) ==
    /\ stage[c] = "serving"
    /\ stage' = [stage EXCEPT ![c] = "closed"]
    /\ senders' = [senders EXCEPT ![c] = IF \E s \in at[c] : Rpc(s) THEN @ ELSE @ - 1]
    /\ UNCHANGED <<kind, pc, woken, armed, backlog, at, held, faults>>

-----------------------------------------------------------------------------
(* The server. *)

(* The first poll of the task: TcpSocketListener::listen, the constructor, and the loop. *)
Listen(s) ==
    /\ pc[s] = "unbound"
    /\ pc' = [pc EXCEPT ![s] = "accept"]
    /\ UNCHANGED <<kind, woken, armed, backlog, stage, at, senders, held, faults>>

StartPoll(s) ==
    /\ pc[s] = "parked" /\ woken[s]
    /\ pc' = [pc EXCEPT ![s] = "accept"] /\ woken' = [woken EXCEPT ![s] = FALSE]
    /\ UNCHANGED <<kind, armed, backlog, stage, at, senders, held, faults>>

(* Mutant: the rpc server's reactor keeps a Sender too. *)
MutClones(s) == 1

(* The Senders of its own outbound queue a new connection's reactor is given. *)
Clones(s) == IF Rpc(s) THEN 0 ELSE 1

(* A stream is ready: the outbound channel, the reactor (a plain server's gets a clone of the *)
(* Sender), the Connection, and its spawn.                                                    *)
Serve(s, c) ==
    /\ stage' = [stage EXCEPT ![c] = "serving"]
    /\ senders' = [senders EXCEPT ![c] = 1 + Clones(s)]
    /\ held' = [held EXCEPT ![s] = {c}]
    /\ pc' = [pc EXCEPT ![s] = "spawned"]

AcceptStream(s) ==
    /\ pc[s] = "accept" /\ ~Tls(s) /\ backlog[s] # <<>>
    /\ Serve(s, Head(backlog[s]))
    /\ backlog' = [backlog EXCEPT ![s] = Tail(@)]
    /\ UNCHANGED <<kind, woken, armed, at, faults>>

(* Mutant: the listener waits for one handshake before it accepts the next connection. *)
MutAcceptHandshake(s) ==
    /\ pc[s] = "accept" /\ Tls(s) /\ backlog[s] # <<>> /\ InFlight(s) = {}
    /\ stage' = [stage EXCEPT ![Head(backlog[s])] = "shaking"]
    /\ backlog' = [backlog EXCEPT ![s] = Tail(@)]
    /\ UNCHANGED <<kind, pc, woken, armed, at, senders, held, faults>>

(* Every connection is accepted at once; its handshake is a task of its own. *)
AcceptHandshake(s) ==
    /\ pc[s] = "accept" /\ Tls(s) /\ backlog[s] # <<>>
    /\ stage' = [stage EXCEPT ![Head(backlog[s])] = "shaking"]
    /\ backlog' = [backlog EXCEPT ![s] = Tail(@)]
    /\ UNCHANGED <<kind, pc, woken, armed, at, senders, held, faults>>

AcceptPending(s) ==
    /\ pc[s] = "accept" /\ backlog[s] = <<>>
    /\ armed' = [armed EXCEPT ![s] = @ \cup {"accept"}]
    /\ pc' = [pc EXCEPT ![s] = IF Tls(s) THEN "join" ELSE "parked"]
    /\ UNCHANGED <<kind, woken, backlog, stage, at, senders, held, faults>>

(* The Sender the loop's iteration still holds goes out of scope. *)
EndIteration(s) ==
    /\ pc[s] = "spawned" /\ pc' = [pc EXCEPT ![s] = "accept"]
    /\ senders' = [c \in Clients |-> IF c \in held[s] THEN senders[c] - 1 ELSE senders[c]]
    /\ held' = [held EXCEPT ![s] = {}]
    /\ UNCHANGED <<kind, woken, armed, backlog, stage, at, faults>>

(* The server's future is complete or dropped, and with it the socket and the JoinSet. *)
Stopped(s) ==
    /\ pc' = [pc EXCEPT ![s] = "ended"]
    /\ armed' = [armed EXCEPT ![s] = {}] /\ woken' = [woken EXCEPT ![s] = FALSE]
    /\ backlog' = [backlog EXCEPT ![s] = <<>>]
    /\ stage' = [c \in Clients |-> IF c \in Range(backlog[s]) \cup InFlight(s) THEN "lost" ELSE stage[c]]

(* poll_join_next: the stream of a finished handshake is served, *)
JoinStream(s, c) ==
    /\ pc[s] = "join" /\ c \in InFlight(s) /\ stage[c] = "shaken"
    /\ Serve(s, c)
    /\ UNCHANGED <<kind, woken, armed, backlog, at, faults>>

(* Mutant: the error of a handshake is an error of the listener. *)
MutJoinFailed(s, c) ==
    /\ pc[s] = "join" /\ c \in InFlight(s) /\ stage[c] = "failed"
    /\ Stopped(s)
    /\ UNCHANGED <<kind, at, senders, held, faults>>

(* a failed one is passed over, *)
JoinFailed(s, c) ==
    /\ pc[s] = "join" /\ c \in InFlight(s) /\ stage[c] = "failed"
    /\ stage' = [stage EXCEPT ![c] = "closed"]
    /\ UNCHANGED <<kind, pc, woken, armed, backlog, at, senders, held, faults>>

(* Mutant: the JoinSet is polled only after a new connection. *)
MutJoinArms(s) == {}

(* poll_join_next of a set that is not empty keeps the waker. *)
JoinArms(s) == IF InFlight(s) = {} THEN {} ELSE {"join"}

(* and with none finished the set, if it has any, keeps the waker. *)
JoinPending(s) ==
    /\ pc[s] = "join" /\ Finished(s) = {}
    /\ armed' = [armed EXCEPT ![s] = @ \cup JoinArms(s)]
    /\ pc' = [pc EXCEPT ![s] = "parked"]
    /\ UNCHANGED <<kind, woken, backlog, stage, at, senders, held, faults>>

(* SocketResult::Disconnect, from an accept error *)
AcceptError(s) ==
    /\ pc[s] = "accept" /\ faults < MaxFaults
    /\ faults' = faults + 1
    /\ Stopped(s)
    /\ UNCHANGED <<kind, at, senders, held>>

(* or from the join error of a handshake task. *)
JoinError(s, c) ==
    /\ pc[s] = "join" /\ c \in InFlight(s) /\ stage[c] = "panicked"
    /\ Stopped(s)
    /\ UNCHANGED <<kind, at, senders, held, faults>>

(* One of the calls of listen fails: there is no server. *)
ListenError(s) ==
    /\ pc[s] = "unbound" /\ faults < MaxFaults
    /\ faults' = faults + 1
    /\ Stopped(s)
    /\ UNCHANGED <<kind, at, senders, held>>

(* The runtime drops the server between two polls. *)
DropServer(s) ==
    /\ pc[s] \in {"unbound", "parked"}
    /\ Stopped(s)
    /\ UNCHANGED <<kind, at, senders, held, faults>>
=============================================================================
