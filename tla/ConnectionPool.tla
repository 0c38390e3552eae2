--------------------------- MODULE ConnectionPool ---------------------------
(***************************************************************************)
(* One slot of the rpc client's ConnectionPool: the mutex-guarded          *)
(* ConnectionState, the connect tasks it spawns, and the callers that look *)
(* the slot up, wait on a shared connect handle and reconcile its result.  *)
(* Slots share nothing, so one stands for all.                             *)
(*                                                                         *)
(* An action is what happens under one hold of the slot's mutex.           *)
(***************************************************************************)
EXTENDS Integers, FiniteSets

CONSTANTS Callers,
          MaxConnects,      \* bound: connect tasks spawned
          MaxTrouble        \* bound: failed connects, deaths of clients, dropped waits

ASSUME PoolAssumption ==
    /\ IsFiniteSet(Callers)
    /\ MaxConnects \in Nat \ {0} /\ MaxTrouble \in Nat

VARIABLES
    state, current,     \* ConnectionState, and the connect it is of
    spawned,            \* connects spawned; a client is known by its connect
    outcome,            \* per connect: "pending", "handshake", "ok" or "error"
    alive,              \* the clients whose is_alive is set
    pc, handle,         \* per caller: its step and the connect it awaits or was given
    trouble

vars == <<state, current, spawned, outcome, alive, pc, handle, trouble>>

Connects == 1 .. MaxConnects

Init ==
    /\ state = "Disconnected" /\ current = 0
    /\ spawned = 0
    /\ outcome = [k \in Connects |-> "pending"]
    /\ alive = {}
    /\ pc = [c \in Callers |-> "idle"]
    /\ handle = [c \in Callers |-> 0]
    /\ trouble = 0

SetSlot(s, k) == state' = s /\ current' = k

Return(c, k) ==
    /\ pc' = [pc EXCEPT ![c] = "client"]
    /\ handle' = [handle EXCEPT ![c] = k]

Await(c, k) ==
    /\ pc' = [pc EXCEPT ![c] = "await"]
    /\ handle' = [handle EXCEPT ![c] = k]

-----------------------------------------------------------------------------
(* get_connection_by_slot up to the await: a loop that locks the mutex anew each time *)
(* around, as a caller does that asks for a client.                                   *)
Looks(c) == pc[c] \in {"idle", "look", "client", "error"}

Continue(c) ==
    /\ pc' = [pc EXCEPT ![c] = "look"]
    /\ UNCHANGED handle

LiveInSlot == state = "Connected" /\ current \in alive

FindConnected(c) ==
    /\ Looks(c)
    /\ LiveInSlot
    /\ Return(c, current)
    /\ UNCHANGED <<state, current, spawned, outcome, alive, trouble>>

FindConnecting(c) ==
    /\ Looks(c)
    /\ state = "Connecting"
    /\ Await(c, current)
    /\ UNCHANGED <<state, current, spawned, outcome, alive, trouble>>

(* A dead client leaves the slot. *)
FindDead(c) ==
    /\ Looks(c)
    /\ state = "Connected" /\ current \notin alive
    /\ SetSlot("Disconnected", 0)
    /\ Continue(c)
    /\ UNCHANGED <<spawned, outcome, alive, trouble>>

(* Mutant: a caller connects while a connect is under way. *)
MutNeedsConnect == state # "Connected"

NeedsConnect == state = "Disconnected"

(* Mutant: the slot keeps the previous handle. *)
MutNewConnect == spawned

NewConnect == spawned + 1

(* A connect is spawned; the next time around, the caller takes the handle it finds. *)
Connect(c) ==
    /\ Looks(c)
    /\ NeedsConnect
    /\ spawned < MaxConnects
    /\ spawned' = spawned + 1
    /\ SetSlot("Connecting", NewConnect)
    /\ Continue(c)
    /\ UNCHANGED <<outcome, alive, trouble>>

-----------------------------------------------------------------------------
(* After the await. *)

(* Mutant: only a slot that is still Connecting is reconciled. *)
MutReady(c, o) == pc[c] = "await" /\ outcome[handle[c]] = o /\ state = "Connecting"

Ready(c, o) == pc[c] = "await" /\ outcome[handle[c]] = o

(* Mutant: the caller's own client always takes the slot. *)
MutFavoured(c) == handle[c]

(* A live client in the slot wins over the one just connected. *)
Favoured(c) == IF LiveInSlot THEN current ELSE handle[c]

(* reconcile_client_slot. *)
Reconcile(c) ==
    /\ Ready(c, "ok")
    /\ SetSlot("Connected", Favoured(c))
    /\ Return(c, Favoured(c))
    /\ UNCHANGED <<spawned, outcome, alive, trouble>>

(* Mutant: a failed connect stays in the slot. *)
MutClear == UNCHANGED <<state, current>>

Clear == SetSlot("Disconnected", 0)

(* The connect failed: whatever the slot holds by now, it becomes Disconnected. *)
Fail(c) ==
    /\ Ready(c, "error")
    /\ Clear
    /\ pc' = [pc EXCEPT ![c] = "error"]
    /\ UNCHANGED <<spawned, outcome, alive, handle, trouble>>

-----------------------------------------------------------------------------
(* The spawned connect tasks, the connections and the callers' owners. *)

Trouble == trouble < MaxTrouble /\ trouble' = trouble + 1

(* client::connect.  The tcp stream is connected and its options are set; the reactor, the  *)
(* queue and the RpcClient are made, and the stream's handshake begins.                       *)
Handshake(k) ==
    /\ k <= spawned /\ outcome[k] = "pending"
    /\ outcome' = [outcome EXCEPT ![k] = "handshake"]
    /\ alive' = alive \cup {k}
    /\ UNCHANGED <<state, current, spawned, pc, handle, trouble>>

(* The handshake is done: the Connection is made, with the reactor, and spawned by the       *)
(* connector, which returns the client.                                                      *)
ConnectSucceeds(k) ==
    /\ outcome[k] = "handshake"
    /\ outcome' = [outcome EXCEPT ![k] = "ok"]
    /\ UNCHANGED <<state, current, spawned, alive, pc, handle, trouble>>

(* An error of the connect, of an option or of the handshake, or the join error of a task    *)
(* that panicked: a reactor that was made is dropped, and its client with it.                *)
ConnectFails(k) ==
    /\ Trouble
    /\ k <= spawned /\ outcome[k] \in {"pending", "handshake"}
    /\ outcome' = [outcome EXCEPT ![k] = "error"]
    /\ alive' = alive \ {k}
    /\ UNCHANGED <<state, current, spawned, pc, handle>>

(* The connection's future ends. *)
ClientDies(k) ==
    /\ Trouble
    /\ k \in alive /\ outcome[k] = "ok"
    /\ alive' = alive \ {k}
    /\ UNCHANGED <<state, current, spawned, outcome, pc, handle>>

(* A caller's future is dropped while it awaits; the connect goes on. *)
CallerDrops(c) ==
    /\ Trouble
    /\ pc[c] = "await"
    /\ pc' = [pc EXCEPT ![c] = "idle"]
    /\ UNCHANGED <<state, current, spawned, outcome, alive, handle>>

Resolve(k) == Handshake(k) \/ ConnectSucceeds(k) \/ ConnectFails(k)

Look(c) == FindConnected(c) \/ FindConnecting(c) \/ FindDead(c) \/ Connect(c)

Next ==
    \/ \E c \in Callers : Look(c) \/ Reconcile(c) \/ Fail(c) \/ CallerDrops(c)
    \/ \E k \in Connects : Resolve(k) \/ ClientDies(k)

Spec == Init /\ [][Next]_vars

(* A connect gets on (the operating system ends a tcp connect that is not answered; that *)
(* the handshake ends is up to the server, as connect sets no timeout); a caller that is *)
(* ready to run runs; callers go on asking.                                              *)
FairSpec ==
    /\ Spec
    /\ \A k \in Connects : WF_vars(Resolve(k))
    /\ \A c \in Callers : WF_vars(Reconcile(c) \/ Fail(c)) /\ WF_vars(Look(c))

-----------------------------------------------------------------------------
(* Properties. *)

(* The type invariant; a slot that is Connected or Connecting names a spawned connect, and *)
(* only clients of connects that succeeded are handed out.                                  *)
TypeOK ==
    /\ state \in {"Disconnected", "Connecting", "Connected"}
    /\ spawned \in 0 .. MaxConnects
    /\ current \in 0 .. spawned /\ (state # "Disconnected" => current # 0)
    /\ outcome \in [Connects -> {"pending", "handshake", "ok", "error"}]
    /\ alive \subseteq 1 .. spawned
    /\ pc \in [Callers -> {"idle", "look", "await", "client", "error"}]
    /\ handle \in [Callers -> 0 .. spawned]
    /\ \A c \in Callers : pc[c] = "client" => outcome[handle[c]] = "ok"
    /\ trouble \in 0 .. MaxTrouble

(* The connects the pool spawns are paid for: beyond the first, each one follows a    *)
(* failed connect seen by a waiter or a dead client, so while nothing fails or dies   *)
(* callers share one connect, however they interleave with it                         *)
(* (the Shared handle of ConnectionState::Connecting).                                *)
ConnectIsShared == trouble = 0 => spawned <= 1

(* Reconciling never puts an older client in the place of a live one: a live client   *)
(* leaves the slot only when it dies or a failed connect of another waiter clears     *)
(* the slot (reconcile_client_slot).                                                  *)
LiveIsNotReplaced ==
    [][LiveInSlot /\ current' # current => state' = "Disconnected"]_vars

(* The pool heals: once connects succeed and clients stop dying, the slot settles on a *)
(* live client, whatever handles of earlier connects are still awaited.                *)
Settles == <>[]LiveInSlot

(* A caller that waits is given a client or an error. *)
Answered == \A c \in Callers : pc[c] = "await" ~> pc[c] # "await"
=============================================================================
