------------------------ MODULE ConnectionPoolProofs ------------------------
(***************************************************************************)
(* A slot of the connection pool, for any number of callers, connects and  *)
(* troubles: what is in the slot and in the callers' hands, that callers   *)
(* share a connect, and that a live client keeps the slot.                 *)
(***************************************************************************)
EXTENDS ConnectionPool, TLAPS

(* What the slot and the callers name: a connect that was spawned, and a client that one made; *)
(* a connect that was not spawned has no outcome.                                              *)
SlotInv ==
    /\ state = "Connected" => outcome[current] = "ok"
    /\ \A c \in Callers : pc[c] = "await" => handle[c] # 0
    /\ \A k \in Connects : spawned < k => outcome[k] = "pending"

(* Before any trouble there is one connect at most, it is in the slot, and its client lives.   *)
CalmInv ==
    trouble = 0 =>
        /\ spawned <= 1
        /\ state = "Disconnected" => spawned = 0
        /\ \A k \in 1 .. spawned : /\ outcome[k] # "error"
                                   /\ outcome[k] \in {"handshake", "ok"} => k \in alive

PoolInv == TypeOK /\ SlotInv /\ CalmInv

-----------------------------------------------------------------------------
(* A fresh slot satisfies the invariant. *)
LEMMA PoolInit == Init => PoolInv
<1> SUFFICES ASSUME Init PROVE PoolInv OBVIOUS
<1> USE PoolAssumption DEF Init
<1>1. TypeOK BY DEF TypeOK, Connects
<1>2. SlotInv BY DEF SlotInv
<1>3. CalmInv BY DEF CalmInv
<1> QED BY <1>1, <1>2, <1>3 DEF PoolInv

(* The types of what the steps below take apart. *)
LEMMA PoolTyped ==
    ASSUME TypeOK
    PROVE  /\ spawned \in Nat /\ spawned <= MaxConnects /\ current \in Nat /\ current <= spawned
           /\ trouble \in Nat /\ trouble <= MaxTrouble
           /\ \A k \in 1 .. spawned : k \in Connects
           /\ \A c \in Callers : handle[c] \in Nat /\ handle[c] <= spawned
           /\ MaxConnects \in Nat /\ MaxTrouble \in Nat
<1>1. MaxConnects \in Nat /\ MaxTrouble \in Nat BY PoolAssumption
<1>2. spawned \in Nat /\ spawned <= MaxConnects BY <1>1 DEF TypeOK
<1> QED BY <1>1, <1>2 DEF TypeOK, Connects

(* The steps of a caller that change neither the connects nor the clients. *)
LEMMA CallerKeeps ==
    ASSUME PoolInv, NEW c \in Callers,
           FindConnected(c) \/ FindConnecting(c) \/ FindDead(c) \/ Reconcile(c) \/ Fail(c)
    PROVE  PoolInv'
<1> USE DEF PoolInv
<1>1. UNCHANGED <<spawned, outcome, alive, trouble>>
  BY DEF FindConnected, FindConnecting, FindDead, Reconcile, Fail
<1>2. pc \in [Callers -> {"idle", "look", "await", "client", "error"}] /\ handle \in [Callers -> 0 .. spawned]
  BY DEF TypeOK
<1>3. CASE FindConnected(c)
  <2>1. /\ pc' = [pc EXCEPT ![c] = "client"] /\ handle' = [handle EXCEPT ![c] = current]
        /\ UNCHANGED <<state, current>> /\ state = "Connected"
    BY <1>3 DEF FindConnected, Return, LiveInSlot
  <2>2. outcome[current] = "ok" BY <2>1 DEF SlotInv
  <2>3. TypeOK' BY <1>1, <2>1, <2>2 DEF TypeOK
  <2>4. SlotInv' BY <1>1, <1>2, <2>1 DEF SlotInv
  <2>5. CalmInv' BY <1>1, <2>1 DEF CalmInv
  <2> QED BY <2>3, <2>4, <2>5
<1>4. CASE FindConnecting(c)
  <2>1. /\ pc' = [pc EXCEPT ![c] = "await"] /\ handle' = [handle EXCEPT ![c] = current]
        /\ UNCHANGED <<state, current>> /\ state = "Connecting"
    BY <1>4 DEF FindConnecting, Await
  <2>2. current # 0 BY <2>1 DEF TypeOK
  <2>3. TypeOK' BY <1>1, <2>1 DEF TypeOK
  <2>4. SlotInv' BY <1>1, <1>2, <2>1, <2>2 DEF SlotInv
  <2>5. CalmInv' BY <1>1, <2>1 DEF CalmInv
  <2> QED BY <2>3, <2>4, <2>5
<1>5. CASE Reconcile(c)
  <2>1. PICK k : k = Favoured(c) OBVIOUS
  <2>2. /\ pc' = [pc EXCEPT ![c] = "client"] /\ handle' = [handle EXCEPT ![c] = k]
        /\ state' = "Connected" /\ current' = k
    BY <1>5, <2>1 DEF Reconcile, Return, SetSlot
  <2>3. pc[c] = "await" /\ outcome[handle[c]] = "ok" BY <1>5 DEF Reconcile, Ready
  <2>4. k \in 0 .. spawned /\ k # 0 /\ outcome[k] = "ok"
    BY <2>1, <2>3 DEF TypeOK, SlotInv, Favoured, LiveInSlot
  <2>5. TypeOK' BY <1>1, <2>2, <2>4 DEF TypeOK
  <2>6. SlotInv' BY <1>1, <1>2, <2>2, <2>4 DEF SlotInv
  <2>7. CalmInv' BY <1>1, <2>2 DEF CalmInv
  <2> QED BY <2>5, <2>6, <2>7
<1>6. CASE Fail(c)
  <2>1. /\ pc' = [pc EXCEPT ![c] = "error"] /\ handle' = handle
        /\ state' = "Disconnected" /\ current' = 0
    BY <1>6 DEF Fail, Clear, SetSlot
  <2>2. pc[c] = "await" /\ outcome[handle[c]] = "error" BY <1>6 DEF Fail, Ready
  <2>3. handle[c] \in 1 .. spawned BY <1>2, <2>2, PoolTyped DEF SlotInv
  <2>4. trouble # 0 BY <2>2, <2>3 DEF CalmInv
  <2>5. TypeOK' BY <1>1, <2>1, PoolTyped DEF TypeOK
  <2>6. SlotInv' BY <1>1, <1>2, <2>1 DEF SlotInv
  <2>7. CalmInv' BY <1>1, <2>4 DEF CalmInv
  <2> QED BY <2>5, <2>6, <2>7
<1>7. CASE FindDead(c)
  <2>1. /\ pc' = [pc EXCEPT ![c] = "look"] /\ handle' = handle
        /\ state' = "Disconnected" /\ current' = 0 /\ state = "Connected" /\ current \notin alive
    BY <1>7 DEF FindDead, Continue, SetSlot
  <2>2. current \in 1 .. spawned /\ outcome[current] = "ok" BY <2>1, PoolTyped DEF SlotInv, TypeOK
  <2>3. trouble # 0 BY <2>1, <2>2 DEF CalmInv
  <2>4. TypeOK' BY <1>1, <2>1, PoolTyped DEF TypeOK
  <2>5. SlotInv' BY <1>1, <1>2, <2>1 DEF SlotInv
  <2>6. CalmInv' BY <1>1, <2>3 DEF CalmInv
  <2> QED BY <2>4, <2>5, <2>6
<1> QED BY <1>3, <1>4, <1>5, <1>6, <1>7

(* A caller that spawns a connect into an empty slot. *)
LEMMA ConnectKeeps ==
    ASSUME PoolInv, NEW c \in Callers, Connect(c)
    PROVE  PoolInv'
<1> USE DEF PoolInv
<1>1. /\ pc' = [pc EXCEPT ![c] = "look"] /\ handle' = handle
      /\ state' = "Connecting" /\ current' = spawned + 1 /\ spawned' = spawned + 1
      /\ spawned < MaxConnects /\ UNCHANGED <<outcome, alive, trouble>>
  BY DEF Connect, Continue, SetSlot, NewConnect
<1>2. pc \in [Callers -> {"idle", "look", "await", "client", "error"}] /\ handle \in [Callers -> 0 .. spawned]
  BY DEF TypeOK
<1>3. TypeOK'
  <2>1. handle' \in [Callers -> 0 .. spawned'] BY <1>1, <1>2, PoolTyped
  <2>2. \A d \in Callers : pc'[d] = "client" => outcome'[handle'[d]] = "ok" BY <1>1, <1>2 DEF TypeOK
  <2>3. alive' \subseteq 1 .. spawned' BY <1>1, PoolTyped DEF TypeOK
  <2>4. spawned' \in 0 .. MaxConnects /\ current' \in 0 .. spawned' /\ current' # 0 BY <1>1, PoolTyped
  <2> QED BY <1>1, <2>1, <2>2, <2>3, <2>4 DEF TypeOK
<1>4. SlotInv' BY <1>1, <1>2, PoolTyped DEF SlotInv, Connects
<1>5. CalmInv'
  <2> SUFFICES ASSUME trouble = 0
               PROVE  /\ spawned' <= 1
                      /\ \A k \in 1 .. spawned' : /\ outcome[k] # "error"
                                                  /\ outcome[k] \in {"handshake", "ok"} => k \in alive
    BY <1>1 DEF CalmInv
  <2>1. state = "Disconnected" BY DEF Connect, NeedsConnect
  <2>2. spawned = 0 BY <2>1 DEF CalmInv
  <2>3. outcome[1] = "pending" BY <1>1, <2>2, PoolTyped DEF SlotInv, Connects
  <2> QED BY <1>1, <2>2, <2>3, PoolTyped
<1> QED BY <1>3, <1>4, <1>5

(* The steps of the connect tasks and of the connections. *)
LEMMA ResolveKeeps ==
    ASSUME PoolInv, NEW k \in Connects, Resolve(k) \/ ClientDies(k)
    PROVE  PoolInv'
<1> USE DEF PoolInv
<1>1. UNCHANGED <<state, current, spawned, pc, handle>>
  BY DEF Resolve, Handshake, ConnectSucceeds, ConnectFails, ClientDies
<1>2. outcome \in [Connects -> {"pending", "handshake", "ok", "error"}] /\ alive \subseteq 1 .. spawned
  BY DEF TypeOK
<1>3. k \in Nat /\ 1 <= k BY DEF Connects
<1>4. CASE Handshake(k)
  <2>1. /\ outcome' = [outcome EXCEPT ![k] = "handshake"] /\ alive' = alive \cup {k}
        /\ outcome[k] = "pending" /\ k <= spawned /\ trouble' = trouble
    BY <1>4 DEF Handshake
  <2>2. \A j \in Connects : outcome'[j] = IF j = k THEN "handshake" ELSE outcome[j] BY <1>2, <2>1
  <2>3. \A j \in 0 .. spawned : outcome[j] = "ok" => outcome'[j] = "ok" BY <1>2, <2>1
  <2>4. TypeOK' BY <1>1, <1>2, <1>3, <2>1, <2>3, PoolTyped DEF TypeOK
  <2>5. SlotInv' BY <1>1, <1>3, <2>1, <2>2, <2>3, PoolTyped DEF SlotInv, TypeOK
  <2>6. CalmInv' BY <1>1, <2>1, <2>2, PoolTyped DEF CalmInv
  <2> QED BY <2>4, <2>5, <2>6
<1>5. CASE ConnectSucceeds(k)
  <2>1. /\ outcome' = [outcome EXCEPT ![k] = "ok"] /\ alive' = alive
        /\ outcome[k] = "handshake" /\ trouble' = trouble
    BY <1>5 DEF ConnectSucceeds
  <2>2. \A j \in Connects : outcome'[j] = IF j = k THEN "ok" ELSE outcome[j] BY <1>2, <2>1
  <2>3. \A j \in 0 .. spawned : outcome[j] = "ok" => outcome'[j] = "ok" BY <1>2, <2>1
  <2>4. TypeOK' BY <1>1, <1>2, <1>3, <2>1, <2>3, PoolTyped DEF TypeOK
  <2>5. SlotInv' BY <1>1, <1>3, <2>1, <2>2, <2>3, PoolTyped DEF SlotInv, TypeOK
  <2>6. CalmInv' BY <1>1, <2>1, <2>2, PoolTyped DEF CalmInv
  <2> QED BY <2>4, <2>5, <2>6
<1>6. CASE ConnectFails(k)
  <2>1. /\ outcome' = [outcome EXCEPT ![k] = "error"] /\ alive' = alive \ {k}
        /\ outcome[k] \in {"pending", "handshake"} /\ k <= spawned
        /\ trouble < MaxTrouble /\ trouble' = trouble + 1
    BY <1>6 DEF ConnectFails, Trouble
  <2>2. \A j \in Connects : outcome'[j] = IF j = k THEN "error" ELSE outcome[j] BY <1>2, <2>1
  <2>3. \A j \in 0 .. spawned : outcome[j] = "ok" => outcome'[j] = "ok" BY <1>2, <2>1
  <2>4. TypeOK' BY <1>1, <1>2, <1>3, <2>1, <2>3, PoolTyped DEF TypeOK
  <2>5. SlotInv' BY <1>1, <1>3, <2>1, <2>2, <2>3, PoolTyped DEF SlotInv, TypeOK
  <2>6. CalmInv' BY <2>1, PoolTyped DEF CalmInv
  <2> QED BY <2>4, <2>5, <2>6
<1>7. CASE ClientDies(k)
  <2>1. /\ alive' = alive \ {k} /\ outcome' = outcome
        /\ trouble < MaxTrouble /\ trouble' = trouble + 1
    BY <1>7 DEF ClientDies, Trouble
  <2>2. TypeOK'
    <3>1. trouble' \in 0 .. MaxTrouble BY <2>1, PoolTyped
    <3>2. alive' \subseteq 1 .. spawned' BY <1>1, <1>2, <2>1
    <3> QED BY <1>1, <2>1, <3>1, <3>2 DEF TypeOK
  <2>3. SlotInv' BY <1>1, <2>1 DEF SlotInv
  <2>4. CalmInv' BY <2>1, PoolTyped DEF CalmInv
  <2> QED BY <2>2, <2>3, <2>4
<1> QED BY <1>4, <1>5, <1>6, <1>7 DEF Resolve

(* A caller that gives up its wait. *)
LEMMA DropKeeps ==
    ASSUME PoolInv, NEW c \in Callers, CallerDrops(c)
    PROVE  PoolInv'
<1> USE DEF PoolInv
<1>1. /\ pc' = [pc EXCEPT ![c] = "idle"] /\ UNCHANGED <<state, current, spawned, outcome, alive, handle>>
      /\ trouble < MaxTrouble /\ trouble' = trouble + 1
  BY DEF CallerDrops, Trouble
<1>2. pc \in [Callers -> {"idle", "look", "await", "client", "error"}] BY DEF TypeOK
<1>3. TypeOK' BY <1>1, <1>2, PoolTyped DEF TypeOK
<1>4. SlotInv' BY <1>1, <1>2 DEF SlotInv
<1>5. CalmInv' BY <1>1, PoolTyped DEF CalmInv
<1> QED BY <1>3, <1>4, <1>5

(* Every step keeps the invariant. *)
LEMMA PoolStep == ASSUME PoolInv, [Next]_vars PROVE PoolInv'
<1>1. CASE UNCHANGED vars BY <1>1 DEF PoolInv, TypeOK, SlotInv, CalmInv, vars
<1> QED BY <1>1, CallerKeeps, ConnectKeeps, ResolveKeeps, DropKeeps DEF Next, Look

-----------------------------------------------------------------------------
(* The type invariant of a slot, and that whatever callers, connects and deaths interleave,    *)
(* get_connection hands out only clients of connects that succeeded.                           *)
THEOREM PoolTypeCorrect == Spec => []TypeOK
<1>1. PoolInv => TypeOK BY DEF PoolInv
<1> QED BY <1>1, PoolInit, PoolStep, PTL DEF Spec

(* Any number of callers share one connect until something fails, dies or is dropped.          *)
THEOREM ConnectsAreShared == Spec => []ConnectIsShared
<1>1. PoolInv => ConnectIsShared BY DEF PoolInv, CalmInv, ConnectIsShared
<1> QED BY <1>1, PoolInit, PoolStep, PTL DEF Spec

(* No step but the clearing of the slot after a failed connect takes a live client out of it.  *)
THEOREM LiveClientsStay == Spec => LiveIsNotReplaced
<1>1. [Next]_vars => [LiveInSlot /\ current' # current => state' = "Disconnected"]_vars
  <2> SUFFICES ASSUME Next, LiveInSlot, current' # current PROVE state' = "Disconnected" OBVIOUS
  <2>1. ASSUME NEW c \in Callers, Connect(c) PROVE FALSE
    BY <2>1 DEF Connect, NeedsConnect, LiveInSlot
  <2>2. ASSUME NEW c \in Callers, Reconcile(c) PROVE FALSE
    BY <2>2 DEF Reconcile, SetSlot, Favoured
  <2>3. ASSUME NEW c \in Callers, Fail(c) PROVE state' = "Disconnected"
    BY <2>3 DEF Fail, Clear, SetSlot
  <2>4. ASSUME NEW c \in Callers, FindDead(c) PROVE FALSE
    BY <2>4 DEF FindDead, LiveInSlot
  <2> QED BY <2>1, <2>2, <2>3, <2>4 DEF Next, Look, FindConnected, FindConnecting, CallerDrops, Resolve,
                                  Handshake, ConnectSucceeds, ConnectFails, ClientDies
<1> QED BY <1>1, PTL DEF Spec, LiveIsNotReplaced
=============================================================================
