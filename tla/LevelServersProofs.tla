------------------------- MODULE LevelServersProofs -------------------------
(***************************************************************************)
(* Servers on a level runtime use it as LevelRuntime says: every step of   *)
(* the composed system is a step of the runtime or leaves it alone, so     *)
(* what is proved of the runtime holds of the servers that run on it.      *)
(* And about the servers themselves, for any number of them and of peers:  *)
(* no wakeup is lost, no peer ends a server, and no server keeps a queue.  *)
(***************************************************************************)
EXTENDS LevelServers, LevelRuntimeProofs, SequenceTheorems

(* run_main and the servers are tasks. *)
LEMMA TasksOfServers ==
    /\ Main \in Tasks /\ Servers \subseteq Tasks /\ Clients \subseteq Tasks
    /\ Copy \in [Workers -> Tasks]
    /\ \A x \in Threads : x \in Callers
    /\ \A x \in Tasks : x \in Callers
BY CompositionAssumption DEF Callers

(* What a server, run_main or a connection does in its poll. *)
LEMMA TaskSteps ==
    ASSUME NEW w \in Workers,
           \/ PollMain(w) \/ MainStep(w)
           \/ \E s \in Servers : PollServer(w, s) \/ ServerStep(w, s)
           \/ \E c \in Clients : PollConnection(w, c) \/ ConnectionStep(w, c)
    PROVE  [LevelNext]_levelVars
<1> USE TasksOfServers
<1>1. ASSUME NEW t \in Tasks, Poll(w, t) \/ Yield(w, t) \/ Complete(w, t) PROVE LevelNext
  BY <1>1 DEF LevelNext
<1>2. ASSUME NEW x \in Tasks, NEW t \in Tasks, SpawnLocal(x, t, w) PROVE LevelNext
  BY <1>2 DEF LevelNext, SpawnLocal, Ask
<1>3. ASSUME SpawnOnEach(Main, Copy) PROVE LevelNext
  BY <1>3 DEF LevelNext, SpawnOnEach, Ask
<1>4. CASE PollMain(w) BY <1>1, <1>4 DEF PollMain
<1>5. CASE MainStep(w) BY <1>1, <1>3, <1>5 DEF MainStep
<1>6. ASSUME NEW s \in Servers, PollServer(w, s) PROVE LevelNext BY <1>1, <1>6 DEF PollServer
<1>7. ASSUME NEW s \in Servers, ServerStep(w, s) PROVE [LevelNext]_levelVars
  <2>1. CASE Internal(w, s) BY <2>1 DEF Internal
  <2>2. CASE Spawning(w, s) BY <1>2, <2>2 DEF Spawning
  <2>3. CASE Pending(w, s) BY <1>1, <2>3 DEF Pending
  <2>4. CASE Ready(w, s) BY <1>1, <2>4 DEF Ready
  <2> QED BY <1>7, <2>1, <2>2, <2>3, <2>4 DEF ServerStep
<1>8. ASSUME NEW c \in Clients, PollConnection(w, c) \/ ConnectionStep(w, c) PROVE LevelNext
  BY <1>1, <1>8 DEF PollConnection, ConnectionStep
<1> QED BY <1>4, <1>5, <1>6, <1>7, <1>8

(* Every step of the composed system is one of its runtime, or leaves it alone. *)
LEMMA StepsOfRuntime == ASSUME [Next]_vars PROVE [LevelNext]_levelVars
<1> USE TasksOfServers
<1>1. CASE Startup
  <2>1. ASSUME NEW x \in Threads, NEW a \in Workers, NEW b \in Workers, SpawnBalanced(x, Main, a, b)
        PROVE  LevelNext
    BY <2>1 DEF LevelNext, SpawnBalanced, Ask
  <2>2. ASSUME NEW how \in {"start", "run"}, Start(how) PROVE LevelNext BY <2>2 DEF LevelNext
  <2>3. ASSUME NEW w \in Workers, WorkerRuns(w) PROVE LevelNext BY <2>3 DEF LevelNext
  <2> QED BY <1>1, <2>1, <2>2, <2>3 DEF Startup
<1>2. CASE Shutdown
  <2>1. ASSUME NEW w \in Workers, NEW t \in Tasks, DropOwned(w, t) \/ Abort(w, t) PROVE LevelNext
    BY <2>1 DEF LevelNext
  <2>2. ASSUME NEW w \in Workers, StopWorker(w) \/ CloseWorker(w) PROVE LevelNext BY <2>2 DEF LevelNext
  <2>3. ASSUME Terminate \/ Join PROVE LevelNext BY <2>3 DEF LevelNext
  <2> QED BY <1>2, <2>1, <2>2, <2>3 DEF Shutdown
<1>3. CASE Network BY <1>3 DEF Network
<1>4. ASSUME NEW x \in Callers, SpawnStep(x) \/ \E t \in Tasks : Refused(x, t) PROVE LevelNext
  BY <1>4 DEF SpawnStep, Refused, LevelNext
<1>5. CASE UNCHANGED vars BY <1>5 DEF vars
<1> QED BY <1>1, <1>2, <1>3, <1>4, <1>5, TaskSteps DEF Next

(* The composed system is a use of the runtime.  *)
THEOREM ServersUseRuntime == Spec => LevelSpec
<1>1. Init => LevelInit BY DEF Init
<1>2. [Next]_vars => [LevelNext]_levelVars BY StepsOfRuntime
<1> QED BY <1>1, <1>2, PTL DEF Spec, LevelSpec

(* Whatever servers, peers, handshakes and shutdown do at the same time, a connection and the  *)
(* server that accepted it are counted on their worker just as long as they exist there.       *)
THEOREM ServersCounted == Spec => []CounterExact
BY ServersUseRuntime, CountsAreExact, PTL

(* A server's tasks are placed, never moved, and gone for good once they leave.                *)
THEOREM ServersPlaced == Spec => PlacementSpec
BY ServersUseRuntime, ImplementsPlacement, PTL

(* When run_with_termination has returned, no runtime holds a server or a connection.          *)
THEOREM ServersJoined == Spec => []JoinedIsEmpty
BY ServersUseRuntime, JoinedHoldsNothing, PTL

-----------------------------------------------------------------------------
(* The servers' own state. *)

Pcs == {"unbound", "parked", "accept", "join", "spawned", "ended"}
Stages == {"away", "backlog", "shaking", "shaken", "failed", "panicked", "serving", "closed", "lost", "refused"}

ServerTypes ==
    /\ kind \in [Servers -> {"plain", "rpc"} \X {"tcp", "tls"}]
    /\ pc \in [Servers -> Pcs] /\ woken \in [Servers -> BOOLEAN]
    /\ armed \in [Servers -> SUBSET {"accept", "join"}]
    /\ backlog \in [Servers -> Seq(Clients)] /\ held \in [Servers -> SUBSET Clients]
    /\ stage \in [Clients -> Stages] /\ at \in [Clients -> SUBSET Servers]
    /\ senders \in [Clients -> Int] /\ faults \in Nat

(* The steps a server takes, those it takes with a client or that the client's side takes. *)
ServerActs(s) ==
    \/ Listen(s) \/ StartPoll(s) \/ AcceptStream(s) \/ AcceptHandshake(s) \/ AcceptPending(s)
    \/ EndIteration(s) \/ JoinPending(s) \/ AcceptError(s) \/ ListenError(s)
    \/ DropServer(s) /\ \E w \in Workers : Closed(w)

ClientActs(s, c) ==
    \/ JoinStream(s, c) \/ JoinFailed(s, c) \/ JoinError(s, c)
    \/ Connect(c, s) \/ Refuse(c, s)
    \/ \E result \in {"shaken", "failed", "panicked"} : Handshake(c, s, result)

(* Every step of the composed system, as the servers see it. *)
LEMMA ServerForms ==
    ASSUME LevelTypeOK, [Next]_vars
    PROVE  \/ UNCHANGED serverVars
           \/ \E s \in Servers : ServerActs(s)
           \/ \E s \in Servers, c \in Clients : ClientActs(s, c)
           \/ \E c \in Clients : Close(c)
<1> DEFINE Goal == \/ UNCHANGED serverVars
                   \/ \E s \in Servers : ServerActs(s)
                   \/ \E s \in Servers, c \in Clients : ClientActs(s, c)
                   \/ \E c \in Clients : Close(c)
<1>1. ASSUME NEW t \in Tasks, Dropped(t), t = Main \/ \E w \in Workers : Closed(w) PROVE Goal
  <2>1. t \in Servers /\ DropServer(t) => ServerActs(t) BY <1>1, CompositionAssumption DEF ServerActs
  <2> QED BY <1>1, <2>1 DEF Dropped
<1>2. ASSUME Shutdown PROVE Goal
  <2>1. ASSUME NEW w \in Workers, NEW t \in Tasks, DropOwned(w, t), Dropped(t) PROVE Goal
    BY <1>1, <2>1 DEF DropOwned, Closed
  <2>2. ASSUME NEW w \in Workers, NEW t \in Tasks, t = Main, Dropped(t) PROVE Goal BY <1>1, <2>2
  <2> QED BY <1>2, <2>1, <2>2 DEF Shutdown
<1>3. ASSUME Startup PROVE Goal BY <1>3 DEF Startup
<1>4. ASSUME Network PROVE Goal BY <1>4 DEF Network, ClientActs
<1>5. ASSUME NEW x \in Callers, SpawnStep(x) \/ \E t \in Tasks : Refused(x, t) PROVE Goal
  <2>1. CASE SpawnStep(x) BY <2>1 DEF SpawnStep
  <2>2. ASSUME NEW t \in Tasks, Refused(x, t) PROVE Goal
    <3>1. home[t] \in Workers BY DEF LevelTypeOK
    <3> QED BY <1>1, <2>2, <3>1 DEF Refused
  <2> QED BY <1>5, <2>1, <2>2
<1>6. ASSUME NEW w \in Workers, PollMain(w) \/ MainStep(w) PROVE Goal
  BY <1>6 DEF PollMain, MainStep
<1>7. ASSUME NEW w \in Workers, NEW s \in Servers, ServerStep(w, s) PROVE Goal
  <2>1. CASE Internal(w, s) BY <2>1 DEF Internal, ServerActs, ClientActs
  <2>2. CASE Spawning(w, s) BY <2>2 DEF Spawning, ServerActs, ClientActs
  <2>3. CASE Pending(w, s) BY <2>3 DEF Pending, ServerActs
  <2>4. CASE Ready(w, s) BY <2>4 DEF Ready, ServerActs, ClientActs
  <2> QED BY <1>7, <2>1, <2>2, <2>3, <2>4 DEF ServerStep
<1>8. ASSUME NEW w \in Workers, NEW s \in Servers, PollServer(w, s) PROVE Goal
  BY <1>8 DEF PollServer, ServerActs
<1>9. ASSUME NEW w \in Workers, NEW c \in Clients, PollConnection(w, c) \/ ConnectionStep(w, c) PROVE Goal
  BY <1>9 DEF PollConnection, ConnectionStep
<1>10. ASSUME UNCHANGED vars PROVE Goal BY <1>10 DEF vars
<1> HIDE DEF Goal
<1>11. ASSUME NEW w \in Workers,
              \/ PollMain(w) \/ MainStep(w)
              \/ \E s \in Servers : PollServer(w, s) \/ ServerStep(w, s)
              \/ \E c \in Clients : PollConnection(w, c) \/ ConnectionStep(w, c)
       PROVE  Goal
  BY <1>6, <1>7, <1>8, <1>9, <1>11
<1>12. Goal
  <2>1. CASE \E x \in Callers : SpawnStep(x) \/ \E t \in Tasks : Refused(x, t) BY <1>5, <2>1
  <2>2. CASE \E w \in Workers :
               \/ PollMain(w) \/ MainStep(w)
               \/ \E s \in Servers : PollServer(w, s) \/ ServerStep(w, s)
               \/ \E c \in Clients : PollConnection(w, c) \/ ConnectionStep(w, c)
    BY <1>11, <2>2
  <2> QED BY <1>2, <1>3, <1>4, <1>10, <2>1, <2>2 DEF Next
<1> QED BY <1>12 DEF Goal

(* What the first connection of a backlog is, and what is left when it is taken. *)
LEMMA FirstOfBacklog ==
    ASSUME ServerTypes, NEW s \in Servers, backlog[s] # <<>>
    PROVE  /\ Head(backlog[s]) \in Clients /\ Tail(backlog[s]) \in Seq(Clients)
           /\ 1 \in DOMAIN backlog[s] /\ Head(backlog[s]) = backlog[s][1]
           /\ \A i \in DOMAIN Tail(backlog[s]) :
                 i \in Nat /\ i + 1 \in DOMAIN backlog[s] /\ i + 1 # 1 /\ Tail(backlog[s])[i] = backlog[s][i + 1]
<1>1. PICK b \in Seq(Clients) : b = backlog[s] BY DEF ServerTypes
<1>2. PICK n \in Nat \ {0} : n = Len(b) BY <1>1, EmptySeq
<1>3. DOMAIN b = 1 .. n BY <1>2, LenProperties
<1>4. Tail(b) \in Seq(Clients) /\ Len(Tail(b)) = n - 1 /\ Head(b) \in Clients
  BY <1>1, <1>2, HeadTailProperties
<1>5. \A i \in 1 .. n - 1 : Tail(b)[i] = b[i + 1] BY <1>1, <1>2, <1>4, HeadTailProperties
<1>6. DOMAIN Tail(b) = 1 .. n - 1 BY <1>4, LenProperties
<1>7. \A i \in 1 .. n - 1 : i \in Nat /\ i + 1 \in 1 .. n /\ i + 1 # 1 BY <1>2
<1>8. Head(b) = b[1] /\ 1 \in 1 .. n BY <1>2
<1> QED BY <1>1, <1>3, <1>4, <1>5, <1>6, <1>7, <1>8

(* The servers' types are kept. *)
LEMMA ServerTypesNext ==
    ASSUME LevelTypeOK, ServerTypes, [Next]_vars
    PROVE  ServerTypes'
<1> USE DEF ServerTypes
<1>1. CASE UNCHANGED serverVars BY <1>1 DEF serverVars
<1>2. ASSUME NEW s \in Servers, Stopped(s), UNCHANGED <<kind, at, senders, held>>, faults' \in Nat PROVE ServerTypes'
  <2>1. <<>> \in Seq(Clients) BY EmptySeq
  <2>2. backlog' \in [Servers -> Seq(Clients)] BY <1>2, <2>1 DEF Stopped
  <2>3. stage' \in [Clients -> Stages] BY <1>2 DEF Stopped, Stages
  <2>4. pc' \in [Servers -> Pcs] BY <1>2 DEF Stopped, Pcs
  <2>5. armed' \in [Servers -> SUBSET {"accept", "join"}] /\ woken' \in [Servers -> BOOLEAN]
    BY <1>2 DEF Stopped
  <2> QED BY <1>2, <2>2, <2>3, <2>4, <2>5
<1>3. ASSUME NEW s \in Servers, NEW c \in Clients, Serve(s, c), UNCHANGED <<kind, woken, armed, at, faults>>,
             backlog' \in [Servers -> Seq(Clients)]
      PROVE  ServerTypes'
  <2>1. senders' \in [Clients -> Int] BY <1>3 DEF Serve, Clones
  <2>2. stage' \in [Clients -> Stages] /\ pc' \in [Servers -> Pcs] /\ held' \in [Servers -> SUBSET Clients]
    BY <1>3 DEF Serve, Stages, Pcs
  <2> QED BY <1>3, <2>1, <2>2
<1>4. ASSUME NEW s \in Servers, ServerActs(s) PROVE ServerTypes'
  <2>1. CASE Listen(s) BY <2>1 DEF Listen, Pcs
  <2>2. CASE StartPoll(s) BY <2>2 DEF StartPoll, Pcs
  <2>3. CASE AcceptStream(s)
    <3>1. Head(backlog[s]) \in Clients /\ Tail(backlog[s]) \in Seq(Clients) BY <2>3, FirstOfBacklog DEF AcceptStream
    <3>2. backlog' \in [Servers -> Seq(Clients)] BY <2>3, <3>1 DEF AcceptStream
    <3> QED BY <1>3, <2>3, <3>1, <3>2 DEF AcceptStream
  <2>4. CASE AcceptHandshake(s)
    <3>1. Head(backlog[s]) \in Clients /\ Tail(backlog[s]) \in Seq(Clients)
      BY <2>4, FirstOfBacklog DEF AcceptHandshake
    <3>2. backlog' \in [Servers -> Seq(Clients)] BY <2>4, <3>1 DEF AcceptHandshake
    <3>3. stage' \in [Clients -> Stages] BY <2>4, <3>1 DEF AcceptHandshake, Stages
    <3> QED BY <2>4, <3>2, <3>3 DEF AcceptHandshake
  <2>5. CASE AcceptPending(s) BY <2>5 DEF AcceptPending, Pcs
  <2>6. CASE EndIteration(s)
    <3>1. senders' \in [Clients -> Int] BY <2>6 DEF EndIteration
    <3> QED BY <2>6, <3>1 DEF EndIteration, Pcs
  <2>7. CASE JoinPending(s) BY <2>7 DEF JoinPending, JoinArms, Pcs
  <2>8. CASE AcceptError(s) BY <1>2, <2>8 DEF AcceptError
  <2>9. CASE ListenError(s) BY <1>2, <2>9 DEF ListenError
  <2>10. CASE DropServer(s) BY <1>2, <2>10 DEF DropServer
  <2> QED BY <1>4, <2>1, <2>2, <2>3, <2>4, <2>5, <2>6, <2>7, <2>8, <2>9, <2>10 DEF ServerActs
<1>5. ASSUME NEW s \in Servers, NEW c \in Clients, ClientActs(s, c) PROVE ServerTypes'
  <2>0. ASSUME NEW who, Wake(s, who) PROVE woken' \in [Servers -> BOOLEAN] /\ armed' \in [Servers -> SUBSET {"accept", "join"}]
    BY <2>0 DEF Wake
  <2>1. CASE JoinStream(s, c) BY <1>3, <2>1 DEF JoinStream
  <2>2. CASE JoinFailed(s, c) BY <2>2 DEF JoinFailed, Stages
  <2>3. CASE JoinError(s, c) BY <1>2, <2>3 DEF JoinError
  <2>4. CASE Connect(c, s)
    <3>1. backlog[s] \in Seq(Clients) OBVIOUS
    <3>2. Append(backlog[s], c) \in Seq(Clients) BY <3>1, AppendProperties
    <3>3. backlog' \in [Servers -> Seq(Clients)] BY <2>4, <3>2 DEF Connect
    <3>4. stage' \in [Clients -> Stages] /\ at' \in [Clients -> SUBSET Servers] BY <2>4 DEF Connect, Stages
    <3>5. woken' \in [Servers -> BOOLEAN] /\ armed' \in [Servers -> SUBSET {"accept", "join"}]
      BY <2>0, <2>4 DEF Connect
    <3> QED BY <2>4, <3>3, <3>4, <3>5 DEF Connect
  <2>5. CASE Refuse(c, s) BY <2>5 DEF Refuse, Stages
  <2>6. ASSUME NEW result \in {"shaken", "failed", "panicked"}, Handshake(c, s, result) PROVE ServerTypes'
    <3>1. faults' \in Nat BY <2>6 DEF Handshake
    <3>2. stage' \in [Clients -> Stages] BY <2>6 DEF Handshake, Stages
    <3>3. woken' \in [Servers -> BOOLEAN] /\ armed' \in [Servers -> SUBSET {"accept", "join"}]
      BY <2>0, <2>6 DEF Handshake
    <3> QED BY <2>6, <3>1, <3>2, <3>3 DEF Handshake
  <2> QED BY <1>5, <2>1, <2>2, <2>3, <2>4, <2>5, <2>6 DEF ClientActs
<1>6. ASSUME NEW c \in Clients, Close(c) PROVE ServerTypes'
  <2>1. senders' \in [Clients -> Int] /\ stage' \in [Clients -> Stages] BY <1>6 DEF Close, Stages
  <2> QED BY <1>6, <2>1 DEF Close
<1> QED BY <1>1, <1>4, <1>5, <1>6, ServerForms

-----------------------------------------------------------------------------
(* Where a connection is: waiting in the backlog of the one socket that got it, or, behind a   *)
(* TLS listener, in the JoinSet of that socket's listener.                                     *)
Queued(s) ==
    /\ \A i \in DOMAIN backlog[s] : stage[backlog[s][i]] = "backlog" /\ at[backlog[s][i]] = {s}
    /\ \A i, j \in DOMAIN backlog[s] : backlog[s][i] = backlog[s][j] => i = j

Shaking == {"shaking", "shaken", "failed", "panicked"}

Located ==
    /\ \A c \in Clients : stage[c] = "away" => at[c] = {}
    /\ \A s \in Servers : Queued(s)
    /\ \A s \in Servers : \A c \in InFlight(s) : at[c] = {s} /\ Tls(s)

(* A connection that is not in a backlog moves on. *)
LEMMA LocatedMoves ==
    ASSUME ServerTypes, Located, NEW c \in Clients, NEW x \in Stages,
           stage' = [stage EXCEPT ![c] = x], UNCHANGED <<kind, backlog, at>>,
           stage[c] # "backlog", x \notin {"away", "backlog"}, x \in Shaking => stage[c] \in Shaking
    PROVE  Located'
<1> USE DEF ServerTypes
<1>1. \A d \in Clients : stage'[d] = "away" => at'[d] = {} BY DEF Located
<1>2. ASSUME NEW s \in Servers PROVE Queued(s)'
  <2>1. Queued(s) BY DEF Located
  <2>2. \A i \in DOMAIN backlog[s] : backlog[s][i] # c BY <2>1 DEF Queued
  <2>3. \A i \in DOMAIN backlog[s] : backlog[s][i] \in Clients BY ElementOfSeq, LenProperties
  <2> QED BY <2>1, <2>2, <2>3 DEF Queued
<1>3. ASSUME NEW s \in Servers, NEW d \in InFlight(s)' PROVE at'[d] = {s} /\ Tls(s)'
  <2>1. d \in Clients /\ s \in at[d] BY <1>3 DEF InFlight
  <2>2. d \in InFlight(s) BY <1>3, <2>1 DEF InFlight, Shaking
  <2> QED BY <2>2 DEF Located, Tls
<1> QED BY <1>1, <1>2, <1>3 DEF Located

(* The first connection of a backlog is accepted. *)
LEMMA LocatedAccepts ==
    ASSUME ServerTypes, Located, NEW s \in Servers, backlog[s] # <<>>,
           NEW x \in {"serving", "shaking"}, x = "shaking" => Tls(s),
           stage' = [stage EXCEPT ![Head(backlog[s])] = x],
           backlog' = [backlog EXCEPT ![s] = Tail(@)], UNCHANGED <<kind, at>>
    PROVE  Located'
<1> USE DEF ServerTypes
<1>0. PICK c \in Clients : c = Head(backlog[s]) BY FirstOfBacklog
<1>1. stage' = [stage EXCEPT ![c] = x] BY <1>0
<1>2. /\ 1 \in DOMAIN backlog[s] /\ c = backlog[s][1]
      /\ \A i \in DOMAIN Tail(backlog[s]) :
            i \in Nat /\ i + 1 \in DOMAIN backlog[s] /\ i + 1 # 1 /\ Tail(backlog[s])[i] = backlog[s][i + 1]
  BY <1>0, FirstOfBacklog
<1>3. stage[c] = "backlog" /\ at[c] = {s} BY <1>2 DEF Located, Queued
<1>4. \A d \in Clients : stage'[d] = "away" => at'[d] = {} BY <1>1 DEF Located
<1>5. ASSUME NEW r \in Servers PROVE Queued(r)'
  <2>1. Queued(r) BY DEF Located
  <2>2. CASE r # s
    <3>1. backlog'[r] = backlog[r] BY <2>2
    <3>2. \A i \in DOMAIN backlog[r] : backlog[r][i] # c
      <4>1. at[c] # {r} BY <1>3, <2>2
      <4> QED BY <2>1, <4>1 DEF Queued
    <3>3. \A i \in DOMAIN backlog[r] : backlog[r][i] \in Clients BY ElementOfSeq, LenProperties
    <3> QED BY <1>1, <2>1, <3>1, <3>2, <3>3 DEF Queued
  <2>3. CASE r = s
    <3>0. Queued(s) BY <2>1, <2>3
    <3>1. backlog'[s] = Tail(backlog[s]) OBVIOUS
    <3>2. \A i \in DOMAIN backlog[s] : backlog[s][i] \in Clients BY ElementOfSeq, LenProperties
    <3>3. ASSUME NEW i \in DOMAIN Tail(backlog[s])
          PROVE  stage'[Tail(backlog[s])[i]] = "backlog" /\ at'[Tail(backlog[s])[i]] = {s}
      <4>1. PICK k \in DOMAIN backlog[s] : k # 1 /\ Tail(backlog[s])[i] = backlog[s][k] BY <1>2
      <4>2. backlog[s][k] # c /\ backlog[s][k] \in Clients BY <1>2, <3>0, <3>2, <4>1 DEF Queued
      <4> QED BY <1>1, <3>0, <4>1, <4>2 DEF Queued
    <3>4. ASSUME NEW i \in DOMAIN Tail(backlog[s]), NEW j \in DOMAIN Tail(backlog[s]),
                 Tail(backlog[s])[i] = Tail(backlog[s])[j]
          PROVE  i = j
      <4>1. i \in Nat /\ j \in Nat /\ i + 1 \in DOMAIN backlog[s] /\ j + 1 \in DOMAIN backlog[s] BY <1>2
      <4>2. backlog[s][i + 1] = backlog[s][j + 1] BY <1>2, <3>4
      <4>3. i + 1 = j + 1 BY <3>0, <4>1, <4>2 DEF Queued
      <4> QED BY <4>1, <4>3
    <3>5. Queued(s)' BY <3>1, <3>3, <3>4 DEF Queued
    <3> QED BY <2>3, <3>5
  <2> QED BY <2>2, <2>3
<1>6. ASSUME NEW r \in Servers, NEW d \in InFlight(r)' PROVE at'[d] = {r} /\ Tls(r)'
  <2>1. d \in Clients /\ r \in at[d] BY <1>6 DEF InFlight
  <2>2. CASE d = c
    <3>1. r = s BY <1>3, <2>1, <2>2
    <3>2. stage'[c] = x /\ stage'[c] # "serving" BY <1>1, <1>6, <2>2 DEF InFlight
    <3> QED BY <1>3, <2>2, <3>1, <3>2 DEF Tls
  <2>3. CASE d # c
    <3>1. d \in InFlight(r) BY <1>1, <1>6, <2>1, <2>3 DEF InFlight
    <3> QED BY <3>1 DEF Located, Tls
  <2> QED BY <2>2, <2>3
<1> QED BY <1>4, <1>5, <1>6 DEF Located

(* A client connects. *)
LEMMA LocatedConnects ==
    ASSUME ServerTypes, Located, NEW s \in Servers, NEW c \in Clients, Connect(c, s)
    PROVE  Located'
<1> USE DEF ServerTypes
<1>1. /\ stage[c] = "away" /\ at[c] = {} /\ stage' = [stage EXCEPT ![c] = "backlog"]
      /\ at' = [at EXCEPT ![c] = {s}] /\ backlog' = [backlog EXCEPT ![s] = Append(@, c)] /\ kind' = kind
  BY DEF Connect, Located
<1>2. \A d \in Clients : stage'[d] = "away" => at'[d] = {} BY <1>1 DEF Located
<1>3. ASSUME NEW r \in Servers
      PROVE  \A i \in DOMAIN backlog[r] : /\ backlog[r][i] # c /\ stage'[backlog[r][i]] = "backlog"
                                          /\ at'[backlog[r][i]] = {r}
  <2>1. Queued(r) BY DEF Located
  <2>2. \A i \in DOMAIN backlog[r] : backlog[r][i] # c BY <1>1, <2>1 DEF Queued
  <2>3. \A i \in DOMAIN backlog[r] : backlog[r][i] \in Clients BY ElementOfSeq, LenProperties
  <2> QED BY <1>1, <2>1, <2>2, <2>3 DEF Queued
<1>4. ASSUME NEW r \in Servers PROVE Queued(r)'
  <2>1. Queued(r) BY DEF Located
  <2>2. CASE r # s
    <3>1. backlog'[r] = backlog[r] BY <1>1, <2>2
    <3> QED BY <1>3, <2>1, <3>1 DEF Queued
  <2>3. CASE r = s
    <3>1. PICK b \in Seq(Clients) : b = backlog[s] OBVIOUS
    <3>2. PICK n \in Nat : n = Len(b) BY <3>1, LenProperties
    <3>3. Append(b, c) \in Seq(Clients) /\ Len(Append(b, c)) = n + 1 BY <3>1, <3>2, AppendProperties
    <3>4. \A i \in 1 .. n : Append(b, c)[i] = b[i] BY <3>1, <3>2, AppendProperties
    <3>5. Append(b, c)[n + 1] = c BY <3>1, <3>2, AppendProperties
    <3>6. DOMAIN b = 1 .. n /\ DOMAIN Append(b, c) = 1 .. n + 1 BY <3>1, <3>2, <3>3, LenProperties
    <3>7. \A i \in 1 .. n : b[i] # c /\ stage'[b[i]] = "backlog" /\ at'[b[i]] = {s} BY <1>3, <3>1, <3>6
    <3>8. stage'[c] = "backlog" /\ at'[c] = {s} BY <1>1
    <3>9. \A i \in 1 .. n + 1 : i = n + 1 \/ i \in 1 .. n BY <3>2
    <3>10. \A i \in 1 .. n + 1 : stage'[Append(b, c)[i]] = "backlog" /\ at'[Append(b, c)[i]] = {s}
      BY <3>4, <3>5, <3>7, <3>8, <3>9
    <3>11. \A i, j \in 1 .. n + 1 : Append(b, c)[i] = Append(b, c)[j] => i = j
      <4>1. \A i, j \in 1 .. n : b[i] = b[j] => i = j BY <2>1, <2>3, <3>1, <3>6 DEF Queued
      <4> QED BY <3>4, <3>5, <3>7, <3>9, <4>1
    <3>12. backlog'[s] = Append(b, c) BY <1>1, <3>1
    <3>13. Queued(s)' BY <3>6, <3>10, <3>11, <3>12 DEF Queued
    <3> QED BY <2>3, <3>13
  <2> QED BY <2>2, <2>3
<1>5. ASSUME NEW r \in Servers, NEW d \in InFlight(r)' PROVE at'[d] = {r} /\ Tls(r)'
  <2>1. d \in Clients /\ d # c BY <1>1, <1>5 DEF InFlight
  <2>2. d \in InFlight(r) BY <1>1, <1>5, <2>1 DEF InFlight
  <2> QED BY <1>1, <2>1, <2>2 DEF Located, Tls
<1> QED BY <1>2, <1>4, <1>5 DEF Located

(* What a server that stops leaves of the connections of others. *)
LEMMA StoppedLeaves ==
    ASSUME ServerTypes, Located, NEW s \in Servers, Stopped(s), UNCHANGED at
    PROVE  /\ \A c \in Clients : \/ stage'[c] = stage[c]
                                 \/ stage'[c] = "lost" /\ at[c] = {s} /\ stage[c] \in Shaking \cup {"backlog"}
           /\ \A r \in Servers \ {s} : /\ pc'[r] = pc[r] /\ woken'[r] = woken[r] /\ armed'[r] = armed[r]
                                       /\ backlog'[r] = backlog[r]
<1> USE DEF ServerTypes
<1>1. ASSUME NEW c \in Clients, c \in Range(backlog[s]) PROVE stage[c] = "backlog" /\ at[c] = {s}
  <2>1. PICK i \in DOMAIN backlog[s] : backlog[s][i] = c BY <1>1 DEF Range
  <2> QED BY <2>1 DEF Located, Queued
<1>2. ASSUME NEW c \in InFlight(s) PROVE at[c] = {s} /\ stage[c] \in Shaking
  BY DEF Located, InFlight, Shaking
<1>3. \A c \in Clients : stage'[c] = IF c \in Range(backlog[s]) \cup InFlight(s) THEN "lost" ELSE stage[c]
  BY DEF Stopped
<1>4. \A r \in Servers \ {s} : /\ pc'[r] = pc[r] /\ woken'[r] = woken[r] /\ armed'[r] = armed[r]
                               /\ backlog'[r] = backlog[r]
  BY DEF Stopped
<1> QED BY <1>1, <1>2, <1>3, <1>4

(* A server that stops leaves no connection behind in its socket or its JoinSet. *)
LEMMA LocatedStops ==
    ASSUME ServerTypes, Located, NEW s \in Servers, Stopped(s), UNCHANGED <<kind, at>>
    PROVE  Located'
<1> USE DEF ServerTypes
<1>1. \A c \in Clients : \/ stage'[c] = stage[c]
                         \/ stage'[c] = "lost" /\ at[c] = {s} /\ stage[c] \in Shaking \cup {"backlog"}
  BY StoppedLeaves
<1>2. \A d \in Clients : stage'[d] = "away" => at'[d] = {} BY <1>1 DEF Located
<1>3. ASSUME NEW r \in Servers PROVE Queued(r)'
  <2>1. Queued(r) BY DEF Located
  <2>2. CASE r # s
    <3>1. backlog'[r] = backlog[r] BY <2>2, StoppedLeaves
    <3>2. \A i \in DOMAIN backlog[r] : backlog[r][i] \in Clients BY ElementOfSeq, LenProperties
    <3>3. {r} # {s} BY <2>2
    <3>4. ASSUME NEW i \in DOMAIN backlog[r] PROVE stage'[backlog[r][i]] = "backlog" /\ at'[backlog[r][i]] = {r}
      BY <1>1, <2>1, <3>2, <3>3 DEF Queued
    <3> QED BY <2>1, <3>1, <3>4 DEF Queued
  <2>3. CASE r = s
    <3>1. backlog'[r] = <<>> BY <2>3 DEF Stopped
    <3>2. DOMAIN backlog'[r] = {} BY <3>1
    <3> QED BY <3>2 DEF Queued
  <2> QED BY <2>2, <2>3
<1>4. ASSUME NEW r \in Servers, NEW d \in InFlight(r)' PROVE at'[d] = {r} /\ Tls(r)'
  <2>1. d \in Clients /\ stage'[d] # "lost" BY <1>4 DEF InFlight
  <2>2. d \in InFlight(r) BY <1>1, <1>4, <2>1 DEF InFlight
  <2> QED BY <2>2 DEF Located, Tls
<1> QED BY <1>2, <1>3, <1>4 DEF Located

(* Connections stay where they are said to be. *)
LEMMA LocatedNext ==
    ASSUME LevelTypeOK, ServerTypes, Located, [Next]_vars
    PROVE  Located'
<1>1. ASSUME UNCHANGED <<kind, backlog, stage, at>> PROVE Located'
  BY <1>1 DEF Located, Queued, InFlight, Tls
<1>2. ASSUME NEW s \in Servers, ServerActs(s) PROVE Located'
  <2>1. CASE Listen(s) \/ StartPoll(s) \/ AcceptPending(s) \/ EndIteration(s) \/ JoinPending(s)
    <3>1. UNCHANGED <<kind, backlog, stage, at>>
      BY <2>1 DEF Listen, StartPoll, AcceptPending, EndIteration, JoinPending
    <3> QED BY <1>1, <3>1
  <2>2. CASE AcceptStream(s) BY <2>2, LocatedAccepts DEF AcceptStream, Serve
  <2>3. CASE AcceptHandshake(s) BY <2>3, LocatedAccepts DEF AcceptHandshake
  <2>4. CASE AcceptError(s) \/ ListenError(s) \/ DropServer(s)
    BY <2>4, LocatedStops DEF AcceptError, ListenError, DropServer
  <2> QED BY <1>2, <2>1, <2>2, <2>3, <2>4 DEF ServerActs
<1>3. ASSUME NEW s \in Servers, NEW c \in Clients, ClientActs(s, c) PROVE Located'
  <2>1. CASE JoinStream(s, c) BY <2>1, LocatedMoves DEF JoinStream, Serve, Stages, Shaking
  <2>2. CASE JoinFailed(s, c) BY <2>2, LocatedMoves DEF JoinFailed, Stages, Shaking
  <2>3. CASE JoinError(s, c) BY <2>3, LocatedStops DEF JoinError
  <2>4. CASE Connect(c, s) BY <2>4, LocatedConnects
  <2>5. CASE Refuse(c, s) BY <2>5, LocatedMoves DEF Refuse, Stages, Shaking
  <2>6. ASSUME NEW result \in {"shaken", "failed", "panicked"}, Handshake(c, s, result) PROVE Located'
    <3>1. /\ stage[c] = "shaking" /\ stage' = [stage EXCEPT ![c] = result] /\ UNCHANGED <<kind, backlog, at>>
      BY <2>6 DEF Handshake
    <3>2. result \in Stages /\ result \notin {"away", "backlog"} /\ stage[c] # "backlog" /\ stage[c] \in Shaking
      BY <3>1 DEF Stages, Shaking
    <3> QED BY <3>1, <3>2, LocatedMoves
  <2> QED BY <1>3, <2>1, <2>2, <2>3, <2>4, <2>5, <2>6 DEF ClientActs
<1>4. ASSUME NEW c \in Clients, Close(c) PROVE Located'
  BY <1>4, LocatedMoves DEF Close, Stages, Shaking
<1>5. CASE UNCHANGED serverVars BY <1>1, <1>5 DEF serverVars
<1> QED BY <1>2, <1>3, <1>4, <1>5, ServerForms

-----------------------------------------------------------------------------
(* What a server's loop holds: the Sender of the one connection it has just spawned, until the *)
(* iteration ends.                                                                             *)
Holding ==
    /\ \A s \in Servers : pc[s] # "spawned" => held[s] = {}
    /\ \A s \in Servers : \A c \in held[s] : at[c] = {s} /\ stage[c] \in {"serving", "closed"}

HeldBy(c) == {s \in Servers : c \in held[s]}

(* The Sender of a plain connection's reactor. *)
OwnSender(c) == IF stage[c] = "serving" /\ \A s \in at[c] : ~Rpc(s) THEN 1 ELSE 0

SendersExact == \A c \in Clients : senders[c] = OwnSender(c) + (IF HeldBy(c) = {} THEN 0 ELSE 1)

QueueInv == Holding /\ SendersExact

(* A step that serves nobody and closes nobody. *)
LEMMA QueueAside ==
    ASSUME ServerTypes, QueueInv, UNCHANGED <<kind, senders, held>>,
           \A s \in Servers : pc'[s] # "spawned" => held[s] = {},
           \A c \in Clients : \/ stage'[c] = stage[c] /\ at'[c] = at[c]
                              \/ stage[c] \notin {"serving", "closed"} /\ stage'[c] # "serving"
    PROVE  QueueInv'
<1> USE DEF ServerTypes
<1>1. \A s \in Servers : \A c \in held[s] : c \in Clients OBVIOUS
<1>2. Holding' BY <1>1 DEF QueueInv, Holding
<1>3. ASSUME NEW c \in Clients PROVE OwnSender(c)' = OwnSender(c) /\ HeldBy(c)' = HeldBy(c)
  BY DEF OwnSender, HeldBy, Rpc
<1>4. SendersExact' BY <1>3 DEF QueueInv, SendersExact
<1> QED BY <1>2, <1>4 DEF QueueInv

(* A connection is served. *)
LEMMA QueueServes ==
    ASSUME ServerTypes, QueueInv, NEW s \in Servers, NEW c \in Clients, Serve(s, c), UNCHANGED <<kind, at>>,
           pc[s] # "spawned", at[c] = {s}, stage[c] \notin {"serving", "closed"}
    PROVE  QueueInv'
<1> USE DEF ServerTypes
<1>1. /\ stage' = [stage EXCEPT ![c] = "serving"] /\ senders' = [senders EXCEPT ![c] = 1 + Clones(s)]
      /\ held' = [held EXCEPT ![s] = {c}] /\ pc' = [pc EXCEPT ![s] = "spawned"]
  BY DEF Serve
<1>2. held[s] = {} /\ \A r \in Servers : c \notin held[r] BY DEF QueueInv, Holding
<1>3. \A r \in Servers : held'[r] = IF r = s THEN {c} ELSE held[r] BY <1>1
<1>4. Holding'
  <2>1. \A r \in Servers : pc'[r] # "spawned" => held'[r] = {} BY <1>1, <1>3 DEF QueueInv, Holding
  <2>2. ASSUME NEW r \in Servers, NEW d \in held'[r] PROVE at'[d] = {r} /\ stage'[d] \in {"serving", "closed"}
    <3>1. d \in Clients BY <1>3
    <3>2. CASE r = s BY <1>1, <1>3, <3>1, <3>2
    <3>3. CASE r # s BY <1>1, <1>2, <1>3, <3>1, <3>3 DEF QueueInv, Holding
    <3> QED BY <3>2, <3>3
  <2> QED BY <2>1, <2>2 DEF Holding
<1>5. ASSUME NEW d \in Clients PROVE senders'[d] = OwnSender(d)' + (IF HeldBy(d)' = {} THEN 0 ELSE 1)
  <2>1. CASE d = c
    <3>1. HeldBy(c)' # {} BY <1>3 DEF HeldBy
    <3>2. OwnSender(c)' = Clones(s) BY <1>1 DEF OwnSender, Clones, Rpc
    <3>3. senders'[c] = 1 + Clones(s) /\ Clones(s) \in Nat BY <1>1 DEF Clones
    <3> QED BY <2>1, <3>1, <3>2, <3>3
  <2>2. CASE d # c
    <3>1. HeldBy(d)' = HeldBy(d) BY <1>2, <1>3, <2>2 DEF HeldBy
    <3>2. OwnSender(d)' = OwnSender(d) BY <1>1, <2>2 DEF OwnSender, Rpc
    <3>3. senders'[d] = senders[d] BY <1>1, <2>2
    <3> QED BY <3>1, <3>2, <3>3 DEF QueueInv, SendersExact
  <2> QED BY <2>1, <2>2
<1> QED BY <1>4, <1>5 DEF QueueInv, SendersExact

(* The iteration that served a connection ends. *)
LEMMA QueueDrops ==
    ASSUME ServerTypes, QueueInv, NEW s \in Servers, EndIteration(s)
    PROVE  QueueInv'
<1> USE DEF ServerTypes
<1>1. /\ pc' = [pc EXCEPT ![s] = "accept"] /\ held' = [held EXCEPT ![s] = {}] /\ UNCHANGED <<kind, stage, at>>
      /\ \A c \in Clients : senders'[c] = IF c \in held[s] THEN senders[c] - 1 ELSE senders[c]
  BY DEF EndIteration
<1>2. \A r \in Servers : held'[r] = IF r = s THEN {} ELSE held[r] BY <1>1
<1>3. Holding' BY <1>1, <1>2 DEF QueueInv, Holding
<1>4. ASSUME NEW c \in Clients PROVE senders'[c] = OwnSender(c)' + (IF HeldBy(c)' = {} THEN 0 ELSE 1)
  <2>0. OwnSender(c)' = OwnSender(c) /\ OwnSender(c) \in Nat BY <1>1 DEF OwnSender, Rpc
  <2>1. CASE c \in held[s]
    <3>1. ASSUME NEW r \in Servers, r # s PROVE c \notin held[r]
      <4>1. at[c] = {s} /\ {r} # {s} BY <2>1, <3>1 DEF QueueInv, Holding
      <4> QED BY <4>1 DEF QueueInv, Holding
    <3>2. HeldBy(c)' = {} /\ HeldBy(c) # {} BY <1>2, <2>1, <3>1 DEF HeldBy
    <3>3. senders[c] = OwnSender(c) + 1 BY <3>2 DEF QueueInv, SendersExact
    <3>4. senders'[c] = senders[c] - 1 BY <1>1, <2>1
    <3> QED BY <2>0, <3>2, <3>3, <3>4
  <2>2. CASE c \notin held[s]
    <3>1. HeldBy(c)' = HeldBy(c) BY <1>2, <2>2 DEF HeldBy
    <3> QED BY <1>1, <2>0, <2>2, <3>1 DEF QueueInv, SendersExact
  <2> QED BY <2>1, <2>2
<1> QED BY <1>3, <1>4 DEF QueueInv, SendersExact

(* A connection closes. *)
LEMMA QueueCloses ==
    ASSUME ServerTypes, QueueInv, NEW c \in Clients, Close(c)
    PROVE  QueueInv'
<1> USE DEF ServerTypes
<1>1. /\ stage[c] = "serving" /\ stage' = [stage EXCEPT ![c] = "closed"] /\ UNCHANGED <<kind, pc, at, held>>
      /\ senders' = [senders EXCEPT ![c] = IF \E s \in at[c] : Rpc(s) THEN @ ELSE @ - 1]
  BY DEF Close
<1>2. Holding'
  <2>1. \A s \in Servers : \A d \in held[s] : d \in Clients OBVIOUS
  <2> QED BY <1>1, <2>1 DEF QueueInv, Holding
<1>3. ASSUME NEW d \in Clients PROVE senders'[d] = OwnSender(d)' + (IF HeldBy(d)' = {} THEN 0 ELSE 1)
  <2>1. HeldBy(d)' = HeldBy(d) BY <1>1 DEF HeldBy
  <2>2. CASE d = c
    <3>1. OwnSender(c) = (IF \E s \in at[c] : Rpc(s) THEN 0 ELSE 1) /\ OwnSender(c)' = 0
      BY <1>1 DEF OwnSender
    <3>2. senders'[c] = IF \E s \in at[c] : Rpc(s) THEN senders[c] ELSE senders[c] - 1 BY <1>1
    <3>3. senders[c] = OwnSender(c) + (IF HeldBy(c) = {} THEN 0 ELSE 1) BY DEF QueueInv, SendersExact
    <3> QED BY <2>1, <2>2, <3>1, <3>2, <3>3
  <2>3. CASE d # c
    <3>1. OwnSender(d)' = OwnSender(d) BY <1>1, <2>3 DEF OwnSender, Rpc
    <3>2. senders'[d] = senders[d] BY <1>1, <2>3
    <3> QED BY <2>1, <3>1, <3>2 DEF QueueInv, SendersExact
  <2> QED BY <2>2, <2>3
<1> QED BY <1>2, <1>3 DEF QueueInv, SendersExact

(* The Senders of a queue stay exact. *)
LEMMA QueueNext ==
    ASSUME LevelTypeOK, ServerTypes, Located, QueueInv, [Next]_vars
    PROVE  QueueInv'
<1> USE DEF ServerTypes
<1>1. CASE UNCHANGED serverVars BY <1>1, QueueAside DEF serverVars, QueueInv, Holding
<1>2. ASSUME NEW s \in Servers, Stopped(s), pc[s] # "spawned", UNCHANGED at, UNCHANGED <<kind, senders, held>>
      PROVE  QueueInv'
  <2> HIDE DEF ServerTypes
  <2>1. ASSUME NEW c \in Clients
        PROVE  \/ stage'[c] = stage[c] /\ at'[c] = at[c]
               \/ stage[c] \notin {"serving", "closed"} /\ stage'[c] # "serving"
    <3>1. \/ stage'[c] = stage[c]
          \/ stage'[c] = "lost" /\ stage[c] \in Shaking \cup {"backlog"}
      BY <1>2, StoppedLeaves
    <3> QED BY <1>2, <3>1 DEF Shaking
  <2>2. \A r \in Servers : pc'[r] # "spawned" => held[r] = {}
    BY <1>2 DEF Stopped, QueueInv, Holding, ServerTypes
  <2> QED BY <1>2, <2>1, <2>2, QueueAside
<1>3. ASSUME NEW s \in Servers, ServerActs(s) PROVE QueueInv'
  <2>1. ASSUME NEW q \in Pcs, pc' = [pc EXCEPT ![s] = q], pc[s] # "spawned",
               UNCHANGED <<kind, stage, at, senders, held>>
        PROVE  QueueInv'
    <3>1. \A r \in Servers : pc'[r] # "spawned" => held[r] = {} BY <2>1 DEF QueueInv, Holding
    <3> QED BY <2>1, <3>1, QueueAside
  <2>2. CASE Listen(s) BY <2>1, <2>2 DEF Listen, Pcs
  <2>3. CASE StartPoll(s) BY <2>1, <2>3 DEF StartPoll, Pcs
  <2>4. CASE AcceptStream(s)
    <3>1. PICK c \in Clients : c = Head(backlog[s]) /\ stage[c] = "backlog" /\ at[c] = {s}
      BY <2>4, FirstOfBacklog DEF AcceptStream, Located, Queued
    <3> QED BY <2>4, <3>1, QueueServes DEF AcceptStream
  <2>5. CASE AcceptHandshake(s)
    <3>1. PICK c \in Clients : c = Head(backlog[s]) /\ stage[c] = "backlog"
      BY <2>5, FirstOfBacklog DEF AcceptHandshake, Located, Queued
    <3>2. \A d \in Clients : \/ stage'[d] = stage[d]
                             \/ stage[d] \notin {"serving", "closed"} /\ stage'[d] # "serving"
      BY <2>5, <3>1 DEF AcceptHandshake
    <3>3. UNCHANGED <<kind, pc, at, senders, held>> BY <2>5 DEF AcceptHandshake
    <3>4. \A r \in Servers : pc'[r] # "spawned" => held[r] = {} BY <3>3 DEF QueueInv, Holding
    <3> QED BY <3>2, <3>3, <3>4, QueueAside
  <2>6. CASE AcceptPending(s)
    <3>1. (IF Tls(s) THEN "join" ELSE "parked") \in Pcs BY DEF Pcs
    <3> QED BY <2>1, <2>6, <3>1 DEF AcceptPending
  <2>7. CASE EndIteration(s) BY <2>7, QueueDrops
  <2>8. CASE JoinPending(s) BY <2>1, <2>8 DEF JoinPending, Pcs
  <2>9. CASE AcceptError(s) BY <1>2, <2>9 DEF AcceptError
  <2>10. CASE ListenError(s) BY <1>2, <2>10 DEF ListenError
  <2>11. CASE DropServer(s) BY <1>2, <2>11 DEF DropServer
  <2> QED BY <1>3, <2>2, <2>3, <2>4, <2>5, <2>6, <2>7, <2>8, <2>9, <2>10, <2>11 DEF ServerActs
<1>4. ASSUME NEW s \in Servers, NEW c \in Clients, ClientActs(s, c) PROVE QueueInv'
  <2>1. ASSUME NEW x \in Stages, stage' = [stage EXCEPT ![c] = x], x # "serving",
               stage[c] \notin {"serving", "closed"}, UNCHANGED <<kind, pc, senders, held>>,
               \A d \in Clients : d # c => at'[d] = at[d]
        PROVE  QueueInv'
    <3>1. \A d \in Clients : \/ stage'[d] = stage[d] /\ at'[d] = at[d]
                             \/ stage[d] \notin {"serving", "closed"} /\ stage'[d] # "serving"
      BY <2>1
    <3>2. \A r \in Servers : pc'[r] # "spawned" => held[r] = {} BY <2>1 DEF QueueInv, Holding
    <3> QED BY <2>1, <3>1, <3>2, QueueAside
  <2>2. CASE JoinStream(s, c)
    <3>1. at[c] = {s} BY <2>2 DEF JoinStream, Located
    <3> QED BY <2>2, <3>1, QueueServes DEF JoinStream
  <2>3. CASE JoinFailed(s, c) BY <2>1, <2>3 DEF JoinFailed, Stages
  <2>4. CASE JoinError(s, c) BY <1>2, <2>4 DEF JoinError
  <2>5. CASE Connect(c, s)
    <3>1. \A d \in Clients : d # c => at'[d] = at[d] BY <2>5 DEF Connect
    <3> QED BY <2>1, <2>5, <3>1 DEF Connect, Stages
  <2>6. CASE Refuse(c, s) BY <2>1, <2>6 DEF Refuse, Stages
  <2>7. ASSUME NEW result \in {"shaken", "failed", "panicked"}, Handshake(c, s, result) PROVE QueueInv'
    <3>1. /\ stage[c] = "shaking" /\ stage' = [stage EXCEPT ![c] = result]
          /\ UNCHANGED <<kind, pc, at, senders, held>>
      BY <2>7 DEF Handshake
    <3>2. result \in Stages /\ result # "serving" BY DEF Stages
    <3> QED BY <2>1, <3>1, <3>2
  <2> QED BY <1>4, <2>2, <2>3, <2>4, <2>5, <2>6, <2>7 DEF ClientActs
<1>5. ASSUME NEW c \in Clients, Close(c) PROVE QueueInv' BY <1>5, QueueCloses
<1> QED BY <1>1, <1>3, <1>4, <1>5, ServerForms

-----------------------------------------------------------------------------
(* What ends a server is known: a panic and an accept error are counted, and only a runtime    *)
(* that was terminated closes.                                                                 *)
Blamed ==
    /\ \A c \in Clients : stage[c] = "panicked" => faults > 0
    /\ \A w \in Workers : Closed(w) => terminated
    /\ PeersDoNotEndServers

(* A runtime closes after its termination, which is for good. *)
LEMMA ClosesTerminated ==
    ASSUME LevelTypeOK, \A w \in Workers : Closed(w) => terminated, [LevelNext]_levelVars
    PROVE  (terminated => terminated') /\ \A w \in Workers : Closed(w)' => terminated'
<1>1. CASE UNCHANGED <<terminated, phase>> BY <1>1 DEF Closed
<1>2. CASE terminated' = TRUE BY <1>2
<1>3. ASSUME NEW w \in Workers, phase' = [phase EXCEPT ![w] = "running"], terminated' = terminated
      PROVE  \A v \in Workers : Closed(v)' => terminated'
  <2>1. ASSUME NEW v \in Workers, Closed(v)' PROVE Closed(v) BY <1>3, <2>1 DEF Closed, LevelTypeOK
  <2> QED BY <1>3, <2>1
<1> DEFINE Goal == \/ UNCHANGED <<terminated, phase>> \/ terminated' = TRUE
                   \/ \E w \in Workers : phase' = [phase EXCEPT ![w] = "running"] /\ terminated' = terminated
<1>4. ASSUME NEW x \in Callers,
             \/ \E t \in Tasks, a, b \in Workers : SpawnBalanced(x, t, a, b)
             \/ \E t \in Tasks, w \in Workers : SpawnLocal(x, t, w)
             \/ \E copy \in [Workers -> Tasks] : SpawnOnEach(x, copy)
             \/ BalanceSecond(x)
             \/ \E t \in Tasks : Wrap(x, t) \/ Submit(x, t)
      PROVE  Goal
  BY <1>4 DEF SpawnBalanced, SpawnLocal, SpawnOnEach, Ask, BalanceSecond, Wrap, Submit
<1>5. ASSUME NEW w \in Workers, NEW t \in Tasks,
             Poll(w, t) \/ Yield(w, t) \/ Complete(w, t) \/ Abort(w, t) \/ DropOwned(w, t)
      PROVE  Goal
  BY <1>5 DEF Poll, Yield, Complete, Abort, DropOwned
<1>6. ASSUME NEW w \in Workers, WorkerRuns(w) \/ StopWorker(w) \/ CloseWorker(w) PROVE Goal
  <2>1. CASE WorkerRuns(w) BY <2>1 DEF WorkerRuns
  <2>2. CASE StopWorker(w) BY <2>2 DEF StopWorker, LevelTypeOK
  <2>3. CASE CloseWorker(w)
    <3>1. Closed(w) /\ terminated' = terminated BY <2>3 DEF CloseWorker, Closed
    <3> QED BY <3>1 DEF LevelTypeOK
  <2> QED BY <1>6, <2>1, <2>2, <2>3
<1>7. ASSUME Terminate \/ Join \/ UNCHANGED levelVars \/ \E how \in {"start", "run"} : Start(how) PROVE Goal
  BY <1>7 DEF Terminate, Join, levelVars, Start
<1> HIDE DEF Goal
<1>8. Goal BY <1>4, <1>5, <1>6, <1>7 DEF LevelNext
<1> QED BY <1>1, <1>2, <1>3, <1>8 DEF Goal

(* A step that blames nobody new. *)
LEMMA BlamedAside ==
    ASSUME ServerTypes, Blamed, [LevelNext]_levelVars, LevelTypeOK,
           \A c \in Clients : stage'[c] = "panicked" => stage[c] = "panicked" \/ faults' > 0,
           \A s \in Servers : pc'[s] = "ended" => pc[s] = "ended" \/ faults' > 0 \/ terminated',
           faults > 0 => faults' > 0
    PROVE  Blamed'
<1>1. (terminated => terminated') /\ \A w \in Workers : Closed(w)' => terminated' BY ClosesTerminated DEF Blamed
<1>2. PeersDoNotEndServers' BY <1>1 DEF Blamed, PeersDoNotEndServers
<1> QED BY <1>1, <1>2 DEF Blamed

(* What ends a server stays known. *)
LEMMA BlamedNext ==
    ASSUME LevelTypeOK, ServerTypes, Located, Blamed, [Next]_vars
    PROVE  Blamed'
<1> USE DEF ServerTypes
<1>0. [LevelNext]_levelVars BY StepsOfRuntime
<1>1. ASSUME UNCHANGED <<stage, faults>>, \A s \in Servers : pc'[s] = "ended" => pc[s] = "ended" PROVE Blamed'
  BY <1>0, <1>1, BlamedAside
<1>2. ASSUME NEW s \in Servers, Stopped(s), UNCHANGED at, faults' \in {faults, faults + 1},
             faults' > 0 \/ \E w \in Workers : Closed(w)
      PROVE  Blamed'
  <2>1. \A c \in Clients : stage'[c] = stage[c] \/ stage'[c] = "lost" BY <1>2, StoppedLeaves
  <2>2. terminated => terminated' BY <1>0, ClosesTerminated DEF Blamed
  <2>3. faults' > 0 \/ terminated' BY <1>2, <2>2 DEF Blamed
  <2>4. faults > 0 => faults' > 0 BY <1>2
  <2> QED BY <1>0, <2>1, <2>3, <2>4, BlamedAside
<1>3. ASSUME NEW c \in Clients, NEW x \in Stages, stage' = [stage EXCEPT ![c] = x], x # "panicked",
             faults' = faults, \A s \in Servers : pc'[s] = "ended" => pc[s] = "ended"
      PROVE  Blamed'
  <2>1. \A d \in Clients : stage'[d] = "panicked" => stage[d] = "panicked" BY <1>3
  <2> QED BY <1>0, <1>3, <2>1, BlamedAside
<1>4. ASSUME NEW s \in Servers, ServerActs(s) PROVE Blamed'
  <2>1. CASE Listen(s) BY <1>1, <2>1 DEF Listen
  <2>2. CASE StartPoll(s) BY <1>1, <2>2 DEF StartPoll
  <2>3. CASE AcceptStream(s)
    <3>1. PICK c \in Clients : c = Head(backlog[s]) BY <2>3, FirstOfBacklog DEF AcceptStream
    <3>2. \A r \in Servers : pc'[r] = "ended" => pc[r] = "ended" BY <2>3 DEF AcceptStream, Serve
    <3>3. stage' = [stage EXCEPT ![c] = "serving"] /\ faults' = faults BY <2>3, <3>1 DEF AcceptStream, Serve
    <3> QED BY <1>3, <3>2, <3>3 DEF Stages
  <2>4. CASE AcceptHandshake(s)
    <3>1. PICK c \in Clients : c = Head(backlog[s]) BY <2>4, FirstOfBacklog DEF AcceptHandshake
    <3>2. stage' = [stage EXCEPT ![c] = "shaking"] /\ UNCHANGED <<pc, faults>>
      BY <2>4, <3>1 DEF AcceptHandshake
    <3> QED BY <1>3, <3>2 DEF Stages
  <2>5. CASE AcceptPending(s)
    <3>1. \A r \in Servers : pc'[r] = "ended" => pc[r] = "ended" BY <2>5 DEF AcceptPending
    <3> QED BY <1>1, <2>5, <3>1 DEF AcceptPending
  <2>6. CASE EndIteration(s) BY <1>1, <2>6 DEF EndIteration
  <2>7. CASE JoinPending(s) BY <1>1, <2>7 DEF JoinPending
  <2>8. CASE AcceptError(s) BY <1>2, <2>8 DEF AcceptError
  <2>9. CASE ListenError(s) BY <1>2, <2>9 DEF ListenError
  <2>10. CASE DropServer(s) /\ \E w \in Workers : Closed(w) BY <1>2, <2>10 DEF DropServer
  <2> QED BY <1>4, <2>1, <2>2, <2>3, <2>4, <2>5, <2>6, <2>7, <2>8, <2>9, <2>10 DEF ServerActs
<1>5. ASSUME NEW s \in Servers, NEW c \in Clients, ClientActs(s, c) PROVE Blamed'
  <2>1. CASE JoinStream(s, c)
    <3>1. \A r \in Servers : pc'[r] = "ended" => pc[r] = "ended" BY <2>1 DEF JoinStream, Serve
    <3> QED BY <1>3, <2>1, <3>1 DEF JoinStream, Serve, Stages
  <2>2. CASE JoinFailed(s, c) BY <1>3, <2>2 DEF JoinFailed, Stages
  <2>3. CASE JoinError(s, c) BY <1>2, <2>3 DEF JoinError, Blamed
  <2>4. CASE Connect(c, s) BY <1>3, <2>4 DEF Connect, Stages
  <2>5. CASE Refuse(c, s) BY <1>3, <2>5 DEF Refuse, Stages
  <2>6. ASSUME NEW result \in {"shaken", "failed", "panicked"}, Handshake(c, s, result) PROVE Blamed'
    <3>1. /\ stage' = [stage EXCEPT ![c] = result] /\ pc' = pc
          /\ faults' = faults + (IF result = "panicked" THEN 1 ELSE 0)
      BY <2>6 DEF Handshake
    <3>2. (result = "panicked" => faults' > 0) /\ (faults > 0 => faults' > 0) BY <3>1
    <3>3. \A d \in Clients : stage'[d] = "panicked" => stage[d] = "panicked" \/ faults' > 0 BY <3>1, <3>2
    <3> QED BY <1>0, <3>1, <3>2, <3>3, BlamedAside
  <2> QED BY <1>5, <2>1, <2>2, <2>3, <2>4, <2>5, <2>6 DEF ClientActs
<1>6. ASSUME NEW c \in Clients, Close(c) PROVE Blamed' BY <1>3, <1>6 DEF Close, Stages
<1>7. CASE UNCHANGED serverVars BY <1>1, <1>7 DEF serverVars
<1> QED BY <1>4, <1>5, <1>6, <1>7, ServerForms

-----------------------------------------------------------------------------
(* What a server that nobody has woken may rely on: since it polled the socket in this poll it *)
(* is registered there and nothing has come, and, parked, it is registered with the JoinSet    *)
(* unless that is empty, and no handshake has finished.                                        *)
Watched(s) ==
    ~woken[s] =>
        /\ pc[s] \in {"join", "parked"} => "accept" \in armed[s] /\ backlog[s] = <<>>
        /\ pc[s] = "parked" => Finished(s) = {} /\ (InFlight(s) # {} => "join" \in armed[s])

(* A step that does nothing to a server's wakers, and brings its listener no connection. *)
Calm(s) ==
    /\ pc'[s] = pc[s] /\ woken'[s] = woken[s] /\ armed'[s] = armed[s] /\ backlog'[s] = backlog[s]
    /\ InFlight(s)' \subseteq InFlight(s) /\ Finished(s)' \subseteq Finished(s)

(* Such a step leaves the server as watched as it was. *)
LEMMA WatchedCalm == ASSUME NEW s \in Servers, Watched(s), Calm(s) PROVE Watched(s)'
BY DEF Watched, Calm

(* The stage of a connection of s is nothing to the other servers. *)
LEMMA OthersCalm ==
    ASSUME ServerTypes, NEW s \in Servers, NEW r \in Servers, r # s,
           pc'[r] = pc[r], woken'[r] = woken[r], armed'[r] = armed[r], backlog'[r] = backlog[r],
           \A c \in Clients : \/ at'[c] = at[c] /\ (stage'[c] = stage[c] \/ at[c] = {s})
                              \/ stage'[c] \notin Shaking
    PROVE  Calm(r)
<1>1. {r} # {s} OBVIOUS
<1>2. \A c \in InFlight(r)' : c \in InFlight(r) /\ stage'[c] = stage[c] BY <1>1 DEF InFlight, Shaking
<1>3. \A c \in Finished(r)' : c \in Finished(r) BY <1>2 DEF Finished
<1> QED BY <1>2, <1>3 DEF Calm

(* Servers that are not woken stay watched. *)
LEMMA WatchedNext ==
    ASSUME LevelTypeOK, ServerTypes, Located, \A s \in Servers : Watched(s), [Next]_vars
    PROVE  \A s \in Servers : Watched(s)'
<1> USE DEF ServerTypes
<1>1. CASE UNCHANGED serverVars
  <2>1. \A s \in Servers : Calm(s) BY <1>1 DEF serverVars, Calm, InFlight, Finished
  <2> QED BY <2>1, WatchedCalm
<1>2. ASSUME NEW s \in Servers, Stopped(s), UNCHANGED at PROVE \A r \in Servers : Watched(r)'
  <2> HIDE DEF ServerTypes
  <2>0. /\ \A c \in Clients : stage'[c] = stage[c] \/ at[c] = {s}
        /\ \A r \in Servers \ {s} : /\ pc'[r] = pc[r] /\ woken'[r] = woken[r] /\ armed'[r] = armed[r]
                                    /\ backlog'[r] = backlog[r]
    BY <1>2, StoppedLeaves
  <2>1. ASSUME NEW r \in Servers, r # s PROVE Calm(r) BY <1>2, <2>0, <2>1, OthersCalm
  <2>2. Watched(s)'
    <3>1. pc'[s] = "ended" BY <1>2 DEF Stopped, ServerTypes
    <3> QED BY <3>1 DEF Watched
  <2> QED BY <2>1, <2>2, WatchedCalm
<1>3. ASSUME NEW s \in Servers, Watched(s)',
             \A r \in Servers \ {s} : /\ pc'[r] = pc[r] /\ woken'[r] = woken[r] /\ armed'[r] = armed[r]
                                      /\ backlog'[r] = backlog[r],
             \A c \in Clients : \/ at'[c] = at[c] /\ (stage'[c] = stage[c] \/ at[c] = {s})
                                \/ stage'[c] \notin Shaking
      PROVE  \A r \in Servers : Watched(r)'
  <2>1. ASSUME NEW r \in Servers, r # s PROVE Calm(r) BY <1>3, <2>1, OthersCalm
  <2> QED BY <1>3, <2>1, WatchedCalm
<1>4. ASSUME NEW s \in Servers, ServerActs(s) PROVE \A r \in Servers : Watched(r)'
  <2>1. ASSUME pc'[s] \notin {"join", "parked"},
               \A r \in Servers \ {s} : /\ pc'[r] = pc[r] /\ woken'[r] = woken[r] /\ armed'[r] = armed[r]
                                        /\ backlog'[r] = backlog[r],
               \A c \in Clients : at'[c] = at[c] /\ (stage'[c] = stage[c] \/ at[c] = {s})
        PROVE  \A r \in Servers : Watched(r)'
    <3>1. Watched(s)' BY <2>1 DEF Watched
    <3> QED BY <1>3, <2>1, <3>1
  <2>2. CASE Listen(s) BY <2>1, <2>2 DEF Listen
  <2>3. CASE StartPoll(s) BY <2>1, <2>3 DEF StartPoll
  <2>4. CASE AcceptStream(s)
    <3>1. PICK c \in Clients : c = Head(backlog[s]) /\ at[c] = {s}
      BY <2>4, FirstOfBacklog DEF AcceptStream, Located, Queued
    <3> QED BY <2>1, <2>4, <3>1 DEF AcceptStream, Serve
  <2>5. CASE AcceptHandshake(s)
    <3>1. PICK c \in Clients : c = Head(backlog[s]) /\ at[c] = {s}
      BY <2>5, FirstOfBacklog DEF AcceptHandshake, Located, Queued
    <3> QED BY <2>1, <2>5, <3>1 DEF AcceptHandshake
  <2>6. CASE AcceptPending(s)
    <3>1. InFlight(s)' = InFlight(s) BY <2>6 DEF AcceptPending, InFlight
    <3>2. ~Tls(s) => InFlight(s) = {} BY DEF Located
    <3>3. pc'[s] = (IF Tls(s) THEN "join" ELSE "parked") /\ "accept" \in armed'[s] /\ backlog'[s] = <<>>
      BY <2>6 DEF AcceptPending
    <3>4. pc'[s] = "parked" => InFlight(s)' = {} /\ Finished(s)' = {} BY <3>1, <3>2, <3>3 DEF Finished
    <3>5. Watched(s)' BY <3>3, <3>4 DEF Watched
    <3> QED BY <1>3, <2>6, <3>5 DEF AcceptPending
  <2>7. CASE EndIteration(s) BY <2>1, <2>7 DEF EndIteration
  <2>8. CASE JoinPending(s)
    <3>1. InFlight(s)' = InFlight(s) /\ Finished(s)' = {} BY <2>8 DEF JoinPending, InFlight, Finished
    <3>2. /\ armed'[s] = armed[s] \cup JoinArms(s) /\ backlog'[s] = backlog[s] /\ woken'[s] = woken[s]
          /\ pc[s] = "join"
      BY <2>8 DEF JoinPending
    <3>3. Watched(s)' BY <3>1, <3>2 DEF Watched, JoinArms
    <3> QED BY <1>3, <2>8, <3>3 DEF JoinPending
  <2>9. CASE AcceptError(s) \/ ListenError(s) \/ DropServer(s)
    BY <1>2, <2>9 DEF AcceptError, ListenError, DropServer
  <2> QED BY <1>4, <2>2, <2>3, <2>4, <2>5, <2>6, <2>7, <2>8, <2>9 DEF ServerActs
<1>5. ASSUME NEW s \in Servers, NEW c \in Clients, ClientActs(s, c) PROVE \A r \in Servers : Watched(r)'
  <2>1. CASE JoinStream(s, c)
    <3>1. at[c] = {s} BY <2>1 DEF JoinStream, Located
    <3>2. Watched(s)' BY <2>1 DEF JoinStream, Serve, Watched
    <3> QED BY <1>3, <2>1, <3>1, <3>2 DEF JoinStream, Serve
  <2>2. CASE JoinFailed(s, c)
    <3>1. at[c] = {s} BY <2>2 DEF JoinFailed, Located
    <3>2. pc'[s] = "join" /\ armed'[s] = armed[s] /\ backlog'[s] = backlog[s] /\ woken'[s] = woken[s] /\ pc[s] = "join"
      BY <2>2 DEF JoinFailed
    <3>3. Watched(s)' BY <3>2 DEF Watched
    <3> QED BY <1>3, <2>2, <3>1, <3>3 DEF JoinFailed
  <2>3. CASE JoinError(s, c) BY <1>2, <2>3 DEF JoinError
  <2>4. CASE Connect(c, s)
    <3>1. /\ woken'[s] = (woken[s] \/ "accept" \in armed[s]) /\ pc'[s] = pc[s]
      BY <2>4 DEF Connect, Wake
    <3>2. Watched(s)' BY <3>1 DEF Watched
    <3>3. \A d \in Clients : (at'[d] = at[d] /\ stage'[d] = stage[d]) \/ stage'[d] \notin Shaking
      BY <2>4 DEF Connect, Shaking
    <3>4. \A r \in Servers \ {s} : /\ pc'[r] = pc[r] /\ woken'[r] = woken[r] /\ armed'[r] = armed[r]
                                   /\ backlog'[r] = backlog[r]
      BY <2>4 DEF Connect, Wake
    <3> QED BY <1>3, <3>2, <3>3, <3>4
  <2>5. CASE Refuse(c, s)
    <3>1. ASSUME NEW r \in Servers PROVE Calm(r)
      <4>1. InFlight(r)' = InFlight(r) /\ Finished(r)' = Finished(r)
        BY <2>5 DEF Refuse, InFlight, Finished
      <4> QED BY <2>5, <4>1 DEF Refuse, Calm
    <3> QED BY <3>1, WatchedCalm
  <2>6. ASSUME NEW result \in {"shaken", "failed", "panicked"}, Handshake(c, s, result)
        PROVE  \A r \in Servers : Watched(r)'
    <3>1. c \in InFlight(s) BY <2>6 DEF Handshake, InFlight
    <3>2. at[c] = {s} BY <3>1 DEF Located
    <3>3. /\ woken'[s] = (woken[s] \/ "join" \in armed[s]) /\ pc'[s] = pc[s] /\ backlog'[s] = backlog[s]
          /\ armed'[s] = armed[s] \ {"join"}
      BY <2>6 DEF Handshake, Wake
    <3>4. Watched(s)' BY <3>1, <3>3 DEF Watched
    <3>5. \A d \in Clients : at'[d] = at[d] /\ (stage'[d] = stage[d] \/ at[d] = {s})
      BY <2>6, <3>2 DEF Handshake
    <3>6. \A r \in Servers \ {s} : /\ pc'[r] = pc[r] /\ woken'[r] = woken[r] /\ armed'[r] = armed[r]
                                   /\ backlog'[r] = backlog[r]
      BY <2>6 DEF Handshake, Wake
    <3> QED BY <1>3, <3>4, <3>5, <3>6
  <2> QED BY <1>5, <2>1, <2>2, <2>3, <2>4, <2>5, <2>6 DEF ClientActs
<1>6. ASSUME NEW c \in Clients, Close(c) PROVE \A r \in Servers : Watched(r)'
  <2>1. ASSUME NEW r \in Servers PROVE Calm(r)
    <3>1. InFlight(r)' = InFlight(r) /\ Finished(r)' = Finished(r)
      BY <1>6 DEF Close, InFlight, Finished
    <3> QED BY <1>6, <3>1 DEF Close, Calm
  <2> QED BY <2>1, WatchedCalm
<1> HIDE DEF ServerTypes
<1> QED BY <1>1, <1>4, <1>5, <1>6, ServerForms

-----------------------------------------------------------------------------
(* The inductive invariant of the servers. *)
ServersInv == ServerTypes /\ Located /\ QueueInv /\ Blamed /\ \A s \in Servers : Watched(s)

(* Before run_main no socket is bound and nobody is connected. *)
LEMMA ServersInitInv == Init => ServersInv
<1> SUFFICES ASSUME Init PROVE ServersInv OBVIOUS
<1> USE DEF Init, ServerInit
<1>1. ServerTypes
  <2>1. <<>> \in Seq(Clients) BY EmptySeq
  <2> QED BY <2>1, ServerAssumption DEF ServerTypes, Pcs, Stages
<1>2. \A s \in Servers : InFlight(s) = {} BY DEF InFlight
<1>3. Located
  <2>1. \A s \in Servers : backlog[s] = <<>> OBVIOUS
  <2>2. DOMAIN <<>> = {} OBVIOUS
  <2>3. \A s \in Servers : Queued(s) BY <2>1, <2>2 DEF Queued
  <2> QED BY <1>2, <2>3 DEF Located
<1>4. QueueInv
  <2>1. \A c \in Clients : OwnSender(c) = 0 /\ HeldBy(c) = {} BY DEF OwnSender, HeldBy
  <2> QED BY <2>1 DEF QueueInv, Holding, SendersExact
<1>5. Blamed BY DEF Blamed, LevelInit, Closed, PeersDoNotEndServers
<1>6. \A s \in Servers : Watched(s) BY DEF Watched
<1> QED BY <1>1, <1>3, <1>4, <1>5, <1>6 DEF ServersInv

(* The invariant of the servers holds of every behaviour, for any number of workers, servers   *)
(* and peers: where every connection is, who holds its queue, and which wakers are registered. *)
THEOREM ServersHold == Spec => []ServersInv
<1>1. Init => ServersInv BY ServersInitInv
<1>2. LevelTypeOK /\ ServersInv /\ [Next]_vars => ServersInv'
  BY ServerTypesNext, LocatedNext, QueueNext, BlamedNext, WatchedNext DEF ServersInv
<1>3. Spec => []LevelTypeOK BY ServersUseRuntime, LevelTypeCorrect, PTL
<1> QED BY <1>1, <1>2, <1>3, PTL DEF Spec

(* No wakeup is lost between the two polls of a TLS listener, accept and poll_join_next: a     *)
(* server that is parked and not woken has nothing to accept and no handshake to join.         *)
THEOREM ServersForgetNothing == Spec => []NothingForgotten
<1>1. ServersInv => NothingForgotten BY DEF ServersInv, Watched, NothingForgotten
<1> QED BY <1>1, ServersHold, PTL

(* However many peers fail their handshakes or hang up, only an accept error, the panic of a   *)
(* handshake task or the end of the runtime ends the accept loop of a server.                  *)
THEOREM PeersAreHarmless == Spec => []PeersDoNotEndServers
<1>1. ServersInv => PeersDoNotEndServers BY DEF ServersInv, Blamed
<1> QED BY <1>1, ServersHold, PTL

(* The Senders of a connection's outbound queue are exactly its reactor's, if the server is a  *)
(* plain one, and that of the iteration that spawned it: an rpc connection's queue is never    *)
(* kept open by the server that accepted it.                                                   *)
THEOREM QueuesHaveTheirOwners == Spec => []QueueOwners
<1>1. ServersInv => QueueOwners
  <2> SUFFICES ASSUME ServersInv, NEW c \in Clients, \A s \in Servers : c \notin held[s]
               PROVE  senders[c] = IF stage[c] = "serving" /\ \A s \in at[c] : ~Rpc(s) THEN 1 ELSE 0
    BY DEF QueueOwners
  <2>1. HeldBy(c) = {} BY DEF HeldBy
  <2> QED BY <2>1 DEF ServersInv, QueueInv, SendersExact, OwnSender
<1> QED BY <1>1, ServersHold, PTL
=============================================================================
