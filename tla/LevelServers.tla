---------------------------- MODULE LevelServers ----------------------------
(* A server listening on every worker of a level runtime, the way example-proto's server is   *)
(* started: the application's thread spawns run_main, balanced, run_main spawns a copy of the *)
(* server on each worker, and every server spawns its connections, through LevelSpawn, on the *)
(* worker that polls it.  The runtime ends with its termination future, which drops servers   *)
(* and connections wherever they are.                                                         *)
EXTENDS LevelRuntime, SocketServer

CONSTANTS Main,         \* run_main
          Copy          \* the server of each worker

ASSUME CompositionAssumption ==
    /\ Copy \in [Workers -> Servers] /\ \A s \in Servers : \E w \in Workers : Copy[w] = s
    /\ Tasks = {Main} \cup Servers \cup Clients
    /\ Main \notin Servers \cup Clients /\ Servers \cap Clients = {}

vars == <<levelVars, serverVars>>

Init == LevelInit /\ ServerInit

-----------------------------------------------------------------------------
(* The steps of a poll of server s on worker w. *)
In(w, s) == s \in current[w] /\ call[s].pc = "idle"

Internal(w, s) ==
    /\ In(w, s)
    /\ \/ Listen(s) \/ AcceptHandshake(s) \/ EndIteration(s)
       \/ (AcceptPending(s) /\ Tls(s))
       \/ \E c \in Clients : JoinFailed(s, c)
    /\ UNCHANGED levelVars

(* LevelSpawn::spawn is spawn_local of the connection. *)
Spawning(w, s) ==
    \E c \in Clients : /\ \/ AcceptStream(s) /\ c = Head(backlog[s])
                          \/ JoinStream(s, c)
                       /\ SpawnLocal(s, c, w)

Pending(w, s) == ((AcceptPending(s) /\ ~Tls(s)) \/ JoinPending(s)) /\ Yield(w, s)

Ready(w, s) == (ListenError(s) \/ AcceptError(s) \/ \E c \in Clients : JoinError(s, c)) /\ Complete(w, s)

ServerStep(w, s) ==
    \/ Internal(w, s)
    \/ In(w, s) /\ (Spawning(w, s) \/ Pending(w, s) \/ Ready(w, s))

(* A server is polled when its task is new or woken. *)
PollServer(w, s) ==
    /\ Poll(w, s)
    /\ StartPoll(s) \/ (pc[s] = "unbound" /\ UNCHANGED serverVars)

-----------------------------------------------------------------------------
(* run_main: one call of spawn_on_each, then it waits for the servers' handles.  The polls of *)
(* run_main and of connections that find nothing to do change nothing and are left out.       *)
AllEnded == \A s \in Servers : fate[s] \in {"done", "dropped"}

PollMain(w) == (fate[Copy[1]] = "new" \/ AllEnded) /\ Poll(w, Main) /\ UNCHANGED serverVars

MainStep(w) ==
    /\ Main \in current[w]
    /\ \/ SpawnOnEach(Main, Copy)
       \/ fate[Copy[1]] # "new" /\ ~AllEnded /\ Yield(w, Main)
       \/ AllEnded /\ Complete(w, Main)
    /\ UNCHANGED serverVars

(* The poll of a connection that completes it. *)
PollConnection(w, c) == Poll(w, c) /\ UNCHANGED serverVars

ConnectionStep(w, c) == Complete(w, c) /\ Close(c)

-----------------------------------------------------------------------------
Startup ==
    /\ \/ \E x \in Threads, a, b \in Workers : SpawnBalanced(x, Main, a, b)
       \/ \E how \in {"start", "run"} : fate[Main] # "new" /\ Start(how)
       \/ \E w \in Workers : WorkerRuns(w)
    /\ UNCHANGED serverVars

SpawnStep(x) ==
    /\ \/ BalanceSecond(x)
       \/ \E t \in Tasks : Wrap(x, t) \/ (Submit(x, t) /\ ~Closed(home[t]))
    /\ UNCHANGED serverVars

(* A task that is dropped with, or refused by, its runtime. *)
Dropped(t) ==
    \/ t = Main /\ UNCHANGED serverVars
    \/ t \in Servers /\ DropServer(t)
    \/ t \in Clients /\ Close(t)

Refused(x, t) == Submit(x, t) /\ Closed(home[t]) /\ Dropped(t)

Shutdown ==
    \/ (Terminate \/ Join \/ \E w \in Workers : StopWorker(w) \/ CloseWorker(w)) /\ UNCHANGED serverVars
    \/ \E w \in Workers, t \in Tasks : (DropOwned(w, t) \/ (t = Main /\ Abort(w, t))) /\ Dropped(t)

Network ==
    /\ \E c \in Clients, s \in Servers :
        \/ Connect(c, s) \/ Refuse(c, s)
        \/ \E result \in {"shaken", "failed", "panicked"} : Handshake(c, s, result)
    /\ UNCHANGED levelVars

Next ==
    \/ Startup \/ Shutdown \/ Network
    \/ \E x \in Callers : SpawnStep(x) \/ \E t \in Tasks : Refused(x, t)
    \/ \E w \in Workers :
        \/ PollMain(w) \/ MainStep(w)
        \/ \E s \in Servers : PollServer(w, s) \/ ServerStep(w, s)
        \/ \E c \in Clients : PollConnection(w, c) \/ ConnectionStep(w, c)

Spec == Init /\ [][Next]_vars

(* Threads run; a current-thread runtime polls its woken tasks in turn; a poll returns; the    *)
(* termination may never come, peers may never connect nor finish a handshake, and connections *)
(* may live on.                                                                               *)
Fairness ==
    /\ \A x \in Callers : WF_vars(SpawnStep(x) \/ \E t \in Tasks : Refused(x, t))
    /\ \A w \in Workers :
        /\ WF_vars(WorkerRuns(w) /\ UNCHANGED serverVars)
        /\ WF_vars((StopWorker(w) \/ CloseWorker(w)) /\ UNCHANGED serverVars)
        /\ WF_vars(\E t \in Tasks : DropOwned(w, t) /\ Dropped(t))
        /\ SF_vars(PollMain(w)) /\ WF_vars(MainStep(w))
        /\ \A s \in Servers : SF_vars(PollServer(w, s)) /\ WF_vars(ServerStep(w, s))
        /\ \A c \in Clients : WF_vars(ConnectionStep(w, c))
    /\ WF_vars(Join /\ UNCHANGED serverVars)

FairSpec == Spec /\ Fairness

-----------------------------------------------------------------------------
(* A parked server that nobody has woken has neither a connection to accept nor a finished     *)
(* handshake to join, whichever of the two came while the other was polled.                    *)
NothingForgotten ==
    \A s \in Servers : pc[s] = "parked" /\ ~woken[s] => backlog[s] = <<>> /\ Finished(s) = {}

(* What a peer does (a failed handshake, a connection that ends) never ends a server: only an  *)
(* accept error, the panic of a handshake task or the runtime's end does.                      *)
PeersDoNotEndServers ==
    (\E s \in Servers : pc[s] = "ended") => faults > 0 \/ terminated

(* "The queue's senders are dropped immediately": outside of the iteration that spawned it, the *)
(* queue of an rpc connection has no Sender, so it ends with its socket and submitter; that of *)
(* a plain connection has its reactor's as long as the connection lives, and none after.       *)
QueueOwners ==
    \A c \in Clients : (\A s \in Servers : c \notin held[s]) =>
        senders[c] = IF stage[c] = "serving" /\ \A s \in at[c] : ~Rpc(s) THEN 1 ELSE 0

(* A peer that is slow in its handshake holds up nobody: whatever the others do, a connection  *)
(* leaves the backlog, and once its handshake is done it is served or turned away.             *)
Admitted == \A c \in Clients : /\ stage[c] = "backlog" ~> stage[c] # "backlog"
                               /\ stage[c] = "shaken" ~> stage[c] # "shaken"

(* "When termination completes, the backing executors will close" and run_with_termination     *)
(* returns, whatever the tasks do.                                                             *)
Closes == terminated ~> joined
=============================================================================
