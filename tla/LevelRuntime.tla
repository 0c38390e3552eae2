---------------------------- MODULE LevelRuntime ----------------------------
(* level-runtime: one current-thread tokio runtime per worker thread, without work stealing.  *)
(* Every future spawned through it is wrapped in a ConcurrencyTracker, which counts it on its *)
(* worker while it exists; spawn_balanced compares two of these counts.  Counting a future    *)
(* and handing it to the worker's runtime are two steps of the caller's thread, and the       *)
(* runtime may be shut down by its own thread in between.                                     *)
EXTENDS Naturals, FiniteSets

CONSTANTS NWorkers,    \* Builder::worker_threads
          Tasks,       \* the futures that are ever spawned
          Threads      \* threads of the application that are not workers

ASSUME LevelAssumption == /\ NWorkers \in Nat \ {0}      \* with no worker every balanced spawn panics
                          /\ IsFiniteSet(Tasks)
                          /\ Tasks \cap Threads = {}

Workers == 1 .. NWorkers

Callers == Tasks \cup Threads

VARIABLES
    started,        \* "no", "start" (never ends) or "run" (run_with_termination)
    terminated,     \* the termination future is complete
    joined,         \* run_with_termination has returned
    phase,          \* of a worker's thread: "built", "running", "closing", "closed"
    current,        \* the tasks that the worker's thread is polling: none or one
    concurrency,    \* LevelWorker::concurrency
    fate,           \* of a task: "new", "asked", "counted", "owned", "done", "dropped"
    home,           \* the worker it was, or is to be, spawned on
    call            \* the spawn a caller is in

levelVars == <<started, terminated, joined, phase, current, concurrency, fate, home, call>>

NoCall == [pc |-> "idle", todo |-> {}, a |-> 1, b |-> 1, seen |-> 0]

Calls == [pc : {"idle", "second", "wrap", "submit"}, todo : SUBSET Tasks, a : Workers, b : Workers, seen : Nat]

LevelTypeOK ==
    /\ started \in {"no", "start", "run"} /\ terminated \in BOOLEAN /\ joined \in BOOLEAN
    /\ phase \in [Workers -> {"built", "running", "closing", "closed"}]
    /\ current \in [Workers -> SUBSET Tasks]
    /\ concurrency \in [Workers -> Nat]
    /\ fate \in [Tasks -> {"new", "asked", "counted", "owned", "done", "dropped"}]
    /\ home \in [Tasks -> Workers]
    /\ call \in [Callers -> Calls]

LevelInit ==
    /\ started = "no" /\ terminated = FALSE /\ joined = FALSE
    /\ phase = [w \in Workers |-> "built"]
    /\ current = [w \in Workers |-> {}]
    /\ concurrency = [w \in Workers |-> 0]
    /\ fate = [t \in Tasks |-> "new"]
    /\ home = [t \in Tasks |-> 1]
    /\ call = [x \in Callers |-> NoCall]

-----------------------------------------------------------------------------
(* Spawning. *)

(* Who spawns: a thread of the application that has a handle or a default runtime, or a task  *)
(* while it is polled.  Without a default runtime the static functions panic; not modelled.   *)
MayCall(x) == call[x].pc = "idle" /\ (x \in Threads \/ \E w \in Workers : x \in current[w])

Ask(x, ts) ==
    /\ MayCall(x)
    /\ \A t \in ts : fate[t] = "new"
    /\ fate' = [t \in Tasks |-> IF t \in ts THEN "asked" ELSE fate[t]]
    /\ UNCHANGED <<started, terminated, joined, phase, current, concurrency>>

(* balance_workers: two workers at random, whose counts are loaded one after the other. *)
SpawnBalanced(x, t, a, b) ==
    /\ Ask(x, {t})
    /\ call' = [call EXCEPT ![x] = [pc |-> "second", todo |-> {t}, a |-> a, b |-> b, seen |-> concurrency[a]]]
    /\ UNCHANGED home

Lighter(c) == IF c.seen < concurrency[c.b] THEN c.a ELSE c.b

BalanceSecond(x) ==
    /\ call[x].pc = "second"
    /\ home' = [t \in Tasks |-> IF t \in call[x].todo THEN Lighter(call[x]) ELSE home[t]]
    /\ call' = [call EXCEPT ![x].pc = "wrap"]
    /\ UNCHANGED <<started, terminated, joined, phase, current, concurrency, fate>>

(* spawn_local on the worker whose thread the caller is; elsewhere it panics. *)
SpawnLocal(x, t, w) ==
    /\ x \in current[w]
    /\ Ask(x, {t})
    /\ home' = [home EXCEPT ![t] = w]
    /\ call' = [call EXCEPT ![x] = [NoCall EXCEPT !.pc = "wrap", !.todo = {t}]]

(* spawn_on_each: a copy for every worker, in order. *)
SpawnOnEach(x, copy) ==
    /\ Ask(x, {copy[w] : w \in Workers})
    /\ \A v, w \in Workers : copy[v] = copy[w] => v = w
    /\ home' = [t \in Tasks |-> IF \E w \in Workers : copy[w] = t
                                THEN CHOOSE w \in Workers : copy[w] = t ELSE home[t]]
    /\ call' = [call EXCEPT ![x] = [NoCall EXCEPT !.pc = "wrap", !.todo = {copy[w] : w \in Workers}]]

(* ConcurrencyTracker::wrap counts the future on the caller's thread ... *)
Wrap(x, t) ==
    /\ call[x].pc = "wrap" /\ t \in call[x].todo /\ fate[t] = "asked"
    /\ \A u \in call[x].todo : home[t] <= home[u]
    /\ concurrency' = [concurrency EXCEPT ![home[t]] = @ + 1]
    /\ fate' = [fate EXCEPT ![t] = "counted"]
    /\ call' = [call EXCEPT ![x].pc = "submit"]
    /\ UNCHANGED <<started, terminated, joined, phase, current, home>>

(* Mutant: a runtime takes futures after its shutdown. *)
MutClosed(w) == FALSE

Closed(w) == phase[w] \in {"closing", "closed"}

(* Mutant: a future the runtime refuses stays counted. *)
MutRefusal(w) == 0

(* The ConcurrencyTracker of a future that is refused is dropped with it. *)
Refusal(w) == IF Closed(w) THEN 1 ELSE 0

(* The rest of a spawn, once t has been handed over. *)
Without(c, t) ==
    IF c.todo = {t} THEN NoCall ELSE [c EXCEPT !.pc = "wrap", !.todo = c.todo \ {t}]

(* ... and Handle::spawn gives it to the runtime, which drops it at once if it is shut down. *)
Submit(x, t) ==
    /\ call[x].pc = "submit" /\ t \in call[x].todo /\ fate[t] = "counted"
    /\ fate' = [fate EXCEPT ![t] = IF Closed(home[t]) THEN "dropped" ELSE "owned"]
    /\ concurrency' = [concurrency EXCEPT ![home[t]] = @ - Refusal(home[t])]
    /\ call' = [call EXCEPT ![x] = Without(call[x], t)]
    /\ UNCHANGED <<started, terminated, joined, phase, current, home>>

-----------------------------------------------------------------------------
(* Running. *)

(* A runtime is started once, as every example does.  The code does not enforce it: start     *)
(* borrows the runtime, so run_with_termination could follow, and the assert of worker.rs:61  *)
(* is per thread.  The threads of start would then keep each worker alive after the join.     *)
Start(how) ==
    /\ started = "no" /\ started' = how
    /\ UNCHANGED <<terminated, joined, phase, current, concurrency, fate, home, call>>

(* LevelWorker::run on its thread: LOCAL_RUNTIME is set, block_on drives the tasks. *)
WorkerRuns(w) ==
    /\ started # "no" /\ phase[w] = "built"
    /\ phase' = [phase EXCEPT ![w] = "running"]
    /\ UNCHANGED <<started, terminated, joined, current, concurrency, fate, home, call>>

Owned(w) == {t \in Tasks : fate[t] = "owned" /\ home[t] = w}

(* Mutant: an idle worker takes over the task of another, and counts it. *)
MutPoll(w, t) ==
    /\ phase[w] = "running" /\ current[w] = {} /\ fate[t] = "owned" /\ \A v \in Workers : t \notin current[v]
    /\ current' = [current EXCEPT ![w] = {t}]
    /\ home' = [home EXCEPT ![t] = w]
    /\ concurrency' = [v \in Workers |-> concurrency[v] + (IF v = w THEN 1 ELSE 0) - (IF v = home[t] THEN 1 ELSE 0)]
    /\ UNCHANGED <<started, terminated, joined, phase, fate, call>>

(* The worker's thread polls one of its tasks. *)
Poll(w, t) ==
    /\ phase[w] = "running" /\ current[w] = {} /\ t \in Owned(w)
    /\ current' = [current EXCEPT ![w] = {t}]
    /\ UNCHANGED <<started, terminated, joined, phase, concurrency, fate, home, call>>

Yield(w, t) ==
    /\ current[w] = {t} /\ call[t].pc = "idle"
    /\ current' = [current EXCEPT ![w] = {}]
    /\ UNCHANGED <<started, terminated, joined, phase, concurrency, fate, home, call>>

(* ConcurrencyTracker::drop. *)
Uncount(w, t, how) ==
    /\ concurrency' = [concurrency EXCEPT ![w] = @ - 1]
    /\ fate' = [fate EXCEPT ![t] = how]

(* The poll returns Ready or panics: tokio drops the future in both cases. *)
Complete(w, t) ==
    /\ current[w] = {t} /\ call[t].pc = "idle"
    /\ current' = [current EXCEPT ![w] = {}]
    /\ Uncount(w, t, "done")
    /\ UNCHANGED <<started, terminated, joined, phase, home, call>>

(* JoinHandle::abort: the worker drops the task instead of polling it. *)
Abort(w, t) ==
    /\ phase[w] = "running" /\ current[w] = {} /\ t \in Owned(w)
    /\ Uncount(w, t, "dropped")
    /\ UNCHANGED <<started, terminated, joined, phase, current, home, call>>

-----------------------------------------------------------------------------
(* Termination: block_on returns between two polls, and the runtime's drop drops its tasks. *)

Terminate ==
    /\ started = "run" /\ ~terminated /\ terminated' = TRUE
    /\ UNCHANGED <<started, joined, phase, current, concurrency, fate, home, call>>

(* Mutant: the executor waits for its tasks. *)
MutStopWorker(w) ==
    /\ terminated /\ phase[w] = "running" /\ Owned(w) = {}
    /\ phase' = [phase EXCEPT ![w] = "closing"]
    /\ UNCHANGED <<started, terminated, joined, current, concurrency, fate, home, call>>

StopWorker(w) ==
    /\ terminated /\ phase[w] = "running" /\ current[w] = {}
    /\ phase' = [phase EXCEPT ![w] = "closing"]
    /\ UNCHANGED <<started, terminated, joined, current, concurrency, fate, home, call>>

DropOwned(w, t) ==
    /\ phase[w] = "closing" /\ t \in Owned(w)
    /\ Uncount(w, t, "dropped")
    /\ UNCHANGED <<started, terminated, joined, phase, current, home, call>>

CloseWorker(w) ==
    /\ phase[w] = "closing" /\ Owned(w) = {}
    /\ phase' = [phase EXCEPT ![w] = "closed"]
    /\ UNCHANGED <<started, terminated, joined, current, concurrency, fate, home, call>>

Join ==
    /\ ~joined /\ \A w \in Workers : phase[w] = "closed"
    /\ joined' = TRUE
    /\ UNCHANGED <<started, terminated, phase, current, concurrency, fate, home, call>>

-----------------------------------------------------------------------------
LevelNext ==
    \/ \E x \in Callers :
        \/ /\ MayCall(x)
           /\ \/ \E t \in Tasks, a, b \in Workers : SpawnBalanced(x, t, a, b)
              \/ \E t \in Tasks, w \in Workers : SpawnLocal(x, t, w)
              \/ \E copy \in [Workers -> Tasks] : SpawnOnEach(x, copy)
        \/ BalanceSecond(x)
        \/ \E t \in Tasks : Wrap(x, t) \/ Submit(x, t)
    \/ \E how \in {"start", "run"} : Start(how)
    \/ \E w \in Workers :
        \/ WorkerRuns(w) \/ StopWorker(w) \/ CloseWorker(w)
        \/ \E t \in Tasks : Poll(w, t) \/ Yield(w, t) \/ Complete(w, t) \/ Abort(w, t) \/ DropOwned(w, t)
    \/ Terminate \/ Join

LevelSpec == LevelInit /\ [][LevelNext]_levelVars

-----------------------------------------------------------------------------
(* The tasks a worker counts, and those that are gone. *)
Counted(w) == {t \in Tasks : fate[t] \in {"counted", "owned"} /\ home[t] = w}

Left == {t \in Tasks : fate[t] \in {"done", "dropped"}}

Placed == INSTANCE Placement WITH Workers <- Workers, Tasks <- Tasks,
                                  placed <- [w \in Workers |-> Counted(w)], load <- concurrency, left <- Left

(* The runtime implements Placement: a task is counted on one worker from before its runtime   *)
(* has it until it is gone, it is never moved, and each count changes with it and never        *)
(* otherwise, whichever threads spawn, finish, abort and shut down at the same time            *)
(* (spawn_local, ConcurrencyTracker, balance_workers).                                         *)
PlacementSpec == Placed!Spec

(* LevelWorkerHandle::concurrency is documented as how many tasks are spawned on the worker:   *)
(* whatever path a future leaves by (finished, aborted, refused by a runtime that is shut      *)
(* down, dropped with it), and however these interleave, the count is exact.                   *)
CounterExact == \A w \in Workers : concurrency[w] = Cardinality(Counted(w))

(* When run_with_termination has returned no runtime holds a task any more: a spawn that raced *)
(* the shutdown was refused, it is not kept by a runtime that nobody drives.                    *)
JoinedIsEmpty == joined => \A t \in Tasks : fate[t] # "owned"
=============================================================================
