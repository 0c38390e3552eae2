------------------------- MODULE LevelRuntimeProofs -------------------------
(***************************************************************************)
(* For any number of workers, tasks and spawning threads: the counts of a  *)
(* level runtime are exact, a runtime that has been joined holds no task,  *)
(* and the runtime implements Placement.                                   *)
(***************************************************************************)
EXTENDS LevelRuntime, FiniteSetTheorems, TLAPS

(* What a caller has still to spawn is its own, is no longer new, and is not yet counted      *)
(* while its worker is being chosen.                                                          *)
CallInv ==
    \A x \in Callers :
        /\ \A t \in call[x].todo : fate[t] # "new"
        /\ call[x].pc = "second" => \A t \in call[x].todo : fate[t] = "asked"
        /\ \A y \in Callers : x # y => call[x].todo \cap call[y].todo = {}

(* A worker polls only what it owns, only while it runs, and a closed one owns nothing.       *)
WorkerInv ==
    \A w \in Workers :
        /\ \A t \in current[w] : fate[t] = "owned" /\ home[t] = w
        /\ phase[w] # "running" => current[w] = {}
        /\ phase[w] = "closed" => \A t \in Tasks : ~(fate[t] = "owned" /\ home[t] = w)
        /\ joined => phase[w] = "closed"

LevelInv == LevelTypeOK /\ CallInv /\ WorkerInv /\ CounterExact

-----------------------------------------------------------------------------
(* The assumptions, without what only cardinalities need. *)
LEMMA Constants ==
    /\ 1 \in Workers
    /\ \A x \in Tasks : x \in Callers
    /\ \A w \in Workers : w \in Nat
<1>1. 1 \in Workers /\ \A w \in Workers : w \in Nat BY LevelAssumption DEF Workers
<1>2. \A x \in Tasks : x \in Callers BY DEF Callers
<1> QED BY <1>1, <1>2

(* A runtime before its start owns and counts nothing. *)
LEMMA InitInv == LevelInit => LevelInv
<1> SUFFICES ASSUME LevelInit PROVE LevelInv OBVIOUS
<1> USE DEF LevelInit
<1>1. NoCall \in Calls BY Constants DEF NoCall, Calls
<1>2. LevelTypeOK BY <1>1, Constants DEF LevelTypeOK
<1>3. CallInv BY DEF CallInv, NoCall
<1>4. WorkerInv BY DEF WorkerInv
<1>5. CounterExact
  <2>1. \A w \in Workers : Counted(w) = {} BY DEF Counted
  <2> QED BY <2>1, FS_EmptySet DEF CounterExact
<1> QED BY <1>2, <1>3, <1>4, <1>5 DEF LevelInv

-----------------------------------------------------------------------------
(* One lemma per action: the invariant is kept, and to Placement the step is one of three. *)
Stays ==
    /\ concurrency' = concurrency /\ Left' = Left
    /\ \A w \in Workers : Counted(w)' = Counted(w)

Arrives(w, t) ==
    /\ t \notin Left /\ \A v \in Workers : t \notin Counted(v)
    /\ concurrency' = [concurrency EXCEPT ![w] = @ + 1] /\ Left' = Left
    /\ Counted(w)' = Counted(w) \cup {t}
    /\ \A v \in Workers \ {w} : Counted(v)' = Counted(v)

Leaves(w, t) ==
    /\ t \in Counted(w)
    /\ concurrency' = [concurrency EXCEPT ![w] = @ - 1] /\ Left' = Left \cup {t}
    /\ Counted(w)' = Counted(w) \ {t}
    /\ \A v \in Workers \ {w} : Counted(v)' = Counted(v)

(* Whichever of the three it is, the counts stay counts, and exact. *)
LEMMA CountsKept ==
    ASSUME LevelInv,
           Stays \/ \E w \in Workers, t \in Tasks : Arrives(w, t) \/ Leaves(w, t)
    PROVE  concurrency' \in [Workers -> Nat] /\ CounterExact'
<1>1. concurrency \in [Workers -> Nat] BY DEF LevelInv, LevelTypeOK
<1>2. \A v \in Workers : IsFiniteSet(Counted(v))
  <2>1. \A v \in Workers : Counted(v) \subseteq Tasks BY DEF Counted
  <2> QED BY <2>1, LevelAssumption, FS_Subset
<1>3. \A v \in Workers : concurrency[v] = Cardinality(Counted(v)) BY DEF LevelInv, CounterExact
<1>4. CASE Stays
  <2>1. concurrency' = concurrency /\ \A v \in Workers : Counted(v)' = Counted(v) BY <1>4 DEF Stays
  <2>2. CounterExact' BY <1>3, <2>1 DEF CounterExact
  <2> QED BY <1>1, <2>1, <2>2
<1>5. ASSUME NEW w \in Workers, NEW t \in Tasks, Arrives(w, t)
      PROVE  concurrency' \in [Workers -> Nat] /\ CounterExact'
  <2>1. concurrency' = [concurrency EXCEPT ![w] = @ + 1] BY <1>5 DEF Arrives
  <2>2. t \notin Counted(w) /\ Counted(w)' = Counted(w) \cup {t} BY <1>5 DEF Arrives
  <2>3. \A v \in Workers \ {w} : Counted(v)' = Counted(v) BY <1>5 DEF Arrives
  <2>4. Cardinality(Counted(w)') = Cardinality(Counted(w)) + 1 BY <1>2, <2>2, FS_AddElement
  <2>5. \A v \in Workers : concurrency'[v] = Cardinality(Counted(v)') BY <1>1, <1>3, <2>1, <2>3, <2>4
  <2> QED BY <1>1, <2>1, <2>5 DEF CounterExact
<1>6. ASSUME NEW w \in Workers, NEW t \in Tasks, Leaves(w, t)
      PROVE  concurrency' \in [Workers -> Nat] /\ CounterExact'
  <2>1. concurrency' = [concurrency EXCEPT ![w] = @ - 1] BY <1>6 DEF Leaves
  <2>2. t \in Counted(w) /\ Counted(w)' = Counted(w) \ {t} BY <1>6 DEF Leaves
  <2>3. \A v \in Workers \ {w} : Counted(v)' = Counted(v) BY <1>6 DEF Leaves
  <2>4. Cardinality(Counted(w)') = Cardinality(Counted(w)) - 1 BY <1>2, <2>2, FS_RemoveElement
  <2>5. Cardinality(Counted(w)') \in Nat BY <1>2, <2>2, FS_RemoveElement, FS_CardinalityType
  <2>6. \A v \in Workers : concurrency'[v] = Cardinality(Counted(v)') BY <1>1, <1>3, <2>1, <2>3, <2>4
  <2>7. concurrency[w] - 1 \in Nat BY <1>3, <2>4, <2>5
  <2> QED BY <1>1, <2>1, <2>6, <2>7 DEF CounterExact
<1> QED BY <1>4, <1>5, <1>6

(* The parts of the type of a state. *)
LEMMA CallTyped ==
    ASSUME LevelTypeOK, NEW x \in Callers
    PROVE  /\ call[x] \in Calls /\ call[x].todo \subseteq Tasks
           /\ call[x].a \in Workers /\ call[x].b \in Workers /\ call[x].seen \in Nat
BY DEF LevelTypeOK, Calls

(* A caller that begins a spawn of the new tasks ts. *)
LEMMA AskKeeps ==
    ASSUME LevelInv, NEW x \in Callers, NEW ts \in SUBSET Tasks, NEW c \in Calls,
           Ask(x, ts), c.todo = ts, call' = [call EXCEPT ![x] = c],
           home' \in [Tasks -> Workers], \A t \in Tasks \ ts : home'[t] = home[t]
    PROVE  LevelInv' /\ Stays
<1> USE DEF LevelInv
<1>1. LevelTypeOK' BY DEF LevelTypeOK, Ask
<1>2. fate \in [Tasks -> {"new", "asked", "counted", "owned", "done", "dropped"}]
  BY DEF LevelTypeOK
<1>3. fate' = [t \in Tasks |-> IF t \in ts THEN "asked" ELSE fate[t]] /\ \A t \in ts : fate[t] = "new"
  BY DEF Ask
<1>4. call \in [Callers -> Calls] /\ \A y \in Callers : call[y].todo \subseteq Tasks
  BY CallTyped DEF LevelTypeOK
<1>5. \A y \in Callers : call'[y] = IF y = x THEN c ELSE call[y] BY <1>4
<1>6. CallInv'
  <2> SUFFICES ASSUME NEW y \in Callers
               PROVE  /\ \A t \in call'[y].todo : fate'[t] # "new"
                      /\ call'[y].pc = "second" => \A t \in call'[y].todo : fate'[t] = "asked"
                      /\ \A z \in Callers : y # z => call'[y].todo \cap call'[z].todo = {}
    BY DEF CallInv
  <2>1. \A z \in Callers : call[z].todo \cap ts = {} BY <1>3 DEF CallInv
  <2>2. \A z \in Callers : y # z => call'[y].todo \cap call'[z].todo = {}
    BY <1>5, <2>1 DEF CallInv
  <2>3. \A t \in call'[y].todo : fate'[t] # "new" BY <1>3, <1>4, <1>5 DEF CallInv
  <2>4. call'[y].pc = "second" => \A t \in call'[y].todo : fate'[t] = "asked"
    BY <1>3, <1>4, <1>5, <2>1 DEF CallInv
  <2> QED BY <2>2, <2>3, <2>4
<1>7. current \in [Workers -> SUBSET Tasks] BY DEF LevelTypeOK
<1>8. WorkerInv' BY <1>3, <1>7 DEF WorkerInv, Ask
<1>9. Stays BY <1>3 DEF Stays, Counted, Left, Ask
<1>10. CounterExact' BY <1>9, CountsKept
<1> QED BY <1>1, <1>6, <1>8, <1>9, <1>10

(* The three ways to begin a spawn place nothing yet. *)
LEMMA SpawnKeeps ==
    ASSUME LevelInv, NEW x \in Callers,
           \/ \E t \in Tasks, a, b \in Workers : SpawnBalanced(x, t, a, b)
           \/ \E t \in Tasks, w \in Workers : SpawnLocal(x, t, w)
           \/ \E copy \in [Workers -> Tasks] : SpawnOnEach(x, copy)
    PROVE  LevelInv' /\ Stays
<1>1. home \in [Tasks -> Workers] /\ concurrency \in [Workers -> Nat] BY DEF LevelInv, LevelTypeOK
<1>2. ASSUME NEW t \in Tasks, NEW a \in Workers, NEW b \in Workers, SpawnBalanced(x, t, a, b)
      PROVE  LevelInv' /\ Stays
  <2> DEFINE c == [pc |-> "second", todo |-> {t}, a |-> a, b |-> b, seen |-> concurrency[a]]
  <2>1. c \in Calls /\ c.todo = {t} BY <1>1 DEF Calls
  <2>2. call' = [call EXCEPT ![x] = c] /\ Ask(x, {t}) /\ home' = home BY <1>2 DEF SpawnBalanced
  <2> QED BY <1>1, <2>1, <2>2, AskKeeps
<1>3. ASSUME NEW t \in Tasks, NEW w \in Workers, SpawnLocal(x, t, w)
      PROVE  LevelInv' /\ Stays
  <2> DEFINE c == [NoCall EXCEPT !.pc = "wrap", !.todo = {t}]
  <2>1. c \in Calls /\ c.todo = {t} BY Constants DEF Calls, NoCall
  <2>2. call' = [call EXCEPT ![x] = c] /\ Ask(x, {t}) /\ home' = [home EXCEPT ![t] = w]
    BY <1>3 DEF SpawnLocal
  <2> QED BY <1>1, <2>1, <2>2, AskKeeps
<1>4. ASSUME NEW copy \in [Workers -> Tasks], SpawnOnEach(x, copy)
      PROVE  LevelInv' /\ Stays
  <2> DEFINE ts == {copy[w] : w \in Workers}
             c == [NoCall EXCEPT !.pc = "wrap", !.todo = ts]
  <2>1. ts \in SUBSET Tasks OBVIOUS
  <2>2. c \in Calls /\ c.todo = ts
    <3> HIDE DEF ts
    <3> QED BY <2>1, Constants DEF Calls, NoCall
  <2>3. call' = [call EXCEPT ![x] = c] /\ Ask(x, ts) BY <1>4 DEF SpawnOnEach
  <2>4. home' = [t \in Tasks |-> IF \E w \in Workers : copy[w] = t
                                 THEN CHOOSE w \in Workers : copy[w] = t ELSE home[t]]
    BY <1>4 DEF SpawnOnEach
  <2>5. home' \in [Tasks -> Workers] BY <1>1, <2>4
  <2>6. \A t \in Tasks \ ts : home'[t] = home[t] BY <2>4
  <2> QED
    <3> HIDE DEF ts, c
    <3> QED BY <2>1, <2>2, <2>3, <2>5, <2>6, AskKeeps
<1> QED BY <1>2, <1>3, <1>4

(* The second load of a balanced spawn places nothing yet. *)
LEMMA BalanceKeeps ==
    ASSUME LevelInv, NEW x \in Callers, BalanceSecond(x)
    PROVE  LevelInv' /\ Stays
<1> USE DEF LevelInv
<1>1. call[x] \in Calls /\ call[x].todo \subseteq Tasks /\ Lighter(call[x]) \in Workers
  BY CallTyped DEF Lighter
<1>2. home \in [Tasks -> Workers] /\ call \in [Callers -> Calls] /\ current \in [Workers -> SUBSET Tasks]
  BY DEF LevelTypeOK
<1>3. home' = [t \in Tasks |-> IF t \in call[x].todo THEN Lighter(call[x]) ELSE home[t]]
  BY DEF BalanceSecond
<1>4. home' \in [Tasks -> Workers] BY <1>1, <1>2, <1>3
<1>5. \A t \in call[x].todo : fate[t] = "asked" BY DEF CallInv, BalanceSecond
<1>6. call' \in [Callers -> Calls] BY <1>1, <1>2 DEF BalanceSecond, Calls
<1>7. \A y \in Callers : call'[y].todo = call[y].todo /\ (call'[y].pc = "second" => call[y].pc = "second")
  BY <1>2 DEF BalanceSecond, Calls
<1>8. LevelTypeOK' BY <1>4, <1>6 DEF LevelTypeOK, BalanceSecond
<1>9. CallInv' BY <1>7 DEF CallInv, BalanceSecond
<1>10. \A t \in Tasks : fate[t] # "asked" => home'[t] = home[t] BY <1>3, <1>5
<1>11. WorkerInv' BY <1>2, <1>10 DEF WorkerInv, BalanceSecond
<1>12. Stays BY <1>10 DEF Stays, Counted, Left, BalanceSecond
<1>13. CounterExact' BY <1>12, CountsKept
<1> QED BY <1>8, <1>9, <1>11, <1>12, <1>13

(* Wrapping a future counts it on its worker. *)
LEMMA WrapKeeps ==
    ASSUME LevelInv, NEW x \in Callers, NEW t \in Tasks, Wrap(x, t)
    PROVE  LevelInv' /\ Arrives(home[t], t)
<1> USE DEF LevelInv
<1>1. call[x] \in Calls /\ call \in [Callers -> Calls] /\ home[t] \in Workers
  BY CallTyped DEF LevelTypeOK
<1>2. fate \in [Tasks -> {"new", "asked", "counted", "owned", "done", "dropped"}]
  BY DEF LevelTypeOK
<1>3. fate' = [fate EXCEPT ![t] = "counted"] /\ fate[t] = "asked" BY DEF Wrap
<1>4. call' \in [Callers -> Calls] BY <1>1 DEF Wrap, Calls
<1>5. LevelTypeOK' BY <1>1, <1>4 DEF LevelTypeOK, Wrap
<1>6. /\ \A y \in Callers : call'[y].todo = call[y].todo
      /\ \A y \in Callers : call'[y].pc = "second" => call[y].pc = "second" /\ y # x
  BY <1>1 DEF Wrap, Calls
<1>7. t \in call[x].todo /\ \A y \in Callers : y # x => t \notin call[y].todo
  BY DEF CallInv, Wrap
<1>8. \A u \in Tasks : fate'[u] = IF u = t THEN "counted" ELSE fate[u] BY <1>2, <1>3
<1>9. CallInv'
  <2>1. \A y \in Callers : call[y].todo \subseteq Tasks BY CallTyped
  <2>2. \A y \in Callers : \A u \in call'[y].todo : fate'[u] # "new" BY <1>6, <1>8, <2>1 DEF CallInv
  <2>3. \A y \in Callers : call'[y].pc = "second" => \A u \in call'[y].todo : fate'[u] = "asked"
    BY <1>6, <1>7, <1>8, <2>1 DEF CallInv
  <2>4. \A y \in Callers : \A z \in Callers : y # z => call'[y].todo \cap call'[z].todo = {}
    BY <1>6 DEF CallInv
  <2> QED BY <2>2, <2>3, <2>4 DEF CallInv
<1>10. current \in [Workers -> SUBSET Tasks] BY DEF LevelTypeOK
<1>11. WorkerInv' BY <1>3, <1>8, <1>10 DEF WorkerInv, Wrap
<1>12. Arrives(home[t], t) BY <1>1, <1>3, <1>8 DEF Arrives, Counted, Left, Wrap
<1>13. CounterExact' BY <1>1, <1>12, CountsKept
<1> QED BY <1>5, <1>9, <1>11, <1>12, <1>13

(* A task that was counted on w leaves it, and no caller or poll is concerned. *)
LEMMA LeavesCount ==
    ASSUME LevelInv, NEW w \in Workers, NEW t \in Tasks, NEW how \in {"done", "dropped"},
           fate[t] \in {"counted", "owned"}, home[t] = w, home' = home,
           fate' = [fate EXCEPT ![t] = how], concurrency' = [concurrency EXCEPT ![w] = @ - 1]
    PROVE  Leaves(w, t)
<1>1. fate \in [Tasks -> {"new", "asked", "counted", "owned", "done", "dropped"}]
  BY DEF LevelInv, LevelTypeOK
<1>2. \A u \in Tasks : fate'[u] = IF u = t THEN how ELSE fate[u] BY <1>1
<1> QED BY <1>1, <1>2 DEF Leaves, Counted, Left

(* The bookkeeping of a caller after Handle::spawn of t. *)
LEMMA SubmitCall ==
    ASSUME LevelInv, NEW x \in Callers, NEW t \in Tasks, Submit(x, t)
    PROVE  /\ call' \in [Callers -> Calls]
           /\ \A y \in Callers : call'[y].todo \subseteq call[y].todo
           /\ \A y \in Callers : call'[y].pc = "second" => call[y].pc = "second" /\ y # x
<1>1. call \in [Callers -> Calls] /\ call[x] \in Calls BY CallTyped DEF LevelInv, LevelTypeOK
<1>2. call' = [call EXCEPT ![x] = Without(call[x], t)] BY DEF Submit
<1>3. Without(call[x], t) \in Calls /\ Without(call[x], t).todo \subseteq call[x].todo
  BY <1>1, Constants DEF Without, NoCall, Calls
<1>4. Without(call[x], t).pc # "second" BY <1>1 DEF Without, NoCall, Calls
<1>5. \A y \in Callers : call'[y] = IF y = x THEN Without(call[x], t) ELSE call[y] BY <1>1, <1>2
<1>6. call' \in [Callers -> Calls] BY <1>1, <1>2, <1>3
<1> QED BY <1>3, <1>4, <1>5, <1>6

(* A runtime takes the counted future, or drops it and the count with it. *)
LEMMA SubmitKeeps ==
    ASSUME LevelInv, NEW x \in Callers, NEW t \in Tasks, Submit(x, t)
    PROVE  LevelInv' /\ (Stays \/ Leaves(home[t], t))
<1> USE DEF LevelInv
<1>1. home[t] \in Workers /\ concurrency \in [Workers -> Nat] /\ current \in [Workers -> SUBSET Tasks]
  BY DEF LevelTypeOK
<1>2. fate \in [Tasks -> {"new", "asked", "counted", "owned", "done", "dropped"}]
  BY DEF LevelTypeOK
<1>3. PICK how \in {"dropped", "owned"} :
         how = (IF Closed(home[t]) THEN "dropped" ELSE "owned") OBVIOUS
<1>4. fate' = [fate EXCEPT ![t] = how] /\ fate[t] = "counted" /\ home' = home
  BY <1>3 DEF Submit
<1>5. \A u \in Tasks : fate'[u] = IF u = t THEN how ELSE fate[u] BY <1>2, <1>4
<1>6. Stays \/ Leaves(home[t], t)
  <2>1. CASE Closed(home[t])
    <3>1. concurrency' = [concurrency EXCEPT ![home[t]] = @ - 1] BY <2>1 DEF Submit, Refusal
    <3> QED BY <1>1, <1>3, <1>4, <2>1, <3>1, LeavesCount
  <2>2. CASE ~Closed(home[t])
    <3>1. concurrency' = concurrency BY <1>1, <2>2 DEF Submit, Refusal
    <3> QED BY <1>3, <1>4, <1>5, <2>2, <3>1 DEF Stays, Counted, Left
  <2> QED BY <2>1, <2>2
<1>7. concurrency' \in [Workers -> Nat] /\ CounterExact' BY <1>1, <1>6, CountsKept
<1>8. LevelTypeOK'
  <2>1. call' \in [Callers -> Calls] BY SubmitCall
  <2>2. fate' \in [Tasks -> {"new", "asked", "counted", "owned", "done", "dropped"}] BY <1>2, <1>3, <1>4
  <2>3. UNCHANGED <<started, terminated, joined, phase, current, home>> BY DEF Submit
  <2> QED BY <1>7, <2>1, <2>2, <2>3 DEF LevelTypeOK
<1>9. CallInv'
  <2>1. \A y \in Callers : call[y].todo \subseteq Tasks BY CallTyped
  <2>2. \A y \in Callers : \A u \in call'[y].todo : fate'[u] # "new"
    BY <1>5, <2>1, SubmitCall DEF CallInv
  <2>3. t \in call[x].todo /\ \A y \in Callers : y # x => t \notin call[y].todo
    BY DEF CallInv, Submit
  <2>4. \A y \in Callers : call'[y].pc = "second" => \A u \in call'[y].todo : fate'[u] = "asked"
    BY <1>5, <2>1, <2>3, SubmitCall DEF CallInv
  <2>5. \A y \in Callers : \A z \in Callers : y # z => call'[y].todo \cap call'[z].todo = {}
    BY SubmitCall DEF CallInv
  <2> QED BY <2>2, <2>4, <2>5 DEF CallInv
<1>10. WorkerInv' BY <1>1, <1>3, <1>4, <1>5 DEF WorkerInv, Submit, Closed
<1> QED BY <1>6, <1>7, <1>8, <1>9, <1>10

(* ConcurrencyTracker::drop of a task that its worker owns. *)
LEMMA UncountKeeps ==
    ASSUME LevelInv, NEW w \in Workers, NEW t \in Tasks, NEW how \in {"done", "dropped"},
           Uncount(w, t, how), fate[t] = "owned", home[t] = w,
           current' \in [Workers -> SUBSET Tasks],
           current'[w] = {}, \A v \in Workers \ {w} : current'[v] = current[v],
           UNCHANGED <<started, terminated, joined, phase, home, call>>
    PROVE  LevelInv' /\ Leaves(w, t)
<1> USE DEF LevelInv
<1>1. fate' = [fate EXCEPT ![t] = how] /\ concurrency' = [concurrency EXCEPT ![w] = @ - 1] BY DEF Uncount
<1>2. fate \in [Tasks -> {"new", "asked", "counted", "owned", "done", "dropped"}]
      /\ current \in [Workers -> SUBSET Tasks]
  BY DEF LevelTypeOK
<1>3. \A u \in Tasks : fate'[u] = IF u = t THEN how ELSE fate[u] BY <1>1, <1>2
<1>4. Leaves(w, t) BY <1>1, LeavesCount
<1>5. concurrency' \in [Workers -> Nat] /\ CounterExact' BY <1>4, CountsKept
<1>6. LevelTypeOK' BY <1>1, <1>2, <1>5 DEF LevelTypeOK
<1>7. CallInv'
  <2>1. \A y \in Callers : call[y].todo \subseteq Tasks BY CallTyped
  <2> QED BY <1>3, <2>1 DEF CallInv
<1>8. WorkerInv' BY <1>2, <1>3 DEF WorkerInv
<1> QED BY <1>4, <1>5, <1>6, <1>7, <1>8

(* The steps of a worker's thread that end a task. *)
LEMMA LeaveKeeps ==
    ASSUME LevelInv, NEW w \in Workers, NEW t \in Tasks,
           Complete(w, t) \/ Abort(w, t) \/ DropOwned(w, t)
    PROVE  LevelInv' /\ Leaves(w, t)
<1> USE DEF LevelInv
<1>1. current \in [Workers -> SUBSET Tasks] BY DEF LevelTypeOK
<1>2. CASE Complete(w, t)
  <2>1. fate[t] = "owned" /\ home[t] = w BY <1>2 DEF WorkerInv, Complete
  <2>2. /\ Uncount(w, t, "done") /\ current' = [current EXCEPT ![w] = {}]
        /\ UNCHANGED <<started, terminated, joined, phase, home, call>>
    BY <1>2 DEF Complete
  <2>3. /\ current' \in [Workers -> SUBSET Tasks] /\ current'[w] = {}
        /\ \A v \in Workers \ {w} : current'[v] = current[v]
    BY <1>1, <2>2
  <2> QED BY <2>1, <2>2, <2>3, UncountKeeps
<1>3. CASE Abort(w, t)
  BY <1>1, <1>3, UncountKeeps DEF Abort, Owned
<1>4. CASE DropOwned(w, t)
  BY <1>1, <1>4, UncountKeeps DEF DropOwned, Owned, WorkerInv
<1> QED BY <1>2, <1>3, <1>4

(* The steps that neither count nor uncount. *)
LEMMA ThreadKeeps ==
    ASSUME LevelInv,
           \/ \E how \in {"start", "run"} : Start(how)
           \/ \E w \in Workers : WorkerRuns(w) \/ StopWorker(w) \/ CloseWorker(w)
           \/ \E w \in Workers, t \in Tasks : Poll(w, t) \/ Yield(w, t)
           \/ Terminate \/ Join
           \/ UNCHANGED levelVars
    PROVE  LevelInv' /\ Stays
<1> USE DEF LevelInv
<1>1. UNCHANGED <<concurrency, fate, home, call>>
  BY DEF Start, WorkerRuns, StopWorker, CloseWorker, Poll, Yield, Terminate, Join, levelVars
<1>2. Stays BY <1>1 DEF Stays, Counted, Left
<1>3. CounterExact' BY <1>2, CountsKept
<1>4. CallInv' BY <1>1 DEF CallInv
<1>5. /\ current \in [Workers -> SUBSET Tasks]
      /\ phase \in [Workers -> {"built", "running", "closing", "closed"}]
  BY DEF LevelTypeOK
<1>6. LevelTypeOK' /\ WorkerInv'
  <2>1. ASSUME NEW how \in {"start", "run"}, Start(how) PROVE LevelTypeOK' /\ WorkerInv'
    BY <2>1 DEF LevelTypeOK, WorkerInv, Start
  <2>2. ASSUME NEW w \in Workers, WorkerRuns(w) PROVE LevelTypeOK' /\ WorkerInv'
    <3>1. phase' = [phase EXCEPT ![w] = "running"] /\ UNCHANGED <<started, terminated, joined, current>>
          /\ phase[w] = "built"
      BY <2>2 DEF WorkerRuns
    <3>2. LevelTypeOK' BY <1>1, <1>5, <3>1 DEF LevelTypeOK
    <3>3. WorkerInv' BY <1>1, <1>5, <3>1 DEF WorkerInv
    <3> QED BY <3>2, <3>3
  <2>3. ASSUME NEW w \in Workers, StopWorker(w) PROVE LevelTypeOK' /\ WorkerInv'
    <3>1. phase' = [phase EXCEPT ![w] = "closing"] /\ UNCHANGED <<started, terminated, joined, current>>
          /\ phase[w] = "running" /\ current[w] = {}
      BY <2>3 DEF StopWorker
    <3>2. LevelTypeOK' BY <1>1, <1>5, <3>1 DEF LevelTypeOK
    <3>3. WorkerInv' BY <1>1, <1>5, <3>1 DEF WorkerInv
    <3> QED BY <3>2, <3>3
  <2>4. ASSUME NEW w \in Workers, CloseWorker(w) PROVE LevelTypeOK' /\ WorkerInv'
    <3>1. phase' = [phase EXCEPT ![w] = "closed"] /\ UNCHANGED <<started, terminated, joined, current>>
          /\ phase[w] = "closing" /\ \A t \in Tasks : ~(fate[t] = "owned" /\ home[t] = w)
      BY <2>4 DEF CloseWorker, Owned
    <3>2. LevelTypeOK' BY <1>1, <1>5, <3>1 DEF LevelTypeOK
    <3>3. WorkerInv' BY <1>1, <1>5, <3>1 DEF WorkerInv
    <3> QED BY <3>2, <3>3
  <2>5. ASSUME NEW w \in Workers, NEW t \in Tasks, Poll(w, t) PROVE LevelTypeOK' /\ WorkerInv'
    <3>1. current' = [current EXCEPT ![w] = {t}] /\ UNCHANGED <<started, terminated, joined, phase>>
          /\ phase[w] = "running" /\ fate[t] = "owned" /\ home[t] = w
      BY <2>5 DEF Poll, Owned
    <3>2. LevelTypeOK' BY <1>1, <1>5, <3>1 DEF LevelTypeOK
    <3>3. WorkerInv' BY <1>1, <1>5, <3>1 DEF WorkerInv
    <3> QED BY <3>2, <3>3
  <2>6. ASSUME NEW w \in Workers, NEW t \in Tasks, Yield(w, t) PROVE LevelTypeOK' /\ WorkerInv'
    <3>1. current' = [current EXCEPT ![w] = {}] /\ UNCHANGED <<started, terminated, joined, phase>>
      BY <2>6 DEF Yield
    <3>2. LevelTypeOK' BY <1>1, <1>5, <3>1 DEF LevelTypeOK
    <3>3. WorkerInv' BY <1>1, <1>5, <3>1 DEF WorkerInv
    <3> QED BY <3>2, <3>3
  <2>7. CASE Terminate BY <2>7 DEF LevelTypeOK, WorkerInv, Terminate
  <2>8. CASE Join BY <2>8 DEF LevelTypeOK, WorkerInv, Join
  <2>9. CASE UNCHANGED levelVars BY <2>9 DEF LevelTypeOK, WorkerInv, levelVars
  <2> QED BY <2>1, <2>2, <2>3, <2>4, <2>5, <2>6, <2>7, <2>8, <2>9
<1> QED BY <1>2, <1>3, <1>4, <1>6

-----------------------------------------------------------------------------
(* Every step keeps the invariant and, to Placement, is one of three. *)
LEMMA StepKeeps ==
    ASSUME LevelInv, [LevelNext]_levelVars
    PROVE  /\ LevelInv'
           /\ Stays \/ \E w \in Workers, t \in Tasks : Arrives(w, t) \/ Leaves(w, t)
<1> DEFINE Goal == /\ LevelInv'
                   /\ Stays \/ \E w \in Workers, t \in Tasks : Arrives(w, t) \/ Leaves(w, t)
<1>1. home \in [Tasks -> Workers] BY DEF LevelInv, LevelTypeOK
<1>2. ASSUME NEW x \in Callers,
             \/ \E t \in Tasks, a, b \in Workers : SpawnBalanced(x, t, a, b)
             \/ \E t \in Tasks, w \in Workers : SpawnLocal(x, t, w)
             \/ \E copy \in [Workers -> Tasks] : SpawnOnEach(x, copy)
      PROVE  Goal
  BY <1>2, SpawnKeeps
<1>3. ASSUME NEW x \in Callers, BalanceSecond(x) PROVE Goal BY <1>3, BalanceKeeps
<1>4. ASSUME NEW x \in Callers, NEW t \in Tasks, Wrap(x, t) PROVE Goal BY <1>1, <1>4, WrapKeeps
<1>5. ASSUME NEW x \in Callers, NEW t \in Tasks, Submit(x, t) PROVE Goal BY <1>1, <1>5, SubmitKeeps
<1>6. ASSUME NEW w \in Workers, NEW t \in Tasks, Complete(w, t) \/ Abort(w, t) \/ DropOwned(w, t)
      PROVE  Goal
  BY <1>6, LeaveKeeps
<1>7. ASSUME \/ \E how \in {"start", "run"} : Start(how)
             \/ \E w \in Workers : WorkerRuns(w) \/ StopWorker(w) \/ CloseWorker(w)
             \/ \E w \in Workers, t \in Tasks : Poll(w, t) \/ Yield(w, t)
             \/ Terminate \/ Join
             \/ UNCHANGED levelVars
      PROVE  Goal
  BY <1>7, ThreadKeeps
<1> HIDE DEF Goal
<1> QED
  <2> SUFFICES Goal BY DEF Goal
  <2> QED BY <1>2, <1>3, <1>4, <1>5, <1>6, <1>7 DEF LevelNext

(* The type invariant of a level runtime, for any number of workers, tasks and threads: in     *)
(* particular no ConcurrencyTracker takes a count below zero.                                  *)
THEOREM LevelTypeCorrect == LevelSpec => []LevelTypeOK
<1>1. LevelInit => LevelInv BY InitInv
<1>2. LevelInv /\ [LevelNext]_levelVars => LevelInv' BY StepKeeps
<1>3. LevelInv => LevelTypeOK BY DEF LevelInv
<1> QED BY <1>1, <1>2, <1>3, PTL DEF LevelSpec

(* LevelWorkerHandle::concurrency is exact: whatever path a future leaves by, and whichever    *)
(* threads spawn, abort and shut down in between, a worker counts just the tasks it was given. *)
THEOREM CountsAreExact == LevelSpec => []CounterExact
<1>1. LevelInit => LevelInv BY InitInv
<1>2. LevelInv /\ [LevelNext]_levelVars => LevelInv' BY StepKeeps
<1>3. LevelInv => CounterExact BY DEF LevelInv
<1> QED BY <1>1, <1>2, <1>3, PTL DEF LevelSpec

(* After run_with_termination no runtime keeps a task, even one whose spawn raced the shutdown. *)
THEOREM JoinedHoldsNothing == LevelSpec => []JoinedIsEmpty
<1>1. LevelInit => LevelInv BY InitInv
<1>2. LevelInv /\ [LevelNext]_levelVars => LevelInv' BY StepKeeps
<1>3. LevelInv => JoinedIsEmpty BY DEF LevelInv, LevelTypeOK, WorkerInv, JoinedIsEmpty
<1> QED BY <1>1, <1>2, <1>3, PTL DEF LevelSpec

-----------------------------------------------------------------------------
(* The three kinds of steps, as steps of Placement. *)
LEMMA StepPlaces ==
    ASSUME LevelInv,
           Stays \/ \E w \in Workers, t \in Tasks : Arrives(w, t) \/ Leaves(w, t)
    PROVE  [Placed!Next]_<<[w \in Workers |-> Counted(w)], concurrency, Left>>
<1> DEFINE placed == [w \in Workers |-> Counted(w)]
<1>1. CASE Stays BY <1>1 DEF Stays
<1>2. ASSUME NEW w \in Workers, NEW t \in Tasks, Arrives(w, t) PROVE Placed!Place(w, t)
  <2>1. placed' = [placed EXCEPT ![w] = @ \cup {t}] BY <1>2 DEF Arrives
  <2> QED BY <1>2, <2>1 DEF Arrives, Placed!Place
<1>3. ASSUME NEW w \in Workers, NEW t \in Tasks, Leaves(w, t) PROVE Placed!Leave(w, t)
  <2>1. placed' = [placed EXCEPT ![w] = @ \ {t}] BY <1>3 DEF Leaves
  <2> QED BY <1>3, <2>1 DEF Leaves, Placed!Leave
<1> QED BY <1>1, <1>2, <1>3 DEF Placed!Next

(* A level runtime implements Placement: a task is on one worker from its count to its end, is *)
(* never moved, and each load changes exactly by the tasks that come and go.                   *)
THEOREM ImplementsPlacement == LevelSpec => PlacementSpec
<1>1. LevelInit => LevelInv BY InitInv
<1>2. LevelInv /\ [LevelNext]_levelVars => LevelInv' BY StepKeeps
<1>3. LevelInit => Placed!Init
  BY DEF LevelInit, Placed!Init, Counted, Left
<1>4. LevelInv /\ [LevelNext]_levelVars
      => [Placed!Next]_<<[w \in Workers |-> Counted(w)], concurrency, Left>>
  BY StepKeeps, StepPlaces
<1> QED BY <1>1, <1>2, <1>3, <1>4, PTL DEF LevelSpec, PlacementSpec, Placed!Spec
=============================================================================
