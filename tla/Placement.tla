----------------------------- MODULE Placement ------------------------------
(* What level-runtime promises about where tasks are: a task is placed on one worker, stays   *)
(* there until it leaves for good, and every load changes exactly by the tasks that come and  *)
(* go.  There is no work stealing, and no load is counted twice or kept.                      *)
EXTENDS Naturals

CONSTANTS Workers, Tasks

VARIABLES placed,       \* the tasks on each worker
          load,         \* the number each worker reports
          left          \* the tasks that are gone

Init ==
    /\ placed = [w \in Workers |-> {}]
    /\ load = [w \in Workers |-> 0]
    /\ left = {}

Place(w, t) ==
    /\ t \notin left /\ \A v \in Workers : t \notin placed[v]
    /\ placed' = [placed EXCEPT ![w] = @ \cup {t}]
    /\ load' = [load EXCEPT ![w] = @ + 1]
    /\ UNCHANGED left

Leave(w, t) ==
    /\ t \in placed[w]
    /\ placed' = [placed EXCEPT ![w] = @ \ {t}]
    /\ load' = [load EXCEPT ![w] = @ - 1]
    /\ left' = left \cup {t}

Next == \E w \in Workers, t \in Tasks : Place(w, t) \/ Leave(w, t)

Spec == Init /\ [][Next]_<<placed, load, left>>
=============================================================================
