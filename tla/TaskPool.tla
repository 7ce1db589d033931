------------------------------ MODULE TaskPool -------------------------------
(***************************************************************************)
(* What the TASKQ workload promises: in every run each task is held by at  *)
(* most one worker at a time, is done once, and the run is recorded when   *)
(* all the tasks are done.  TaskQueue implements it.                       *)
(***************************************************************************)
EXTENDS Naturals

CONSTANTS Worker, Task, None, NumRuns

VARIABLES
    held,   \* the task each worker holds, or None
    done,   \* the tasks done in this run
    open,   \* a run is going on
    runs    \* runs recorded

pool == <<held, done, open, runs>>

Init ==
    /\ held = [w \in Worker |-> None]
    /\ done = {} /\ open = FALSE /\ runs = 0

Begin ==
    /\ ~open /\ runs < NumRuns
    /\ open' = TRUE /\ done' = {}
    /\ UNCHANGED <<held, runs>>

Assign(w, t) ==
    /\ open /\ held[w] = None
    /\ t \notin done /\ \A v \in Worker : held[v] # t
    /\ held' = [held EXCEPT ![w] = t]
    /\ UNCHANGED <<done, open, runs>>

Complete(w) ==
    /\ open /\ held[w] # None
    /\ done' = done \cup {held[w]}
    /\ held' = [held EXCEPT ![w] = None]
    /\ UNCHANGED <<open, runs>>

Record ==
    /\ open /\ done = Task
    /\ open' = FALSE /\ runs' = runs + 1
    /\ UNCHANGED <<held, done>>

Next ==
    \/ Begin \/ Record
    \/ \E w \in Worker : Complete(w) \/ \E t \in Task : Assign(w, t)

Spec == Init /\ [][Next]_pool
=============================================================================
