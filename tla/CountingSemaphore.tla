------------------------- MODULE CountingSemaphore --------------------------
(***************************************************************************)
(* What systems/marvin/semaphore.h promises: a set of counting semaphores, *)
(* each one a number of available resources and a set of tasks that wait   *)
(* for one.  Every operation is atomic.  A release hands the resource over *)
(* to a task that waits, if there is one; nothing is promised about which. *)
(***************************************************************************)
EXTENDS Integers

CONSTANTS Sem, Task

VARIABLES exists,     \* the semaphores that have been created
          available,  \* the resources left of each semaphore
          waiting     \* the tasks that wait for each semaphore

vars == <<exists, available, waiting>>

TypeOK ==
    /\ exists \in SUBSET Sem
    /\ available \in [Sem -> Nat]
    /\ waiting \in [Sem -> SUBSET Task]

Init ==
    /\ exists \in SUBSET Sem
    /\ available \in [Sem -> Nat]
    /\ waiting = [s \in Sem |-> {}]

\* mv_semaphore_create gives the semaphore any number of resources.
Create(s) ==
    /\ s \notin exists
    /\ exists' = exists \cup {s}
    /\ available'[s] \in Nat
    /\ available' = [available EXCEPT ![s] = available'[s]]
    /\ UNCHANGED waiting

\* mv_semaphore_destroy, when nobody waits.
Destroy(s) ==
    /\ s \in exists
    /\ waiting[s] = {}
    /\ exists' = exists \ {s}
    /\ available' = [available EXCEPT ![s] = 0]
    /\ UNCHANGED waiting

\* mv_semaphore_dec or mv_semaphore_try_dec takes a resource,
Acquire(s) ==
    /\ s \in exists
    /\ available[s] > 0
    /\ available' = [available EXCEPT ![s] = @ - 1]
    /\ UNCHANGED <<exists, waiting>>

\* or mv_semaphore_dec waits for one.
Wait(s, t) ==
    /\ s \in exists
    /\ available[s] = 0
    /\ \A r \in Sem : t \notin waiting[r]
    /\ waiting' = [waiting EXCEPT ![s] = @ \cup {t}]
    /\ UNCHANGED <<exists, available>>

\* mv_semaphore_inc gives a resource back to the semaphore,
Release(s) ==
    /\ s \in exists
    /\ waiting[s] = {}
    /\ available' = [available EXCEPT ![s] = @ + 1]
    /\ UNCHANGED <<exists, waiting>>

\* or directly to a task that waits.
HandOver(s, t) ==
    /\ s \in exists
    /\ t \in waiting[s]
    /\ waiting' = [waiting EXCEPT ![s] = @ \ {t}]
    /\ UNCHANGED <<exists, available>>

Next ==
    \E s \in Sem :
        \/ Create(s)
        \/ Destroy(s)
        \/ Acquire(s)
        \/ Release(s)
        \/ \E t \in Task : Wait(s, t) \/ HandOver(s, t)

Spec == Init /\ [][Next]_vars

=============================================================================
