------------------------- MODULE MarvinListMachine --------------------------
(***************************************************************************)
(* What one list of Marvin promises its callers, as the scheduler's model  *)
(* relies on it: a machine whose state is a queue of MarvinList and whose  *)
(* steps are the macros that the callers expand.                           *)
(***************************************************************************)
EXTENDS MarvinList

CONSTANT Node   \* the structures that can be linked

VARIABLE queue

TypeOK == queue \in Queues(Node)

Init == queue = EmptyQueue

Linked == Items(queue.items)

AddTailStep(n) == n \notin Linked /\ queue' = QueueAddTail(queue, n)

AddHeadStep(n) == n \notin Linked /\ queue' = QueueAddHead(queue, n)

InsertAfterStep(k, n) ==
    /\ n \notin Linked
    /\ queue' = QueueInsertAfter(queue, k, n)

\* Only rings: the callers that remove an item in the middle, or rotate, use
\* lists that never lose their head by mv_list_pop_head.
RemoveStep(n) ==
    /\ queue.ring
    /\ n \in Linked
    /\ queue' = [queue EXCEPT !.items = RemoveItem(@, n)]

RotateStep ==
    /\ queue.ring
    /\ queue' = [queue EXCEPT !.items = RotateForward(@)]

PopHeadStep ==
    /\ ~IsEmptyQueue(queue)
    /\ queue' = QueuePopHead(queue)

Next ==
    \/ \E n \in Node : AddTailStep(n) \/ AddHeadStep(n) \/ RemoveStep(n)
    \/ \E n \in Node, k \in 1..Len(queue.items) : InsertAfterStep(k, n)
    \/ RotateStep
    \/ PopHeadStep

Spec == Init /\ [][Next]_queue

=============================================================================
