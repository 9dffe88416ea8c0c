----------------------------- MODULE MarvinList -----------------------------
(***************************************************************************)
(* The list macros of systems/marvin/list.h, as the scheduler and the      *)
(* semaphores see them: what each macro does to the SEQUENCE of items that *)
(* a walk along the next pointers visits, starting at the head.            *)
(* MarvinListHeap models the same macros pointer by pointer and is checked *)
(* to implement the operators of this module.                              *)
(*                                                                         *)
(* Two shapes of list occur.  A ring is the circular list that list.h      *)
(* intends: the last item's next is the head, the head's prev is the last  *)
(* item.  A chain is what mv_list_pop_head leaves of a ring of two items   *)
(* or more: both links of its new head are NULL, so that a walk stops      *)
(* after it, and later insertions hang onto it.                            *)
(*                                                                         *)
(* The task lists are only changed by mv_list_add_tail, mv_list_remove     *)
(* with an item that is not the list's own variable, and                   *)
(* mv_list_rotate_forward, so they are always rings and are modelled by    *)
(* the bare sequence.  The alarm calendar and the semaphores' queues lose  *)
(* their head by a macro call whose item IS the list variable: they are    *)
(* records [items, ring].                                                  *)
(***************************************************************************)
EXTENDS Integers, Sequences

\* The items of a sequence, as a set.
Items(l) == {l[i] : i \in 1..Len(l)}

\* No item is linked twice.
Distinct(l) == \A i, j \in 1..Len(l) : l[i] = l[j] => i = j

---------------------------------------------------------------------------
(* Rings of tasks *)

\* mv_list_add_tail inserts AFTER THE HEAD, whatever its name: the new item is
\* the second one, and the last one only when the list held at most one item.
AddTail(l, x) ==
    IF l = <<>> THEN <<x>> ELSE <<l[1], x>> \o Tail(l)

\* mv_list_remove of an item that is on the list; when it is the head, the
\* next item becomes the head.
RemoveItem(l, x) ==
    LET at == CHOOSE i \in 1..Len(l) : l[i] = x
    IN  [i \in 1..(Len(l) - 1) |-> IF i < at THEN l[i] ELSE l[i + 1]]

\* mv_list_rotate_forward: the head becomes the last item.
RotateForward(l) ==
    [i \in 1..Len(l) |-> IF i = Len(l) THEN l[1] ELSE l[i + 1]]

---------------------------------------------------------------------------
(* Queues: the alarm calendar and the semaphores' waiting lists *)

Queues(S) == [items : Seq(S), ring : BOOLEAN]

EmptyQueue == [items |-> <<>>, ring |-> TRUE]

IsEmptyQueue(q) == q.items = <<>>

QueueAddTail(q, x) == [q EXCEPT !.items = AddTail(@, x)]

\* mv_list_add_head keeps the shape: the item inserted before the head of a
\* chain takes over its NULL prev.
QueueAddHead(q, x) == [q EXCEPT !.items = <<x>> \o @]

\* mv_list_insert_after the k-th item.
QueueInsertAfter(q, k, x) ==
    [q EXCEPT !.items = SubSeq(@, 1, k) \o <<x>> \o SubSeq(@, k + 1, Len(@))]

\* mv_list_remove(list, list), which is also what mv_list_pop_head(list)
\* expands to.  The macro's item is the list variable, which the macro
\* itself advances before it clears the links of "item": it clears those of
\* the NEW head, and with them the only path to the third item and on.
QueuePopHead(q) ==
    IF Len(q.items) <= 1
    THEN EmptyQueue
    ELSE [items |-> <<q.items[2]>>, ring |-> FALSE]

=============================================================================
