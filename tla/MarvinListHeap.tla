--------------------------- MODULE MarvinListHeap ---------------------------
(***************************************************************************)
(* The macros of systems/marvin/list.h pointer by pointer.  The heap is    *)
(* the next and prev fields of every node, and of the address NULL: on the *)
(* NXT address 0 is RAM (base/init.S remaps it there) that holds the       *)
(* exception vectors, so a write through a NULL pointer succeeds, and      *)
(* changes an unused vector.                                               *)
(*                                                                         *)
(* A macro is modelled by the sequence of its assignments, each one        *)
(* reading the heap that the former left.                                  *)
(***************************************************************************)
EXTENDS MarvinList, FiniteSets

CONSTANTS Node,    \* the structures that can be linked
          NULL,    \* address 0
          Vector   \* what the words of address 0 hold at boot: no pointer

ASSUME HeapAssumption ==
    /\ IsFiniteSet(Node)
    /\ NULL \notin Node /\ Vector \notin Node \cup {NULL}

VARIABLES next,   \* the next field of each node, and of NULL
          prev,   \* the prev field of each node, and of NULL
          list    \* the list variable: a pointer to the head

vars == <<next, prev, list>>

Pointer == Node \cup {NULL}

TypeOK ==
    /\ next \in [Pointer -> Pointer \cup {Vector}]
    /\ prev \in [Pointer -> Pointer \cup {Vector}]
    /\ list \in Pointer

---------------------------------------------------------------------------
(* The sequence that a walk along the next pointers visits *)

\* The i-th node of the walk; NULL once the walk has fallen off a chain.
Step ==
    LET walk[i \in 1..(Cardinality(Node) + 1)] ==
            IF i = 1 THEN list
            ELSE IF walk[i - 1] = NULL THEN NULL ELSE next[walk[i - 1]]
    IN  walk

\* The walk ends at the first node whose next is NULL or the head again.
LastIndex ==
    CHOOSE i \in 1..Cardinality(Node) :
        /\ next[Step[i]] \in {NULL, list}
        /\ \A j \in 1..(i - 1) : next[Step[j]] \notin {NULL, list}

Walk == IF list = NULL THEN <<>> ELSE [i \in 1..LastIndex |-> Step[i]]

Closed == list # NULL => next[Walk[Len(Walk)]] = list

Abstract == [items |-> Walk, ring |-> Closed]

Machine == INSTANCE MarvinListMachine WITH queue <- Abstract

---------------------------------------------------------------------------
(* The macros.  Heap values are threaded as records [n, p]: the next and   *)
(* prev functions before and after each assignment.                        *)

Heap == [n |-> next, p |-> prev]

SetNext(h, at, to) == [h EXCEPT !.n[at] = to]
SetPrev(h, at, to) == [h EXCEPT !.p[at] = to]

\* Broken variant: the two middle assignments swapped.
InsertBeforeSwapped(h, x, item) ==
    LET a == SetNext(h, h.p[x], item)
        b == SetPrev(a, x, item)
        c == SetPrev(b, item, b.p[x])
    IN  SetNext(c, item, x)

InsertBefore(h, x, item) ==
    LET a == SetNext(h, h.p[x], item)
        b == SetPrev(a, item, a.p[x])
        c == SetPrev(b, x, item)
    IN  SetNext(c, item, x)

\* Broken variant: the follower's prev is not updated.
InsertAfterOneWay(h, x, item) ==
    LET a == SetNext(h, item, h.n[x])
        b == SetNext(a, x, item)
    IN  SetPrev(b, item, x)

InsertAfter(h, x, item) ==
    LET a == SetPrev(h, h.n[x], item)
        b == SetNext(a, item, a.n[x])
        c == SetNext(b, x, item)
    IN  SetPrev(c, item, x)

InitSingleton(h, item) == SetNext(SetPrev(h, item, item), item, item)

\* The links of the two neighbours, the first half of mv_list_remove.
Unlink(h, item) ==
    LET a == SetNext(h, h.p[item], h.n[item])
    IN  SetPrev(a, a.n[item], a.p[item])

Clear(h, item) == SetPrev(SetNext(h, item, NULL), item, NULL)

Alone(h, item) == h.n[item] = item /\ h.p[item] = item

\* list' after mv_list_remove: the item's successor if it was the head.
HeadAfter(h, item) == IF item = list THEN h.n[item] ELSE list

Write(h) == next' = h.n /\ prev' = h.p

OnList(n) == n \in Items(Walk)

---------------------------------------------------------------------------
(* The steps: one expansion of a macro by a caller *)

AddTailStep(n) ==
    /\ ~OnList(n)
    /\ IF list # NULL
       THEN Write(InsertAfter(Heap, list, n)) /\ UNCHANGED list
       ELSE Write(InitSingleton(Heap, n)) /\ list' = n

AddHeadStep(n) ==
    /\ ~OnList(n)
    /\ Write(IF list # NULL THEN InsertBefore(Heap, list, n)
                            ELSE InitSingleton(Heap, n))
    /\ list' = n

\* The sorted insertion of mv__scheduler_task_suspend, after any item.
InsertAfterStep(x, n) ==
    /\ OnList(x) /\ ~OnList(n)
    /\ Write(InsertAfter(Heap, x, n))
    /\ UNCHANGED list

\* mv_list_remove(list, item) with an item held in a variable of its own.
RemoveStep(n) ==
    /\ OnList(n) /\ Closed
    /\ IF Alone(Heap, n)
       THEN Write(Clear(Heap, n)) /\ list' = NULL
       ELSE LET h == Unlink(Heap, n)
            IN  Write(Clear(h, n)) /\ list' = HeadAfter(h, n)

\* Broken variant: mv_list_pop_head does not test for the empty list.
PopHeadUnguarded ==
    LET h == Unlink(Heap, list)
    IN  /\ list' = IF Alone(Heap, list) THEN NULL ELSE h.n[list]
        /\ Write(IF list' \in Pointer THEN Clear(h, list') ELSE h)

\* mv_list_remove(list, list).  Alone: the order of the three assignments
\* in (item)->next = (item)->prev = (list) = NULL is unspecified and "item"
\* is the list variable, so the links cleared are the old head's or NULL's.
\* Otherwise the head advances first, and "item" is then the new head.
PopHeadStep ==
    /\ list # NULL
    /\ IF Alone(Heap, list)
       THEN /\ list' = NULL
            /\ \E item \in {list, NULL} : Write(Clear(Heap, item))
       ELSE LET h == Unlink(Heap, list)
            IN  list' = h.n[list] /\ Write(Clear(h, list'))

RotateStep ==
    /\ list # NULL /\ Closed
    /\ list' = next[list]
    /\ UNCHANGED <<next, prev>>

Init ==
    /\ next = [x \in Pointer |-> IF x = NULL THEN Vector ELSE NULL]
    /\ prev = [x \in Pointer |-> IF x = NULL THEN Vector ELSE NULL]
    /\ list = NULL

Next ==
    \/ \E n \in Node : AddTailStep(n) \/ AddHeadStep(n) \/ RemoveStep(n)
    \/ \E x, n \in Node : InsertAfterStep(x, n)
    \/ PopHeadStep
    \/ RotateStep

Spec == Init /\ [][Next]_vars

---------------------------------------------------------------------------
(* Properties *)

\* The macros, as their callers use them, do to the walk what MarvinList says:
\* every step of the heap is a step of the abstract list, or changes no item.
ImplementsMachine == Machine!Spec

\* The back links agree with the walk: prev undoes next inside the list, and
\* the head's prev is the tail of a ring (mv__scheduler_task_suspend reads
\* the tail's wakeup_time through it) and NULL on a chain, never a dangling
\* pointer to an item that has left the list.
BackLinks ==
    list # NULL =>
        /\ \A i \in 2..Len(Walk) : prev[Walk[i]] = Walk[i - 1]
        /\ prev[list] = IF Closed THEN Walk[Len(Walk)] ELSE NULL

\* The pointers make one list of distinct items at every step, with back links
\* to match.
Linked == TypeOK /\ BackLinks

=============================================================================
