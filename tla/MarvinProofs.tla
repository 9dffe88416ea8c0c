---------------------------- MODULE MarvinProofs ----------------------------
(***************************************************************************)
(* Theorems about Marvin, for any number of tasks and semaphores, any      *)
(* programs of theirs, any quantum and any interleaving of the interrupts. *)
(***************************************************************************)
EXTENDS Marvin, FiniteSetTheorems, WellFoundedInduction, TLAPS

---------------------------------------------------------------------------
(* What the operators of MarvinList return, link and keep distinct, for    *)
(* lists of any length: AddTail                                            *)

\* AddTail item by item.
LEMMA AddTailShape ==
    ASSUME NEW S, NEW l \in Seq(S), NEW x \in S
    PROVE  /\ AddTail(l, x) \in Seq(S)
           /\ Len(AddTail(l, x)) = Len(l) + 1
           /\ \A i \in 1..(Len(l) + 1) :
                  AddTail(l, x)[i] = IF l = <<>> THEN x
                                     ELSE IF i = 1 THEN l[1]
                                     ELSE IF i = 2 THEN x
                                     ELSE l[i - 1]
<1>1. CASE l = <<>>
  BY <1>1 DEF AddTail
<1>2. CASE l # <<>>
  <2>1. /\ Tail(l) \in Seq(S)
        /\ Len(Tail(l)) = Len(l) - 1
        /\ \A i \in 1..(Len(l) - 1) : Tail(l)[i] = l[i + 1]
    BY <1>2
  <2>2. <<l[1], x>> \in Seq(S) /\ Len(<<l[1], x>>) = 2
    BY <1>2
  <2>3. AddTail(l, x) = <<l[1], x>> \o Tail(l)
    BY <1>2 DEF AddTail
  <2> QED
    BY <1>2, <2>1, <2>2, <2>3
<1> QED
  BY <1>1, <1>2

\* mv_list_add_tail links the new item and unlinks none.
LEMMA AddTailItems ==
    ASSUME NEW S, NEW l \in Seq(S), NEW x \in S
    PROVE  Items(AddTail(l, x)) = Items(l) \cup {x}
<1> DEFINE m == AddTail(l, x)
<1>1. /\ m \in Seq(S)
      /\ Len(m) = Len(l) + 1
      /\ \A i \in 1..(Len(l) + 1) :
             m[i] = IF l = <<>> THEN x
                    ELSE IF i = 1 THEN l[1]
                    ELSE IF i = 2 THEN x
                    ELSE l[i - 1]
  BY AddTailShape
<1> HIDE DEF m
<1>2. Items(m) \subseteq Items(l) \cup {x}
  BY <1>1 DEF Items
<1>3. x \in Items(m)
  <2>1. CASE l = <<>>
    BY <1>1, <2>1 DEF Items
  <2>2. CASE l # <<>>
    <3>1. 2 \in 1..Len(m) /\ m[2] = x
      BY <1>1, <2>2
    <3> QED
      BY <3>1 DEF Items
  <2> QED
    BY <2>1, <2>2
<1>4. ASSUME NEW i \in 1..Len(l)
      PROVE  l[i] \in Items(m)
  <2>1. CASE i = 1
    <3>1. 1 \in 1..Len(m) /\ m[1] = l[i]
      BY <1>1, <2>1
    <3> QED
      BY <3>1 DEF Items
  <2>2. CASE i # 1
    <3>1. i + 1 \in 1..Len(m) /\ m[i + 1] = l[i]
      BY <1>1, <2>2
    <3> QED
      BY <3>1 DEF Items
  <2> QED
    BY <2>1, <2>2
<1> QED
  BY <1>2, <1>3, <1>4 DEF Items, m

\* An item that is not linked yet can be added without linking any twice.
LEMMA AddTailDistinct ==
    ASSUME NEW S, NEW l \in Seq(S), NEW x \in S,
           Distinct(l), x \notin Items(l)
    PROVE  Distinct(AddTail(l, x))
<1> DEFINE m == AddTail(l, x)
<1>1. /\ m \in Seq(S)
      /\ Len(m) = Len(l) + 1
      /\ \A i \in 1..(Len(l) + 1) :
             m[i] = IF l = <<>> THEN x
                    ELSE IF i = 1 THEN l[1]
                    ELSE IF i = 2 THEN x
                    ELSE l[i - 1]
  BY AddTailShape
<1> HIDE DEF m
<1>2. \A i \in 1..Len(l) : l[i] # x
  BY DEF Items
<1>3. SUFFICES ASSUME NEW i \in 1..Len(m), NEW j \in 1..Len(m),
                      i < j, m[i] = m[j]
               PROVE  FALSE
  <2>1. Len(m) \in Nat
    BY <1>1
  <2>2. \A i, j \in 1..Len(m) : i < j => m[i] # m[j]
    BY <1>3
  <2>3. Distinct(m)
    BY <2>1, <2>2 DEF Distinct
  <2> QED
    BY <2>3 DEF m
<1>4. \A p, q \in 1..Len(l) : l[p] = l[q] => p = q
  BY DEF Distinct
<1>5. j \in 2..(Len(l) + 1) /\ l # <<>>
  BY <1>1, <1>3
<1>6. CASE i = 1
  <2>1. m[i] = l[1] /\ 1 \in 1..Len(l)
    BY <1>1, <1>5, <1>6
  <2>2. CASE j = 2
    <3>1. m[j] = x
      BY <1>1, <1>5, <2>2
    <3> QED
      BY <1>2, <1>3, <2>1, <3>1
  <2>3. CASE j > 2
    <3>1. m[j] = l[j - 1] /\ j - 1 \in 1..Len(l) /\ j - 1 # 1
      BY <1>1, <1>5, <2>3
    <3> QED
      BY <1>3, <1>4, <2>1, <3>1
  <2> QED
    BY <1>5, <2>2, <2>3
<1>7. CASE i > 1
  <2>1. m[j] = l[j - 1] /\ j - 1 \in 1..Len(l)
    BY <1>1, <1>3, <1>5, <1>7
  <2>2. CASE i = 2
    <3>1. m[i] = x
      BY <1>1, <1>5, <2>2
    <3> QED
      BY <1>2, <1>3, <2>1, <3>1
  <2>3. CASE i > 2
    <3>1. m[i] = l[i - 1] /\ i - 1 \in 1..Len(l) /\ i - 1 # j - 1
      BY <1>1, <1>3, <1>5, <2>3
    <3> QED
      BY <1>3, <1>4, <2>1, <3>1
  <2> QED
    BY <1>7, <2>2, <2>3
<1> QED
  BY <1>6, <1>7

---------------------------------------------------------------------------
(* RemoveItem *)

LEMMA RemoveItemType ==
    ASSUME NEW S, NEW l \in Seq(S), NEW x
    PROVE  RemoveItem(l, x) \in Seq(S)
<1> DEFINE at == CHOOSE i \in 1..Len(l) : l[i] = x
           m == [i \in 1..(Len(l) - 1) |-> IF i < at THEN l[i] ELSE l[i + 1]]
<1>1. m = RemoveItem(l, x)
  BY DEF RemoveItem
<1>2. m \in [1..(Len(l) - 1) -> S]
  BY DEF m
<1> HIDE DEF m
<1>3. CASE l = <<>>
  <2>1. m \in [1..0 -> S]
    BY <1>2, <1>3
  <2>2. m \in Seq(S)
    BY <2>1
  <2> QED
    BY <1>1, <2>2
<1>4. CASE l # <<>>
  <2>1. Len(l) - 1 \in Nat
    BY <1>4
  <2>2. m \in Seq(S)
    BY <1>2, <2>1
  <2> QED
    BY <1>1, <2>2
<1> QED
  BY <1>3, <1>4

\* RemoveItem item by item, with the place of the removed one.
LEMMA RemoveItemShape ==
    ASSUME NEW S, NEW l \in Seq(S), NEW x \in Items(l)
    PROVE  \E at \in 1..Len(l) :
               /\ l[at] = x
               /\ Len(RemoveItem(l, x)) = Len(l) - 1
               /\ \A i \in 1..(Len(l) - 1) :
                      RemoveItem(l, x)[i] = IF i < at THEN l[i] ELSE l[i + 1]
<1> DEFINE at == CHOOSE i \in 1..Len(l) : l[i] = x
<1>1. at \in 1..Len(l) /\ l[at] = x
  BY DEF Items
<1>2. RemoveItem(l, x) =
          [i \in 1..(Len(l) - 1) |-> IF i < at THEN l[i] ELSE l[i + 1]]
  BY DEF RemoveItem
<1> HIDE DEF at
<1>3. Len(l) - 1 \in Nat
  BY <1>1
<1>4. Len(RemoveItem(l, x)) = Len(l) - 1
  BY <1>2, <1>3
<1> QED
  BY <1>1, <1>2, <1>4

\* mv_list_remove unlinks the item and no other.
LEMMA RemoveItemItems ==
    ASSUME NEW S, NEW l \in Seq(S), NEW x \in Items(l), Distinct(l)
    PROVE  Items(RemoveItem(l, x)) = Items(l) \ {x}
<1> DEFINE m == RemoveItem(l, x)
<1>1. PICK at \in 1..Len(l) :
               /\ l[at] = x
               /\ Len(m) = Len(l) - 1
               /\ \A i \in 1..(Len(l) - 1) :
                      m[i] = IF i < at THEN l[i] ELSE l[i + 1]
  BY RemoveItemShape
<1> HIDE DEF m
<1>2. ASSUME NEW i \in 1..Len(m)
      PROVE  m[i] \in Items(l) \ {x}
  BY <1>1 DEF Items, Distinct
<1>3. ASSUME NEW i \in 1..Len(l), l[i] # x
      PROVE  l[i] \in Items(m)
  <2>1. CASE i < at
    <3>1. i \in 1..Len(m) /\ m[i] = l[i]
      BY <1>1, <2>1
    <3> QED
      BY <3>1 DEF Items
  <2>2. CASE i > at
    <3>1. i - 1 \in 1..Len(m) /\ m[i - 1] = l[i]
      BY <1>1, <2>2
    <3> QED
      BY <3>1 DEF Items
  <2> QED
    BY <1>1, <1>3, <2>1, <2>2
<1> QED
  BY <1>2, <1>3 DEF Items, m

LEMMA RemoveItemDistinct ==
    ASSUME NEW S, NEW l \in Seq(S), NEW x \in Items(l), Distinct(l)
    PROVE  Distinct(RemoveItem(l, x))
<1> DEFINE m == RemoveItem(l, x)
<1>1. PICK at \in 1..Len(l) :
               /\ l[at] = x
               /\ Len(m) = Len(l) - 1
               /\ \A i \in 1..(Len(l) - 1) :
                      m[i] = IF i < at THEN l[i] ELSE l[i + 1]
  BY RemoveItemShape
<1> HIDE DEF m
<1>2. Distinct(m)
  BY <1>1 DEF Distinct
<1> QED
  BY <1>2 DEF m

---------------------------------------------------------------------------
(* RotateForward *)

LEMMA RotateForwardShape ==
    ASSUME NEW S, NEW l \in Seq(S)
    PROVE  /\ RotateForward(l) \in Seq(S)
           /\ Len(RotateForward(l)) = Len(l)
           /\ \A i \in 1..Len(l) :
                  RotateForward(l)[i] = IF i = Len(l) THEN l[1] ELSE l[i + 1]
<1>1. RotateForward(l) \in [1..Len(l) -> S]
  BY DEF RotateForward
<1>2. Len(l) \in Nat
  OBVIOUS
<1> QED
  BY <1>1, <1>2 DEF RotateForward

\* mv_list_rotate_forward keeps every item linked, once.
LEMMA RotateForwardItems ==
    ASSUME NEW S, NEW l \in Seq(S)
    PROVE  /\ Items(RotateForward(l)) = Items(l)
           /\ Distinct(l) => Distinct(RotateForward(l))
<1> DEFINE m == RotateForward(l)
<1>1. /\ m \in Seq(S)
      /\ Len(m) = Len(l)
      /\ \A i \in 1..Len(l) : m[i] = IF i = Len(l) THEN l[1] ELSE l[i + 1]
  BY RotateForwardShape
<1> HIDE DEF m
<1>2. Items(m) \subseteq Items(l)
  BY <1>1 DEF Items
<1>3. ASSUME NEW i \in 1..Len(l)
      PROVE  l[i] \in Items(m)
  <2>1. CASE i = 1
    <3>1. Len(l) \in 1..Len(m) /\ m[Len(l)] = l[i]
      BY <1>1, <2>1
    <3> QED
      BY <3>1 DEF Items
  <2>2. CASE i # 1
    <3>1. i - 1 \in 1..Len(m) /\ m[i - 1] = l[i]
      BY <1>1, <2>2
    <3> QED
      BY <3>1 DEF Items
  <2> QED
    BY <2>1, <2>2
<1>4. ASSUME Distinct(l)
      PROVE  Distinct(m)
  BY <1>1, <1>4 DEF Distinct
<1> QED
  BY <1>2, <1>3, <1>4 DEF Items, m

---------------------------------------------------------------------------
(* Queues *)

\* The insertions turn a queue into a queue.
LEMMA QueueAddType ==
    ASSUME NEW S, NEW q \in Queues(S), NEW x \in S
    PROVE  QueueAddTail(q, x) \in Queues(S) /\ QueueAddHead(q, x) \in Queues(S)
<1>1. q.items \in Seq(S)
  BY DEF Queues
<1>2. AddTail(q.items, x) \in Seq(S)
  BY <1>1, AddTailShape
<1>3. QueueAddTail(q, x) \in Queues(S)
  BY <1>2 DEF QueueAddTail, Queues
<1>4. <<x>> \o q.items \in Seq(S)
  BY <1>1
<1>5. QueueAddHead(q, x) \in Queues(S)
  BY <1>4 DEF QueueAddHead, Queues
<1> QED
  BY <1>3, <1>5

LEMMA QueueInsertAfterType ==
    ASSUME NEW S, NEW q \in Queues(S), NEW x \in S, NEW k \in 1..Len(q.items)
    PROVE  QueueInsertAfter(q, k, x) \in Queues(S)
<1>1. q.items \in Seq(S)
  BY DEF Queues
<1>2. SubSeq(q.items, 1, k) \in Seq(S)
  BY <1>1
<1>3. SubSeq(q.items, k + 1, Len(q.items)) \in Seq(S)
  BY <1>1
<1>4. SubSeq(q.items, 1, k) \o <<x>> \o SubSeq(q.items, k + 1, Len(q.items))
          \in Seq(S)
  BY <1>2, <1>3
<1> QED
  BY <1>4 DEF QueueInsertAfter, Queues

LEMMA EmptyQueueType ==
    ASSUME NEW S
    PROVE  EmptyQueue \in Queues(S)
<1>1. <<>> \in Seq(S)
  OBVIOUS
<1> QED
  BY <1>1 DEF EmptyQueue, Queues

\* mv_list_pop_head turns a queue into a queue.
LEMMA QueuePopHeadType ==
    ASSUME NEW S, NEW q \in Queues(S)
    PROVE  QueuePopHead(q) \in Queues(S)
<1>1. q.items \in Seq(S)
  BY DEF Queues
<1>2. CASE Len(q.items) <= 1
  <2>1. <<>> \in Seq(S)
    OBVIOUS
  <2> QED
    BY <1>2, <2>1 DEF QueuePopHead, EmptyQueue, Queues
<1>3. CASE ~(Len(q.items) <= 1)
  <2>1. <<q.items[2]>> \in Seq(S)
    BY <1>1, <1>3
  <2> QED
    BY <1>3, <2>1 DEF QueuePopHead, Queues
<1> QED
  BY <1>2, <1>3

\* The insertions link the new item, unlink none, and link none twice.
LEMMA QueueAddItems ==
    ASSUME NEW S, NEW q \in Queues(S), NEW x \in S
    PROVE  /\ Items(QueueAddTail(q, x).items) = Items(q.items) \cup {x}
           /\ Items(QueueAddHead(q, x).items) = Items(q.items) \cup {x}
           /\ Distinct(q.items) /\ x \notin Items(q.items) =>
                  /\ Distinct(QueueAddTail(q, x).items)
                  /\ Distinct(QueueAddHead(q, x).items)
<1> DEFINE l == q.items
           m == <<x>> \o l
<1>1. l \in Seq(S)
  BY DEF Queues
<1>2. QueueAddTail(q, x).items = AddTail(l, x)
  BY DEF QueueAddTail, Queues
<1>3. QueueAddHead(q, x).items = m
  BY DEF QueueAddHead, Queues
<1>4. /\ m \in Seq(S)
      /\ Len(m) = Len(l) + 1
      /\ m[1] = x
      /\ \A i \in 2..(Len(l) + 1) : m[i] = l[i - 1]
  BY <1>1
<1> HIDE DEF l, m
<1>5. Items(m) = Items(l) \cup {x}
  <2>1. Items(m) \subseteq Items(l) \cup {x}
    <3>1. ASSUME NEW i \in 1..Len(m)
          PROVE  m[i] \in Items(l) \cup {x}
      <4>1. CASE i = 1
        BY <1>4, <4>1
      <4>2. CASE i # 1
        <5>1. m[i] = l[i - 1] /\ i - 1 \in 1..Len(l)
          BY <1>1, <1>4, <4>2
        <5> QED
          BY <5>1 DEF Items
      <4> QED
        BY <4>1, <4>2
    <3> QED
      BY <3>1 DEF Items
  <2>2. x \in Items(m)
    <3>1. 1 \in 1..Len(m) /\ m[1] = x
      BY <1>1, <1>4
    <3> QED
      BY <3>1 DEF Items
  <2>3. ASSUME NEW i \in 1..Len(l)
        PROVE  l[i] \in Items(m)
    <3>1. i + 1 \in 1..Len(m) /\ m[i + 1] = l[i]
      BY <1>1, <1>4
    <3> QED
      BY <3>1 DEF Items
  <2> QED
    BY <2>1, <2>2, <2>3 DEF Items
<1>6. ASSUME Distinct(l), x \notin Items(l)
      PROVE  Distinct(m)
  <2>1. \A i \in 1..Len(l) : l[i] # x
    BY <1>6 DEF Items
  <2>2. \A i, j \in 1..Len(l) : l[i] = l[j] => i = j
    BY <1>6 DEF Distinct
  <2>3. ASSUME NEW i \in 1..Len(m), NEW j \in 1..Len(m), i < j
        PROVE  m[i] # m[j]
    <3>1. m[j] = l[j - 1] /\ j - 1 \in 1..Len(l)
      BY <1>1, <1>4, <2>3
    <3>2. CASE i = 1
      BY <1>4, <2>1, <3>1, <3>2
    <3>3. CASE i # 1
      <4>1. m[i] = l[i - 1] /\ i - 1 \in 1..Len(l) /\ i - 1 # j - 1
        BY <1>1, <1>4, <2>3, <3>3
      <4> QED
        BY <2>2, <3>1, <4>1
    <3> QED
      BY <3>2, <3>3
  <2>4. Len(m) \in Nat
    BY <1>1, <1>4
  <2> QED
    BY <2>3, <2>4 DEF Distinct
<1>7. Items(AddTail(l, x)) = Items(l) \cup {x}
  BY <1>1, AddTailItems
<1>8. Distinct(l) /\ x \notin Items(l) => Distinct(AddTail(l, x))
  BY <1>1, AddTailDistinct
<1> QED
  BY <1>2, <1>3, <1>5, <1>6, <1>7, <1>8 DEF l

\* The sorted insertion, item by item.
LEMMA QueueInsertAfterShape ==
    ASSUME NEW S, NEW q \in Queues(S), NEW x \in S, NEW k \in 1..Len(q.items)
    PROVE  /\ Len(QueueInsertAfter(q, k, x).items) = Len(q.items) + 1
           /\ \A i \in 1..(Len(q.items) + 1) :
                  QueueInsertAfter(q, k, x).items[i] =
                      IF i <= k THEN q.items[i]
                      ELSE IF i = k + 1 THEN x
                      ELSE q.items[i - 1]
<1> DEFINE l == q.items
           a == SubSeq(l, 1, k)
           b == SubSeq(l, k + 1, Len(l))
<1>1. l \in Seq(S) /\ Len(l) \in Nat /\ k \in 1..Len(l)
  BY DEF Queues
<1>2. /\ a \in Seq(S) /\ Len(a) = k
      /\ \A i \in 1..k : a[i] = l[i]
  BY <1>1
<1>3. /\ b \in Seq(S) /\ Len(b) = Len(l) - k
      /\ \A i \in 1..(Len(l) - k) : b[i] = l[k + i]
  BY <1>1
<1>4. QueueInsertAfter(q, k, x).items = a \o <<x>> \o b
  BY DEF QueueInsertAfter, Queues
<1> HIDE DEF a, b, l
<1>5. /\ a \o <<x>> \in Seq(S) /\ Len(a \o <<x>>) = k + 1
      /\ \A i \in 1..k : (a \o <<x>>)[i] = l[i]
      /\ (a \o <<x>>)[k + 1] = x
  BY <1>2
<1> DEFINE c == a \o <<x>>
<1> HIDE DEF c
<1>6. /\ c \in Seq(S) /\ Len(c) = k + 1
      /\ \A i \in 1..k : c[i] = l[i]
      /\ c[k + 1] = x
  BY <1>5 DEF c
<1>7. Len(c \o b) = Len(l) + 1
  <2>1. c \in Seq(S) /\ b \in Seq(S)
    BY <1>3, <1>6
  <2>2. Len(c \o b) = Len(c) + Len(b)
    BY <2>1
  <2> QED
    BY <1>1, <1>3, <1>6, <2>2
<1>8. ASSUME NEW i \in 1..(Len(l) + 1)
      PROVE  (c \o b)[i] = IF i <= k THEN l[i]
                           ELSE IF i = k + 1 THEN x
                           ELSE l[i - 1]
  <2>1. CASE i <= k + 1
    <3>1. (c \o b)[i] = c[i]
      BY <1>1, <1>3, <1>6, <2>1
    <3> QED
      BY <1>1, <1>6, <2>1, <3>1
  <2>2. CASE i > k + 1
    <3>1. (c \o b)[i] = b[i - (k + 1)]
      BY <1>1, <1>3, <1>6, <2>2
    <3>2. i - (k + 1) \in 1..(Len(l) - k) /\ k + (i - (k + 1)) = i - 1
      BY <1>1, <2>2
    <3> QED
      BY <1>1, <1>3, <2>2, <3>1, <3>2
  <2>3. i <= k + 1 \/ i > k + 1
    BY <1>1
  <2> QED
    BY <2>1, <2>2, <2>3
<1> QED
  BY <1>4, <1>7, <1>8 DEF c, l

LEMMA QueueInsertAfterItems ==
    ASSUME NEW S, NEW q \in Queues(S), NEW x \in S, NEW k \in 1..Len(q.items)
    PROVE  /\ Items(QueueInsertAfter(q, k, x).items) = Items(q.items) \cup {x}
           /\ Distinct(q.items) /\ x \notin Items(q.items) =>
                  Distinct(QueueInsertAfter(q, k, x).items)
<1> DEFINE l == q.items
           m == QueueInsertAfter(q, k, x).items
<1>1. l \in Seq(S) /\ Len(l) \in Nat /\ k \in 1..Len(l)
  BY DEF Queues
<1>2. /\ Len(m) = Len(l) + 1
      /\ \A i \in 1..(Len(l) + 1) :
             m[i] = IF i <= k THEN l[i] ELSE IF i = k + 1 THEN x ELSE l[i - 1]
  BY QueueInsertAfterShape
<1> HIDE DEF l, m
<1>3. /\ \A i \in 1..k : i \in 1..Len(m) /\ m[i] = l[i]
      /\ k + 1 \in 1..Len(m) /\ m[k + 1] = x
      /\ \A i \in (k + 1)..Len(l) : i + 1 \in 1..Len(m) /\ m[i + 1] = l[i]
  BY <1>1, <1>2
<1>4. Items(m) \subseteq Items(l) \cup {x}
  <2>1. ASSUME NEW i \in 1..Len(m)
        PROVE  m[i] \in Items(l) \cup {x}
    <3>1. CASE i <= k
      BY <1>1, <1>2, <3>1 DEF Items
    <3>2. CASE i = k + 1
      BY <1>3, <3>2
    <3>3. CASE i > k + 1
      <4>1. m[i] = l[i - 1] /\ i - 1 \in 1..Len(l)
        BY <1>1, <1>2, <3>3
      <4> QED
        BY <4>1 DEF Items
    <3> QED
      BY <1>1, <1>2, <3>1, <3>2, <3>3
  <2> QED
    BY <2>1 DEF Items
<1>5. ASSUME NEW i \in 1..Len(l)
      PROVE  l[i] \in Items(m)
  <2>1. CASE i <= k
    BY <1>1, <1>3, <2>1 DEF Items
  <2>2. CASE i > k
    BY <1>1, <1>3, <2>2 DEF Items
  <2> QED
    BY <1>1, <2>1, <2>2
<1>6. x \in Items(m)
  BY <1>3 DEF Items
<1>7. Items(m) = Items(l) \cup {x}
  BY <1>4, <1>5, <1>6 DEF Items
<1>8. ASSUME Distinct(l), x \notin Items(l)
      PROVE  Distinct(m)
  <2>1. \A i \in 1..Len(l) : l[i] # x
    BY <1>8 DEF Items
  <2>2. \A i, j \in 1..Len(l) : l[i] = l[j] => i = j
    BY <1>8 DEF Distinct
  <2> DEFINE from(i) == IF i <= k THEN i ELSE i - 1
  <2>3. ASSUME NEW i \in 1..Len(m), NEW j \in 1..Len(m), i < j
        PROVE  m[i] # m[j]
    <3>1. CASE i = k + 1
      <4>1. m[j] = l[j - 1] /\ j - 1 \in 1..Len(l)
        BY <1>1, <1>2, <2>3, <3>1
      <4> QED
        BY <1>3, <2>1, <3>1, <4>1
    <3>2. CASE j = k + 1
      <4>1. m[i] = l[i] /\ i \in 1..Len(l)
        BY <1>1, <1>2, <2>3, <3>2
      <4> QED
        BY <1>3, <2>1, <3>2, <4>1
    <3>3. CASE i # k + 1 /\ j # k + 1
      <4>1. /\ m[i] = l[from(i)] /\ from(i) \in 1..Len(l)
            /\ m[j] = l[from(j)] /\ from(j) \in 1..Len(l)
            /\ from(i) # from(j)
        BY <1>1, <1>2, <2>3, <3>3
      <4> QED
        BY <2>2, <4>1
    <3> QED
      BY <3>1, <3>2, <3>3
  <2>4. Len(m) \in Nat
    BY <1>1, <1>2
  <2> QED
    BY <2>3, <2>4 DEF Distinct
<1> QED
  BY <1>7, <1>8 DEF l, m

\* mv_list_pop_head unlinks the head, and links nothing new.
LEMMA QueuePopHeadItems ==
    ASSUME NEW S, NEW q \in Queues(S), q.items # <<>>, Distinct(q.items)
    PROVE  /\ Items(QueuePopHead(q).items) \subseteq
                  Items(q.items) \ {q.items[1]}
           /\ Distinct(QueuePopHead(q).items)
<1>1. q.items \in Seq(S)
  BY DEF Queues
<1>2. CASE Len(q.items) <= 1
  <2>1. QueuePopHead(q).items = <<>>
    BY <1>2 DEF QueuePopHead, EmptyQueue
  <2> QED
    BY <2>1 DEF Items, Distinct
<1>3. CASE ~(Len(q.items) <= 1)
  <2>1. QueuePopHead(q).items = <<q.items[2]>>
    BY <1>3 DEF QueuePopHead
  <2>2. Items(<<q.items[2]>>) = {q.items[2]} /\ Distinct(<<q.items[2]>>)
    BY DEF Items, Distinct
  <2>3. 1 \in 1..Len(q.items) /\ 2 \in 1..Len(q.items)
    BY <1>1, <1>3
  <2>4. q.items[2] \in Items(q.items) /\ q.items[2] # q.items[1]
    BY <2>3 DEF Items, Distinct
  <2> QED
    BY <2>1, <2>2, <2>4
<1> QED
  BY <1>2, <1>3

---------------------------------------------------------------------------

\* The while loop that looks for an alarm's place stops at the first item
\* that satisfies its test.
LEMMA LeastIndex ==
    ASSUME NEW T, T \subseteq Nat, T # {}
    PROVE  \E x \in T : \A y \in T : x <= y
<1>1. PICK x \in T : \A y \in T : <<y, x>> \notin OpToRel(<, Nat)
  BY NatLessThanWellFounded, WFMin, Zenon
<1>2. \A y \in T : ~(y < x)
  BY <1>1 DEF OpToRel
<1> QED
  BY <1>2

---------------------------------------------------------------------------
(* The inductive invariant of the scheduler lock *)

\* Every thread is in a call that its program allows, and the idle task only
\* ever yields.
CallsOK ==
    /\ op[Idle] = NoCall
    /\ pc[Idle] \in {"check", "mask", "cmd", "call"}
    /\ \A t \in Task :
           /\ op[t] \in Program[t] \cup {NoCall}
           /\ pc[t] = "alloc" => op[t].kind = "create"

\* Whoever reads the lock count in mv_scheduler_lock reads 0, so that the
\* count it stores later is right although it may have been preempted, and
\* the lock taken and released by others, in between.
SeenOK == \A t \in Thread : seen[t] = 0

LockInv == TypeOK /\ CallsOK /\ SeenOK /\ LockExcludes

---------------------------------------------------------------------------

LEMMA ThreadFacts ==
    /\ \A t \in Task : t \in Thread /\ t # Idle /\ t # NULL
    /\ Idle \in Thread /\ Idle # NULL
BY MarvinAssumption DEF Thread

\* What a call that a program makes can be.
LEMMA CallFacts ==
    ASSUME CallsOK, NEW t \in Task
    PROVE  /\ op[t] \in Calls
           /\ op[t].kind = "sleep" => op[t].arg \in 1..MaxSleep
           /\ op[t].kind \in {"dec", "try_dec", "inc", "create", "destroy"}
                  => op[t].sem \in Sem
           /\ op[t].arg \in Nat
<1>1. NoCall \in Calls /\ NoCall.kind = "none"
  BY DEF NoCall, Calls, Kinds
<1>2. op[t] \in Program[t] \cup {NoCall}
  BY DEF CallsOK
<1>3. CASE op[t] \in Program[t]
  BY <1>3, ProgramAssumption DEF Calls
<1>4. CASE op[t] = NoCall
  BY <1>1, <1>4 DEF Calls
<1> QED
  BY <1>2, <1>3, <1>4

\* Where the sorted insertion of mv__scheduler_task_suspend ends.
LEMMA InsertAlarmCases ==
    ASSUME NEW q \in Queues(Task), NEW t \in Task, NEW w \in Nat,
           left \in [Task -> 0..MaxSleep]
    PROVE  \/ InsertAlarm(q, t, w) \in {QueueAddTail(q, t), QueueAddHead(q, t)}
           \/ \E k \in 1..Len(q.items) :
                  InsertAlarm(q, t, w) = QueueInsertAfter(q, k, t)
<1>1. q.items \in Seq(Task) /\ Len(q.items) \in Nat
  BY DEF Queues
<1>2. CASE IsEmptyQueue(q) \/ (q.ring /\ left[q.items[1]] < w
                                  /\ left[q.items[Len(q.items)]] <= w)
  BY <1>2 DEF InsertAlarm
<1>3. CASE /\ ~(IsEmptyQueue(q) \/ (q.ring /\ left[q.items[1]] < w
                                  /\ left[q.items[Len(q.items)]] <= w))
           /\ w <= left[q.items[1]]
  BY <1>3 DEF InsertAlarm
<1>4. CASE /\ ~(IsEmptyQueue(q) \/ (q.ring /\ left[q.items[1]] < w
                                  /\ left[q.items[Len(q.items)]] <= w))
           /\ ~(w <= left[q.items[1]])
  <2> DEFINE Stop(k) == k = Len(q.items) \/ left[q.items[k + 1]] >= w
             Place(k) == Stop(k) /\ \A i \in 2..k : left[q.items[i]] < w
             after == CHOOSE k \in 1..Len(q.items) : Place(k)
  <2>1. Len(q.items) \in {k \in 1..Len(q.items) : Stop(k)}
    BY <1>1, <1>4 DEF IsEmptyQueue
  <2>2. PICK k \in 1..Len(q.items) :
                 Stop(k) /\ \A j \in 1..Len(q.items) : Stop(j) => k <= j
    <3> DEFINE T == {k \in 1..Len(q.items) : Stop(k)}
    <3>1. T \subseteq Nat /\ T # {}
      BY <2>1
    <3>2. PICK k \in T : \A j \in T : k <= j
      <4> HIDE DEF T
      <4> QED
        BY <3>1, LeastIndex
    <3> QED
      BY <3>2
  <2>3. Place(k)
    <3>1. ASSUME NEW i \in 2..k
          PROVE  left[q.items[i]] < w
      <4>1. i - 1 \in 1..Len(q.items) /\ ~Stop(i - 1)
        <5> HIDE DEF Stop
        <5> QED
          BY <1>1, <2>2
      <4>2. i \in 1..Len(q.items) /\ ~(left[q.items[i]] >= w)
        BY <1>1, <4>1
      <4>3. left[q.items[i]] \in Nat
        BY <1>1, <4>2, MarvinAssumption
      <4> QED
        BY <4>2, <4>3
    <3> QED
      BY <2>2, <3>1
  <2>4. after \in 1..Len(q.items)
    <3> HIDE DEF Place
    <3> QED
      BY <2>3
  <2>5. InsertAlarm(q, t, w) = QueueInsertAfter(q, after, t)
    BY <1>4 DEF InsertAlarm
  <2> HIDE DEF after
  <2> QED
    BY <2>4, <2>5
<1> QED
  BY <1>2, <1>3, <1>4

\* mv__scheduler_task_suspend puts the alarm on the calendar, once.
LEMMA InsertAlarmFacts ==
    ASSUME NEW q \in Queues(Task), NEW t \in Task, NEW w \in Nat,
           left \in [Task -> 0..MaxSleep]
    PROVE  /\ InsertAlarm(q, t, w) \in Queues(Task)
           /\ Items(InsertAlarm(q, t, w).items) = Items(q.items) \cup {t}
           /\ Distinct(q.items) /\ t \notin Items(q.items) =>
                  Distinct(InsertAlarm(q, t, w).items)
<1> DEFINE r == InsertAlarm(q, t, w)
           Good(p) == /\ p \in Queues(Task)
                      /\ Items(p.items) = Items(q.items) \cup {t}
                      /\ Distinct(q.items) /\ t \notin Items(q.items) =>
                             Distinct(p.items)
<1>1. Good(QueueAddTail(q, t)) /\ Good(QueueAddHead(q, t))
  <2>1. QueueAddTail(q, t) \in Queues(Task) /\ QueueAddHead(q, t) \in Queues(Task)
    BY QueueAddType
  <2>2. /\ Items(QueueAddTail(q, t).items) = Items(q.items) \cup {t}
        /\ Items(QueueAddHead(q, t).items) = Items(q.items) \cup {t}
        /\ Distinct(q.items) /\ t \notin Items(q.items) =>
               /\ Distinct(QueueAddTail(q, t).items)
               /\ Distinct(QueueAddHead(q, t).items)
    BY QueueAddItems
  <2> QED
    BY <2>1, <2>2
<1>2. \A k \in 1..Len(q.items) : Good(QueueInsertAfter(q, k, t))
  BY QueueInsertAfterType, QueueInsertAfterItems
<1>3. \/ r \in {QueueAddTail(q, t), QueueAddHead(q, t)}
      \/ \E k \in 1..Len(q.items) : r = QueueInsertAfter(q, k, t)
  BY InsertAlarmCases
<1> HIDE DEF r
<1>4. Good(r)
  BY <1>1, <1>2, <1>3
<1> QED
  BY <1>4 DEF r

LEMMA InitLockInv == Init => LockInv
<1> SUFFICES ASSUME Init
             PROVE  LockInv
  OBVIOUS
<1>1. NoCall \in Calls
  BY DEF NoCall, Calls, Kinds
<1>2. EmptyQueue \in Queues(Task)
  BY EmptyQueueType
<1>3. BootRing \in Seq(Task)
  <2>1. Len(Created) \in Nat /\ Created \in [1..Len(Created) -> Task]
    BY CreatedAssumption
  <2>2. BootRing \in [1..Len(Created) -> Task]
    BY <2>1 DEF BootRing
  <2> QED
    BY <2>1, <2>2
<1>4. TypeOK
  <2>1. /\ elapsed \in 0..Quantum
        /\ left \in [Task -> 0..MaxSleep]
        /\ created \in SUBSET Sem
        /\ count \in [Sem -> Int]
    BY MarvinAssumption, BootAssumption DEF Init
  <2>2. /\ tasks_ready \in Seq(Task)
        /\ tasks_blocked \in Seq(Task)
        /\ alarms \in Queues(Task)
        /\ waiters \in [Sem -> Queues(Task)]
    BY <1>2, <1>3 DEF Init
  <2>3. /\ pc \in [Thread -> Labels]
        /\ op \in [Thread -> Calls]
        /\ seen \in [Thread -> Nat]
        /\ state \in [Thread -> {"READY", "BLOCKED", "DEAD"}]
    BY <1>1 DEF Init, Labels
  <2> QED
    BY <2>1, <2>2, <2>3, ThreadFacts DEF Init, TypeOK
<1>5. CallsOK
  BY ThreadFacts DEF Init, CallsOK
<1>6. SeenOK
  BY DEF Init, SeenOK
<1>7. LockExcludes
  BY DEF Init, LockExcludes, Holds, NoCall
<1> QED
  BY <1>4, <1>5, <1>6, <1>7 DEF LockInv

---------------------------------------------------------------------------
(* Every step keeps the types *)

LEMMA TypeStep == LockInv /\ [Next]_vars => TypeOK'
<1> SUFFICES ASSUME LockInv, [Next]_vars
             PROVE  TypeOK'
  OBVIOUS
<1> USE DEF LockInv, TypeOK, vars, tickVars, listVars, cbVars, semVars,
            threadVars, lockVars
<1>1. CASE UNCHANGED vars
  BY <1>1
<1>2. CASE Tick
  <2>1. elapsed' \in 0..Quantum
    BY <1>2, MarvinAssumption DEF Tick
  <2>2. left' \in [Task -> 0..MaxSleep]
    BY <1>2, MarvinAssumption DEF Tick, Minus1
  <2> QED
    BY <1>2, <2>1, <2>2 DEF Tick
<1>3. CASE PowerOff
  BY <1>3 DEF PowerOff
<1>4. CASE EnterLocked
  BY <1>4 DEF EnterLocked
<1>5. CASE EnterCommand
  <2>1. RemoveItem(tasks_ready, task_current) \in Seq(Task)
    BY RemoveItemType
  <2>2. tasks_ready' \in Seq(Task)
    BY <1>5, <2>1 DEF EnterCommand
  <2>3. state' \in [Thread -> {"READY", "BLOCKED", "DEAD"}]
    BY <1>5 DEF EnterCommand
  <2>4. task_current' \in Thread \cup {NULL}
    BY <1>5 DEF EnterCommand
  <2>5. due' \in SUBSET Task
    BY <1>5 DEF EnterCommand, Expired, Queues, Items
  <2> QED
    BY <1>5, <2>2, <2>3, <2>4, <2>5 DEF EnterCommand
<1>6. CASE EnterTick
  <2>1. due' \in SUBSET Task
    BY <1>6 DEF EnterTick, Expired, Queues, Items
  <2>2. need' \in BOOLEAN
    <3>1. (elapsed >= Quantum) \in BOOLEAN
      OBVIOUS
    <3>2. need' = (elapsed >= Quantum)
      BY <1>6 DEF EnterTick
    <3> QED
      BY <3>1, <3>2, Zenon
  <2> QED
    BY <1>6, <2>1, <2>2 DEF EnterTick
<1>7. CASE WakeAlarm
  <2>1. alarms.items[1] \in Task
    BY <1>7 DEF WakeAlarm, HeadDue
  <2>2. alarms' \in Queues(Task)
    BY <1>7, QueuePopHeadType DEF WakeAlarm
  <2>3. tasks_blocked' \in Seq(Task)
    BY <1>7, RemoveItemType DEF WakeAlarm, Unblock
  <2>4. tasks_ready' \in Seq(Task)
    BY <1>7, <2>1, AddTailShape DEF WakeAlarm, Unblock
  <2>5. state' \in [Thread -> {"READY", "BLOCKED", "DEAD"}]
    BY <1>7 DEF WakeAlarm, Unblock
  <2> QED
    BY <1>7, <2>2, <2>3, <2>4, <2>5 DEF WakeAlarm
<1>8. CASE Switch
  <2>1. tasks_ready' \in Seq(Task)
    BY <1>8, RotateForwardShape DEF Switch
  <2>2. task_current' \in Thread \cup {NULL}
    BY <1>8, ThreadFacts DEF Switch, Thread
  <2>3. elapsed' \in 0..Quantum
    BY <1>8, MarvinAssumption DEF Switch
  <2> QED
    BY <1>8, <2>1, <2>2, <2>3 DEF Switch
<1>9. CASE IdleCheck
  BY <1>9 DEF IdleCheck, Goto, Labels
<1>10. ASSUME NEW t \in Thread, Yielding(t)
       PROVE  TypeOK'
  <2>1. NoCall \in Calls
    BY DEF NoCall, Calls, Kinds
  <2>2. CASE YieldMask(t)
    BY <2>2 DEF YieldMask, Goto, Labels
  <2>3. CASE YieldCommand(t)
    BY <2>3 DEF YieldCommand, NoInterrupt, Goto, Labels
  <2>4. CASE YieldCall(t)
    <3>1. pc' \in [Thread -> Labels]
      BY <2>4 DEF YieldCall, Return, Goto, Labels
    <3>2. op' \in [Thread -> Calls]
      BY <2>1, <2>4 DEF YieldCall, Return
    <3> QED
      BY <2>4, <3>1, <3>2 DEF YieldCall
  <2> QED
    BY <1>10, <2>2, <2>3, <2>4 DEF Yielding
<1>11. ASSUME NEW t \in Task, Call(t)
       PROVE  TypeOK'
  <2>1. PICK c \in Program[t] :
               op' = [op EXCEPT ![t] = c] /\ Goto(t, EntryLabel(c.kind))
    BY <1>11 DEF Call
  <2>2. c \in Calls
    BY ProgramAssumption
  <2>3. EntryLabel(c.kind) \in Labels
    BY DEF EntryLabel, Labels
  <2>4. op' \in [Thread -> Calls] /\ pc' \in [Thread -> Labels]
    BY <2>1, <2>2, <2>3 DEF Goto
  <2> QED
    BY <1>11, <2>4 DEF Call, NoInterrupt
<1>12. ASSUME NEW t \in Task, Locking(t)
       PROVE  TypeOK'
  <2>1. CASE LockLoad(t)
    BY <2>1 DEF LockLoad, NoInterrupt, Goto, Labels
  <2>2. CASE LockStore(t)
    <3>1. sched_lock' \in Nat
      BY <2>2, ThreadFacts DEF LockStore
    <3> QED
      BY <2>2, <3>1 DEF LockStore, NoInterrupt, Goto, Labels
  <2> QED
    BY <1>12, <2>1, <2>2 DEF Locking
<1>13. ASSUME NEW t \in Task, Body(t)
       PROVE  TypeOK'
  <2> DEFINE s == op[t].sem
  <2>1. ASSUME Block(t)
        PROVE  /\ tasks_ready' \in Seq(Task)
               /\ tasks_blocked' \in Seq(Task)
               /\ state' \in [Thread -> {"READY", "BLOCKED", "DEAD"}]
    BY <2>1, RemoveItemType, AddTailShape DEF Block
  <2>2. ASSUME NEW u \in Task, Unblock(u)
        PROVE  /\ tasks_ready' \in Seq(Task)
               /\ tasks_blocked' \in Seq(Task)
               /\ state' \in [Thread -> {"READY", "BLOCKED", "DEAD"}]
    BY <2>2, RemoveItemType, AddTailShape DEF Unblock
  <2>4. CASE SuspendBody(t)
    <3>1. op[t].arg \in 0..MaxSleep
      BY <2>4, CallFacts, MarvinAssumption DEF SuspendBody
    <3>2. alarms' \in Queues(Task) /\ left' \in [Task -> 0..MaxSleep]
      BY <2>4, <3>1, InsertAlarmFacts, MarvinAssumption DEF SuspendBody
    <3> QED
      BY <2>1, <2>4, <3>2 DEF SuspendBody, Goto, Labels
  <2>5. CASE DecBody(t)
    <3>1. s \in Sem
      BY <2>5, CallFacts DEF DecBody
    <3>2. count' \in [Sem -> Int]
      BY <2>5, <3>1 DEF DecBody
    <3>3. waiters' \in [Sem -> Queues(Task)]
      <4>1. QueueAddTail(waiters[s], t) \in Queues(Task)
        BY <3>1, QueueAddType
      <4> QED
        BY <2>5, <3>1, <4>1 DEF DecBody
    <3>4. /\ tasks_ready' \in Seq(Task)
          /\ tasks_blocked' \in Seq(Task)
          /\ state' \in [Thread -> {"READY", "BLOCKED", "DEAD"}]
          /\ alarms' \in Queues(Task)
      BY <2>1, <2>5 DEF DecBody
    <3> QED
      BY <2>5, <3>2, <3>3, <3>4 DEF DecBody, NoInterrupt, Goto, Labels
  <2>6. CASE TryDecBody(t)
    <3>1. s \in Sem
      BY <2>6, CallFacts DEF TryDecBody
    <3>2. count' \in [Sem -> Int]
      BY <2>6, <3>1 DEF TryDecBody
    <3> QED
      BY <2>6, <3>2 DEF TryDecBody, NoInterrupt, Goto, Labels
  <2>7. CASE IncBody(t)
    <3>1. s \in Sem
      BY <2>7, CallFacts DEF IncBody
    <3>2. count' \in [Sem -> Int]
      BY <2>7, <3>1 DEF IncBody
    <3>3. waiters' \in [Sem -> Queues(Task)]
      <4>1. QueuePopHead(waiters[s]) \in Queues(Task)
        BY <3>1, QueuePopHeadType
      <4> QED
        BY <2>7, <3>1, <4>1 DEF IncBody
    <3>4. ~IsEmptyQueue(waiters[s]) => waiters[s].items[1] \in Task
      BY <3>1 DEF IsEmptyQueue, Queues
    <3>5. /\ tasks_ready' \in Seq(Task)
          /\ tasks_blocked' \in Seq(Task)
          /\ state' \in [Thread -> {"READY", "BLOCKED", "DEAD"}]
          /\ alarms' \in Queues(Task)
      BY <2>2, <2>7, <3>4 DEF IncBody
    <3> QED
      BY <2>7, <3>2, <3>3, <3>5 DEF IncBody, NoInterrupt, Goto, Labels
  <2>8. CASE IncAbort(t)
    <3>1. s \in Sem
      BY <2>8, CallFacts DEF IncAbort
    <3>2. count' \in [Sem -> Int]
      BY <2>8, <3>1 DEF IncAbort
    <3> QED
      BY <2>8, <3>2 DEF IncAbort
  <2>9. CASE DestroyBody(t)
    <3>1. EmptyQueue \in Queues(Task) /\ s \in Sem
      BY <2>9, EmptyQueueType, CallFacts DEF DestroyBody
    <3>2. waiters' \in [Sem -> Queues(Task)] /\ count' \in [Sem -> Int]
      BY <2>9, <3>1 DEF DestroyBody
    <3> QED
      BY <2>9, <3>2 DEF DestroyBody, NoInterrupt, Goto, Labels
  <2>10. CASE PlainBody(t)
    <3>1. pc' \in [Thread -> Labels]
      BY <2>10 DEF PlainBody, Goto, Labels
    <3>2. UNCHANGED <<tickVars, cbVars, halted, listVars, semVars, op, seen, lockVars>>
      BY <2>10 DEF PlainBody, NoInterrupt
    <3> QED
      BY <3>1, <3>2
  <2>11. CASE CreateBody(t)
    <3>1. op[t].kind = "create" /\ s \in Sem /\ op[t].arg \in Nat
      BY <2>11, CallFacts DEF CreateBody, At, CallsOK
    <3>2. EmptyQueue \in Queues(Task) /\ NoCall \in Calls
      BY EmptyQueueType DEF NoCall, Calls, Kinds
    <3>3. waiters' \in [Sem -> Queues(Task)] /\ count' \in [Sem -> Int]
      BY <2>11, <3>1, <3>2 DEF CreateBody
    <3>4. created' \in SUBSET Sem
      BY <2>11, <3>1 DEF CreateBody
    <3>5. op' \in [Thread -> Calls] /\ pc' \in [Thread -> Labels]
      BY <2>11, <3>2 DEF CreateBody, Return, Goto, Labels
    <3> QED
      BY <2>11, <3>3, <3>4, <3>5 DEF CreateBody, NoInterrupt
  <2> QED
    BY <1>13, <2>4, <2>5, <2>6, <2>7, <2>8, <2>9, <2>10, <2>11 DEF Body, Inc
<1>14. ASSUME NEW t \in Task, Unlocking(t)
       PROVE  TypeOK'
  <2>1. NoCall \in Calls
    BY DEF NoCall, Calls, Kinds
  <2>2. CASE UnlockTest(t)
    BY <2>2 DEF UnlockTest, NoInterrupt, Goto, Labels
  <2>3. CASE UnlockMask(t)
    BY <2>3 DEF UnlockMask, Goto, Labels
  <2>4. CASE UnlockCommand(t)
    BY <2>4 DEF UnlockCommand, NoInterrupt, Goto, Labels
  <2>5. ASSUME pc[t] \in {"unlock_drop", "unlock_dec"}
        PROVE  sched_lock = 1
    BY <2>5, ThreadFacts DEF LockExcludes, Holds
  <2>6. CASE UnlockDrop(t)
    <3>1. sched_lock' \in Nat
      BY <2>5, <2>6 DEF UnlockDrop, At
    <3> QED
      BY <2>6, <3>1 DEF UnlockDrop, NoInterrupt, Goto, Labels
  <2>7. CASE UnlockCall(t)
    BY <2>1, <2>7 DEF UnlockCall, AfterUnlock, Return, Goto, Labels
  <2>8. CASE UnlockDec(t)
    <3>1. sched_lock' \in Nat
      BY <2>5, <2>8 DEF UnlockDec, At
    <3>2. pc' \in [Thread -> Labels] /\ op' \in [Thread -> Calls]
      BY <2>1, <2>8 DEF UnlockDec, AfterUnlock, Return, Goto, Labels
    <3> QED
      BY <2>8, <3>1, <3>2 DEF UnlockDec, NoInterrupt
  <2> QED
    BY <1>14, <2>2, <2>3, <2>4, <2>6, <2>7, <2>8 DEF Unlocking
<1>15. CASE Stopped
  BY <1>15, <1>1 DEF Stopped
<1> QED
  BY <1>1, <1>2, <1>3, <1>4, <1>5, <1>6, <1>7, <1>8, <1>9, <1>10, <1>11,
     <1>12, <1>13, <1>14, <1>15, ThreadFacts DEF Next, Handler, Kernel

---------------------------------------------------------------------------
(* Every step keeps the calls legal *)

LEMMA CallsStep == LockInv /\ [Next]_vars => CallsOK' /\ SeenOK'
<1> SUFFICES ASSUME LockInv, [Next]_vars
             PROVE  CallsOK' /\ SeenOK'
  OBVIOUS
<1> USE DEF LockInv, TypeOK, CallsOK, SeenOK, vars, tickVars, listVars,
            cbVars, semVars, threadVars, lockVars
<1>1. CASE UNCHANGED threadVars
  BY <1>1
<1>2. CASE IdleCheck
  BY <1>2, ThreadFacts DEF IdleCheck, Goto
<1>3. CASE Yielding(Idle)
  BY <1>3, ThreadFacts
     DEF Yielding, YieldMask, YieldCommand, YieldCall, NoInterrupt, Goto, At,
         NoCall
<1>4. ASSUME NEW t \in Task, Call(t)
      PROVE  CallsOK' /\ SeenOK'
  <2>1. PICK c \in Program[t] :
               op' = [op EXCEPT ![t] = c] /\ Goto(t, EntryLabel(c.kind))
    BY <1>4 DEF Call
  <2>2. EntryLabel(c.kind) = "alloc" => c.kind = "create"
    BY DEF EntryLabel
  <2> QED
    BY <1>4, <2>1, <2>2, ThreadFacts DEF Call, Goto
<1>5. ASSUME NEW t \in Task, Locking(t)
      PROVE  CallsOK' /\ SeenOK'
  <2>1. CASE LockLoad(t)
    <3>1. task_current = t /\ pc[t] = "lock" /\ ~in_cb
      BY <2>1 DEF LockLoad, At, Running
    <3>2. \A u \in Thread : ~Holds(u)
      BY <3>1 DEF LockExcludes, Holds
    <3>3. sched_lock = 0
      BY <3>1, <3>2 DEF LockExcludes
    <3> QED
      BY <2>1, <3>3, ThreadFacts DEF LockLoad, Goto
  <2>2. CASE LockStore(t)
    BY <2>2, ThreadFacts DEF LockStore, Goto
  <2> QED
    BY <1>5, <2>1, <2>2 DEF Locking
<1>6. ASSUME NEW t \in Task, Body(t)
      PROVE  CallsOK' /\ SeenOK'
  <2>1. ASSUME NEW label \in {"unlock", "mask"}, Goto(t, label),
               UNCHANGED <<op, seen>>
        PROVE  CallsOK' /\ SeenOK'
    BY <2>1, ThreadFacts DEF Goto
  <2>2. CASE CreateBody(t)
    BY <2>2, ThreadFacts DEF CreateBody, Return, Goto
  <2>3. CASE IncAbort(t)
    BY <1>1, <2>3 DEF IncAbort
  <2> QED
    BY <1>6, <2>1, <2>2, <2>3
       DEF Body, Inc, SuspendBody, DecBody, TryDecBody, IncBody, DestroyBody,
           PlainBody
<1>7. ASSUME NEW t \in Task, Unlocking(t)
      PROVE  CallsOK' /\ SeenOK'
  <2>1. UNCHANGED seen
    BY <1>7 DEF Unlocking, UnlockTest, UnlockMask, UnlockCommand, UnlockDrop,
                UnlockCall, UnlockDec
  <2>2. \/ UNCHANGED op
        \/ op' = [op EXCEPT ![t] = NoCall]
    BY <1>7 DEF Unlocking, UnlockTest, UnlockMask, UnlockCommand, UnlockDrop,
                UnlockCall, UnlockDec, AfterUnlock, Return
  <2>3. \E label \in Labels \ {"alloc"} : Goto(t, label)
    BY <1>7 DEF Unlocking, UnlockTest, UnlockMask, UnlockCommand, UnlockDrop,
                UnlockCall, UnlockDec, AfterUnlock, Return, Labels
  <2> QED
    BY <2>1, <2>2, <2>3, ThreadFacts DEF Goto
<1>8. ASSUME NEW t \in Task, Yielding(t)
      PROVE  CallsOK' /\ SeenOK'
  <2>1. UNCHANGED seen
    BY <1>8 DEF Yielding, YieldMask, YieldCommand, YieldCall
  <2>2. \/ UNCHANGED op
        \/ op' = [op EXCEPT ![t] = NoCall]
    BY <1>8 DEF Yielding, YieldMask, YieldCommand, YieldCall, Return
  <2>3. \E label \in Labels \ {"alloc"} : Goto(t, label)
    BY <1>8, ThreadFacts
       DEF Yielding, YieldMask, YieldCommand, YieldCall, Return, Labels
  <2> QED
    BY <2>1, <2>2, <2>3, ThreadFacts DEF Goto
<1>9. CASE Handler \/ Tick \/ PowerOff \/ Stopped \/ UNCHANGED vars
  BY <1>1, <1>9 DEF Handler, Tick, PowerOff, EnterLocked, EnterCommand,
                    EnterTick, WakeAlarm, Switch, Stopped
<1> QED
  BY <1>2, <1>3, <1>4, <1>5, <1>6, <1>7, <1>8, <1>9 DEF Next, Kernel

---------------------------------------------------------------------------
(* Every step keeps the lock exclusive *)

\* While the thread t runs outside of the lock, the lock is free.
LEMMA RunningUnlocked ==
    ASSUME TypeOK, LockExcludes, NEW t \in Thread, Running(t), ~Holds(t)
    PROVE  sched_lock = 0 /\ \A u \in Thread : ~Holds(u)
BY DEF LockExcludes, Running

\* A step of the running thread t that changes neither the program counters
\* nor the calls of the others.
LEMMA LockMoves ==
    ASSUME TypeOK, LockExcludes, NEW t \in Thread, Running(t),
           UNCHANGED <<task_current, in_cb>>,
           \A u \in Thread \ {t} : pc'[u] = pc[u] /\ op'[u] = op[u],
           sched_lock' = IF Holds(t)' THEN 1 ELSE 0
    PROVE  LockExcludes'
<1>1. task_current = t /\ ~in_cb
  BY DEF Running
<1>2. \A u \in Thread \ {t} : ~Holds(u)
  BY <1>1 DEF LockExcludes
<1>3. \A u \in Thread \ {t} : ~Holds(u)'
  BY <1>2 DEF Holds
<1> QED
  BY <1>1, <1>3 DEF LockExcludes

LEMMA LockStep == LockInv /\ [Next]_vars => LockExcludes'
<1> SUFFICES ASSUME LockInv, [Next]_vars
             PROVE  LockExcludes'
  OBVIOUS
<1> USE DEF LockInv, vars, tickVars, listVars, cbVars, semVars, threadVars,
            lockVars
<1>1. CASE UNCHANGED <<pc, op, task_current, in_cb, sched_lock>>
  BY <1>1 DEF LockExcludes, Holds
<1>2. CASE EnterCommand \/ EnterTick
  <2>1. /\ ~in_cb /\ sched_lock = 0
        /\ sched_lock' = 1 /\ in_cb' = TRUE
        /\ UNCHANGED <<pc, op>>
    BY <1>2 DEF EnterCommand, EnterTick, Entering, Unlocked
  <2>2. \A t \in Thread : ~Holds(t)
    BY <2>1 DEF LockExcludes
  <2> QED
    BY <2>1, <2>2 DEF LockExcludes, Holds
<1>3. CASE Switch
  <2>1. in_cb /\ sched_lock' = 0 /\ in_cb' = FALSE /\ UNCHANGED <<pc, op>>
    BY <1>3 DEF Switch
  <2>2. \A t \in Thread : ~Holds(t)
    BY <2>1 DEF LockExcludes
  <2> QED
    BY <2>1, <2>2 DEF LockExcludes, Holds
<1>4. CASE IdleCheck
  <2>1. Running(Idle) /\ ~Holds(Idle)
    BY <1>4 DEF IdleCheck, At, Holds, CallsOK, NoCall
  <2>2. ~Holds(Idle)'
    BY <1>4, ThreadFacts DEF IdleCheck, Goto, Holds, CallsOK, NoCall, TypeOK
  <2> QED
    BY <1>4, <2>1, <2>2, LockMoves, RunningUnlocked, ThreadFacts
       DEF IdleCheck, Goto, TypeOK
<1>5. ASSUME NEW t \in Thread, Yielding(t)
      PROVE  LockExcludes'
  <2>1. Running(t) /\ t \in Thread
    BY <1>5 DEF Yielding, YieldMask, YieldCommand, YieldCall, At
  <2>2. /\ Holds(t)' <=> Holds(t)
        /\ UNCHANGED <<task_current, in_cb, sched_lock>>
        /\ \A u \in Thread \ {t} : pc'[u] = pc[u] /\ op'[u] = op[u]
    <3>1. CASE YieldMask(t)
      BY <3>1 DEF YieldMask, At, Goto, Holds, TypeOK
    <3>2. CASE YieldCommand(t)
      BY <3>2 DEF YieldCommand, At, Goto, Holds, TypeOK, NoInterrupt
    <3>3. CASE YieldCall(t)
      BY <3>3 DEF YieldCall, At, Return, Goto, Holds, TypeOK
    <3> QED
      BY <1>5, <3>1, <3>2, <3>3 DEF Yielding
  <2>3. sched_lock = IF Holds(t) THEN 1 ELSE 0
    BY <2>1, RunningUnlocked DEF LockExcludes
  <2> QED
    BY <2>1, <2>2, <2>3, LockMoves
<1>6. ASSUME NEW t \in Task, Call(t)
      PROVE  LockExcludes'
  <2>1. PICK c \in Program[t] :
               op' = [op EXCEPT ![t] = c] /\ Goto(t, EntryLabel(c.kind))
    BY <1>6 DEF Call
  <2>2. Running(t) /\ ~Holds(t) /\ t \in Thread
    BY <1>6, ThreadFacts DEF Call, At, Holds
  <2>3. EntryLabel(c.kind) \in {"mask", "alloc", "lock"}
           /\ (EntryLabel(c.kind) = "mask" => c.kind \in {"yield", "exit"})
    BY DEF EntryLabel
  <2>4. ~Holds(t)'
    BY <2>1, <2>2, <2>3 DEF Goto, Holds, TypeOK
  <2> QED
    BY <1>6, <2>1, <2>2, <2>4, LockMoves, RunningUnlocked
       DEF Call, NoInterrupt, Goto, TypeOK
<1>7. ASSUME NEW t \in Task, Locking(t)
      PROVE  LockExcludes'
  <2>1. Running(t) /\ ~Holds(t) /\ t \in Thread
    BY <1>7, ThreadFacts DEF Locking, LockLoad, LockStore, At, Holds
  <2>2. CASE LockLoad(t)
    <3>1. ~Holds(t)'
      BY <2>1, <2>2 DEF LockLoad, At, Goto, Holds, TypeOK
    <3> QED
      BY <2>1, <2>2, <3>1, LockMoves, RunningUnlocked
         DEF LockLoad, NoInterrupt, Goto, TypeOK
  <2>3. CASE LockStore(t)
    <3>1. Holds(t)'
      BY <2>1, <2>3 DEF LockStore, Goto, Holds, TypeOK
    <3>2. sched_lock' = 1
      BY <2>1, <2>3 DEF LockStore, SeenOK
    <3> QED
      BY <2>1, <2>3, <3>1, <3>2, LockMoves
         DEF LockStore, NoInterrupt, Goto, TypeOK
  <2> QED
    BY <1>7, <2>2, <2>3 DEF Locking
<1>8. ASSUME NEW t \in Task, Body(t)
      PROVE  LockExcludes'
  <2>1. Running(t) /\ t \in Thread
    BY <1>8, ThreadFacts
       DEF Body, Inc, SuspendBody, DecBody, TryDecBody, IncBody, IncAbort,
           DestroyBody, PlainBody, CreateBody, At
  <2>2. CASE IncAbort(t)
    BY <1>1, <2>2 DEF IncAbort
  <2>3. CASE CreateBody(t)
    <3>1. ~Holds(t) /\ ~Holds(t)'
      BY <2>1, <2>3
         DEF CreateBody, At, Return, Goto, Holds, TypeOK, CallsOK
    <3> QED
      BY <2>1, <2>3, <3>1, LockMoves, RunningUnlocked
         DEF CreateBody, NoInterrupt, Return, Goto, TypeOK
  <2>4. CASE SuspendBody(t) \/ DecBody(t) \/ TryDecBody(t) \/ IncBody(t)
               \/ DestroyBody(t)
    <3>1. /\ pc[t] = "body" /\ Goto(t, "unlock")
          /\ UNCHANGED <<op, task_current, in_cb, sched_lock>>
      BY <2>4 DEF SuspendBody, DecBody, TryDecBody, IncBody, DestroyBody,
                  NoInterrupt, At
    <3>2. Holds(t) /\ Holds(t)'
      BY <2>1, <3>1 DEF Goto, Holds, TypeOK
    <3>3. sched_lock = 1
      BY <2>1, <3>2 DEF LockExcludes
    <3> QED
      BY <2>1, <3>1, <3>2, <3>3, LockMoves DEF Goto, TypeOK
  <2>5. CASE PlainBody(t)
    <3>1. /\ pc[t] = "body"
          /\ UNCHANGED <<op, task_current, in_cb, sched_lock>>
      BY <2>5 DEF PlainBody, NoInterrupt, At
    <3>2. Holds(t) /\ Holds(t)'
      BY <2>1, <2>5, <3>1 DEF PlainBody, Goto, Holds, TypeOK
    <3>3. sched_lock = 1
      BY <2>1, <3>2 DEF LockExcludes
    <3> QED
      BY <2>1, <2>5, <3>1, <3>2, <3>3, LockMoves DEF PlainBody, Goto, TypeOK
  <2> QED
    BY <1>8, <2>2, <2>3, <2>4, <2>5 DEF Body, Inc
<1>9. ASSUME NEW t \in Task, Unlocking(t)
      PROVE  LockExcludes'
  <2>1. Running(t) /\ t \in Thread
    BY <1>9, ThreadFacts
       DEF Unlocking, UnlockTest, UnlockMask, UnlockCommand, UnlockDrop,
           UnlockCall, UnlockDec, At
  <2>2. /\ UNCHANGED <<task_current, in_cb>>
        /\ \A u \in Thread \ {t} : pc'[u] = pc[u] /\ op'[u] = op[u]
    BY <1>9
       DEF Unlocking, UnlockTest, UnlockMask, UnlockCommand, UnlockDrop,
           UnlockCall, UnlockDec, AfterUnlock, Return, Goto, NoInterrupt,
           TypeOK
  <2>3. CASE UnlockCall(t)
    <3>1. ~Holds(t) /\ ~Holds(t)'
      BY <2>1, <2>3
         DEF UnlockCall, At, AfterUnlock, Return, Goto, Holds, TypeOK
    <3> QED
      BY <2>1, <2>2, <2>3, <3>1, LockMoves, RunningUnlocked DEF UnlockCall
  <2>4. CASE UnlockDrop(t) \/ UnlockDec(t)
    <3>1. Holds(t) /\ ~Holds(t)'
      BY <2>1, <2>4
         DEF UnlockDrop, UnlockDec, At, AfterUnlock, Return, Goto, Holds,
             TypeOK
    <3>2. sched_lock = 1
      BY <2>1, <3>1 DEF LockExcludes
    <3>3. sched_lock' = 0
      BY <2>4, <3>2 DEF UnlockDrop, UnlockDec
    <3> QED
      BY <2>1, <2>2, <3>1, <3>3, LockMoves
  <2>5. CASE UnlockTest(t) \/ UnlockMask(t) \/ UnlockCommand(t)
    <3>1. Holds(t) /\ Holds(t)' /\ UNCHANGED sched_lock
      BY <2>1, <2>5
         DEF UnlockTest, UnlockMask, UnlockCommand, At, Goto, Holds, TypeOK
    <3>2. sched_lock = 1
      BY <2>1, <3>1 DEF LockExcludes
    <3> QED
      BY <2>1, <2>2, <3>1, <3>2, LockMoves
  <2> QED
    BY <1>9, <2>3, <2>4, <2>5 DEF Unlocking
<1>10. CASE Tick \/ PowerOff \/ EnterLocked \/ WakeAlarm \/ Stopped
               \/ UNCHANGED vars
  BY <1>1, <1>10 DEF Tick, PowerOff, EnterLocked, WakeAlarm, Stopped
<1> QED
  BY <1>2, <1>3, <1>4, <1>5, <1>6, <1>7, <1>8, <1>9, <1>10, ThreadFacts
     DEF Next, Handler, Kernel

LEMMA LockInvariant == Spec => []LockInv
<1>1. LockInv /\ [Next]_vars => LockInv'
  BY TypeStep, CallsStep, LockStep DEF LockInv
<1> QED
  BY InitLockInv, <1>1, PTL DEF Spec

\* The data of the kernel keep their types, whatever the interleaving of the
\* interrupts with the code that manipulates them.
THEOREM TypeCorrect == Spec => []TypeOK
<1>1. LockInv => TypeOK
  BY DEF LockInv
<1> QED
  BY LockInvariant, <1>1, PTL

\* The scheduler lock is a lock, although it is a plain counter.
THEOREM LockIsExclusive == Spec => []LockExcludes
<1>1. LockInv => LockExcludes
  BY DEF LockInv
<1> QED
  BY LockInvariant, <1>1, PTL

---------------------------------------------------------------------------
(***************************************************************************)
(* Who may run, where each task is linked, and when the tick's request is  *)
(* masked.                                                                 *)
(***************************************************************************)

---------------------------------------------------------------------------
(* The inductive invariant *)

\* What the thread that has the CPU has asked of scheduler_cb, at each place
\* of mv_scheduler_unlock, mv_scheduler_yield and task_shutdown.
CommandOK ==
    /\ task_current = NULL => in_cb /\ need
    /\ task_command # "NONE" => ~in_cb
    /\ task_command = "DIE" =>
           /\ task_current \in Task
           /\ pc[task_current] \in {"call", "dead"}
           /\ pc[task_current] = "call" => op[task_current].kind = "exit"
    /\ \A t \in Thread : t = task_current =>
           /\ pc[t] = "unlock_cmd" => inhibit
           /\ pc[t] = "unlock_drop" => inhibit /\ task_command # "NONE"
           /\ op[t].kind = "yield_unlock" =>
                  /\ pc[t] = "cmd" => inhibit
                  /\ pc[t] \in {"unlock", "unlock_mask", "unlock_cmd",
                                "unlock_dec"}
                         => inhibit /\ task_command # "NONE"
           /\ inhibit /\ pc[t] \in {"unlock_call", "call"}
                  => task_command # "NONE"
           /\ inhibit /\ pc[t] = "cmd" /\ sched_lock = 0 => ~pending

\* Where a task that is not ready can be.
StateOK ==
    /\ state[Idle] = "READY"
    /\ \A t \in Thread : t = task_current => state[t] # "DEAD"
    /\ \A t \in Task : state[t] = "BLOCKED" =>
           /\ pc[t] \in {"unlock", "unlock_mask", "unlock_cmd", "unlock_drop",
                         "unlock_call", "run"}
           /\ op[t].kind \in {"sleep", "dec"}

\* A blocked thread that has the CPU is about to lose it.
LeavingOK ==
    \A t \in Thread : t = task_current /\ state[t] = "BLOCKED" =>
        \/ Holds(t)
        \/ task_command # "NONE" /\ (pc[t] = "unlock_call" \/ pending)
        \/ in_cb /\ need

\* Whoever hangs on the calendar or on a semaphore is blocked there.
QueuesOK ==
    /\ Items(alarms.items) \subseteq Sleeping
    /\ Distinct(alarms.items)
    /\ \A s \in Sem :
           /\ Items(waiters[s].items) \subseteq Waiting(s)
           /\ Distinct(waiters[s].items)

StateInv ==
    /\ LockInv
    /\ CommandOK
    /\ MaskIsReleased
    /\ StateOK
    /\ LeavingOK
    /\ ListsPartition
    /\ QueuesOK

---------------------------------------------------------------------------
(* What a thread that runs can rely on *)

LEMMA RunningFacts ==
    ASSUME StateInv, NEW t \in Thread, Running(t)
    PROVE  /\ task_current = t /\ ~in_cb /\ ~pending
           /\ state[t] # "DEAD"
           /\ ~Holds(t) => sched_lock = 0 /\ \A u \in Thread : ~Holds(u)
           /\ Holds(t) => sched_lock = 1
           /\ ~Holds(t) /\ pc[t] # "unlock_call" => state[t] = "READY"
           /\ ~Masking(t) => ~inhibit
<1>1. task_current = t /\ ~in_cb /\ ~pending
  BY DEF Running
<1>2. state[t] # "DEAD"
  BY <1>1 DEF StateInv, StateOK
<1>3. /\ ~Holds(t) => sched_lock = 0 /\ \A u \in Thread : ~Holds(u)
      /\ Holds(t) => sched_lock = 1
  BY <1>1 DEF StateInv, LockInv, LockExcludes
<1>4. ~Holds(t) /\ pc[t] # "unlock_call" => state[t] = "READY"
  BY <1>1, <1>2 DEF StateInv, LeavingOK, LockInv, TypeOK
<1>5. ~Masking(t) => ~inhibit
  BY <1>1 DEF StateInv, MaskIsReleased
<1> QED
  BY <1>1, <1>2, <1>3, <1>4, <1>5

\* mv__scheduler_task_block moves a ready task from one ring to the other.
LEMMA BlockFacts ==
    ASSUME TypeOK, ListsPartition, NEW t \in Task, state[t] = "READY", Block(t)
    PROVE  ListsPartition'
<1>1. /\ t \in Items(tasks_ready) /\ t \notin Items(tasks_blocked)
      /\ Distinct(tasks_ready) /\ Distinct(tasks_blocked)
      /\ tasks_ready \in Seq(Task) /\ tasks_blocked \in Seq(Task)
  BY DEF ListsPartition, TypeOK
<1>2. /\ Items(tasks_ready') = Items(tasks_ready) \ {t}
      /\ Distinct(tasks_ready')
  BY <1>1, RemoveItemItems, RemoveItemDistinct DEF Block
<1>3. /\ Items(tasks_blocked') = Items(tasks_blocked) \cup {t}
      /\ Distinct(tasks_blocked')
  BY <1>1, AddTailItems, AddTailDistinct DEF Block
<1>4. state' = [state EXCEPT ![t] = "BLOCKED"]
  BY DEF Block
<1> QED
  BY <1>2, <1>3, <1>4, ThreadFacts DEF ListsPartition, TypeOK

\* mv__scheduler_task_unblock moves a blocked task back.
LEMMA UnblockFacts ==
    ASSUME TypeOK, ListsPartition, NEW t \in Task, state[t] = "BLOCKED",
           Unblock(t)
    PROVE  ListsPartition'
<1>1. /\ t \in Items(tasks_blocked) /\ t \notin Items(tasks_ready)
      /\ Distinct(tasks_ready) /\ Distinct(tasks_blocked)
      /\ tasks_ready \in Seq(Task) /\ tasks_blocked \in Seq(Task)
  BY DEF ListsPartition, TypeOK
<1>2. /\ Items(tasks_blocked') = Items(tasks_blocked) \ {t}
      /\ Distinct(tasks_blocked')
  BY <1>1, RemoveItemItems, RemoveItemDistinct DEF Unblock
<1>3. /\ Items(tasks_ready') = Items(tasks_ready) \cup {t}
      /\ Distinct(tasks_ready')
  BY <1>1, AddTailItems, AddTailDistinct DEF Unblock
<1>4. state' = [state EXCEPT ![t] = "READY"]
  BY DEF Unblock
<1> QED
  BY <1>2, <1>3, <1>4, ThreadFacts DEF ListsPartition, TypeOK

\* The head of a queue that is not empty is one of its items.
LEMMA HeadIsItem ==
    ASSUME NEW S, NEW q \in Queues(S), ~IsEmptyQueue(q)
    PROVE  q.items[1] \in Items(q.items) /\ q.items[1] \in S
<1>1. q.items \in Seq(S) /\ q.items # <<>>
  BY DEF Queues, IsEmptyQueue
<1>2. 1 \in 1..Len(q.items)
  BY <1>1
<1> QED
  BY <1>1, <1>2 DEF Items

\* The tasks that main() creates are all in the ring, once.
LEMMA BootRingFacts == Distinct(BootRing) /\ Items(BootRing) = Task
<1> DEFINE n == Len(Created)
           from(i) == IF i = 1 THEN 1 ELSE n + 2 - i
<1>1. /\ n \in Nat /\ Created \in [1..n -> Task] /\ n >= 1
      /\ \A i, j \in 1..n : Created[i] = Created[j] => i = j
      /\ Items(Created) = Task
  BY CreatedAssumption DEF Distinct
<1>2. Len(BootRing) = n /\ \A i \in 1..n : BootRing[i] = Created[from(i)]
  BY <1>1 DEF BootRing
<1> HIDE DEF n
<1>3. \A i \in 1..n : from(i) \in 1..n /\ from(from(i)) = i
  BY <1>1
<1> HIDE DEF from
<1>4. Distinct(BootRing)
  BY <1>1, <1>2, <1>3 DEF Distinct
<1>5. \A i \in 1..n : Created[i] = BootRing[from(i)]
  BY <1>1, <1>2, <1>3
<1>6. Items(BootRing) = Items(Created)
  <2>1. Items(BootRing) \subseteq Items(Created)
    BY <1>2, <1>3 DEF Items, n
  <2>2. Items(Created) \subseteq Items(BootRing)
    BY <1>2, <1>3, <1>5 DEF Items, n
  <2> QED
    BY <2>1, <2>2
<1> QED
  BY <1>1, <1>4, <1>6

---------------------------------------------------------------------------
(* CommandOK *)

LEMMA CommandStep == StateInv /\ [Next]_vars => CommandOK'
<1> SUFFICES ASSUME StateInv, [Next]_vars
             PROVE  CommandOK'
  OBVIOUS
<1> USE DEF StateInv, LockInv, vars, tickVars, listVars, cbVars, semVars,
            threadVars, lockVars
<1>1. CASE UNCHANGED <<pc, op, lockVars, cbVars, inhibit, pending>>
  BY <1>1 DEF CommandOK
<1>2. CASE Tick \/ EnterLocked
  <2>1. /\ UNCHANGED <<pc, op, lockVars, cbVars, inhibit>>
        /\ inhibit /\ ~pending => ~pending'
    BY <1>2 DEF Tick, EnterLocked, TypeOK
  <2> QED
    BY <2>1 DEF CommandOK
<1>3. CASE EnterCommand
  <2>1. /\ in_cb' /\ need' /\ task_command' = "NONE" /\ ~inhibit'
        /\ task_current' \in {task_current, NULL}
        /\ UNCHANGED <<pc, op>>
    BY <1>3 DEF EnterCommand
  <2>2. \A t \in Thread : ~Holds(t)
    BY <1>3 DEF EnterCommand, Entering, Unlocked, LockExcludes
  <2> QED
    BY <2>1, <2>2 DEF CommandOK, Holds
<1>4. CASE EnterTick
  <2>1. /\ in_cb' /\ task_command = "NONE" /\ ~pending'
        /\ UNCHANGED <<pc, op, inhibit, task_command, task_current>>
    BY <1>4 DEF EnterTick
  <2>2. task_current # NULL
    BY <1>4 DEF EnterTick, Entering, CommandOK
  <2> QED
    BY <2>1, <2>2 DEF CommandOK
<1>5. CASE WakeAlarm
  BY <1>1, <1>5 DEF WakeAlarm
<1>6. CASE Switch
  <2>1. in_cb /\ ~in_cb' /\ UNCHANGED <<pc, op, inhibit, task_command>>
    BY <1>6 DEF Switch
  <2>2. ~inhibit /\ task_command = "NONE" /\ \A t \in Thread : ~Holds(t)
    BY <2>1 DEF MaskIsReleased, CommandOK, LockExcludes
  <2>3. task_current' # NULL
    BY <1>6, ThreadFacts DEF Switch, CommandOK, TypeOK
  <2> QED
    BY <2>1, <2>2, <2>3 DEF CommandOK, Holds
<1>7. CASE IdleCheck
  <2>1. /\ pc[Idle] = "check" /\ task_current = Idle
        /\ pc'[Idle] \in {"check", "mask"}
        /\ UNCHANGED <<op, lockVars, cbVars, inhibit, pending>>
    BY <1>7, ThreadFacts DEF IdleCheck, At, Running, Goto, TypeOK
  <2> QED
    BY <2>1, ThreadFacts DEF CommandOK
<1>8. ASSUME NEW t \in Thread, Yielding(t)
      PROVE  CommandOK'
  <2>1. Running(t)
    BY <1>8 DEF Yielding, YieldMask, YieldCommand, YieldCall, At
  <2>2. task_current = t /\ ~in_cb /\ ~pending /\ t # NULL
    BY <2>1, RunningFacts, ThreadFacts DEF Thread
  <2>3. UNCHANGED <<task_current, in_cb, need>>
    BY <1>8 DEF Yielding, YieldMask, YieldCommand, YieldCall, NoInterrupt
  <2>4. CASE YieldMask(t)
    BY <2>2, <2>3, <2>4 DEF YieldMask, At, Goto, CommandOK, TypeOK
  <2>5. CASE YieldCommand(t)
    <3>1. op[t].kind = "exit" => t \in Task
      BY DEF CallsOK, NoCall, Thread
    <3>2. op[t].kind = "yield_unlock" => inhibit
      BY <2>2, <2>5 DEF YieldCommand, At, CommandOK
    <3> QED
      BY <2>2, <2>3, <2>5, <3>1, <3>2
         DEF YieldCommand, At, Goto, NoInterrupt, CommandOK, TypeOK
  <2>6. CASE YieldCall(t)
    BY <2>2, <2>3, <2>6, ThreadFacts
       DEF YieldCall, At, Goto, Return, CommandOK, TypeOK
  <2> QED
    BY <1>8, <2>4, <2>5, <2>6 DEF Yielding
<1>9. ASSUME NEW t \in Task, NEW label \in Labels, NEW from \in Labels,
             Running(t), pc[t] = from, from \notin {"call", "dead"},
             label \in {"run", "mask", "alloc", "lock", "lock_store", "body"},
             Goto(t, label),
             UNCHANGED <<task_current, task_command, cbVars, inhibit>>
      PROVE  CommandOK'
  <2>1. task_current = t /\ ~in_cb /\ t \in Thread /\ t # NULL
    BY <1>9, ThreadFacts DEF Running
  <2>2. pc'[t] = label /\ task_command # "DIE"
    BY <1>9, <2>1 DEF Goto, TypeOK, CommandOK
  <2> QED
    BY <1>9, <2>1, <2>2 DEF CommandOK
<1>10. ASSUME NEW t \in Task, Call(t)
       PROVE  CommandOK'
  <2>1. PICK c \in Program[t] : Goto(t, EntryLabel(c.kind))
    BY <1>10 DEF Call
  <2>2. EntryLabel(c.kind) \in {"mask", "alloc", "lock"}
    BY DEF EntryLabel
  <2> QED
    BY <1>9, <1>10, <2>1, <2>2 DEF Call, At, NoInterrupt, Labels
<1>11. ASSUME NEW t \in Task, Locking(t)
       PROVE  CommandOK'
  BY <1>9, <1>11 DEF Locking, LockLoad, LockStore, At, NoInterrupt, Labels
<1>12. ASSUME NEW t \in Task, Body(t)
       PROVE  CommandOK'
  <2>1. CASE IncAbort(t)
    BY <1>1, <2>1 DEF IncAbort
  <2>2. CASE CreateBody(t)
    BY <1>9, <2>2 DEF CreateBody, Return, At, NoInterrupt, Labels
  <2>3. CASE PlainBody(t) /\ Goto(t, "mask")
    BY <1>9, <2>3 DEF PlainBody, At, NoInterrupt, Labels
  <2>4. ASSUME Running(t), pc[t] = "body", op[t].kind # "yield_unlock",
               Goto(t, "unlock"), UNCHANGED op,
               UNCHANGED <<lockVars, cbVars, inhibit>>
        PROVE  CommandOK'
    <3>1. task_current = t /\ ~in_cb /\ t \in Thread /\ t # NULL
      BY <2>4, ThreadFacts DEF Running
    <3>2. pc'[t] = "unlock" /\ task_command # "DIE"
      BY <2>4, <3>1 DEF Goto, TypeOK, CommandOK
    <3> QED
      BY <2>4, <3>1, <3>2 DEF CommandOK
  <2> QED
    BY <1>12, <2>1, <2>2, <2>3, <2>4
       DEF Body, Inc, SuspendBody, DecBody, TryDecBody, IncBody, DestroyBody,
           PlainBody, At, NoInterrupt
<1>13. ASSUME NEW t \in Task, Unlocking(t)
       PROVE  CommandOK'
  <2>1. Running(t) /\ t \in Thread
    BY <1>13, ThreadFacts
       DEF Unlocking, UnlockTest, UnlockMask, UnlockCommand, UnlockDrop,
           UnlockCall, UnlockDec, At
  <2>2. task_current = t /\ ~in_cb /\ ~pending /\ t # NULL
    BY <2>1, RunningFacts, ThreadFacts DEF Thread
  <2>3. UNCHANGED <<task_current, in_cb, need>>
    BY <1>13
       DEF Unlocking, UnlockTest, UnlockMask, UnlockCommand, UnlockDrop,
           UnlockCall, UnlockDec, NoInterrupt
  <2>4. CASE UnlockTest(t)
    BY <2>1, <2>2, <2>3, <2>4
       DEF UnlockTest, At, Goto, NoInterrupt, CommandOK, TypeOK
  <2>5. CASE UnlockMask(t)
    BY <2>1, <2>2, <2>3, <2>5 DEF UnlockMask, At, Goto, CommandOK, TypeOK
  <2>6. CASE UnlockCommand(t)
    BY <2>1, <2>2, <2>3, <2>6
       DEF UnlockCommand, At, Goto, NoInterrupt, CommandOK, TypeOK
  <2>7. CASE UnlockDrop(t)
    BY <2>1, <2>2, <2>3, <2>7
       DEF UnlockDrop, At, Goto, NoInterrupt, CommandOK, TypeOK
  <2>8. CASE UnlockCall(t)
    BY <2>1, <2>2, <2>3, <2>8
       DEF UnlockCall, At, AfterUnlock, Return, Goto, CommandOK, TypeOK
  <2>9. CASE UnlockDec(t)
    BY <2>1, <2>2, <2>3, <2>9
       DEF UnlockDec, At, AfterUnlock, Return, Goto, NoInterrupt, CommandOK,
           TypeOK
  <2> QED
    BY <1>13, <2>4, <2>5, <2>6, <2>7, <2>8, <2>9 DEF Unlocking
<1>14. CASE PowerOff \/ Stopped \/ UNCHANGED vars
  BY <1>1, <1>14 DEF PowerOff, Stopped
<1> QED
  BY <1>2, <1>3, <1>4, <1>5, <1>6, <1>7, <1>8, <1>10, <1>11, <1>12, <1>13,
     <1>14, ThreadFacts DEF Next, Handler, Kernel

---------------------------------------------------------------------------
(* MaskIsReleased *)

LEMMA MaskStep == StateInv /\ [Next]_vars => MaskIsReleased'
<1> SUFFICES ASSUME StateInv, [Next]_vars
             PROVE  MaskIsReleased'
  OBVIOUS
<1> USE DEF StateInv, LockInv, vars, tickVars, listVars, cbVars, semVars,
            threadVars, lockVars
<1>1. CASE UNCHANGED <<pc, op, lockVars, in_cb, inhibit, pending>>
  BY <1>1 DEF MaskIsReleased, Masking
<1>2. CASE Tick
  <2>1. UNCHANGED <<pc, op, lockVars, in_cb, inhibit>> /\ (pending => pending')
    BY <1>2 DEF Tick
  <2> QED
    BY <2>1 DEF MaskIsReleased, Masking
<1>3. CASE EnterLocked
  <2>1. UNCHANGED <<pc, op, lockVars, in_cb, inhibit>> /\ sched_lock # 0
    BY <1>3 DEF EnterLocked, Unlocked
  <2> QED
    BY <2>1 DEF MaskIsReleased, Masking
<1>4. CASE EnterCommand
  BY <1>4 DEF EnterCommand, MaskIsReleased
<1>5. CASE EnterTick
  <2>1. /\ sched_lock = 0 /\ ~in_cb /\ task_command = "NONE" /\ pending
        /\ UNCHANGED inhibit
    BY <1>5 DEF EnterTick, Entering, Unlocked
  <2>2. ASSUME inhibit
        PROVE  FALSE
    <3>1. task_current \in Thread /\ Masking(task_current)
      BY <2>1, <2>2 DEF MaskIsReleased
    <3>2. ~Holds(task_current)
      BY <2>1, <3>1 DEF LockExcludes
    <3>3. pc[task_current] \in {"unlock_call", "cmd", "call"}
      BY <3>1, <3>2 DEF Masking, Holds
    <3> QED
      BY <2>1, <2>2, <3>1, <3>3 DEF CommandOK
  <2> QED
    BY <2>1, <2>2 DEF MaskIsReleased
<1>6. CASE Switch
  <2>1. ~inhibit /\ UNCHANGED inhibit
    BY <1>6 DEF Switch, MaskIsReleased
  <2> QED
    BY <2>1 DEF MaskIsReleased
<1>7. ASSUME NEW t \in Thread, Running(t), inhibit', UNCHANGED in_cb,
             UNCHANGED task_current, Masking(t)'
      PROVE  MaskIsReleased'
  BY <1>7 DEF Running, MaskIsReleased
<1>8. ASSUME NEW t \in Thread, Running(t), ~Masking(t), UNCHANGED inhibit
      PROVE  MaskIsReleased'
  BY <1>8, RunningFacts DEF MaskIsReleased
<1>9. CASE IdleCheck
  <2>1. Running(Idle) /\ ~Masking(Idle) /\ UNCHANGED inhibit
    BY <1>9 DEF IdleCheck, At, Masking, CallsOK, NoCall
  <2> QED
    BY <1>8, <2>1, ThreadFacts
<1>10. ASSUME NEW t \in Thread, Running(t), pc[t] \in {"call", "unlock_call"},
              pending', UNCHANGED <<lockVars, in_cb, inhibit>>
       PROVE  MaskIsReleased'
  <2>1. task_current = t /\ ~in_cb /\ ~Holds(t)
    BY <1>10 DEF Running, Holds
  <2>2. sched_lock = 0
    BY <1>10, <2>1, RunningFacts
  <2>3. inhibit => task_command # "NONE"
    BY <1>10, <2>1 DEF CommandOK
  <2> QED
    BY <1>10, <2>1, <2>2, <2>3 DEF MaskIsReleased
<1>11. ASSUME NEW t \in Thread, Yielding(t)
       PROVE  MaskIsReleased'
  <2>1. CASE YieldMask(t)
    <3>1. Running(t) /\ inhibit' /\ UNCHANGED <<in_cb, task_current>>
      BY <2>1 DEF YieldMask, At
    <3>2. Masking(t)'
      BY <2>1 DEF YieldMask, Goto, Masking, TypeOK
    <3> QED
      BY <1>7, <3>1, <3>2
  <2>2. CASE YieldCommand(t)
    <3>1. Running(t) /\ UNCHANGED <<in_cb, task_current, inhibit>>
      BY <2>2 DEF YieldCommand, At, NoInterrupt
    <3>2. Masking(t)'
      BY <2>2 DEF YieldCommand, Goto, Masking, TypeOK
    <3>3. CASE inhibit
      BY <1>7, <3>1, <3>2, <3>3
    <3>4. CASE ~inhibit
      BY <3>1, <3>4 DEF MaskIsReleased
    <3> QED
      BY <3>3, <3>4
  <2>3. CASE YieldCall(t)
    BY <1>10, <2>3 DEF YieldCall, At
  <2> QED
    BY <1>11, <2>1, <2>2, <2>3 DEF Yielding
<1>12. ASSUME NEW t \in Task, Call(t) \/ Locking(t) \/ Body(t)
       PROVE  MaskIsReleased'
  <2>1. /\ Running(t) /\ UNCHANGED inhibit
        /\ pc[t] \in {"run", "lock", "lock_store", "body", "alloc"}
    BY <1>12
       DEF Call, Locking, LockLoad, LockStore, Body, Inc, SuspendBody, DecBody,
           TryDecBody, IncBody, IncAbort, DestroyBody, PlainBody, CreateBody,
           At, NoInterrupt
  <2> QED
    BY <1>8, <2>1, ThreadFacts DEF Masking
<1>13. ASSUME NEW t \in Task, Unlocking(t)
       PROVE  MaskIsReleased'
  <2>1. /\ Running(t) /\ t \in Thread
        /\ UNCHANGED <<in_cb, task_current>>
    BY <1>13, ThreadFacts
       DEF Unlocking, UnlockTest, UnlockMask, UnlockCommand, UnlockDrop,
           UnlockCall, UnlockDec, At, NoInterrupt
  <2>2. ASSUME UNCHANGED inhibit, Masking(t) => Masking(t)'
        PROVE  MaskIsReleased'
    <3>1. CASE inhibit
      BY <1>7, <2>1, <2>2, <3>1, RunningFacts
    <3>2. CASE ~inhibit
      BY <2>2, <3>2 DEF MaskIsReleased
    <3> QED
      BY <3>1, <3>2
  <2>3. CASE UnlockTest(t)
    BY <2>1, <2>2, <2>3
       DEF UnlockTest, At, Goto, NoInterrupt, Masking, TypeOK
  <2>4. CASE UnlockMask(t)
    <3>1. Masking(t)'
      BY <2>1, <2>4 DEF UnlockMask, Goto, Masking, TypeOK
    <3> QED
      BY <1>7, <2>1, <2>4, <3>1 DEF UnlockMask
  <2>5. CASE UnlockCommand(t) \/ UnlockDrop(t)
    BY <2>1, <2>2, <2>5
       DEF UnlockCommand, UnlockDrop, Goto, NoInterrupt, Masking, TypeOK
  <2>6. CASE UnlockCall(t)
    BY <1>10, <2>1, <2>6 DEF UnlockCall, At
  <2>7. CASE UnlockDec(t)
    BY <2>1, <2>2, <2>7
       DEF UnlockDec, At, AfterUnlock, Return, Goto, NoInterrupt, Masking,
           TypeOK
  <2> QED
    BY <1>13, <2>3, <2>4, <2>5, <2>6, <2>7 DEF Unlocking
<1>14. CASE WakeAlarm \/ PowerOff \/ Stopped \/ UNCHANGED vars
  BY <1>1, <1>14 DEF WakeAlarm, PowerOff, Stopped
<1> QED
  BY <1>2, <1>3, <1>4, <1>5, <1>6, <1>9, <1>11, <1>12, <1>13, <1>14,
     ThreadFacts DEF Next, Handler, Kernel

---------------------------------------------------------------------------
(* StateOK *)

LEMMA StateStep == StateInv /\ [Next]_vars => StateOK'
<1> SUFFICES ASSUME StateInv, [Next]_vars
             PROVE  StateOK'
  OBVIOUS
<1> USE DEF StateInv, LockInv, vars, tickVars, listVars, cbVars, semVars,
            threadVars, lockVars
<1>1. CASE UNCHANGED <<pc, op, state, task_current>>
  BY <1>1 DEF StateOK
<1>2. CASE EnterCommand
  <2>1. UNCHANGED <<pc, op>>
    BY <1>2 DEF EnterCommand
  <2>2. CASE task_command = "DIE"
    <3>1. task_current' = NULL /\ state' = [state EXCEPT ![task_current] = "DEAD"]
      BY <1>2, <2>2 DEF EnterCommand
    <3>2. task_current # Idle
      BY <2>2, ThreadFacts DEF CommandOK
    <3> QED
      BY <2>1, <3>1, <3>2, ThreadFacts, MarvinAssumption DEF StateOK, TypeOK
  <2>3. CASE task_command # "DIE"
    BY <1>1, <1>2, <2>1, <2>3 DEF EnterCommand
  <2> QED
    BY <2>2, <2>3
<1>3. ASSUME NEW u \in Task, Unblock(u), UNCHANGED task_current,
             \A t \in Task : state[t] = "BLOCKED" =>
                 op'[t] = op[t] /\ pc'[t] = pc[t]
      PROVE  StateOK'
  <2>1. state' = [state EXCEPT ![u] = "READY"]
    BY <1>3 DEF Unblock
  <2>2. \A t \in Thread : state'[t] = state[t] \/ state'[t] = "READY"
    BY <2>1 DEF TypeOK
  <2>3. state'[Idle] = "READY"
    BY <2>2, ThreadFacts DEF StateOK
  <2>4. \A t \in Thread : t = task_current' => state'[t] # "DEAD"
    BY <1>3, <2>2 DEF StateOK
  <2>5. \A t \in Task : state'[t] = "BLOCKED" => state[t] = "BLOCKED"
    BY <2>2, ThreadFacts
  <2> QED
    BY <1>3, <2>3, <2>4, <2>5 DEF StateOK
<1>4. CASE WakeAlarm
  <2>1. alarms.items[1] \in Task /\ Unblock(alarms.items[1])
    BY <1>4, HeadIsItem DEF WakeAlarm, HeadDue, TypeOK
  <2> QED
    BY <1>3, <1>4, <2>1 DEF WakeAlarm
<1>5. CASE Switch
  <2>1. UNCHANGED <<pc, op, state>>
    BY <1>5 DEF Switch
  <2>2. \/ task_current' \in {task_current, Idle}
        \/ tasks_ready # <<>> /\ task_current' = tasks_ready[1]
    BY <1>5 DEF Switch
  <2>3. tasks_ready # <<>> => state[tasks_ready[1]] = "READY"
    <3>1. tasks_ready # <<>> => 1 \in 1..Len(tasks_ready)
      BY DEF TypeOK
    <3> QED
      BY <3>1 DEF ListsPartition, Items
  <2> QED
    BY <2>1, <2>2, <2>3 DEF StateOK
<1>6. ASSUME NEW t \in Thread, Running(t), ~Holds(t), pc[t] # "unlock_call",
             UNCHANGED <<state, task_current>>,
             \A u \in Thread \ {t} : pc'[u] = pc[u] /\ op'[u] = op[u]
      PROVE  StateOK'
  <2>1. state[t] = "READY"
    BY <1>6, RunningFacts
  <2> QED
    BY <1>6, <2>1, ThreadFacts DEF StateOK
<1>7. CASE IdleCheck
  <2>1. Running(Idle) /\ ~Holds(Idle) /\ pc[Idle] # "unlock_call"
    BY <1>7 DEF IdleCheck, At, Holds, CallsOK, NoCall
  <2> QED
    BY <1>6, <1>7, <2>1, ThreadFacts DEF IdleCheck, Goto, TypeOK
<1>8. ASSUME NEW t \in Thread, Yielding(t)
      PROVE  StateOK'
  <2>1. /\ Running(t) /\ pc[t] \in {"mask", "cmd", "call"}
        /\ UNCHANGED <<state, task_current>>
        /\ \A u \in Thread \ {t} : pc'[u] = pc[u] /\ op'[u] = op[u]
    BY <1>8 DEF Yielding, YieldMask, YieldCommand, YieldCall, At, Goto, Return,
                TypeOK
  <2>2. state[t] # "BLOCKED"
    BY <2>1 DEF StateOK, Thread
  <2> QED
    BY <2>1, <2>2, ThreadFacts DEF StateOK
<1>9. ASSUME NEW t \in Task, Call(t) \/ Locking(t) \/ CreateBody(t)
      PROVE  StateOK'
  <2>1. /\ Running(t) /\ ~Holds(t) /\ pc[t] # "unlock_call" /\ t \in Thread
        /\ UNCHANGED <<state, task_current>>
    BY <1>9, ThreadFacts
       DEF Call, Locking, LockLoad, LockStore, CreateBody, At, Holds, CallsOK
  <2>2. \A u \in Thread \ {t} : pc'[u] = pc[u] /\ op'[u] = op[u]
    BY <1>9 DEF Call, Locking, LockLoad, LockStore, CreateBody, Return, Goto,
                TypeOK
  <2> QED
    BY <1>6, <2>1, <2>2
<1>10. ASSUME NEW t \in Task, At(t, "body"), Goto(t, "unlock"), Block(t),
              op[t].kind \in {"sleep", "dec"}, UNCHANGED <<op, task_current>>
       PROVE  StateOK'
  <2>1. state' = [state EXCEPT ![t] = "BLOCKED"] /\ pc'[t] = "unlock"
    BY <1>10, ThreadFacts DEF Block, Goto, TypeOK
  <2>2. \A u \in Task \ {t} : pc'[u] = pc[u]
    BY <1>10 DEF Goto, TypeOK
  <2> QED
    BY <1>10, <2>1, <2>2, ThreadFacts DEF StateOK, TypeOK
<1>11. ASSUME NEW t \in Task, At(t, "body"), NEW label \in {"unlock", "mask"},
              Goto(t, label), UNCHANGED <<op, task_current, state>>
       PROVE  StateOK'
  <2>1. state[t] # "BLOCKED"
    BY <1>11 DEF At, StateOK
  <2> QED
    BY <1>11, <2>1, ThreadFacts DEF Goto, StateOK, TypeOK
<1>12. ASSUME NEW t \in Task, Body(t)
       PROVE  StateOK'
  <2>1. CASE SuspendBody(t)
    BY <1>10, <2>1 DEF SuspendBody
  <2>2. CASE DecBody(t)
    BY <1>10, <1>11, <2>2 DEF DecBody
  <2>3. CASE IncBody(t)
    <3>1. CASE UNCHANGED listVars
      BY <1>11, <2>3, <3>1 DEF IncBody
    <3>2. CASE ~UNCHANGED listVars
      <4>1. PICK u \in Task : Unblock(u)
        <5>1. op[t].sem \in Sem
          BY <2>3, CallFacts DEF IncBody
        <5>2. /\ ~IsEmptyQueue(waiters[op[t].sem])
              /\ Unblock(waiters[op[t].sem].items[1])
          BY <2>3, <3>2 DEF IncBody
        <5> QED
          BY <5>1, <5>2, HeadIsItem DEF TypeOK
      <4>2. state[t] # "BLOCKED"
        BY <2>3 DEF IncBody, At, StateOK
      <4>3. /\ UNCHANGED <<task_current, op>>
            /\ \A v \in Task \ {t} : pc'[v] = pc[v]
        BY <2>3 DEF IncBody, Goto, TypeOK
      <4> QED
        BY <1>3, <4>1, <4>2, <4>3
    <3> QED
      BY <3>1, <3>2
  <2>4. CASE IncAbort(t)
    BY <1>1, <2>4 DEF IncAbort
  <2>5. CASE TryDecBody(t) \/ DestroyBody(t) \/ PlainBody(t)
    BY <1>11, <2>5 DEF TryDecBody, DestroyBody, PlainBody
  <2> QED
    BY <1>9, <1>12, <2>1, <2>2, <2>3, <2>4, <2>5 DEF Body, Inc
<1>13. ASSUME NEW t \in Task, Unlocking(t)
       PROVE  StateOK'
  <2>1. /\ Running(t) /\ t \in Thread
        /\ UNCHANGED <<state, task_current>>
        /\ \A u \in Thread \ {t} : pc'[u] = pc[u] /\ op'[u] = op[u]
    BY <1>13, ThreadFacts
       DEF Unlocking, UnlockTest, UnlockMask, UnlockCommand, UnlockDrop,
           UnlockCall, UnlockDec, AfterUnlock, Return, Goto, At, TypeOK
  <2>2. state[t] = "BLOCKED" =>
            /\ op'[t] = op[t]
            /\ op[t].kind # "yield_unlock"
    BY <1>13, <2>1
       DEF Unlocking, UnlockTest, UnlockMask, UnlockCommand, UnlockDrop,
           UnlockCall, UnlockDec, AfterUnlock, Return, StateOK
  <2>3. state[t] = "BLOCKED" => pc'[t] \in {"unlock", "unlock_mask",
            "unlock_cmd", "unlock_drop", "unlock_call", "run"}
    <3>1. CASE UnlockTest(t)
      <4>1. sched_lock = 1
        BY <2>1, <3>1, RunningFacts DEF UnlockTest, At, Holds
      <4> QED
        BY <2>1, <3>1, <4>1 DEF UnlockTest, MustYield, Goto, TypeOK
    <3>2. CASE UnlockMask(t) \/ UnlockCommand(t) \/ UnlockDrop(t)
      BY <2>1, <3>2 DEF UnlockMask, UnlockCommand, UnlockDrop, Goto, TypeOK
    <3>3. CASE UnlockCall(t) \/ UnlockDec(t)
      BY <2>1, <2>2, <3>3
         DEF UnlockCall, UnlockDec, AfterUnlock, Return, Goto, TypeOK
    <3> QED
      BY <1>13, <3>1, <3>2, <3>3 DEF Unlocking
  <2> QED
    BY <2>1, <2>2, <2>3, ThreadFacts DEF StateOK
<1>14. CASE Tick \/ PowerOff \/ EnterLocked \/ EnterTick \/ Stopped
               \/ UNCHANGED vars
  BY <1>1, <1>14 DEF Tick, PowerOff, EnterLocked, EnterTick, Stopped
<1> QED
  BY <1>2, <1>4, <1>5, <1>7, <1>8, <1>9, <1>12, <1>13, <1>14, ThreadFacts
     DEF Next, Handler, Kernel

---------------------------------------------------------------------------
(* LeavingOK *)

LEMMA LeavingStep == StateInv /\ [Next]_vars => LeavingOK'
<1> SUFFICES ASSUME StateInv, [Next]_vars
             PROVE  LeavingOK'
  OBVIOUS
<1> USE DEF StateInv, LockInv, vars, tickVars, listVars, cbVars, semVars,
            threadVars, lockVars
<1>1. CASE UNCHANGED <<pc, op, state, lockVars, cbVars, pending>>
  BY <1>1 DEF LeavingOK, Holds
<1>2. CASE Tick
  <2>1. /\ UNCHANGED <<pc, op, state, lockVars, cbVars>>
        /\ pending => pending'
    BY <1>2 DEF Tick
  <2> QED
    BY <2>1 DEF LeavingOK, Holds
<1>3. CASE EnterLocked
  <2>1. /\ UNCHANGED <<pc, op, state, lockVars, cbVars>>
        /\ sched_lock # 0 /\ ~in_cb
    BY <1>3 DEF EnterLocked, Entering, Unlocked
  <2>2. \A t \in Thread : t = task_current => Holds(t)
    BY <2>1 DEF LockExcludes
  <2> QED
    BY <2>1, <2>2 DEF LeavingOK, Holds
<1>4. CASE EnterCommand
  BY <1>4 DEF EnterCommand, LeavingOK
<1>5. CASE EnterTick
  <2>1. /\ sched_lock = 0 /\ ~in_cb /\ task_command = "NONE"
        /\ UNCHANGED <<state, task_current>>
    BY <1>5 DEF EnterTick, Entering, Unlocked
  <2>2. \A t \in Thread : t = task_current => ~Holds(t)
    BY <2>1 DEF LockExcludes
  <2> QED
    BY <2>1, <2>2 DEF LeavingOK
<1>6. CASE WakeAlarm
  <2>1. /\ UNCHANGED <<pc, op, lockVars, cbVars, pending>>
        /\ \A t \in Thread : state'[t] = "BLOCKED" => state[t] = "BLOCKED"
    BY <1>6 DEF WakeAlarm, Unblock, TypeOK
  <2> QED
    BY <2>1 DEF LeavingOK, Holds
<1>7. CASE Switch
  <2>1. UNCHANGED state /\ in_cb
    BY <1>7 DEF Switch
  <2>2. CASE need
    <3>1. \/ task_current' = Idle
          \/ tasks_ready # <<>> /\ task_current' = tasks_ready[1]
      BY <1>7, <2>2 DEF Switch
    <3>2. tasks_ready # <<>> => state[tasks_ready[1]] = "READY"
      <4>1. tasks_ready # <<>> => 1 \in 1..Len(tasks_ready)
        BY DEF TypeOK
      <4> QED
        BY <4>1 DEF ListsPartition, Items
    <3> QED
      BY <2>1, <3>1, <3>2 DEF LeavingOK, StateOK
  <2>3. CASE ~need
    <3>1. UNCHANGED task_current
      BY <1>7, <2>3 DEF Switch
    <3>2. \A t \in Thread : ~Holds(t)
      BY <2>1 DEF LockExcludes
    <3>3. task_command = "NONE"
      BY <2>1 DEF CommandOK
    <3> QED
      BY <2>1, <2>3, <3>1, <3>2, <3>3 DEF LeavingOK
  <2> QED
    BY <2>2, <2>3
<1>8. ASSUME NEW t \in Thread, Running(t), UNCHANGED task_current,
             \/ state'[t] # "BLOCKED"
             \/ Holds(t)'
      PROVE  LeavingOK'
  BY <1>8 DEF Running, LeavingOK
<1>9. ASSUME NEW t \in Thread, Running(t), ~Holds(t), pc[t] # "unlock_call",
             UNCHANGED <<state, task_current>>
      PROVE  LeavingOK'
  BY <1>8, <1>9, RunningFacts
<1>10. CASE IdleCheck
  <2>1. Running(Idle) /\ ~Holds(Idle) /\ pc[Idle] # "unlock_call"
    BY <1>10 DEF IdleCheck, At, Holds, CallsOK, NoCall
  <2> QED
    BY <1>9, <1>10, <2>1, ThreadFacts DEF IdleCheck
<1>11. ASSUME NEW t \in Thread, Yielding(t)
       PROVE  LeavingOK'
  <2>1. /\ Running(t) /\ pc[t] \in {"mask", "cmd", "call"}
        /\ UNCHANGED <<state, task_current>>
    BY <1>11 DEF Yielding, YieldMask, YieldCommand, YieldCall, At
  <2>2. state[t] # "BLOCKED"
    BY <2>1 DEF StateOK, Thread
  <2> QED
    BY <1>8, <2>1, <2>2
<1>12. ASSUME NEW t \in Task, Call(t) \/ Locking(t) \/ CreateBody(t)
       PROVE  LeavingOK'
  <2>1. /\ Running(t) /\ ~Holds(t) /\ pc[t] # "unlock_call" /\ t \in Thread
        /\ UNCHANGED <<state, task_current>>
    BY <1>12, ThreadFacts
       DEF Call, Locking, LockLoad, LockStore, CreateBody, At, Holds, CallsOK
  <2> QED
    BY <1>9, <2>1
<1>13. ASSUME NEW t \in Task, Body(t)
       PROVE  LeavingOK'
  <2>1. CASE IncAbort(t)
    BY <1>1, <2>1 DEF IncAbort
  <2>2. CASE PlainBody(t)
    <3>1. Running(t) /\ Holds(t)' /\ UNCHANGED task_current
      BY <2>2, ThreadFacts DEF PlainBody, At, Goto, Holds, TypeOK
    <3> QED
      BY <1>8, <3>1, ThreadFacts
  <2>3. CASE SuspendBody(t) \/ DecBody(t) \/ TryDecBody(t) \/ IncBody(t)
               \/ DestroyBody(t)
    <3>1. Running(t) /\ Holds(t)' /\ UNCHANGED task_current
      BY <2>3, ThreadFacts
         DEF SuspendBody, DecBody, TryDecBody, IncBody, DestroyBody, At, Goto,
             Holds, TypeOK
    <3> QED
      BY <1>8, <3>1, ThreadFacts
  <2> QED
    BY <1>12, <1>13, <2>1, <2>2, <2>3 DEF Body, Inc
<1>14. ASSUME NEW t \in Task, Unlocking(t)
       PROVE  LeavingOK'
  <2>1. /\ Running(t) /\ t \in Thread
        /\ UNCHANGED <<state, task_current>>
    BY <1>14, ThreadFacts
       DEF Unlocking, UnlockTest, UnlockMask, UnlockCommand, UnlockDrop,
           UnlockCall, UnlockDec, At
  <2>2. CASE UnlockTest(t) \/ UnlockMask(t) \/ UnlockCommand(t)
    <3>1. Holds(t)'
      BY <2>1, <2>2
         DEF UnlockTest, UnlockMask, UnlockCommand, Goto, Holds, TypeOK
    <3> QED
      BY <1>8, <2>1, <3>1
  <2>3. CASE UnlockDrop(t)
    <3>1. task_command # "NONE" /\ UNCHANGED task_command
      BY <2>1, <2>3 DEF UnlockDrop, At, Running, CommandOK
    <3>2. pc'[t] = "unlock_call"
      BY <2>1, <2>3 DEF UnlockDrop, Goto, TypeOK
    <3> QED
      BY <2>1, <3>1, <3>2 DEF LeavingOK, Running
  <2>4. CASE UnlockCall(t)
    <3>1. ~Holds(t)
      BY <2>4 DEF UnlockCall, At, Holds
    <3>2. pending' /\ UNCHANGED <<task_command, in_cb, need>>
      BY <2>4 DEF UnlockCall
    <3> QED
      BY <2>1, <3>1, <3>2 DEF LeavingOK, Running
  <2>5. CASE UnlockDec(t)
    <3>1. state[t] # "BLOCKED"
      BY <2>5 DEF UnlockDec, At, StateOK
    <3> QED
      BY <1>8, <2>1, <3>1
  <2> QED
    BY <1>14, <2>2, <2>3, <2>4, <2>5 DEF Unlocking
<1>15. CASE PowerOff \/ Stopped \/ UNCHANGED vars
  BY <1>1, <1>15 DEF PowerOff, Stopped
<1> QED
  BY <1>2, <1>3, <1>4, <1>5, <1>6, <1>7, <1>10, <1>11, <1>12, <1>13, <1>14,
     <1>15, ThreadFacts DEF Next, Handler, Kernel

---------------------------------------------------------------------------
(* ListsPartition *)

LEMMA ListsStep == StateInv /\ [Next]_vars => ListsPartition'
<1> SUFFICES ASSUME StateInv, [Next]_vars
             PROVE  ListsPartition'
  OBVIOUS
<1> USE DEF StateInv, LockInv, vars, tickVars, listVars, cbVars, semVars,
            threadVars, lockVars
<1>1. CASE UNCHANGED <<tasks_ready, tasks_blocked, state>>
  BY <1>1 DEF ListsPartition
<1>2. CASE EnterCommand
  <2>1. CASE task_command = "DIE"
    <3> DEFINE t == task_current
    <3>1. t \in Task /\ pc[t] \in {"call", "dead"} /\ t \in Thread
      BY <2>1, ThreadFacts DEF CommandOK
    <3>2. state[t] = "READY"
      BY <3>1 DEF StateOK, TypeOK
    <3>3. t \in Items(tasks_ready) /\ Distinct(tasks_ready)
      BY <3>1, <3>2 DEF ListsPartition
    <3>4. /\ tasks_ready' = RemoveItem(tasks_ready, t)
          /\ state' = [state EXCEPT ![t] = "DEAD"]
          /\ UNCHANGED tasks_blocked
      BY <1>2, <2>1 DEF EnterCommand
    <3>5. /\ Items(tasks_ready') = Items(tasks_ready) \ {t}
          /\ Distinct(tasks_ready')
      BY <3>3, <3>4, RemoveItemItems, RemoveItemDistinct DEF TypeOK
    <3> QED
      BY <3>1, <3>2, <3>4, <3>5, ThreadFacts DEF ListsPartition, TypeOK
  <2>2. CASE task_command # "DIE"
    BY <1>1, <1>2, <2>2 DEF EnterCommand
  <2> QED
    BY <2>1, <2>2
<1>3. CASE WakeAlarm
  <2>1. /\ alarms.items[1] \in Items(alarms.items)
        /\ alarms.items[1] \in Task
        /\ Unblock(alarms.items[1])
    BY <1>3, HeadIsItem DEF WakeAlarm, HeadDue, TypeOK
  <2>2. state[alarms.items[1]] = "BLOCKED"
    BY <2>1 DEF QueuesOK, Sleeping
  <2> QED
    BY <2>1, <2>2, UnblockFacts
<1>4. CASE Switch
  <2>1. UNCHANGED <<tasks_blocked, state>>
    BY <1>4 DEF Switch
  <2>2. Items(tasks_ready') = Items(tasks_ready) /\ Distinct(tasks_ready')
    <3>1. tasks_ready' \in {tasks_ready, RotateForward(tasks_ready)}
      BY <1>4 DEF Switch
    <3> QED
      BY <3>1, RotateForwardItems DEF ListsPartition, TypeOK
  <2> QED
    BY <2>1, <2>2 DEF ListsPartition
<1>5. ASSUME NEW t \in Task, Body(t)
      PROVE  ListsPartition'
  <2>1. ASSUME At(t, "body"), Block(t), op[t].kind \in {"sleep", "dec"}
        PROVE  ListsPartition'
    <3>1. state[t] = "READY"
      BY <2>1, RunningFacts, ThreadFacts DEF At, StateOK, TypeOK
    <3> QED
      BY <2>1, <3>1, BlockFacts
  <2>2. CASE SuspendBody(t)
    BY <2>1, <2>2 DEF SuspendBody
  <2>3. CASE DecBody(t)
    BY <1>1, <2>1, <2>3 DEF DecBody
  <2>4. CASE IncBody(t)
    <3>1. CASE UNCHANGED listVars
      BY <1>1, <3>1
    <3>2. CASE ~UNCHANGED listVars
      <4> DEFINE q == waiters[op[t].sem]
      <4>1. op[t].sem \in Sem
        BY <2>4, CallFacts DEF IncBody
      <4>2. ~IsEmptyQueue(q) /\ Unblock(q.items[1])
        BY <2>4, <3>2 DEF IncBody
      <4>3. q.items[1] \in Items(q.items) /\ q.items[1] \in Task
        BY <4>1, <4>2, HeadIsItem DEF TypeOK
      <4>4. state[q.items[1]] = "BLOCKED"
        BY <4>1, <4>3 DEF QueuesOK, Waiting
      <4> QED
        BY <4>2, <4>3, <4>4, UnblockFacts
    <3> QED
      BY <3>1, <3>2
  <2>5. CASE TryDecBody(t) \/ IncAbort(t) \/ DestroyBody(t) \/ PlainBody(t)
               \/ CreateBody(t)
    BY <1>1, <2>5
       DEF TryDecBody, IncAbort, DestroyBody, PlainBody, CreateBody
  <2> QED
    BY <1>5, <2>2, <2>3, <2>4, <2>5 DEF Body, Inc
<1>6. ASSUME NEW t \in Task,
             Call(t) \/ Locking(t) \/ Unlocking(t)
      PROVE  ListsPartition'
  BY <1>1, <1>6
     DEF Call, Locking, LockLoad, LockStore, Unlocking, UnlockTest, UnlockMask,
         UnlockCommand, UnlockDrop, UnlockCall, UnlockDec
<1>7. ASSUME NEW t \in Thread, Yielding(t)
      PROVE  ListsPartition'
  BY <1>1, <1>7 DEF Yielding, YieldMask, YieldCommand, YieldCall
<1>8. CASE Tick \/ PowerOff \/ EnterLocked \/ EnterTick \/ IdleCheck
              \/ Stopped \/ UNCHANGED vars
  BY <1>1, <1>8 DEF Tick, PowerOff, EnterLocked, EnterTick, IdleCheck, Stopped
<1> QED
  BY <1>2, <1>3, <1>4, <1>5, <1>6, <1>7, <1>8, ThreadFacts
     DEF Next, Handler, Kernel

---------------------------------------------------------------------------
(* QueuesOK *)

LEMMA QueuesStep == StateInv /\ [Next]_vars => QueuesOK'
<1> SUFFICES ASSUME StateInv, [Next]_vars
             PROVE  QueuesOK'
  OBVIOUS
<1> USE DEF StateInv, LockInv, vars, tickVars, listVars, cbVars, semVars,
            threadVars, lockVars
<1>1. ASSUME UNCHANGED <<alarms, waiters>>,
             \A t \in Task : state[t] = "BLOCKED" =>
                 state'[t] = "BLOCKED" /\ op'[t] = op[t]
      PROVE  QueuesOK'
  <2>1. Sleeping \subseteq Sleeping'
    BY <1>1 DEF Sleeping
  <2>2. \A s \in Sem : Waiting(s) \subseteq Waiting(s)'
    BY <1>1 DEF Waiting
  <2> QED
    BY <1>1, <2>1, <2>2 DEF QueuesOK
<1>2. CASE EnterCommand
  <2>1. CASE task_command = "DIE"
    <3>1. task_current \in Task /\ pc[task_current] \in {"call", "dead"}
      BY <2>1 DEF CommandOK
    <3>2. state[task_current] # "BLOCKED"
      BY <3>1 DEF StateOK
    <3>3. /\ state' = [state EXCEPT ![task_current] = "DEAD"]
          /\ UNCHANGED <<alarms, waiters, op>>
      BY <1>2, <2>1 DEF EnterCommand
    <3> QED
      BY <1>1, <3>2, <3>3, ThreadFacts DEF TypeOK
  <2>2. CASE task_command # "DIE"
    BY <1>1, <1>2, <2>2 DEF EnterCommand
  <2> QED
    BY <2>1, <2>2
<1>3. CASE WakeAlarm
  <2> DEFINE u == alarms.items[1]
  <2>1. ~IsEmptyQueue(alarms) /\ alarms.items # <<>>
    BY <1>3 DEF WakeAlarm, HeadDue, IsEmptyQueue
  <2>2. u \in Items(alarms.items) /\ u \in Task
    BY <2>1, HeadIsItem DEF TypeOK
  <2>3. /\ alarms' = QueuePopHead(alarms)
        /\ state' = [state EXCEPT ![u] = "READY"]
        /\ UNCHANGED <<waiters, op>>
    BY <1>3 DEF WakeAlarm, Unblock
  <2>4. /\ Items(alarms'.items) \subseteq Items(alarms.items) \ {u}
        /\ Distinct(alarms'.items)
    BY <2>1, <2>3, QueuePopHeadItems DEF QueuesOK, TypeOK
  <2>5. Sleeping \ {u} \subseteq Sleeping'
    BY <2>3, ThreadFacts DEF Sleeping, TypeOK
  <2>6. \A s \in Sem : u \notin Waiting(s)
    BY <2>2 DEF QueuesOK, Sleeping, Waiting
  <2>7. \A s \in Sem : Waiting(s) \subseteq Waiting(s)'
    BY <2>3, <2>6, ThreadFacts DEF Waiting, TypeOK
  <2> QED
    BY <2>3, <2>4, <2>5, <2>7 DEF QueuesOK
<1>4. CASE Switch
  BY <1>1, <1>4 DEF Switch
<1>5. CASE IdleCheck
  BY <1>1, <1>5 DEF IdleCheck
<1>6. ASSUME NEW t \in Thread, Yielding(t)
      PROVE  QueuesOK'
  <2>1. UNCHANGED <<alarms, waiters, state>>
    BY <1>6 DEF Yielding, YieldMask, YieldCommand, YieldCall
  <2>2. pc[t] \in {"mask", "cmd", "call"}
    BY <1>6 DEF Yielding, YieldMask, YieldCommand, YieldCall, At
  <2>3. state[t] # "BLOCKED"
    BY <2>2 DEF StateOK, Thread
  <2>4. \A u \in Thread \ {t} : op'[u] = op[u]
    BY <1>6 DEF Yielding, YieldMask, YieldCommand, YieldCall, Return, TypeOK
  <2> QED
    BY <1>1, <2>1, <2>3, <2>4, ThreadFacts
<1>7. ASSUME NEW t \in Task, Call(t)
      PROVE  QueuesOK'
  <2>1. state[t] = "READY"
    BY <1>7, RunningFacts, ThreadFacts DEF Call, At, Holds
  <2>2. /\ UNCHANGED <<alarms, waiters, state>>
        /\ \A u \in Task \ {t} : op'[u] = op[u]
    BY <1>7, ThreadFacts DEF Call, TypeOK
  <2> QED
    BY <1>1, <2>1, <2>2
<1>8. ASSUME NEW t \in Task, Locking(t)
      PROVE  QueuesOK'
  BY <1>1, <1>8 DEF Locking, LockLoad, LockStore
<1>9. ASSUME NEW t \in Task, Body(t)
      PROVE  QueuesOK'
  <2> DEFINE s == op[t].sem
  <2>1. ASSUME At(t, "body"), op[t].kind \in {"sleep", "dec"}
        PROVE  state[t] = "READY"
    BY <2>1, RunningFacts, ThreadFacts DEF At, StateOK, TypeOK
  <2>2. CASE SuspendBody(t)
    <3>1. state[t] = "READY" /\ op[t].kind = "sleep"
      BY <2>1, <2>2 DEF SuspendBody
    <3>2. state' = [state EXCEPT ![t] = "BLOCKED"] /\ UNCHANGED <<op, waiters>>
      BY <2>2 DEF SuspendBody, Block
    <3>3. op[t].arg \in Nat
      BY CallFacts
    <3>4. t \notin Items(alarms.items)
      BY <3>1 DEF QueuesOK, Sleeping
    <3>5. /\ Items(alarms'.items) = Items(alarms.items) \cup {t}
          /\ Distinct(alarms'.items)
      BY <2>2, <3>3, <3>4, InsertAlarmFacts DEF SuspendBody, QueuesOK, TypeOK
    <3>6. Sleeping \cup {t} \subseteq Sleeping'
      BY <3>1, <3>2, ThreadFacts DEF Sleeping, TypeOK
    <3>7. \A r \in Sem : Waiting(r) \subseteq Waiting(r)'
      BY <3>1, <3>2, ThreadFacts DEF Waiting, TypeOK
    <3> QED
      BY <3>2, <3>5, <3>6, <3>7 DEF QueuesOK
  <2>3. CASE DecBody(t)
    <3>1. CASE UNCHANGED listVars
      <4>1. UNCHANGED <<waiters, op, state, alarms>>
        <5>1. CASE count[s] - 1 < 0
          <6>1. state[t] = "READY" /\ t \in Thread
            BY <2>1, <2>3, ThreadFacts DEF DecBody
          <6>2. state'[t] = "BLOCKED"
            BY <2>3, <5>1, <6>1 DEF DecBody, Block, TypeOK
          <6> QED
            BY <3>1, <6>1, <6>2
        <5>2. CASE ~(count[s] - 1 < 0)
          BY <2>3, <5>2 DEF DecBody
        <5> QED
          BY <5>1, <5>2
      <4> QED
        BY <1>1, <4>1
    <3>2. CASE ~UNCHANGED listVars
      <4>1. PICK z \in Sem : z = s
        BY <2>3, CallFacts DEF DecBody
      <4>2. state[t] = "READY" /\ op[t].kind = "dec"
        BY <2>1, <2>3 DEF DecBody
      <4>3. /\ state' = [state EXCEPT ![t] = "BLOCKED"]
            /\ waiters' = [waiters EXCEPT ![z] = QueueAddTail(waiters[z], t)]
            /\ UNCHANGED <<op, alarms>>
        BY <2>3, <3>2, <4>1 DEF DecBody, Block
      <4> DEFINE q == waiters[z]
      <4>4. /\ q \in Queues(Task) /\ Distinct(q.items)
            /\ Items(q.items) \subseteq Waiting(z) /\ t \notin Items(q.items)
        BY <4>2 DEF QueuesOK, Waiting, TypeOK
      <4>5. /\ waiters'[z] = QueueAddTail(q, t)
            /\ \A r \in Sem \ {z} : waiters'[r] = waiters[r]
        BY <4>3 DEF TypeOK
      <4> HIDE DEF q
      <4>6. /\ Items(QueueAddTail(q, t).items) = Items(q.items) \cup {t}
            /\ Distinct(QueueAddTail(q, t).items)
        BY <4>4, QueueAddItems
      <4>7. Sleeping \subseteq Sleeping'
        BY <4>2, <4>3, ThreadFacts DEF Sleeping, TypeOK
      <4>8. \A r \in Sem : Waiting(r) \subseteq Waiting(r)'
        BY <4>2, <4>3, ThreadFacts DEF Waiting, TypeOK
      <4>9. t \in Waiting(z)'
        BY <4>1, <4>2, <4>3, ThreadFacts DEF Waiting, TypeOK
      <4>10. ASSUME NEW r \in Sem
             PROVE  /\ Items(waiters'[r].items) \subseteq Waiting(r)'
                    /\ Distinct(waiters'[r].items)
        <5>1. CASE r = z
          <6>1. Items(q.items) \subseteq Waiting(z)'
            BY <4>4, <4>8
          <6> QED
            BY <4>5, <4>6, <4>9, <5>1, <6>1
        <5>2. CASE r # z
          BY <4>5, <4>8, <5>2 DEF QueuesOK
        <5> QED
          BY <5>1, <5>2
      <4> QED
        BY <4>3, <4>7, <4>10 DEF QueuesOK
    <3> QED
      BY <3>1, <3>2
  <2>4. CASE IncBody(t)
    <3>1. CASE UNCHANGED <<waiters, listVars>>
      BY <1>1, <2>4, <3>1 DEF IncBody
    <3>2. CASE ~UNCHANGED <<waiters, listVars>>
      <4> DEFINE u == waiters[s].items[1]
      <4>1. s \in Sem
        BY <2>4, CallFacts DEF IncBody
      <4>2. /\ ~IsEmptyQueue(waiters[s]) /\ waiters[s].items # <<>>
            /\ waiters' = [waiters EXCEPT ![s] = QueuePopHead(@)]
            /\ state' = [state EXCEPT ![u] = "READY"]
            /\ UNCHANGED <<alarms, op>>
        BY <2>4, <3>2 DEF IncBody, Unblock, IsEmptyQueue
      <4>3. u \in Items(waiters[s].items) /\ u \in Task
        BY <4>1, <4>2, HeadIsItem DEF TypeOK
      <4>4. /\ Items(QueuePopHead(waiters[s]).items) \subseteq
                   Items(waiters[s].items) \ {u}
            /\ Distinct(QueuePopHead(waiters[s]).items)
        BY <4>1, <4>2, QueuePopHeadItems DEF QueuesOK, TypeOK
      <4>5. waiters'[s] = QueuePopHead(waiters[s])
               /\ \A r \in Sem \ {s} : waiters'[r] = waiters[r]
        BY <4>1, <4>2 DEF TypeOK
      <4>6. op[u].kind = "dec" /\ op[u].sem = s
        BY <4>1, <4>3 DEF QueuesOK, Waiting
      <4>7. Sleeping \subseteq Sleeping'
        BY <4>2, <4>6, ThreadFacts DEF Sleeping, TypeOK
      <4>8. \A r \in Sem : Waiting(r) \ {u} \subseteq Waiting(r)'
        BY <4>2, ThreadFacts DEF Waiting, TypeOK
      <4>9. \A r \in Sem \ {s} : u \notin Waiting(r)
        BY <4>6 DEF Waiting
      <4>10. ASSUME NEW r \in Sem
             PROVE  /\ Items(waiters'[r].items) \subseteq Waiting(r)'
                    /\ Distinct(waiters'[r].items)
        <5>1. CASE r = s
          BY <4>4, <4>5, <4>8, <5>1 DEF QueuesOK
        <5>2. CASE r # s
          BY <4>5, <4>8, <4>9, <5>2 DEF QueuesOK
        <5> QED
          BY <5>1, <5>2
      <4> QED
        BY <4>2, <4>7, <4>10 DEF QueuesOK
    <3> QED
      BY <3>1, <3>2
  <2>5. ASSUME UNCHANGED <<state, alarms>>, NEW r \in Sem,
               waiters' = [waiters EXCEPT ![r] = EmptyQueue],
               \A u \in Task : state[u] = "BLOCKED" => op'[u] = op[u]
        PROVE  QueuesOK'
    <3>1. Sleeping \subseteq Sleeping'
      BY <2>5 DEF Sleeping
    <3>2. \A v \in Sem : Waiting(v) \subseteq Waiting(v)'
      BY <2>5 DEF Waiting
    <3>3. \A v \in Sem : waiters'[v] \in {waiters[v], EmptyQueue}
      BY <2>5 DEF TypeOK
    <3>4. Items(EmptyQueue.items) = {} /\ Distinct(EmptyQueue.items)
      BY DEF EmptyQueue, Items, Distinct
    <3> QED
      BY <2>5, <3>1, <3>2, <3>3, <3>4 DEF QueuesOK
  <2>6. CASE DestroyBody(t)
    BY <2>5, <2>6, CallFacts DEF DestroyBody
  <2>7. CASE CreateBody(t)
    <3>1. s \in Sem
      BY <2>7, CallFacts DEF CreateBody, At, CallsOK
    <3> QED
      BY <2>5, <2>7, <3>1, ThreadFacts DEF CreateBody, Return, TypeOK
  <2>8. CASE TryDecBody(t) \/ IncAbort(t) \/ PlainBody(t)
    BY <1>1, <2>8 DEF TryDecBody, IncAbort, PlainBody
  <2> QED
    BY <1>9, <2>2, <2>3, <2>4, <2>6, <2>7, <2>8 DEF Body, Inc
<1>10. ASSUME NEW t \in Task, Unlocking(t)
       PROVE  QueuesOK'
  <2>1. UNCHANGED <<alarms, waiters, state>>
    BY <1>10 DEF Unlocking, UnlockTest, UnlockMask, UnlockCommand, UnlockDrop,
                 UnlockCall, UnlockDec
  <2>2. \A u \in Task : state[u] = "BLOCKED" => op'[u] = op[u]
    BY <1>10, ThreadFacts
       DEF Unlocking, UnlockTest, UnlockMask, UnlockCommand, UnlockDrop,
           UnlockCall, UnlockDec, AfterUnlock, Return, TypeOK
  <2> QED
    BY <1>1, <2>1, <2>2
<1>11. CASE Tick \/ PowerOff \/ EnterLocked \/ EnterTick \/ Stopped
               \/ UNCHANGED vars
  BY <1>1, <1>11 DEF Tick, PowerOff, EnterLocked, EnterTick, Stopped
<1> QED
  BY <1>2, <1>3, <1>4, <1>5, <1>6, <1>7, <1>8, <1>9, <1>10, <1>11, ThreadFacts
     DEF Next, Handler, Kernel

---------------------------------------------------------------------------
(* The theorems *)

LEMMA InitStateInv == Init => StateInv
<1> SUFFICES ASSUME Init
             PROVE  StateInv
  OBVIOUS
<1>1. LockInv
  BY InitLockInv
<1>2. CommandOK
  BY ThreadFacts DEF Init, CommandOK, NoCall
<1>3. MaskIsReleased
  BY DEF Init, MaskIsReleased
<1>4. StateOK /\ LeavingOK
  BY ThreadFacts DEF Init, StateOK, LeavingOK
<1>5. ListsPartition
  <2>1. Distinct(tasks_ready) /\ Items(tasks_ready) = Task
    BY BootRingFacts DEF Init
  <2>2. Distinct(tasks_blocked) /\ Items(tasks_blocked) = {}
    BY DEF Init, Items, Distinct
  <2>3. \A t \in Task : state[t] = "READY"
    BY ThreadFacts DEF Init
  <2> QED
    BY <2>1, <2>2, <2>3 DEF ListsPartition
<1>6. QueuesOK
  <2>1. Items(EmptyQueue.items) = {} /\ Distinct(EmptyQueue.items)
    BY DEF EmptyQueue, Items, Distinct
  <2> QED
    BY <2>1 DEF Init, QueuesOK
<1> QED
  BY <1>1, <1>2, <1>3, <1>4, <1>5, <1>6 DEF StateInv

LEMMA StateInvariant == Spec => []StateInv
<1>1. StateInv /\ [Next]_vars => StateInv'
  BY TypeStep, CallsStep, LockStep, CommandStep, MaskStep, StateStep,
     LeavingStep, ListsStep, QueuesStep DEF StateInv, LockInv
<1> QED
  BY InitStateInv, <1>1, PTL DEF Spec

\* The tick's request to reschedule is never masked for good.
THEOREM MaskIsAlwaysReleased == Spec => []MaskIsReleased
<1>1. StateInv => MaskIsReleased
  BY DEF StateInv
<1> QED
  BY StateInvariant, <1>1, PTL

\* A task that blocked itself or died executes nothing but the code that
\* gives the CPU away.
THEOREM BlockedNeverRuns == Spec => []BlockedDoesNotRun
<1>1. StateInv => BlockedDoesNotRun
  BY RunningFacts DEF BlockedDoesNotRun
<1> QED
  BY StateInvariant, <1>1, PTL

\* No task is ever lost from the rings, or linked twice.
THEOREM ListsArePartition == Spec => []ListsPartition
<1>1. StateInv => ListsPartition
  BY DEF StateInv
<1> QED
  BY StateInvariant, <1>1, PTL

---------------------------------------------------------------------------
(***************************************************************************)
(* What the queues, the counters and the calendar hold.  This is true where*)
(* no queue ever has to give up its head with two more behind it:          *)
(* mv_list_pop_head loses the third item.                                  *)
(***************************************************************************)

---------------------------------------------------------------------------
(* The inductive invariant *)

OnSemaphore == {"dec", "try_dec", "inc", "create", "destroy"}

\* Who creates or destroys a semaphore is alone with it, and who uses it
\* finds it there.
UsesOK ==
    \A t \in Task :
        /\ op[t].kind \in {"create", "destroy"} /\ pc[t] # "run" =>
               \A u \in Task \ {t} :
                   ~(Uses(u, op[t].sem) /\ op[u].kind \in OnSemaphore)
        /\ op[t].kind = "create" /\ pc[t] # "run" => op[t].sem \notin created
        /\ op[t].kind \in {"dec", "try_dec", "inc"} /\ Uses(t, op[t].sem)
               => op[t].sem \in created
        /\ op[t].kind = "destroy" /\ pc[t] \in {"lock", "lock_store", "body"}
               => op[t].sem \in created

\* Who wakes is before who does not.
DueOK ==
    in_cb => \A i, j \in 1..Len(alarms.items) :
                 i < j /\ alarms.items[j] \in due => alarms.items[i] \in due

BooksInv ==
    /\ StateInv
    /\ UsesOK
    /\ NoLostWakeup
    /\ CountIsWaiters
    /\ CalendarSorted
    /\ DueOK

---------------------------------------------------------------------------
(* UsesOK *)

\* A step in which the task t does not come to use a semaphore.
Fades(t) ==
    \/ op'[t].kind = "none"
    \/ /\ op'[t] = op[t]
       /\ pc[t] = "run" => pc'[t] = "run"
       /\ pc'[t] \in {"lock", "lock_store", "body"}
              => pc[t] \in {"lock", "lock_store", "body"}
       /\ state'[t] = "BLOCKED" => pc[t] # "run" \/ state[t] = "BLOCKED"

LEMMA FadesKeeps ==
    ASSUME UsesOK, UNCHANGED created, \A t \in Task : Fades(t)
    PROVE  UsesOK'
<1>1. ASSUME NEW t \in Task, op'[t].kind # "none"
      PROVE  /\ op'[t] = op[t]
             /\ pc'[t] # "run" => pc[t] # "run"
             /\ pc'[t] \in {"lock", "lock_store", "body"}
                    => pc[t] \in {"lock", "lock_store", "body"}
             /\ \A s : Uses(t, s)' => Uses(t, s)
  BY <1>1 DEF Fades, Uses
<1>2. ASSUME NEW t \in Task, op'[t].kind \in {"create", "destroy"}, pc'[t] # "run",
             NEW u \in Task \ {t}, Uses(u, op[t].sem)', op'[u].kind \in OnSemaphore
      PROVE  FALSE
  <2>1. op'[t] = op[t] /\ pc[t] # "run"
    BY <1>1, <1>2
  <2>2. op'[u] = op[u] /\ Uses(u, op[t].sem)
    BY <1>1, <1>2, <2>1 DEF OnSemaphore, Uses
  <2> QED
    BY <1>2, <2>1, <2>2 DEF UsesOK
<1>3. ASSUME NEW t \in Task
      PROVE  /\ op'[t].kind = "create" /\ pc'[t] # "run" => op'[t].sem \notin created
             /\ op'[t].kind \in {"dec", "try_dec", "inc"} /\ Uses(t, op[t].sem)'
                    => op'[t].sem \in created
             /\ op'[t].kind = "destroy" /\ pc'[t] \in {"lock", "lock_store", "body"}
                    => op'[t].sem \in created
  <2>1. CASE op'[t].kind = "none"
    BY <2>1
  <2>2. CASE op'[t].kind # "none"
    BY <1>1, <2>2 DEF UsesOK
  <2> QED
    BY <2>1, <2>2
<1> QED
  BY <1>2, <1>3 DEF UsesOK, Uses

LEMMA UsesStep == StateInv /\ UsesOK /\ [Next]_vars => UsesOK'
<1> SUFFICES ASSUME StateInv, UsesOK, [Next]_vars
             PROVE  UsesOK'
  OBVIOUS
<1> USE DEF StateInv, LockInv, vars, tickVars, listVars, cbVars, semVars,
            threadVars, lockVars
<1>1. ASSUME UNCHANGED <<pc, op, created>>,
             \A u \in Task : state'[u] = "BLOCKED" =>
                 pc[u] # "run" \/ state[u] = "BLOCKED"
      PROVE  UsesOK'
  BY <1>1, FadesKeeps DEF Fades
<1>2. CASE EnterCommand
  BY <1>1, <1>2, ThreadFacts DEF EnterCommand, TypeOK
<1>3. CASE WakeAlarm
  BY <1>1, <1>3, ThreadFacts DEF WakeAlarm, Unblock, TypeOK
<1>4. CASE IdleCheck
  <2>1. UNCHANGED <<op, created, state>> /\ \A u \in Task : pc'[u] = pc[u]
    BY <1>4, ThreadFacts DEF IdleCheck, Goto, TypeOK
  <2> QED
    BY <2>1, FadesKeeps DEF Fades
\* A step of t in the call it is making.
<1>5. ASSUME NEW t \in Thread, UNCHANGED created, pc[t] # "run",
             pc'[t] \in {"lock", "lock_store", "body"}
                 => pc[t] \in {"lock", "lock_store", "body"},
             op'[t] = op[t] \/ op'[t].kind = "none",
             \A u \in Task \ {t} :
                 /\ op'[u] = op[u] /\ pc'[u] = pc[u]
                 /\ state'[u] = "BLOCKED" => state[u] = "BLOCKED"
      PROVE  UsesOK'
  BY <1>5, FadesKeeps DEF Fades
<1>6. ASSUME NEW t \in Thread, Yielding(t)
      PROVE  UsesOK'
  <2>1. /\ UNCHANGED <<created, state>>
        /\ \A u \in Task \ {t} : op'[u] = op[u] /\ pc'[u] = pc[u]
    <3>1. UNCHANGED <<created, state>>
      BY <1>6 DEF Yielding, YieldMask, YieldCommand, YieldCall
    <3>2. CASE YieldMask(t) \/ YieldCommand(t)
      BY <3>1, <3>2, ThreadFacts DEF YieldMask, YieldCommand, Goto, TypeOK
    <3>3. CASE YieldCall(t)
      BY <3>1, <3>3, ThreadFacts DEF YieldCall, Goto, Return, TypeOK
    <3> QED
      BY <1>6, <3>2, <3>3 DEF Yielding
  <2>2. /\ pc[t] # "run" /\ pc'[t] \notin {"lock", "lock_store", "body"}
        /\ op'[t] = op[t] \/ op'[t].kind = "none"
    BY <1>6 DEF Yielding, YieldMask, YieldCommand, YieldCall, At, Goto, Return,
                TypeOK, NoCall
  <2> QED
    BY <1>5, <2>1, <2>2
<1>7. ASSUME NEW t \in Task, Locking(t) \/ Unlocking(t)
      PROVE  UsesOK'
  <2>1. /\ UNCHANGED <<created, state>> /\ t \in Thread
        /\ \A u \in Task \ {t} : op'[u] = op[u] /\ pc'[u] = pc[u]
    <3>1. UNCHANGED <<created, state>> /\ t \in Thread
      BY <1>7, ThreadFacts
         DEF Locking, LockLoad, LockStore, Unlocking, UnlockTest, UnlockMask,
             UnlockCommand, UnlockDrop, UnlockCall, UnlockDec
    <3>2. CASE Locking(t) \/ UnlockTest(t) \/ UnlockMask(t) \/ UnlockCommand(t)
                 \/ UnlockDrop(t)
      BY <3>2, ThreadFacts
         DEF Locking, LockLoad, LockStore, UnlockTest, UnlockMask, UnlockCommand,
             UnlockDrop, Goto, TypeOK
    <3>3. CASE UnlockCall(t) \/ UnlockDec(t)
      BY <3>3, ThreadFacts DEF UnlockCall, UnlockDec, AfterUnlock, Goto, Return, TypeOK
    <3> QED
      BY <1>7, <3>1, <3>2, <3>3 DEF Unlocking
  <2>2. CASE Locking(t)
    <3>1. /\ pc[t] \in {"lock", "lock_store", "body"} /\ op'[t] = op[t]
      BY <2>2 DEF Locking, LockLoad, LockStore, At
    <3> QED
      BY <1>5, <2>1, <3>1
  <2>3. CASE Unlocking(t)
    <3>1. /\ pc[t] # "run" /\ pc'[t] \notin {"lock", "lock_store", "body"}
          /\ op'[t] = op[t] \/ op'[t].kind = "none"
      BY <2>1, <2>3
         DEF Unlocking, UnlockTest, UnlockMask, UnlockCommand, UnlockDrop,
             UnlockCall, UnlockDec, AfterUnlock, At, Goto, Return, TypeOK, NoCall
    <3> QED
      BY <1>5, <2>1, <3>1
  <2> QED
    BY <1>7, <2>2, <2>3
<1>8. ASSUME NEW t \in Task, Body(t)
      PROVE  UsesOK'
  <2> DEFINE s == op[t].sem
  <2>1. CASE SuspendBody(t) \/ DecBody(t) \/ TryDecBody(t) \/ Inc(t) \/ PlainBody(t)
    <3>1. UNCHANGED <<created, op>> /\ pc[t] = "body" /\ t \in Thread
      BY <2>1, ThreadFacts
         DEF SuspendBody, DecBody, TryDecBody, Inc, IncBody, IncAbort, PlainBody, At
    <3>2. \A u \in Task \ {t} : pc'[u] = pc[u]
      BY <2>1, ThreadFacts
         DEF SuspendBody, DecBody, TryDecBody, Inc, IncBody, IncAbort, PlainBody,
             Goto, TypeOK
    <3>3. \A u \in Task \ {t} : state'[u] = "BLOCKED" => state[u] = "BLOCKED"
      BY <2>1, ThreadFacts
         DEF SuspendBody, DecBody, TryDecBody, Inc, IncBody, IncAbort, PlainBody,
             Block, Unblock, TypeOK
    <3> QED
      BY <1>5, <3>1, <3>2, <3>3
  <2>2. CASE DestroyBody(t)
    <3>1. /\ op[t].kind = "destroy" /\ pc[t] = "body" /\ pc'[t] = "unlock"
          /\ UNCHANGED <<op, state>> /\ created' = created \ {s}
          /\ \A u \in Task \ {t} : pc'[u] = pc[u]
      BY <2>2, ThreadFacts DEF DestroyBody, At, Goto, TypeOK
    <3>2. \A u \in Task \ {t} : ~(Uses(u, s) /\ op[u].kind \in OnSemaphore)
      BY <3>1 DEF UsesOK
    <3>3. \A u \in Task : \A r : Uses(u, r)' <=> Uses(u, r)
      BY <3>1 DEF Uses
    <3>4. ASSUME NEW u \in Task, op[u].kind \in {"create", "destroy"}, pc'[u] # "run",
                 NEW v \in Task \ {u}, Uses(v, op[u].sem)', op[v].kind \in OnSemaphore
          PROVE  FALSE
      BY <3>1, <3>3, <3>4 DEF UsesOK
    <3>5. ASSUME NEW u \in Task
          PROVE  /\ op[u].kind = "create" /\ pc'[u] # "run" => op[u].sem \notin created'
                 /\ op[u].kind \in {"dec", "try_dec", "inc"} /\ Uses(u, op[u].sem)'
                        => op[u].sem \in created'
                 /\ op[u].kind = "destroy" /\ pc'[u] \in {"lock", "lock_store", "body"}
                        => op[u].sem \in created'
      BY <3>1, <3>2, <3>3 DEF UsesOK, Uses, OnSemaphore
    <3> QED
      BY <3>1, <3>4, <3>5 DEF UsesOK, Uses
  <2>3. CASE CreateBody(t)
    <3>1. op[t].kind = "create" /\ pc[t] = "alloc" /\ Running(t)
      BY <2>3 DEF CreateBody, At, CallsOK
    <3>2. state[t] = "READY"
      BY <3>1, RunningFacts, ThreadFacts DEF Holds
    <3>3. /\ op'[t] = NoCall /\ pc'[t] = "run"
          /\ UNCHANGED state /\ created' = created \cup {s}
          /\ \A u \in Task \ {t} : pc'[u] = pc[u] /\ op'[u] = op[u]
      BY <2>3, <3>2, ThreadFacts DEF CreateBody, Goto, Return, TypeOK
    <3>4. \A u \in Task \ {t} : ~(Uses(u, s) /\ op[u].kind \in OnSemaphore)
      BY <3>1 DEF UsesOK
    <3>5. \A u \in Task \ {t} : \A r : Uses(u, r)' <=> Uses(u, r)
      BY <3>3 DEF Uses
    <3>6. op'[t].kind = "none"
      BY <3>3 DEF NoCall
    <3>7. ASSUME NEW u \in Task, op'[u].kind \in {"create", "destroy"}, pc'[u] # "run",
                 NEW v \in Task \ {u}, Uses(v, op[u].sem)', op'[v].kind \in OnSemaphore
          PROVE  FALSE
      <4>1. u # t /\ v # t
        BY <3>6, <3>7 DEF OnSemaphore
      <4> QED
        BY <3>3, <3>5, <3>7, <4>1 DEF UsesOK, Uses
    <3>8. ASSUME NEW u \in Task
          PROVE  /\ op'[u].kind = "create" /\ pc'[u] # "run" => op'[u].sem \notin created'
                 /\ op'[u].kind \in {"dec", "try_dec", "inc"} /\ Uses(u, op[u].sem)'
                        => op'[u].sem \in created'
                 /\ op'[u].kind = "destroy" /\ pc'[u] \in {"lock", "lock_store", "body"}
                        => op'[u].sem \in created'
      <4>1. CASE u = t
        BY <3>6, <4>1
      <4>2. CASE u # t
        BY <3>3, <3>4, <3>5, <4>2 DEF UsesOK, Uses, OnSemaphore
      <4> QED
        BY <4>1, <4>2
    <3> QED
      BY <3>7, <3>8 DEF UsesOK, Uses
  <2> QED
    BY <1>8, <2>1, <2>2, <2>3 DEF Body
<1>9. ASSUME NEW t \in Task, Call(t)
      PROVE  UsesOK'
  <2>1. PICK c \in Program[t] :
            /\ Allowed(c)
            /\ op' = [op EXCEPT ![t] = c]
            /\ Goto(t, EntryLabel(c.kind))
    BY <1>9 DEF Call
  <2>2. /\ op'[t] = c /\ pc'[t] # "run" /\ UNCHANGED <<created, state>>
        /\ \A u \in Task \ {t} : pc'[u] = pc[u] /\ op'[u] = op[u]
    BY <1>9, <2>1, ThreadFacts DEF Call, Goto, EntryLabel, TypeOK
  <2>3. \A u \in Task \ {t} : \A r : Uses(u, r)' <=> Uses(u, r)
    BY <2>2 DEF Uses
  <2>4. /\ c.kind \in {"dec", "try_dec", "inc"} => Usable(c.sem)
        /\ c.kind \in {"create", "destroy"} => Unused(c.sem)
        /\ c.kind = "create" => c.sem \notin created
        /\ c.kind = "destroy" => c.sem \in created
    BY <2>1 DEF Allowed
  <2>5. ASSUME NEW u \in Task, op'[u].kind \in {"create", "destroy"}, pc'[u] # "run",
               NEW v \in Task \ {u}, Uses(v, op[u].sem)', op'[v].kind \in OnSemaphore
        PROVE  FALSE
    <3>1. CASE u = t
      BY <2>2, <2>3, <2>4, <2>5, <3>1 DEF Unused
    <3>2. CASE v = t
      <4>1. op[u].sem = c.sem /\ pc[u] # "run" /\ Uses(u, c.sem)
        BY <2>2, <2>5, <3>2 DEF Uses
      <4>2. op[u].kind \in {"create", "destroy"}
        BY <2>2, <2>5, <3>2
      <4>3. CASE c.kind \in {"create", "destroy"}
        BY <2>4, <4>1, <4>3 DEF Unused
      <4>4. CASE c.kind \in {"dec", "try_dec", "inc"}
        BY <2>4, <4>1, <4>2, <4>4 DEF Usable, UsesOK
      <4> QED
        BY <2>2, <2>5, <3>2, <4>3, <4>4 DEF OnSemaphore
    <3>3. CASE u # t /\ v # t
      BY <2>2, <2>3, <2>5, <3>3 DEF UsesOK, Uses
    <3> QED
      BY <3>1, <3>2, <3>3
  <2>6. ASSUME NEW u \in Task
        PROVE  /\ op'[u].kind = "create" /\ pc'[u] # "run" => op'[u].sem \notin created'
               /\ op'[u].kind \in {"dec", "try_dec", "inc"} /\ Uses(u, op[u].sem)'
                      => op'[u].sem \in created'
               /\ op'[u].kind = "destroy" /\ pc'[u] \in {"lock", "lock_store", "body"}
                      => op'[u].sem \in created'
    <3>1. CASE u = t
      BY <2>2, <2>4, <3>1 DEF Usable
    <3>2. CASE u # t
      BY <2>2, <2>3, <3>2 DEF UsesOK, Uses
    <3> QED
      BY <3>1, <3>2
  <2> QED
    BY <2>5, <2>6 DEF UsesOK, Uses
<1>10. CASE Tick \/ PowerOff \/ EnterLocked \/ EnterTick \/ Switch \/ Stopped
               \/ UNCHANGED vars
  BY <1>1, <1>10 DEF Tick, PowerOff, EnterLocked, EnterTick, Switch, Stopped
<1> QED
  BY <1>2, <1>3, <1>4, <1>6, <1>7, <1>8, <1>9, <1>10, ThreadFacts
     DEF Next, Handler, Kernel

---------------------------------------------------------------------------
(* What a step does to the queues, the counters and those who are blocked  *)

\* The same tasks stay blocked, by the same calls.
Settled ==
    \A u \in Task : /\ state'[u] = "BLOCKED" <=> state[u] = "BLOCKED"
                    /\ state[u] = "BLOCKED" => op'[u] = op[u]

Blocks(t) ==
    state[t] = "READY" /\ state' = [state EXCEPT ![t] = "BLOCKED"] /\ UNCHANGED op

Readies(t) ==
    state[t] = "BLOCKED" /\ state' = [state EXCEPT ![t] = "READY"] /\ UNCHANGED op

Keeps == Settled /\ UNCHANGED <<alarms, semVars>>

Sleeps(t) ==
    /\ Blocks(t)
    /\ op[t].kind = "sleep"
    /\ alarms' = InsertAlarm(alarms, t, op[t].arg)
    /\ UNCHANGED semVars

Wakes ==
    /\ alarms.items # <<>>
    /\ Readies(alarms.items[1])
    /\ alarms' = QueuePopHead(alarms)
    /\ UNCHANGED semVars

Takes(s) ==
    /\ s \in created /\ count[s] > 0
    /\ Settled
    /\ count' = [count EXCEPT ![s] = @ - 1]
    /\ UNCHANGED <<alarms, waiters, created>>

Gives(s) ==
    /\ s \in created /\ count[s] >= 0
    /\ Settled
    /\ count' = [count EXCEPT ![s] = @ + 1]
    /\ UNCHANGED <<alarms, waiters, created>>

Waits(s, t) ==
    /\ s \in created /\ count[s] <= 0
    /\ Blocks(t)
    /\ op[t].kind = "dec" /\ op[t].sem = s
    /\ count' = [count EXCEPT ![s] = @ - 1]
    /\ waiters' = [waiters EXCEPT ![s] = QueueAddTail(@, t)]
    /\ UNCHANGED <<alarms, created>>

Hands(s) ==
    /\ s \in created /\ count[s] < 0
    /\ waiters[s].items # <<>>
    /\ Readies(waiters[s].items[1])
    /\ count' = [count EXCEPT ![s] = @ + 1]
    /\ waiters' = [waiters EXCEPT ![s] = QueuePopHead(@)]
    /\ UNCHANGED <<alarms, created>>

\* A semaphore appears or goes that nobody waits for.
Resets(s) ==
    /\ Waiting(s) = {}
    /\ Settled
    /\ waiters' = [waiters EXCEPT ![s] = EmptyQueue]
    /\ UNCHANGED alarms

Makes(s) ==
    /\ s \notin created
    /\ created' = created \cup {s}
    /\ \E n \in Nat : count' = [count EXCEPT ![s] = n]
    /\ Resets(s)

Breaks(s) ==
    /\ s \in created
    /\ created' = created \ {s}
    /\ count' = [count EXCEPT ![s] = 0]
    /\ Resets(s)

Move ==
    \/ Keeps
    \/ Wakes
    \/ \E t \in Task : Sleeps(t)
    \/ \E s \in Sem :
           \/ Takes(s) \/ Gives(s) \/ Hands(s) \/ Makes(s) \/ Breaks(s)
           \/ \E t \in Task : Waits(s, t)

LEMMA MoveStep ==
    StateInv /\ UsesOK /\ NoLostWakeup /\ CountIsWaiters /\ [Next]_vars => Move
<1> SUFFICES ASSUME StateInv, UsesOK, NoLostWakeup, CountIsWaiters, [Next]_vars
             PROVE  Move
  OBVIOUS
<1> USE DEF StateInv, LockInv, vars, tickVars, listVars, cbVars, semVars,
            threadVars, lockVars
<1>1. ASSUME UNCHANGED <<alarms, semVars>>,
             \A u \in Task : /\ state'[u] = "BLOCKED" <=> state[u] = "BLOCKED"
                             /\ state[u] = "BLOCKED" => op'[u] = op[u]
      PROVE  Move
  BY <1>1 DEF Keeps, Settled, Move
<1>2. CASE EnterCommand
  <2>1. CASE task_command = "DIE"
    <3>1. task_current \in Task /\ pc[task_current] \in {"call", "dead"}
      BY <2>1 DEF CommandOK
    <3>2. state[task_current] # "BLOCKED"
      BY <3>1 DEF StateOK
    <3>3. /\ state' = [state EXCEPT ![task_current] = "DEAD"]
          /\ UNCHANGED <<alarms, semVars, op>>
      BY <1>2, <2>1 DEF EnterCommand
    <3> QED
      BY <1>1, <3>2, <3>3, ThreadFacts DEF TypeOK
  <2>2. CASE task_command # "DIE"
    BY <1>1, <1>2, <2>2 DEF EnterCommand
  <2> QED
    BY <2>1, <2>2
<1>3. CASE WakeAlarm
  <2> DEFINE u == alarms.items[1]
  <2>1. ~IsEmptyQueue(alarms) /\ alarms.items # <<>>
    BY <1>3 DEF WakeAlarm, HeadDue, IsEmptyQueue
  <2>2. u \in Items(alarms.items) /\ u \in Task
    BY <2>1, HeadIsItem DEF TypeOK
  <2>3. state[u] = "BLOCKED"
    BY <2>2 DEF QueuesOK, Sleeping
  <2> QED
    BY <1>3, <2>1, <2>3 DEF WakeAlarm, Unblock, Wakes, Readies, Move
<1>4. CASE Switch
  BY <1>1, <1>4 DEF Switch
<1>5. CASE IdleCheck
  BY <1>1, <1>5 DEF IdleCheck
<1>6. ASSUME NEW t \in Thread, Yielding(t)
      PROVE  Move
  <2>1. UNCHANGED <<alarms, semVars, state>>
    BY <1>6 DEF Yielding, YieldMask, YieldCommand, YieldCall
  <2>2. pc[t] \in {"mask", "cmd", "call"}
    BY <1>6 DEF Yielding, YieldMask, YieldCommand, YieldCall, At
  <2>3. state[t] # "BLOCKED"
    BY <2>2 DEF StateOK, Thread
  <2>4. \A u \in Thread \ {t} : op'[u] = op[u]
    BY <1>6 DEF Yielding, YieldMask, YieldCommand, YieldCall, Return, TypeOK
  <2> QED
    BY <1>1, <2>1, <2>3, <2>4, ThreadFacts
<1>7. ASSUME NEW t \in Task, Call(t)
      PROVE  Move
  <2>1. state[t] = "READY"
    BY <1>7, RunningFacts, ThreadFacts DEF Call, At, Holds
  <2>2. /\ UNCHANGED <<alarms, semVars, state>>
        /\ \A u \in Task \ {t} : op'[u] = op[u]
    BY <1>7, ThreadFacts DEF Call, TypeOK
  <2> QED
    BY <1>1, <2>1, <2>2
<1>8. ASSUME NEW t \in Task, Locking(t)
      PROVE  Move
  BY <1>1, <1>8 DEF Locking, LockLoad, LockStore
<1>9. ASSUME NEW t \in Task, Unlocking(t)
      PROVE  Move
  <2>1. UNCHANGED <<alarms, semVars, state>>
    BY <1>9 DEF Unlocking, UnlockTest, UnlockMask, UnlockCommand, UnlockDrop,
                UnlockCall, UnlockDec
  <2>2. \A u \in Task : state[u] = "BLOCKED" => op'[u] = op[u]
    BY <1>9, ThreadFacts
       DEF Unlocking, UnlockTest, UnlockMask, UnlockCommand, UnlockDrop,
           UnlockCall, UnlockDec, AfterUnlock, Return, TypeOK
  <2> QED
    BY <1>1, <2>1, <2>2
<1>10. ASSUME NEW t \in Task, Body(t)
       PROVE  Move
  <2> DEFINE s == op[t].sem
  <2>1. ASSUME At(t, "body"), op[t].kind \in {"sleep", "dec"}
        PROVE  state[t] = "READY"
    BY <2>1, RunningFacts, ThreadFacts DEF At, StateOK, TypeOK
  <2>2. ASSUME At(t, "body"), op[t].kind \in {"dec", "try_dec", "inc", "destroy"}
        PROVE  s \in Sem /\ s \in created /\ count[s] \in Int
    <3>1. s \in Sem
      BY <2>2, CallFacts
    <3>2. s \in created
      BY <2>2 DEF UsesOK, Uses, At
    <3> QED
      BY <3>1, <3>2 DEF TypeOK
  <2>3. CASE SuspendBody(t)
    <3>1. state[t] = "READY"
      BY <2>1, <2>3 DEF SuspendBody
    <3> QED
      BY <2>3, <3>1 DEF SuspendBody, Block, Sleeps, Blocks, Move
  <2>4. CASE DecBody(t)
    <3>1. state[t] = "READY" /\ s \in Sem /\ s \in created /\ count[s] \in Int
      BY <2>1, <2>2, <2>4 DEF DecBody
    <3>2. CASE count[s] - 1 < 0
      <4>1. count[s] <= 0
        BY <3>1, <3>2
      <4>2. Waits(s, t)
        BY <2>4, <3>1, <3>2, <4>1 DEF DecBody, Block, Waits, Blocks
      <4> QED
        BY <3>1, <4>2 DEF Move
    <3>3. CASE ~(count[s] - 1 < 0)
      <4>1. count[s] > 0
        BY <3>1, <3>3
      <4>2. Takes(s)
        BY <2>4, <3>1, <3>3, <4>1 DEF DecBody, Takes, Settled
      <4> QED
        BY <3>1, <4>2 DEF Move
    <3> QED
      BY <3>2, <3>3
  <2>5. CASE TryDecBody(t)
    <3>1. s \in Sem /\ s \in created /\ count[s] \in Int
      BY <2>2, <2>5 DEF TryDecBody
    <3>2. CASE count[s] > 0
      BY <2>5, <3>1, <3>2 DEF TryDecBody, Takes, Settled, Move
    <3>3. CASE ~(count[s] > 0)
      BY <1>1, <2>5, <3>3 DEF TryDecBody
    <3> QED
      BY <3>2, <3>3
  <2>6. CASE IncBody(t)
    <3>1. s \in Sem /\ s \in created /\ count[s] \in Int
      BY <2>2, <2>6 DEF IncBody
    <3>2. CASE count[s] + 1 > 0
      <4>1. count[s] >= 0 /\ ~(count[s] + 1 <= 0)
        BY <3>1, <3>2
      <4>2. Gives(s)
        BY <2>6, <3>1, <4>1 DEF IncBody, Gives, Settled
      <4> QED
        BY <3>1, <4>2 DEF Move
    <3>3. CASE ~(count[s] + 1 > 0)
      <4> DEFINE u == waiters[s].items[1]
      <4>1. /\ ~IsEmptyQueue(waiters[s]) /\ waiters[s].items # <<>>
            /\ waiters' = [waiters EXCEPT ![s] = QueuePopHead(@)]
            /\ count' = [count EXCEPT ![s] = @ + 1]
            /\ state' = [state EXCEPT ![u] = "READY"]
            /\ UNCHANGED <<alarms, op, created>>
        BY <2>6, <3>3 DEF IncBody, Unblock, IsEmptyQueue
      <4>2. u \in Items(waiters[s].items)
        BY <3>1, <4>1, HeadIsItem DEF TypeOK
      <4>3. state[u] = "BLOCKED"
        BY <3>1, <4>2 DEF QueuesOK, Waiting
      <4>4. count[s] < 0
        BY <3>1, <3>3
      <4>5. Hands(s)
        BY <3>1, <4>1, <4>3, <4>4 DEF Hands, Readies
      <4> QED
        BY <3>1, <4>5 DEF Move
    <3> QED
      BY <3>2, <3>3
  <2>7. CASE IncAbort(t)
    <3>1. s \in Sem /\ count[s] \in Int
      BY <2>2, <2>7 DEF IncAbort
    <3>2. count[s] < 0 /\ waiters[s].items = <<>>
      BY <2>7, <3>1 DEF IncAbort, IsEmptyQueue
    <3>3. Waiting(s) = {}
      BY <3>1, <3>2 DEF NoLostWakeup, Items
    <3>4. Cardinality(Waiting(s)) = 0
      BY <3>3, FS_EmptySet
    <3> QED
      BY <3>1, <3>2, <3>4 DEF CountIsWaiters
  <2>8. ASSUME op[t].kind \in {"create", "destroy"}, pc[t] # "run"
        PROVE  Waiting(s) = {}
    <3>1. ASSUME NEW u \in Waiting(s)
          PROVE  FALSE
      <4>1. u \in Task \ {t}
        BY <2>8, <3>1 DEF Waiting
      <4> QED
        BY <2>8, <3>1, <4>1 DEF Waiting, UsesOK, Uses, OnSemaphore
    <3> QED
      BY <3>1
  <2>9. CASE DestroyBody(t)
    <3>1. s \in Sem /\ s \in created
      BY <2>2, <2>9 DEF DestroyBody
    <3>2. Waiting(s) = {}
      BY <2>8, <2>9 DEF DestroyBody, At
    <3> QED
      BY <2>9, <3>1, <3>2 DEF DestroyBody, Breaks, Resets, Settled, Move
  <2>10. CASE CreateBody(t)
    <3>1. op[t].kind = "create" /\ pc[t] = "alloc" /\ Running(t)
      BY <2>10 DEF CreateBody, At, CallsOK
    <3>2. s \in Sem /\ op[t].arg \in Nat
      BY <3>1, CallFacts
    <3>3. s \notin created
      BY <3>1 DEF UsesOK
    <3>4. Waiting(s) = {}
      BY <2>8, <3>1
    <3>5. Settled
      <4>1. state[t] = "READY"
        BY <3>1, RunningFacts, ThreadFacts DEF Holds
      <4> QED
        BY <2>10, <4>1, ThreadFacts DEF CreateBody, Return, Settled, TypeOK
    <3>6. Makes(s)
      BY <2>10, <3>2, <3>3, <3>4, <3>5 DEF CreateBody, Makes, Resets
    <3> QED
      BY <3>2, <3>6 DEF Move
  <2>11. CASE PlainBody(t)
    BY <1>1, <2>11 DEF PlainBody
  <2> QED
    BY <1>10, <2>3, <2>4, <2>5, <2>6, <2>7, <2>9, <2>10, <2>11 DEF Body, Inc
<1>11. CASE Tick \/ PowerOff \/ EnterLocked \/ EnterTick \/ Stopped
               \/ UNCHANGED vars
  BY <1>1, <1>11 DEF Tick, PowerOff, EnterLocked, EnterTick, Stopped
<1> QED
  BY <1>2, <1>3, <1>4, <1>5, <1>6, <1>7, <1>8, <1>9, <1>10, <1>11, ThreadFacts
     DEF Next, Handler, Kernel

---------------------------------------------------------------------------
(* Who is blocked after a step *)

LEMMA SettledFacts ==
    ASSUME Settled
    PROVE  Sleeping' = Sleeping /\ \A s \in Sem : Waiting(s)' = Waiting(s)
<1>1. \A u \in Task : /\ u \in Sleeping' <=> u \in Sleeping
                      /\ \A s \in Sem : u \in Waiting(s)' <=> u \in Waiting(s)
  BY DEF Settled, Sleeping, Waiting
<1>2. Sleeping' \subseteq Task /\ Sleeping \subseteq Task
  BY DEF Sleeping
<1>3. \A s \in Sem : Waiting(s)' \subseteq Task /\ Waiting(s) \subseteq Task
  BY DEF Waiting
<1> QED
  BY <1>1, <1>2, <1>3

LEMMA BlocksFacts ==
    ASSUME TypeOK, NEW t \in Task, Blocks(t)
    PROVE  /\ op[t].kind = "sleep" =>
                  /\ Sleeping' = Sleeping \cup {t}
                  /\ \A s \in Sem : Waiting(s)' = Waiting(s)
           /\ op[t].kind = "dec" =>
                  /\ Sleeping' = Sleeping
                  /\ \A s \in Sem : Waiting(s)' = IF s = op[t].sem
                                                  THEN Waiting(s) \cup {t}
                                                  ELSE Waiting(s)
           /\ t \notin Sleeping /\ \A s \in Sem : t \notin Waiting(s)
<1>1. /\ op' = op /\ state'[t] = "BLOCKED" /\ state[t] # "BLOCKED"
      /\ \A u \in Task \ {t} : state'[u] = state[u]
  BY ThreadFacts DEF Blocks, TypeOK
<1>2. t \notin Sleeping /\ \A s \in Sem : t \notin Waiting(s)
  BY <1>1 DEF Sleeping, Waiting
<1>3. CASE op[t].kind = "sleep"
  <2>1. Sleeping' = Sleeping \cup {t}
    BY <1>1, <1>3 DEF Sleeping
  <2>2. \A s \in Sem : Waiting(s)' = Waiting(s)
    BY <1>1, <1>3 DEF Waiting
  <2> QED
    BY <1>2, <1>3, <2>1, <2>2
<1>4. CASE op[t].kind = "dec"
  <2>1. Sleeping' = Sleeping
    BY <1>1, <1>4 DEF Sleeping
  <2>2. ASSUME NEW s \in Sem
        PROVE  Waiting(s)' = IF s = op[t].sem THEN Waiting(s) \cup {t} ELSE Waiting(s)
    <3>1. CASE s = op[t].sem
      BY <1>1, <1>4, <3>1 DEF Waiting
    <3>2. CASE s # op[t].sem
      BY <1>1, <1>4, <3>2 DEF Waiting
    <3> QED
      BY <3>1, <3>2
  <2> QED
    BY <1>2, <1>4, <2>1, <2>2
<1> QED
  BY <1>2, <1>3, <1>4

LEMMA ReadiesFacts ==
    ASSUME TypeOK, NEW u \in Task, Readies(u)
    PROVE  /\ Sleeping' = Sleeping \ {u}
           /\ \A s \in Sem : Waiting(s)' = Waiting(s) \ {u}
<1>1. /\ op' = op /\ state'[u] # "BLOCKED"
      /\ \A v \in Task \ {u} : state'[v] = state[v]
  BY ThreadFacts DEF Readies, TypeOK
<1>2. Sleeping' = Sleeping \ {u}
  BY <1>1 DEF Sleeping
<1>3. \A s \in Sem : Waiting(s)' = Waiting(s) \ {u}
  BY <1>1 DEF Waiting
<1> QED
  BY <1>2, <1>3

---------------------------------------------------------------------------
(* Queues of two *)

LEMMA TwoItems ==
    ASSUME NEW S, NEW l \in Seq(S), Distinct(l), NEW a, NEW b, Items(l) \subseteq {a, b}
    PROVE  Len(l) <= 2
<1>1. SUFFICES ASSUME ~(Len(l) <= 2)
               PROVE  FALSE
  OBVIOUS
<1>2. 1 \in 1..Len(l) /\ 2 \in 1..Len(l) /\ 3 \in 1..Len(l)
  BY <1>1
<1>3. l[1] \in {a, b} /\ l[2] \in {a, b} /\ l[3] \in {a, b}
  BY <1>2 DEF Items
<1>4. l[1] # l[2] /\ l[1] # l[3] /\ l[2] # l[3]
  BY <1>2 DEF Distinct
<1> QED
  BY <1>3, <1>4

\* Of a queue of two at most, mv_list_pop_head only loses the head.
LEMMA PopOfTwo ==
    ASSUME NEW S, NEW q \in Queues(S), q.items # <<>>, Distinct(q.items),
           Len(q.items) <= 2
    PROVE  /\ Items(QueuePopHead(q).items) = Items(q.items) \ {q.items[1]}
           /\ Len(QueuePopHead(q).items) <= 1
<1>1. q.items \in Seq(S)
  BY DEF Queues
<1>2. CASE Len(q.items) = 1
  <2>1. QueuePopHead(q).items = <<>>
    BY <1>2 DEF QueuePopHead, EmptyQueue
  <2>2. Items(q.items) = {q.items[1]}
    BY <1>2 DEF Items
  <2> QED
    BY <2>1, <2>2 DEF Items
<1>3. CASE Len(q.items) = 2
  <2>1. QueuePopHead(q).items = <<q.items[2]>>
    BY <1>3 DEF QueuePopHead
  <2>2. Items(q.items) = {q.items[1], q.items[2]}
    BY <1>3 DEF Items
  <2>3. Items(<<q.items[2]>>) = {q.items[2]} /\ Len(<<q.items[2]>>) = 1
    BY DEF Items
  <2>4. q.items[1] # q.items[2]
    BY <1>3 DEF Distinct
  <2> QED
    BY <2>1, <2>2, <2>3, <2>4
<1>4. Len(q.items) = 1 \/ Len(q.items) = 2
  <2> DEFINE n == Len(q.items)
  <2>1. n \in Nat /\ n # 0 /\ n <= 2
    BY <1>1
  <2> HIDE DEF n
  <2>2. n = 1 \/ n = 2
    BY <2>1
  <2> QED
    BY <2>2 DEF n
<1> QED
  BY <1>2, <1>3, <1>4

LEMMA ShortQueues ==
    ASSUME TwoSleepers, TwoWaiters, StateInv
    PROVE  /\ Len(alarms.items) <= 2
           /\ \A s \in Sem : Len(waiters[s].items) <= 2
<1>1. \A t \in Task : op[t].kind # "none" => op[t] \in Program[t]
  BY DEF StateInv, LockInv, CallsOK, NoCall
<1>2. Len(alarms.items) <= 2
  <2>1. PICK a, b \in Task : \A t \in Task : \A c \in Program[t] :
                c.kind = "sleep" => t \in {a, b}
    BY DEF TwoSleepers
  <2>2. Sleeping \subseteq {a, b}
    BY <1>1, <2>1 DEF Sleeping
  <2>3. /\ Items(alarms.items) \subseteq Sleeping /\ Distinct(alarms.items)
        /\ alarms.items \in Seq(Task)
    BY DEF StateInv, LockInv, QueuesOK, TypeOK, Queues
  <2> QED
    BY <2>2, <2>3, TwoItems
<1>3. ASSUME NEW s \in Sem
      PROVE  Len(waiters[s].items) <= 2
  <2>1. PICK a, b \in Task : \A t \in Task : \A c \in Program[t] :
                c.kind = "dec" /\ c.sem = s => t \in {a, b}
    BY DEF TwoWaiters
  <2>2. Waiting(s) \subseteq {a, b}
    BY <1>1, <2>1 DEF Waiting
  <2>3. /\ Items(waiters[s].items) \subseteq Waiting(s) /\ Distinct(waiters[s].items)
        /\ waiters[s].items \in Seq(Task)
    BY DEF StateInv, LockInv, QueuesOK, TypeOK, Queues
  <2> QED
    BY <2>2, <2>3, TwoItems
<1> QED
  BY <1>2, <1>3

---------------------------------------------------------------------------
(* NoLostWakeup *)

LEMMA LostStep ==
    ASSUME TwoSleepers, TwoWaiters, StateInv, NoLostWakeup, Move
    PROVE  NoLostWakeup'
<1> USE DEF StateInv, LockInv, semVars
<1>1. Len(alarms.items) <= 2 /\ \A s \in Sem : Len(waiters[s].items) <= 2
  BY ShortQueues
<1>2. /\ alarms \in Queues(Task) /\ Distinct(alarms.items)
      /\ \A s \in Sem : waiters[s] \in Queues(Task) /\ Distinct(waiters[s].items)
  BY DEF TypeOK, QueuesOK
<1>3. ASSUME Settled, UNCHANGED <<alarms, waiters>>
      PROVE  NoLostWakeup'
  BY <1>3, SettledFacts DEF NoLostWakeup
<1>4. CASE Wakes
  <2>1. alarms.items[1] \in Sleeping /\ alarms.items[1] \in Task
    BY <1>2, <1>4, HeadIsItem DEF Wakes, IsEmptyQueue, NoLostWakeup
  <2>2. /\ Sleeping' = Sleeping \ {alarms.items[1]}
        /\ \A s \in Sem : Waiting(s)' = Waiting(s)
    BY <1>4, <2>1, ReadiesFacts DEF Wakes, Sleeping, Waiting
  <2>3. Items(alarms'.items) = Items(alarms.items) \ {alarms.items[1]}
    BY <1>1, <1>2, <1>4, PopOfTwo DEF Wakes
  <2> QED
    BY <1>4, <2>2, <2>3 DEF Wakes, NoLostWakeup
<1>5. ASSUME NEW t \in Task, Sleeps(t)
      PROVE  NoLostWakeup'
  <2>1. Sleeping' = Sleeping \cup {t} /\ \A s \in Sem : Waiting(s)' = Waiting(s)
    BY <1>5, BlocksFacts DEF Sleeps
  <2>2. op[t].arg \in Nat
    BY CallFacts
  <2>3. Items(alarms'.items) = Items(alarms.items) \cup {t}
    BY <1>2, <1>5, <2>2, InsertAlarmFacts DEF Sleeps, TypeOK
  <2> QED
    BY <1>5, <2>1, <2>3 DEF Sleeps, NoLostWakeup
<1>6. ASSUME NEW s \in Sem, Hands(s)
      PROVE  NoLostWakeup'
  <2> DEFINE u == waiters[s].items[1]
  <2>1. u \in Waiting(s) /\ u \in Task
    BY <1>2, <1>6, HeadIsItem DEF Hands, IsEmptyQueue, NoLostWakeup
  <2>2. Sleeping' = Sleeping \ {u} /\ \A r \in Sem : Waiting(r)' = Waiting(r) \ {u}
    BY <1>6, <2>1, ReadiesFacts DEF Hands
  <2>3. u \notin Sleeping /\ \A r \in Sem \ {s} : u \notin Waiting(r)
    BY <2>1 DEF Sleeping, Waiting
  <2>4. /\ waiters'[s] = QueuePopHead(waiters[s])
        /\ \A r \in Sem \ {s} : waiters'[r] = waiters[r]
    BY <1>6 DEF Hands, TypeOK
  <2>5. Items(waiters'[s].items) = Items(waiters[s].items) \ {u}
    BY <1>1, <1>2, <1>6, <2>4, PopOfTwo DEF Hands
  <2>6. alarms' = alarms
    BY <1>6 DEF Hands
  <2> HIDE DEF u
  <2>7. Items(alarms'.items) = Sleeping'
    BY <2>2, <2>3, <2>6 DEF NoLostWakeup
  <2>8. ASSUME NEW r \in Sem
        PROVE  Items(waiters'[r].items) = Waiting(r)'
    <3>1. CASE r = s
      BY <2>2, <2>5, <3>1 DEF NoLostWakeup
    <3>2. CASE r # s
      BY <2>2, <2>3, <2>4, <3>2 DEF NoLostWakeup
    <3> QED
      BY <3>1, <3>2
  <2> QED
    BY <2>7, <2>8 DEF NoLostWakeup
<1>7. ASSUME NEW s \in Sem, NEW t \in Task, Waits(s, t)
      PROVE  NoLostWakeup'
  <2>1. /\ Sleeping' = Sleeping
        /\ Waiting(s)' = Waiting(s) \cup {t}
        /\ \A r \in Sem \ {s} : Waiting(r)' = Waiting(r)
    BY <1>7, BlocksFacts DEF Waits
  <2>2. /\ waiters'[s] = QueueAddTail(waiters[s], t)
        /\ \A r \in Sem \ {s} : waiters'[r] = waiters[r]
        /\ alarms' = alarms
    BY <1>7 DEF Waits, TypeOK
  <2>3. Items(waiters'[s].items) = Items(waiters[s].items) \cup {t}
    <3> DEFINE q == waiters[s]
    <3>1. q \in Queues(Task)
      BY <1>2
    <3> HIDE DEF q
    <3>2. Items(QueueAddTail(q, t).items) = Items(q.items) \cup {t}
      BY <3>1, QueueAddItems
    <3> QED
      BY <2>2, <3>2 DEF q
  <2>4. ASSUME NEW r \in Sem
        PROVE  Items(waiters'[r].items) = Waiting(r)'
    <3>1. CASE r = s
      BY <2>1, <2>3, <3>1 DEF NoLostWakeup
    <3>2. CASE r # s
      BY <2>1, <2>2, <3>2 DEF NoLostWakeup
    <3> QED
      BY <3>1, <3>2
  <2> QED
    BY <2>1, <2>2, <2>4 DEF NoLostWakeup
<1>8. ASSUME NEW s \in Sem, Resets(s)
      PROVE  NoLostWakeup'
  <2>1. Sleeping' = Sleeping /\ \A r \in Sem : Waiting(r)' = Waiting(r)
    BY <1>8, SettledFacts DEF Resets
  <2>2. /\ Waiting(s) = {} /\ waiters'[s] = EmptyQueue
        /\ \A r \in Sem \ {s} : waiters'[r] = waiters[r]
        /\ alarms' = alarms
    BY <1>8 DEF Resets, TypeOK
  <2>3. Items(EmptyQueue.items) = {}
    BY DEF EmptyQueue, Items
  <2>4. ASSUME NEW r \in Sem
        PROVE  Items(waiters'[r].items) = Waiting(r)'
    <3>1. CASE r = s
      BY <2>1, <2>2, <2>3, <3>1
    <3>2. CASE r # s
      BY <2>1, <2>2, <3>2 DEF NoLostWakeup
    <3> QED
      BY <3>1, <3>2
  <2> QED
    BY <2>1, <2>2, <2>4 DEF NoLostWakeup
<1> QED
  BY <1>3, <1>4, <1>5, <1>6, <1>7, <1>8
     DEF Move, Keeps, Takes, Gives, Makes, Breaks

---------------------------------------------------------------------------
(* CountIsWaiters *)

\* The count of a semaphore and those who wait for it.
Agrees(n, W) == IF n < 0 THEN Cardinality(W) = -n ELSE W = {}

LEMMA AgreesFacts ==
    ASSUME NEW n \in Int, NEW W, IsFiniteSet(W), Agrees(n, W), NEW x
    PROVE  /\ n >= 0 => W = {}
           /\ x \notin W /\ n <= 0 => Agrees(n - 1, W \cup {x})
           /\ x \in W => n < 0 /\ Agrees(n + 1, W \ {x})
<1>1. n >= 0 => W = {}
  BY DEF Agrees
<1>2. ASSUME x \notin W, n <= 0
      PROVE  Agrees(n - 1, W \cup {x})
  <2>1. Cardinality(W) = -n
    BY <1>2, FS_EmptySet DEF Agrees
  <2>2. Cardinality(W \cup {x}) = -(n - 1)
    BY <1>2, <2>1, FS_AddElement
  <2> QED
    BY <1>2, <2>2 DEF Agrees
<1>3. ASSUME x \in W
      PROVE  n < 0 /\ Agrees(n + 1, W \ {x})
  <2>1. n < 0 /\ Cardinality(W) = -n
    BY <1>3 DEF Agrees
  <2>2. IsFiniteSet(W \ {x}) /\ Cardinality(W \ {x}) = -(n + 1)
    BY <1>3, <2>1, FS_RemoveElement
  <2>3. n + 1 = 0 => W \ {x} = {}
    BY <2>2, FS_EmptySet
  <2> QED
    BY <2>1, <2>2, <2>3 DEF Agrees
<1> QED
  BY <1>1, <1>2, <1>3

LEMMA CountStep ==
    ASSUME StateInv, NoLostWakeup, CountIsWaiters, Move
    PROVE  CountIsWaiters'
<1> USE DEF StateInv, LockInv, semVars
<1>1. \A s \in Sem : /\ count[s] \in Int /\ IsFiniteSet(Waiting(s))
                     /\ Agrees(count[s], Waiting(s))
  <2>1. \A s \in Sem : Waiting(s) \subseteq Task
    BY DEF Waiting
  <2> QED
    BY <2>1, FS_Subset, MarvinAssumption DEF TypeOK, CountIsWaiters, Agrees
<1>2. ASSUME NEW s \in Sem, Agrees(count'[s], Waiting(s)'),
             \A r \in Sem \ {s} : count'[r] = count[r] /\ Waiting(r)' = Waiting(r)
      PROVE  CountIsWaiters'
  BY <1>1, <1>2 DEF CountIsWaiters, Agrees
<1>3. CASE Keeps \/ Wakes \/ \E t \in Task : Sleeps(t)
  <2>1. count' = count
    BY <1>3 DEF Keeps, Wakes, Sleeps
  <2>2. \A s \in Sem : Waiting(s)' = Waiting(s)
    <3>1. CASE Keeps
      BY <3>1, SettledFacts DEF Keeps
    <3>2. CASE Wakes
      <4>1. alarms.items[1] \in Sleeping /\ alarms.items[1] \in Task
        BY <3>2, HeadIsItem DEF Wakes, IsEmptyQueue, NoLostWakeup, TypeOK
      <4> QED
        BY <3>2, <4>1, ReadiesFacts DEF Wakes, Sleeping, Waiting
    <3>3. ASSUME NEW t \in Task, Sleeps(t)
          PROVE  \A s \in Sem : Waiting(s)' = Waiting(s)
      BY <3>3, BlocksFacts DEF Sleeps
    <3> QED
      BY <1>3, <3>1, <3>2, <3>3
  <2> QED
    BY <1>1, <2>1, <2>2 DEF CountIsWaiters
<1>4. ASSUME NEW s \in Sem, Takes(s) \/ Gives(s) \/ Makes(s) \/ Breaks(s)
      PROVE  CountIsWaiters'
  <2>1. \A r \in Sem : Waiting(r)' = Waiting(r)
    BY <1>4, SettledFacts DEF Takes, Gives, Makes, Breaks, Resets
  <2>2. \A r \in Sem \ {s} : count'[r] = count[r]
    BY <1>4 DEF Takes, Gives, Makes, Breaks, TypeOK
  <2>3. count'[s] \in Nat /\ Waiting(s) = {}
    <3> USE DEF Agrees
    <3>1. CASE Takes(s)
      <4>1. count[s] > 0 /\ count'[s] = count[s] - 1
        BY <3>1 DEF Takes, TypeOK
      <4> QED
        BY <1>1, <4>1
    <3>2. CASE Gives(s)
      <4>1. count[s] >= 0 /\ count'[s] = count[s] + 1
        BY <3>2 DEF Gives, TypeOK
      <4> QED
        BY <1>1, <4>1
    <3>3. CASE Makes(s)
      BY <3>3 DEF Makes, Resets, TypeOK
    <3>4. CASE Breaks(s)
      BY <3>4 DEF Breaks, Resets, TypeOK
    <3> QED
      BY <1>4, <3>1, <3>2, <3>3, <3>4
  <2> QED
    BY <1>2, <2>1, <2>2, <2>3 DEF Agrees
<1>5. ASSUME NEW s \in Sem, NEW t \in Task, Waits(s, t)
      PROVE  CountIsWaiters'
  <2>1. /\ Waiting(s)' = Waiting(s) \cup {t} /\ t \notin Waiting(s)
        /\ \A r \in Sem \ {s} : Waiting(r)' = Waiting(r)
    BY <1>5, BlocksFacts DEF Waits
  <2>2. /\ count'[s] = count[s] - 1 /\ count[s] <= 0
        /\ \A r \in Sem \ {s} : count'[r] = count[r]
    BY <1>5 DEF Waits, TypeOK
  <2>3. Agrees(count'[s], Waiting(s)')
    BY <1>1, <2>1, <2>2, AgreesFacts
  <2> QED
    BY <1>2, <2>1, <2>2, <2>3
<1>6. ASSUME NEW s \in Sem, Hands(s)
      PROVE  CountIsWaiters'
  <2> DEFINE u == waiters[s].items[1]
  <2>1. u \in Waiting(s) /\ u \in Task
    BY <1>6, HeadIsItem DEF Hands, IsEmptyQueue, NoLostWakeup, TypeOK
  <2>2. \A r \in Sem : Waiting(r)' = Waiting(r) \ {u}
    BY <1>6, <2>1, ReadiesFacts DEF Hands
  <2>3. \A r \in Sem \ {s} : u \notin Waiting(r)
    BY <2>1 DEF Waiting
  <2>4. /\ count'[s] = count[s] + 1 /\ count[s] < 0
        /\ \A r \in Sem \ {s} : count'[r] = count[r]
    BY <1>6 DEF Hands, TypeOK
  <2> HIDE DEF u
  <2>5. Agrees(count'[s], Waiting(s)')
    <3>1. /\ count[s] \in Int /\ IsFiniteSet(Waiting(s))
          /\ Agrees(count[s], Waiting(s))
      BY <1>1
    <3>2. Agrees(count[s] + 1, Waiting(s) \ {u})
      BY <2>1, <3>1, AgreesFacts
    <3> QED
      BY <2>2, <2>4, <3>2
  <2> QED
    BY <1>2, <2>2, <2>3, <2>4, <2>5
<1> QED
  BY <1>3, <1>4, <1>5, <1>6 DEF Move

---------------------------------------------------------------------------
(* CalendarSorted and DueOK *)

\* The order of the calendar only depends on what is left of each alarm.
LEMMA OrderKept ==
    ASSUME TypeOK, alarms' = alarms,
           \A t \in Task : left'[t] = left[t] \/ left'[t] = Minus1(left[t]),
           \A t, u \in Task : left[t] <= left[u] => left'[t] <= left'[u],
           CalendarSorted
    PROVE  CalendarSorted'
<1>1. \A i \in 1..Len(alarms.items) : alarms.items[i] \in Task
  BY DEF TypeOK, Queues
<1> QED
  BY <1>1 DEF CalendarSorted

\* A queue of one item is in order, whatever the order.
LEMMA OneInOrder ==
    ASSUME NEW q \in Queues(Task), Len(q.items) <= 1,
           NEW i \in 1..Len(q.items), NEW j \in 1..Len(q.items), i < j
    PROVE  FALSE
<1> DEFINE n == Len(q.items)
<1>1. n \in Nat /\ n <= 1 /\ i \in 1..n /\ j \in 1..n
  BY DEF Queues
<1> HIDE DEF n
<1> QED
  BY <1>1

\* What the three ways to insert make of a list of one item.
Pair(l, x, y) == Len(l) = 2 /\ l[1] = x /\ l[2] = y

LEMMA PairFacts ==
    ASSUME NEW S, NEW l \in Seq(S), Len(l) = 1, NEW x \in S
    PROVE  /\ l # <<>> /\ 1 \in 1..Len(l)
           /\ Pair(<<x>> \o l, x, l[1])
           /\ Pair(AddTail(l, x), l[1], x)
<1>1. l # <<>> /\ 1 \in 1..Len(l)
  OBVIOUS
<1>2. Pair(<<x>> \o l, x, l[1])
  BY DEF Pair
<1>3. Tail(l) \in Seq(S) /\ Len(Tail(l)) = 0
  BY <1>1
<1>4. Pair(<<l[1], x>> \o Tail(l), l[1], x)
  <2> DEFINE m == <<l[1], x>>
             k == Tail(l)
  <2>1. m \in Seq(S) /\ Len(m) = 2 /\ m[1] = l[1] /\ m[2] = x
    BY <1>1
  <2>2. k \in Seq(S) /\ Len(k) = 0
    BY <1>3
  <2> HIDE DEF m, k
  <2>3. Len(m \o k) = 2 /\ (m \o k)[1] = m[1] /\ (m \o k)[2] = m[2]
    BY <2>1, <2>2, SMTT(20)
  <2> QED
    BY <2>1, <2>3 DEF Pair, m, k
<1>5. AddTail(l, x) = <<l[1], x>> \o Tail(l)
  BY <1>1 DEF AddTail
<1> QED
  BY <1>1, <1>2, <1>4, <1>5

\* The sorted insertion into a calendar of one alarm at most.
LEMMA InsertSorted ==
    ASSUME NEW q \in Queues(Task), Len(q.items) <= 1, NEW t \in Task,
           NEW w \in Nat, left \in [Task -> 0..MaxSleep],
           NEW lft \in [Task -> Nat], lft[t] = w,
           \A u \in Task \ {t} : lft[u] = left[u], t \notin Items(q.items),
           NEW i \in 1..Len(InsertAlarm(q, t, w).items),
           NEW j \in 1..Len(InsertAlarm(q, t, w).items), i < j
    PROVE  lft[InsertAlarm(q, t, w).items[i]] <= lft[InsertAlarm(q, t, w).items[j]]
<1> DEFINE r == InsertAlarm(q, t, w)
           n == Len(q.items)
<1>1. q.items \in Seq(Task) /\ n \in Nat
  BY DEF Queues
<1>2. CASE n = 0
  <2>1. r = QueueAddTail(q, t)
    BY <1>1, <1>2 DEF InsertAlarm, IsEmptyQueue
  <2>2. r.items = <<t>>
    BY <1>1, <1>2, <2>1 DEF QueueAddTail, AddTail, Queues
  <2> QED
    BY <2>2
<1>3. CASE n = 1
  <2> DEFINE h == q.items[1]
  <2>1. h \in Items(q.items) /\ h \in Task /\ h # t
    BY <1>1, <1>3 DEF Items
  <2>2. lft[h] = left[h] /\ left[h] \in Nat
    BY <2>1, MarvinAssumption
  <2>3. /\ q.items # <<>> /\ 1 \in 1..Len(q.items)
        /\ Pair(<<t>> \o q.items, t, h)
        /\ Pair(AddTail(q.items, t), h, t)
    BY <1>1, <1>3, PairFacts
  <2>4. CASE w <= left[h] /\ ~(q.ring /\ left[h] < w)
    <3>1. r = QueueAddHead(q, t)
      BY <1>1, <1>3, <2>4 DEF InsertAlarm, IsEmptyQueue
    <3>2. r.items = <<t>> \o q.items
      BY <3>1 DEF QueueAddHead, Queues
    <3>3. Pair(r.items, t, h)
      BY <2>3, <3>2
    <3> QED
      BY <2>2, <2>4, <3>3 DEF Pair
  <2>5. CASE left[h] < w
    <3>1. r \in {QueueAddTail(q, t), QueueInsertAfter(q, 1, t)}
      <4>1. CASE q.ring
        BY <1>1, <1>3, <2>2, <2>5, <4>1 DEF InsertAlarm, IsEmptyQueue
      <4>2. CASE ~q.ring
        <5>1. r = LET after == CHOOSE k \in 1..Len(q.items) :
                          /\ k = Len(q.items) \/ left[q.items[k + 1]] >= w
                          /\ \A p \in 2..k : left[q.items[p]] < w
                  IN  QueueInsertAfter(q, after, t)
          BY <1>1, <1>3, <2>2, <2>5, <4>2 DEF InsertAlarm, IsEmptyQueue
        <5>2. \A k \in 1..Len(q.items) : k = 1
          BY <1>3
        <5>3. /\ 1 \in 1..Len(q.items) /\ 1 = Len(q.items)
              /\ \A p \in 2..1 : left[q.items[p]] < w
          BY <1>3
        <5> QED
          BY <5>1, <5>2, <5>3
      <4> QED
        BY <4>1, <4>2
    <3>2. Pair(QueueAddTail(q, t).items, h, t)
      BY <2>3 DEF QueueAddTail, Queues
    <3>3. Pair(QueueInsertAfter(q, 1, t).items, h, t)
      <4>1. /\ Len(QueueInsertAfter(q, 1, t).items) = Len(q.items) + 1
            /\ \A k \in 1..(Len(q.items) + 1) :
                   QueueInsertAfter(q, 1, t).items[k] =
                       IF k <= 1 THEN q.items[k]
                       ELSE IF k = 1 + 1 THEN t
                       ELSE q.items[k - 1]
        BY <2>3, QueueInsertAfterShape
      <4> QED
        BY <1>3, <4>1 DEF Pair
    <3>4. Pair(r.items, h, t)
      BY <3>1, <3>2, <3>3
    <3> QED
      BY <2>2, <2>5, <3>4 DEF Pair
  <2>6. w <= left[h] \/ left[h] < w
    BY <2>2
  <2>7. w <= left[h] => ~(left[h] < w)
    BY <2>2
  <2> QED
    BY <2>4, <2>5, <2>6, <2>7
<1>4. n = 0 \/ n = 1
  <2>1. n \in Nat /\ n <= 1
    BY <1>1
  <2> HIDE DEF n
  <2> QED
    BY <2>1
<1> QED
  BY <1>2, <1>3, <1>4

LEMMA OneItem ==
    ASSUME NEW S, NEW l \in Seq(S), Distinct(l), NEW a, Items(l) \subseteq {a}
    PROVE  Len(l) <= 1
<1>1. SUFFICES ASSUME ~(Len(l) <= 1)
               PROVE  FALSE
  OBVIOUS
<1>2. 1 \in 1..Len(l) /\ 2 \in 1..Len(l)
  BY <1>1
<1>3. l[1] = a /\ l[2] = a
  BY <1>2 DEF Items
<1> QED
  BY <1>2, <1>3 DEF Distinct

LEMMA OrderStep ==
    ASSUME TwoSleepers, TwoWaiters, StateInv, CalendarSorted, DueOK, [Next]_vars
    PROVE  CalendarSorted' /\ DueOK'
<1> USE DEF StateInv, LockInv, vars, tickVars, listVars, cbVars, semVars,
            threadVars, lockVars
<1>1. ASSUME UNCHANGED <<alarms, left>>
      PROVE  CalendarSorted'
  BY <1>1 DEF CalendarSorted
<1>2. ASSUME UNCHANGED <<alarms, left, in_cb, due>>
      PROVE  CalendarSorted' /\ DueOK'
  BY <1>2 DEF CalendarSorted, DueOK
<1>3. alarms \in Queues(Task) /\ left \in [Task -> 0..MaxSleep]
  BY DEF TypeOK
<1>4. \A i \in 1..Len(alarms.items) : alarms.items[i] \in Task
  BY <1>3 DEF Queues
<1>5. \A t \in Task : left[t] \in Nat
  BY <1>3, MarvinAssumption
<1>6. CASE Tick
  <2>1. /\ left' = [t \in Task |-> Minus1(left[t])]
        /\ UNCHANGED <<alarms, in_cb, due>>
    BY <1>6 DEF Tick
  <2>2. \A t, u \in Task : left[t] <= left[u] => left'[t] <= left'[u]
    BY <1>5, <2>1 DEF Minus1
  <2>3. CalendarSorted'
    BY <1>4, <2>1, <2>2 DEF CalendarSorted
  <2> QED
    BY <2>1, <2>3 DEF DueOK
<1>7. CASE EnterCommand \/ EnterTick
  <2>1. UNCHANGED <<alarms, left>> /\ due' = Expired
    BY <1>7 DEF EnterCommand, EnterTick
  <2>2. ASSUME NEW i \in 1..Len(alarms.items), NEW j \in 1..Len(alarms.items),
               i < j, alarms.items[j] \in Expired
        PROVE  alarms.items[i] \in Expired
    <3>1. left[alarms.items[i]] <= left[alarms.items[j]] /\ left[alarms.items[j]] = 0
      BY <2>2 DEF CalendarSorted, Expired
    <3>2. left[alarms.items[i]] = 0
      BY <1>4, <1>5, <3>1
    <3> QED
      BY <3>2 DEF Expired, Items
  <2> QED
    BY <1>1, <2>1, <2>2 DEF DueOK
<1>8. CASE WakeAlarm
  <2>1. alarms' = QueuePopHead(alarms) /\ alarms.items # <<>>
    BY <1>8 DEF WakeAlarm, HeadDue, IsEmptyQueue
  <2>2. Len(alarms'.items) <= 1
    BY <1>3, <2>1, ShortQueues, PopOfTwo DEF QueuesOK
  <2>3. alarms' \in Queues(Task)
    BY <1>3, <2>1, QueuePopHeadType
  <2> QED
    BY <2>2, <2>3, OneInOrder DEF CalendarSorted, DueOK
<1>9. CASE Switch
  BY <1>1, <1>9 DEF Switch, DueOK
<1>10. ASSUME NEW t \in Task, SuspendBody(t)
       PROVE  CalendarSorted' /\ DueOK'
  <2> DEFINE w == op[t].arg
  <2>1. /\ At(t, "body") /\ op[t].kind = "sleep" /\ ~in_cb /\ ~in_cb'
        /\ alarms' = InsertAlarm(alarms, t, w)
        /\ left' = [left EXCEPT ![t] = w]
    BY <1>10 DEF SuspendBody, At, Running
  <2>2. state[t] = "READY"
    BY <2>1, RunningFacts, ThreadFacts DEF At, StateOK, TypeOK
  <2>3. t \notin Sleeping
    BY <2>2 DEF Sleeping
  <2>4. Len(alarms.items) <= 1
    <3>1. PICK a, b \in Task : \A u \in Task : \A c \in Program[u] :
                  c.kind = "sleep" => u \in {a, b}
      BY DEF TwoSleepers
    <3>2. \A u \in Task : op[u].kind = "sleep" => u \in {a, b}
      BY <3>1 DEF CallsOK, NoCall
    <3>3. Sleeping \subseteq {a, b} \ {t} /\ t \in {a, b}
      BY <2>1, <2>3, <3>2 DEF Sleeping
    <3>4. PICK c : Sleeping \subseteq {c}
      BY <3>3
    <3>5. Items(alarms.items) \subseteq {c} /\ Distinct(alarms.items)
      BY <3>4 DEF QueuesOK
    <3>6. alarms.items \in Seq(Task)
      BY <1>3 DEF Queues
    <3> QED
      BY <3>5, <3>6, OneItem
  <2>5. t \notin Items(alarms.items)
    BY <2>3 DEF QueuesOK
  <2>6. w \in Nat
    BY CallFacts
  <2>7. /\ left' \in [Task -> Nat] /\ left'[t] = w
        /\ \A u \in Task \ {t} : left'[u] = left[u]
    BY <1>3, <1>5, <2>1, <2>6
  <2> HIDE DEF w
  <2>8. \A i, j \in 1..Len(InsertAlarm(alarms, t, w).items) : i < j =>
            left'[InsertAlarm(alarms, t, w).items[i]]
                <= left'[InsertAlarm(alarms, t, w).items[j]]
    BY <1>3, <2>4, <2>5, <2>6, <2>7, InsertSorted
  <2> QED
    BY <2>1, <2>8 DEF CalendarSorted, DueOK
<1>11. ASSUME NEW t \in Task, Body(t), ~SuspendBody(t)
       PROVE  CalendarSorted' /\ DueOK'
  <2>1. UNCHANGED <<left, in_cb, due, alarms>>
    BY <1>11
       DEF Body, DecBody, TryDecBody, Inc, IncBody, IncAbort, DestroyBody,
           PlainBody, CreateBody, NoInterrupt
  <2> QED
    BY <1>2, <2>1
<1>12. ASSUME NEW t \in Task, Call(t) \/ Locking(t) \/ Unlocking(t)
       PROVE  CalendarSorted' /\ DueOK'
  BY <1>2, <1>12
     DEF Call, Locking, LockLoad, LockStore, Unlocking, UnlockTest, UnlockMask,
         UnlockCommand, UnlockDrop, UnlockCall, UnlockDec, NoInterrupt
<1>13. ASSUME NEW t \in Thread, Yielding(t)
       PROVE  CalendarSorted' /\ DueOK'
  BY <1>2, <1>13 DEF Yielding, YieldMask, YieldCommand, YieldCall, NoInterrupt
<1>14. CASE PowerOff \/ EnterLocked \/ IdleCheck \/ Stopped \/ UNCHANGED vars
  BY <1>2, <1>14 DEF PowerOff, EnterLocked, IdleCheck, Stopped
<1> QED
  BY <1>6, <1>7, <1>8, <1>9, <1>10, <1>11, <1>12, <1>13, <1>14, ThreadFacts
     DEF Next, Handler, Kernel

---------------------------------------------------------------------------
(* The theorems *)

LEMMA InitBooks == Init => BooksInv
<1> SUFFICES ASSUME Init
             PROVE  BooksInv
  OBVIOUS
<1>1. StateInv
  BY InitStateInv
<1>2. \A t \in Task : op[t].kind = "none" /\ state[t] = "READY"
  BY ThreadFacts DEF Init, NoCall
<1>3. Sleeping = {} /\ \A s \in Sem : Waiting(s) = {}
  BY <1>2 DEF Sleeping, Waiting
<1>4. Items(EmptyQueue.items) = {} /\ Len(EmptyQueue.items) = 0
  BY DEF EmptyQueue, Items
<1>5. NoLostWakeup
  BY <1>3, <1>4 DEF Init, NoLostWakeup
<1>6. CountIsWaiters
  BY <1>3, BootAssumption DEF Init, CountIsWaiters
<1>7. CalendarSorted /\ DueOK
  BY <1>4 DEF Init, CalendarSorted, DueOK
<1>8. UsesOK
  BY <1>2 DEF UsesOK
<1> QED
  BY <1>1, <1>5, <1>6, <1>7, <1>8 DEF BooksInv

LEMMA BooksStep ==
    ASSUME TwoSleepers, TwoWaiters, BooksInv, [Next]_vars
    PROVE  BooksInv' /\ Move
<1>1. StateInv'
  BY TypeStep, CallsStep, LockStep, CommandStep, MaskStep, StateStep,
     LeavingStep, ListsStep, QueuesStep DEF BooksInv, StateInv, LockInv
<1>2. Move
  BY MoveStep DEF BooksInv
<1>3. UsesOK'
  BY UsesStep DEF BooksInv
<1>4. NoLostWakeup' /\ CountIsWaiters'
  BY <1>2, LostStep, CountStep DEF BooksInv
<1>5. CalendarSorted' /\ DueOK'
  BY OrderStep DEF BooksInv
<1> QED
  BY <1>1, <1>2, <1>3, <1>4, <1>5 DEF BooksInv

LEMMA BooksInvariant ==
    ASSUME TwoSleepers, TwoWaiters
    PROVE  Spec => []BooksInv
<1>1. BooksInv /\ [Next]_vars => BooksInv'
  BY BooksStep
<1> QED
  BY InitBooks, <1>1, PTL DEF Spec

\* The queues, the counters and the calendar agree with what the tasks are
\* doing, and the assertions of the scheduler and the semaphores hold.
THEOREM BooksAreBalanced ==
    ASSUME TwoSleepers, TwoWaiters
    PROVE  Spec => []BooksBalance
<1>1. ASSUME BooksInv
      PROVE  AssertionsHold
  <2> USE <1>1 DEF BooksInv, StateInv, LockInv
  <2>1. ASSUME NEW t \in Task, Running(t), pc[t] = "body"
        PROVE  /\ op[t].kind \in {"sleep", "dec"} => state[t] = "READY"
               /\ op[t].kind = "destroy" => count[op[t].sem] >= 0
               /\ op[t].kind = "inc" /\ ~IsEmptyQueue(waiters[op[t].sem]) =>
                      state[waiters[op[t].sem].items[1]] = "BLOCKED"
    <3> DEFINE s == op[t].sem
    <3>1. state[t] = "READY"
      BY <2>1, RunningFacts, ThreadFacts DEF StateOK, TypeOK
    <3>2. ASSUME op[t].kind = "destroy"
          PROVE  count[s] >= 0
      <4>1. s \in Sem /\ count[s] \in Int
        BY <3>2, CallFacts DEF TypeOK
      <4>2. ASSUME NEW u \in Waiting(s)
            PROVE  FALSE
        <5>1. u \in Task \ {t}
          BY <3>2, <4>2 DEF Waiting
        <5> QED
          BY <2>1, <3>2, <4>2, <5>1 DEF Waiting, UsesOK, Uses, OnSemaphore
      <4>3. Cardinality(Waiting(s)) = 0
        BY <4>2, FS_EmptySet
      <4> QED
        BY <4>1, <4>3 DEF CountIsWaiters
    <3>3. ASSUME op[t].kind = "inc", ~IsEmptyQueue(waiters[s])
          PROVE  state[waiters[s].items[1]] = "BLOCKED"
      <4>1. s \in Sem /\ waiters[s] \in Queues(Task)
        BY <3>3, CallFacts DEF TypeOK
      <4>2. waiters[s].items[1] \in Items(waiters[s].items)
        BY <3>3, <4>1, HeadIsItem
      <4> QED
        BY <4>1, <4>2 DEF NoLostWakeup, Waiting
    <3> QED
      BY <3>1, <3>2, <3>3
  <2>2. ASSUME HeadDue
        PROVE  state[alarms.items[1]] = "BLOCKED"
    <3>1. alarms.items[1] \in Items(alarms.items)
      BY <2>2, HeadIsItem DEF HeadDue, TypeOK
    <3> QED
      BY <3>1 DEF NoLostWakeup, Sleeping
  <2> QED
    BY <2>1, <2>2 DEF AssertionsHold
<1>2. BooksInv => BooksBalance
  BY <1>1 DEF BooksInv, StateInv, LockInv, BooksBalance
<1> QED
  BY BooksInvariant, <1>2, PTL

\* scheduler_cb leaves no alarm behind that was over when it began.
THEOREM AlarmsAreAnswered ==
    ASSUME TwoSleepers, TwoWaiters
    PROVE  Spec => AlarmsAnswered
<1>1. ASSUME BooksInv, Switch
      PROVE  Expired \cap due = {}
  <2>1. in_cb /\ ~HeadDue
    BY <1>1 DEF Switch
  <2>2. SUFFICES ASSUME NEW t \in Expired, t \in due
                 PROVE  FALSE
    OBVIOUS
  <2>3. PICK j \in 1..Len(alarms.items) : alarms.items[j] = t
    BY DEF Expired, Items
  <2>4. alarms.items \in Seq(Task)
    BY <1>1 DEF BooksInv, StateInv, LockInv, TypeOK, Queues
  <2>5. 1 \in 1..Len(alarms.items) /\ (j = 1 \/ 1 < j)
    BY <2>3, <2>4
  <2>6. alarms.items[1] \in due
    BY <1>1, <2>1, <2>2, <2>3, <2>5 DEF BooksInv, DueOK
  <2>7. alarms.items # <<>>
    BY <2>4, <2>5
  <2> QED
    BY <2>1, <2>6, <2>7 DEF HeadDue, IsEmptyQueue
<1>2. BooksInv /\ [Next]_vars => [Switch => Expired \cap due = {}]_vars
  BY <1>1
<1> QED
  BY BooksInvariant, <1>2, PTL DEF Spec, AlarmsAnswered

---------------------------------------------------------------------------
(* The refinement *)

Available == [s \in Sem |-> count[s] + Cardinality(Waiting(s))]

WaitingFor == [s \in Sem |-> Waiting(s)]

\* What is available is what a count that is not negative says.
LEMMA CountOfAvailable ==
    ASSUME NEW n \in Int, NEW W, Agrees(n, W)
    PROVE  n + Cardinality(W) = IF n < 0 THEN 0 ELSE n
<1>1. CASE n < 0
  <2>1. Cardinality(W) = -n
    BY <1>1 DEF Agrees
  <2> QED
    BY <1>1, <2>1
<1>2. CASE n >= 0
  <2>1. Cardinality(W) = 0
    BY <1>2, FS_EmptySet DEF Agrees
  <2> QED
    BY <1>2, <2>1
<1> QED
  BY <1>1, <1>2

LEMMA InitRefines == Init => Semaphores!Init
<1> SUFFICES ASSUME Init
             PROVE  Semaphores!Init
  OBVIOUS
<1>1. TypeOK /\ CountIsWaiters
  BY InitBooks DEF BooksInv, StateInv, LockInv
<1>2. \A t \in Task : op[t].kind = "none"
  BY ThreadFacts DEF Init, NoCall
<1>3. \A s \in Sem : Waiting(s) = {}
  BY <1>2 DEF Waiting
<1>4. ASSUME NEW s \in Sem
      PROVE  count[s] + Cardinality(Waiting(s)) \in Nat
  <2>1. count[s] \in Int /\ Agrees(count[s], Waiting(s))
    BY <1>1 DEF TypeOK, CountIsWaiters, Agrees
  <2> QED
    BY <2>1, CountOfAvailable
<1>5. created \in SUBSET Sem
  BY <1>1 DEF TypeOK
<1> QED
  BY <1>3, <1>4, <1>5 DEF Semaphores!Init

\* Every step of the kernel is a step of one semaphore, or of none.
LEMMA StepRefines ==
    ASSUME BooksInv, Move, TypeOK', CountIsWaiters'
    PROVE  [Semaphores!Next]_(Semaphores!vars)
<1> USE DEF BooksInv, StateInv, LockInv, semVars
<1> DEFINE A == Available
           W == WaitingFor
<1>1. ASSUME NEW s \in Sem
      PROVE  /\ count[s] \in Int
             /\ A[s] = IF count[s] < 0 THEN 0 ELSE count[s]
             /\ count[s] >= 0 => Waiting(s) = {}
  <2>1. count[s] \in Int /\ Agrees(count[s], Waiting(s))
    BY DEF TypeOK, CountIsWaiters, Agrees
  <2>2. A[s] = count[s] + Cardinality(Waiting(s))
    BY DEF Available
  <2> QED
    BY <2>1, <2>2, CountOfAvailable DEF Agrees
<1>2. ASSUME NEW s \in Sem
      PROVE  /\ count'[s] \in Int
             /\ A'[s] = IF count'[s] < 0 THEN 0 ELSE count'[s]
  <2>1. count'[s] \in Int /\ Agrees(count'[s], Waiting(s)')
    BY DEF TypeOK, CountIsWaiters, Agrees
  <2>2. A'[s] = count'[s] + Cardinality(Waiting(s)')
    BY DEF Available
  <2> QED
    BY <2>1, <2>2, CountOfAvailable
<1>3. /\ W = [s \in Sem |-> Waiting(s)] /\ W' = [s \in Sem |-> Waiting(s)']
      /\ DOMAIN A = Sem /\ A = [s \in Sem |-> A[s]]
      /\ DOMAIN A' = Sem /\ A' = [s \in Sem |-> A'[s]]
  BY DEF Available, WaitingFor
<1> HIDE DEF A, W
\* The steps that one semaphore makes, and those that none does.
<1>4. ASSUME \A s \in Sem : count'[s] = count[s]
      PROVE  A' = A
  BY <1>1, <1>2, <1>3, <1>4
<1>5. ASSUME NEW s \in Sem, \A r \in Sem \ {s} : count'[r] = count[r]
      PROVE  A' = [A EXCEPT ![s] = A'[s]]
  <2>1. \A r \in Sem \ {s} : A'[r] = A[r]
    BY <1>1, <1>2, <1>5
  <2> QED
    BY <1>3, <2>1
<1>6. ASSUME \A s \in Sem : Waiting(s)' = Waiting(s)
      PROVE  W' = W
  BY <1>3, <1>6
<1>7. CASE Keeps \/ Wakes \/ \E t \in Task : Sleeps(t)
  <2>1. created' = created /\ A' = A
    BY <1>4, <1>7 DEF Keeps, Wakes, Sleeps
  <2>2. W' = W
    <3>1. CASE Keeps
      BY <1>6, <3>1, SettledFacts DEF Keeps
    <3>2. CASE Wakes
      <4>1. alarms.items[1] \in Sleeping /\ alarms.items[1] \in Task
        BY <3>2, HeadIsItem DEF Wakes, IsEmptyQueue, NoLostWakeup, TypeOK
      <4> QED
        BY <1>6, <3>2, <4>1, ReadiesFacts DEF Wakes, Sleeping, Waiting
    <3>3. ASSUME NEW t \in Task, Sleeps(t)
          PROVE  W' = W
      BY <1>6, <3>3, BlocksFacts DEF Sleeps
    <3> QED
      BY <1>7, <3>1, <3>2, <3>3
  <2> QED
    BY <2>1, <2>2 DEF Semaphores!vars, A, W, Available, WaitingFor
<1>8. ASSUME NEW s \in Sem, Takes(s)
      PROVE  Semaphores!Acquire(s)
  <2>1. /\ s \in created /\ created' = created /\ W' = W
    BY <1>6, <1>8, SettledFacts DEF Takes
  <2>2. /\ count[s] > 0 /\ count'[s] = count[s] - 1
        /\ \A r \in Sem \ {s} : count'[r] = count[r]
    BY <1>8 DEF Takes, TypeOK
  <2>3. A[s] > 0 /\ A'[s] = A[s] - 1
    BY <1>1, <1>2, <2>2
  <2>4. A' = [A EXCEPT ![s] = A[s] - 1]
    BY <1>5, <2>2, <2>3
  <2> QED
    BY <2>1, <2>3, <2>4 DEF Semaphores!Acquire, A, W, Available, WaitingFor
<1>9. ASSUME NEW s \in Sem, Gives(s)
      PROVE  Semaphores!Release(s)
  <2>1. /\ s \in created /\ created' = created /\ W' = W
    BY <1>6, <1>9, SettledFacts DEF Gives
  <2>2. /\ count[s] >= 0 /\ count'[s] = count[s] + 1
        /\ \A r \in Sem \ {s} : count'[r] = count[r]
    BY <1>9 DEF Gives, TypeOK
  <2>3. W[s] = {} /\ A'[s] = A[s] + 1
    BY <1>1, <1>2, <1>3, <2>2
  <2>4. A' = [A EXCEPT ![s] = A[s] + 1]
    BY <1>5, <2>2, <2>3
  <2> QED
    BY <2>1, <2>3, <2>4 DEF Semaphores!Release, A, W, Available, WaitingFor
<1>10. ASSUME NEW s \in Sem, Hands(s)
       PROVE  \E u \in Task : Semaphores!HandOver(s, u)
  <2> DEFINE u == waiters[s].items[1]
  <2>1. u \in Waiting(s) /\ u \in Task
    BY <1>10, HeadIsItem DEF Hands, IsEmptyQueue, NoLostWakeup, TypeOK
  <2>2. \A r \in Sem : Waiting(r)' = Waiting(r) \ {u}
    BY <1>10, <2>1, ReadiesFacts DEF Hands
  <2>3. \A r \in Sem \ {s} : Waiting(r)' = Waiting(r)
    BY <2>1, <2>2 DEF Waiting
  <2>4. /\ s \in created /\ created' = created
        /\ count'[s] = count[s] + 1 /\ count[s] < 0
        /\ \A r \in Sem \ {s} : count'[r] = count[r]
    BY <1>10 DEF Hands, TypeOK
  <2> HIDE DEF u
  <2>5. A'[s] = A[s]
    BY <1>1, <1>2, <2>4
  <2>6. A' = A
    BY <1>3, <1>5, <2>4, <2>5
  <2>7. W' = [W EXCEPT ![s] = W[s] \ {u}] /\ u \in W[s]
    BY <1>3, <2>1, <2>2, <2>3
  <2>8. Semaphores!HandOver(s, u)
    BY <2>4, <2>6, <2>7 DEF Semaphores!HandOver, A, W, Available, WaitingFor
  <2> QED
    BY <2>1, <2>8
<1>11. ASSUME NEW s \in Sem, NEW t \in Task, Waits(s, t)
       PROVE  Semaphores!Wait(s, t)
  <2>1. /\ Waiting(s)' = Waiting(s) \cup {t}
        /\ \A r \in Sem \ {s} : Waiting(r)' = Waiting(r)
        /\ \A r \in Sem : t \notin Waiting(r)
    BY <1>11, BlocksFacts DEF Waits
  <2>2. /\ s \in created /\ created' = created
        /\ count'[s] = count[s] - 1 /\ count[s] <= 0
        /\ \A r \in Sem \ {s} : count'[r] = count[r]
    BY <1>11 DEF Waits, TypeOK
  <2>3. A[s] = 0 /\ A'[s] = A[s]
    BY <1>1, <1>2, <2>2
  <2>4. A' = A
    BY <1>3, <1>5, <2>2, <2>3
  <2>5. W' = [W EXCEPT ![s] = W[s] \cup {t}] /\ \A r \in Sem : t \notin W[r]
    BY <1>3, <2>1
  <2> QED
    BY <2>2, <2>3, <2>4, <2>5 DEF Semaphores!Wait, A, W, Available, WaitingFor
<1>12. ASSUME NEW s \in Sem, Makes(s)
       PROVE  Semaphores!Create(s)
  <2>1. /\ s \notin created /\ created' = created \cup {s} /\ W' = W
    BY <1>6, <1>12, SettledFacts DEF Makes, Resets
  <2>2. /\ count'[s] \in Nat
        /\ \A r \in Sem \ {s} : count'[r] = count[r]
    BY <1>12 DEF Makes, TypeOK
  <2>3. A'[s] \in Nat
    BY <1>2, <2>2
  <2>4. A' = [A EXCEPT ![s] = A'[s]]
    BY <1>5, <2>2
  <2> QED
    BY <2>1, <2>3, <2>4 DEF Semaphores!Create, A, W, Available, WaitingFor
<1>13. ASSUME NEW s \in Sem, Breaks(s)
       PROVE  Semaphores!Destroy(s)
  <2>1. /\ s \in created /\ created' = created \ {s} /\ W' = W /\ W[s] = {}
    BY <1>3, <1>6, <1>13, SettledFacts DEF Breaks, Resets
  <2>2. /\ count'[s] = 0
        /\ \A r \in Sem \ {s} : count'[r] = count[r]
    BY <1>13 DEF Breaks, TypeOK
  <2>3. A'[s] = 0
    BY <1>2, <2>2
  <2>4. A' = [A EXCEPT ![s] = 0]
    BY <1>5, <2>2, <2>3
  <2> QED
    BY <2>1, <2>4 DEF Semaphores!Destroy, A, W, Available, WaitingFor
<1> QED
  BY <1>7, <1>8, <1>9, <1>10, <1>11, <1>12, <1>13 DEF Move, Semaphores!Next

\* The semaphores are counting semaphores: no resource is given twice or lost,
\* and nobody waits while one is left.
THEOREM SemaphoresAreImplemented ==
    ASSUME TwoSleepers, TwoWaiters
    PROVE  Spec => ImplementsSemaphores
<1>1. ASSUME BooksInv, [Next]_vars
      PROVE  [Semaphores!Next]_(Semaphores!vars)
  <2>1. BooksInv' /\ Move
    BY <1>1, BooksStep
  <2>2. TypeOK' /\ CountIsWaiters'
    BY <2>1 DEF BooksInv, StateInv, LockInv
  <2> QED
    BY <1>1, <2>1, <2>2, StepRefines
<1> QED
  BY <1>1, InitRefines, BooksInvariant, PTL
     DEF Spec, ImplementsSemaphores, Semaphores!Spec

=============================================================================
