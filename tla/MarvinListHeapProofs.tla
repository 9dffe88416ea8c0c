------------------------ MODULE MarvinListHeapProofs ------------------------
(***************************************************************************)
(* Theorems about the list macros, for any number of nodes: the pointers   *)
(* always link one list of distinct items, with back links to match, and   *)
(* every macro does to it what MarvinList says.                            *)
(***************************************************************************)
EXTENDS MarvinListHeap, FiniteSetTheorems, WellFoundedInduction, TLAPS

---------------------------------------------------------------------------
(* The inductive invariant: the heap (n, p), entered at l, links the items *)
(* of w, as a ring or as a chain                                           *)

HeapOK(n, p, l) ==
    /\ n \in [Pointer -> Pointer \cup {Vector}]
    /\ p \in [Pointer -> Pointer \cup {Vector}]
    /\ l \in Pointer

Links(n, p, l, w, ring) ==
    /\ w \in Seq(Node) /\ Distinct(w) /\ ring \in BOOLEAN
    /\ w = <<>> => l = NULL /\ ring
    /\ w # <<>> =>
           /\ l = w[1]
           /\ \A i \in 1..(Len(w) - 1) : n[w[i]] = w[i + 1]
           /\ n[w[Len(w)]] = IF ring THEN l ELSE NULL
           /\ \A i \in 2..Len(w) : p[w[i]] = w[i - 1]
           /\ p[l] = IF ring THEN w[Len(w)] ELSE NULL

\* The list as MarvinList has it.
Queue(w, ring) == [items |-> w, ring |-> ring]

HeapInv ==
    /\ HeapOK(next, prev, list)
    /\ \E w \in Seq(Node), ring \in BOOLEAN : Links(next, prev, list, w, ring)

---------------------------------------------------------------------------
(* What the operators of MarvinList return, item by item; MarvinProofs has *)
(* what they do to sets of tasks                                          *)

\* AddTail item by item.
LEMMA AddTailShape ==
    ASSUME NEW S, NEW l \in Seq(S), NEW x \in S
    PROVE  /\ AddTail(l, x) \in Seq(S)
           /\ Len(AddTail(l, x)) = Len(l) + 1
           /\ \A i \in 1..(Len(l) + 1) :
                  AddTail(l, x)[i] = IF l = <<>> THEN x
                                     ELSE IF i = 1 THEN l[1]
                                     ELSE IF i = 2 THEN x
                                     ELSE l[i - 1]
<1>1. CASE l = <<>>
  BY <1>1 DEF AddTail
<1>2. CASE l # <<>>
  <2>1. /\ Tail(l) \in Seq(S)
        /\ Len(Tail(l)) = Len(l) - 1
        /\ \A i \in 1..(Len(l) - 1) : Tail(l)[i] = l[i + 1]
    BY <1>2
  <2>2. <<l[1], x>> \in Seq(S) /\ Len(<<l[1], x>>) = 2
    BY <1>2
  <2>3. AddTail(l, x) = <<l[1], x>> \o Tail(l)
    BY <1>2 DEF AddTail
  <2> QED
    BY <1>2, <2>1, <2>2, <2>3
<1> QED
  BY <1>1, <1>2

LEMMA RemoveItemType ==
    ASSUME NEW S, NEW l \in Seq(S), NEW x
    PROVE  RemoveItem(l, x) \in Seq(S)
<1> DEFINE at == CHOOSE i \in 1..Len(l) : l[i] = x
           m == [i \in 1..(Len(l) - 1) |-> IF i < at THEN l[i] ELSE l[i + 1]]
<1>1. m = RemoveItem(l, x)
  BY DEF RemoveItem
<1>2. m \in [1..(Len(l) - 1) -> S]
  BY DEF m
<1> HIDE DEF m
<1>3. CASE l = <<>>
  <2>1. m \in [1..0 -> S]
    BY <1>2, <1>3
  <2>2. m \in Seq(S)
    BY <2>1
  <2> QED
    BY <1>1, <2>2
<1>4. CASE l # <<>>
  <2>1. Len(l) - 1 \in Nat
    BY <1>4
  <2>2. m \in Seq(S)
    BY <1>2, <2>1
  <2> QED
    BY <1>1, <2>2
<1> QED
  BY <1>3, <1>4

\* RemoveItem item by item, with the place of the removed one.
LEMMA RemoveItemShape ==
    ASSUME NEW S, NEW l \in Seq(S), NEW x \in Items(l)
    PROVE  \E at \in 1..Len(l) :
               /\ l[at] = x
               /\ Len(RemoveItem(l, x)) = Len(l) - 1
               /\ \A i \in 1..(Len(l) - 1) :
                      RemoveItem(l, x)[i] = IF i < at THEN l[i] ELSE l[i + 1]
<1> DEFINE at == CHOOSE i \in 1..Len(l) : l[i] = x
<1>1. at \in 1..Len(l) /\ l[at] = x
  BY DEF Items
<1>2. RemoveItem(l, x) =
          [i \in 1..(Len(l) - 1) |-> IF i < at THEN l[i] ELSE l[i + 1]]
  BY DEF RemoveItem
<1> HIDE DEF at
<1>3. Len(l) - 1 \in Nat
  BY <1>1
<1>4. Len(RemoveItem(l, x)) = Len(l) - 1
  BY <1>2, <1>3
<1> QED
  BY <1>1, <1>2, <1>4

LEMMA RemoveItemDistinct ==
    ASSUME NEW S, NEW l \in Seq(S), NEW x \in Items(l), Distinct(l)
    PROVE  Distinct(RemoveItem(l, x))
<1> DEFINE m == RemoveItem(l, x)
<1>1. PICK at \in 1..Len(l) :
               /\ l[at] = x
               /\ Len(m) = Len(l) - 1
               /\ \A i \in 1..(Len(l) - 1) :
                      m[i] = IF i < at THEN l[i] ELSE l[i + 1]
  BY RemoveItemShape
<1> HIDE DEF m
<1>2. Distinct(m)
  BY <1>1 DEF Distinct
<1> QED
  BY <1>2 DEF m

LEMMA RotateForwardShape ==
    ASSUME NEW S, NEW l \in Seq(S)
    PROVE  /\ RotateForward(l) \in Seq(S)
           /\ Len(RotateForward(l)) = Len(l)
           /\ \A i \in 1..Len(l) :
                  RotateForward(l)[i] = IF i = Len(l) THEN l[1] ELSE l[i + 1]
<1>1. RotateForward(l) \in [1..Len(l) -> S]
  BY DEF RotateForward
<1>2. Len(l) \in Nat
  OBVIOUS
<1> QED
  BY <1>1, <1>2 DEF RotateForward

\* mv_list_rotate_forward keeps every item linked, once.
LEMMA RotateForwardItems ==
    ASSUME NEW S, NEW l \in Seq(S)
    PROVE  /\ Items(RotateForward(l)) = Items(l)
           /\ Distinct(l) => Distinct(RotateForward(l))
<1> DEFINE m == RotateForward(l)
<1>1. /\ m \in Seq(S)
      /\ Len(m) = Len(l)
      /\ \A i \in 1..Len(l) : m[i] = IF i = Len(l) THEN l[1] ELSE l[i + 1]
  BY RotateForwardShape
<1> HIDE DEF m
<1>2. Items(m) \subseteq Items(l)
  BY <1>1 DEF Items
<1>3. ASSUME NEW i \in 1..Len(l)
      PROVE  l[i] \in Items(m)
  <2>1. CASE i = 1
    <3>1. Len(l) \in 1..Len(m) /\ m[Len(l)] = l[i]
      BY <1>1, <2>1
    <3> QED
      BY <3>1 DEF Items
  <2>2. CASE i # 1
    <3>1. i - 1 \in 1..Len(m) /\ m[i - 1] = l[i]
      BY <1>1, <2>2
    <3> QED
      BY <3>1 DEF Items
  <2> QED
    BY <2>1, <2>2
<1>4. ASSUME Distinct(l)
      PROVE  Distinct(m)
  BY <1>1, <1>4 DEF Distinct
<1> QED
  BY <1>2, <1>3, <1>4 DEF Items, m

LEMMA QueueInsertAfterType ==
    ASSUME NEW S, NEW q \in Queues(S), NEW x \in S, NEW k \in 1..Len(q.items)
    PROVE  QueueInsertAfter(q, k, x) \in Queues(S)
<1>1. q.items \in Seq(S)
  BY DEF Queues
<1>2. SubSeq(q.items, 1, k) \in Seq(S)
  BY <1>1
<1>3. SubSeq(q.items, k + 1, Len(q.items)) \in Seq(S)
  BY <1>1
<1>4. SubSeq(q.items, 1, k) \o <<x>> \o SubSeq(q.items, k + 1, Len(q.items))
          \in Seq(S)
  BY <1>2, <1>3
<1> QED
  BY <1>4 DEF QueueInsertAfter, Queues

\* The sorted insertion, item by item.
LEMMA QueueInsertAfterShape ==
    ASSUME NEW S, NEW q \in Queues(S), NEW x \in S, NEW k \in 1..Len(q.items)
    PROVE  /\ Len(QueueInsertAfter(q, k, x).items) = Len(q.items) + 1
           /\ \A i \in 1..(Len(q.items) + 1) :
                  QueueInsertAfter(q, k, x).items[i] =
                      IF i <= k THEN q.items[i]
                      ELSE IF i = k + 1 THEN x
                      ELSE q.items[i - 1]
<1> DEFINE l == q.items
           a == SubSeq(l, 1, k)
           b == SubSeq(l, k + 1, Len(l))
<1>1. l \in Seq(S) /\ Len(l) \in Nat /\ k \in 1..Len(l)
  BY DEF Queues
<1>2. /\ a \in Seq(S) /\ Len(a) = k
      /\ \A i \in 1..k : a[i] = l[i]
  BY <1>1
<1>3. /\ b \in Seq(S) /\ Len(b) = Len(l) - k
      /\ \A i \in 1..(Len(l) - k) : b[i] = l[k + i]
  BY <1>1
<1>4. QueueInsertAfter(q, k, x).items = a \o <<x>> \o b
  BY DEF QueueInsertAfter, Queues
<1> HIDE DEF a, b, l
<1>5. /\ a \o <<x>> \in Seq(S) /\ Len(a \o <<x>>) = k + 1
      /\ \A i \in 1..k : (a \o <<x>>)[i] = l[i]
      /\ (a \o <<x>>)[k + 1] = x
  BY <1>2
<1> DEFINE c == a \o <<x>>
<1> HIDE DEF c
<1>6. /\ c \in Seq(S) /\ Len(c) = k + 1
      /\ \A i \in 1..k : c[i] = l[i]
      /\ c[k + 1] = x
  BY <1>5 DEF c
<1>7. Len(c \o b) = Len(l) + 1
  <2>1. c \in Seq(S) /\ b \in Seq(S)
    BY <1>3, <1>6
  <2>2. Len(c \o b) = Len(c) + Len(b)
    BY <2>1
  <2> QED
    BY <1>1, <1>3, <1>6, <2>2
<1>8. ASSUME NEW i \in 1..(Len(l) + 1)
      PROVE  (c \o b)[i] = IF i <= k THEN l[i]
                           ELSE IF i = k + 1 THEN x
                           ELSE l[i - 1]
  <2>1. CASE i <= k + 1
    <3>1. (c \o b)[i] = c[i]
      BY <1>1, <1>3, <1>6, <2>1
    <3> QED
      BY <1>1, <1>6, <2>1, <3>1
  <2>2. CASE i > k + 1
    <3>1. (c \o b)[i] = b[i - (k + 1)]
      BY <1>1, <1>3, <1>6, <2>2
    <3>2. i - (k + 1) \in 1..(Len(l) - k) /\ k + (i - (k + 1)) = i - 1
      BY <1>1, <2>2
    <3> QED
      BY <1>1, <1>3, <2>2, <3>1, <3>2
  <2>3. i <= k + 1 \/ i > k + 1
    BY <1>1
  <2> QED
    BY <2>1, <2>2, <2>3
<1> QED
  BY <1>4, <1>7, <1>8 DEF c, l

\* The while loop that looks for an alarm's place stops at the first item
\* that satisfies its test.
LEMMA LeastIndex ==
    ASSUME NEW T, T \subseteq Nat, T # {}
    PROVE  \E x \in T : \A y \in T : x <= y
<1>1. PICK x \in T : \A y \in T : <<y, x>> \notin OpToRel(<, Nat)
  BY NatLessThanWellFounded, WFMin, Zenon
<1>2. \A y \in T : ~(y < x)
  BY <1>1 DEF OpToRel
<1> QED
  BY <1>2

---------------------------------------------------------------------------
(* The walk *)

\* A sequence of distinct nodes is no longer than there are nodes.
LEMMA NoLonger ==
    ASSUME NEW w \in Seq(Node), Distinct(w)
    PROVE  Cardinality(Node) \in Nat /\ Len(w) <= Cardinality(Node)
<1>1. IsFiniteSet(Node)
  BY HeapAssumption
<1>2. w \in Injection(1..Len(w), Node)
  BY DEF Injection, IsInjective, Distinct
<1>3. Cardinality(1..Len(w)) <= Cardinality(Node)
  BY <1>1, <1>2, FS_Injection
<1>4. Cardinality(1..Len(w)) = Len(w)
  <2> DEFINE L == Len(w)
  <2>1. L \in Nat
    OBVIOUS
  <2> HIDE DEF L
  <2>2. Cardinality(1..L) = IF 1 > L THEN 0 ELSE L - 1 + 1
    BY <2>1, FS_Interval
  <2> QED
    BY <2>1, <2>2 DEF L
<1> QED
  BY <1>1, <1>3, <1>4, FS_CardinalityType

\* f is the walk of m nodes that starts at l.
Walks(n, l, m, f) ==
    f = [i \in 1..m |->
            IF i = 1 THEN l
            ELSE IF f[i - 1] = NULL THEN NULL ELSE n[f[i - 1]]]

\* There are walks of any length, so that Step is one.
LEMMA StepWalks ==
    Walks(next, list, Cardinality(Node) + 1, Step)
<1> DEFINE C == Cardinality(Node) + 1
           T == {m \in 1..C : ~\E f : Walks(next, list, m, f)}
<1>1. C \in Nat \ {0}
  BY HeapAssumption, FS_CardinalityType
<1>2. T = {}
  <2>1. SUFFICES ASSUME T # {} PROVE FALSE
    OBVIOUS
  <2>2. PICK m \in T : \A k \in T : m <= k
    <3>1. T \subseteq Nat
      BY <1>1
    <3> HIDE DEF T
    <3> QED
      BY <2>1, <3>1, LeastIndex
  <2>3. m # 1
    <3>1. Walks(next, list, 1, [i \in 1..1 |-> list])
      BY DEF Walks
    <3> QED
      BY <2>2, <3>1
  <2>4. m \in Nat /\ m - 1 \in 1..C /\ ~(m <= m - 1)
    BY <1>1, <2>2, <2>3
  <2>5. PICK f : Walks(next, list, m - 1, f)
    BY <2>2, <2>4
  <2> DEFINE g == [i \in 1..m |-> IF i = 1 THEN list
                                  ELSE IF f[i - 1] = NULL THEN NULL ELSE next[f[i - 1]]]
  <2>6. \A i \in 1..(m - 1) : g[i] = f[i]
    BY <2>4, <2>5 DEF Walks
  <2>7. \A i \in 1..m : i # 1 => i - 1 \in 1..(m - 1)
    BY <2>4
  <2>8. Walks(next, list, m, g)
    BY <2>6, <2>7 DEF Walks
  <2> QED
    BY <2>2, <2>8
<1>3. \E f : Walks(next, list, C, f)
  BY <1>1, <1>2
<1>4. Walks(next, list, C, CHOOSE f : Walks(next, list, C, f))
  <2> HIDE DEF C
  <2> QED
    BY <1>3
<1>5. Step = CHOOSE f : Walks(next, list, C, f)
  BY DEF Step, Walks
<1> QED
  BY <1>4, <1>5

\* For as long as there are items, the walk visits them.
LEMMA StepVisits ==
    ASSUME NEW w, NEW ring, Links(next, prev, list, w, ring), w # <<>>
    PROVE  \A i \in 1..Len(w) : Step[i] = w[i]
<1>1. /\ w \in Seq(Node) /\ Len(w) \in Nat \ {0} /\ Distinct(w)
      /\ list = w[1]
      /\ \A i \in 1..(Len(w) - 1) : next[w[i]] = w[i + 1]
      /\ \A i \in 1..Len(w) : w[i] # NULL
  BY HeapAssumption DEF Links
<1>2. Cardinality(Node) \in Nat /\ Len(w) <= Cardinality(Node)
  BY <1>1, NoLonger
<1>3. \A i \in 1..Len(w) :
          Step[i] = IF i = 1 THEN list
                    ELSE IF Step[i - 1] = NULL THEN NULL ELSE next[Step[i - 1]]
  <2>1. Walks(next, list, Cardinality(Node) + 1, Step)
    BY StepWalks
  <2>2. 1..Len(w) \subseteq 1..(Cardinality(Node) + 1)
    BY <1>1, <1>2
  <2> QED
    BY <2>1, <2>2 DEF Walks
<1> DEFINE T == {i \in 1..Len(w) : Step[i] # w[i]}
<1>4. SUFFICES ASSUME T # {} PROVE FALSE
  OBVIOUS
<1>5. PICK i \in T : \A j \in T : i <= j
  <2>1. T \subseteq Nat
    BY <1>1
  <2> HIDE DEF T
  <2> QED
    BY <1>4, <2>1, LeastIndex
<1>6. i # 1
  BY <1>1, <1>3, <1>5
<1>7. i - 1 \in 1..(Len(w) - 1) /\ i - 1 \in 1..Len(w) /\ ~(i <= i - 1) /\ (i - 1) + 1 = i
  BY <1>1, <1>5, <1>6
<1>8. Step[i - 1] = w[i - 1]
  BY <1>5, <1>7
<1> QED
  BY <1>1, <1>3, <1>5, <1>6, <1>7, <1>8

\* Walk and Closed are what the pointers link.
WalkIs ==
    \A w \in Seq(Node), ring \in BOOLEAN :
        Links(next, prev, list, w, ring) =>
            Walk = w /\ Closed = ring /\ Abstract = Queue(w, ring)

LEMMA WalkFollowsLinks == WalkIs
<1>0. Abstract = Queue(Walk, Closed)
  BY DEF Abstract, Queue
<1> SUFFICES ASSUME NEW w \in Seq(Node), NEW ring \in BOOLEAN,
                    Links(next, prev, list, w, ring)
             PROVE  Walk = w /\ Closed = ring
  BY <1>0 DEF WalkIs
<1>1. CASE w = <<>>
  BY <1>1 DEF Links, Walk, Closed
<1>2. CASE w # <<>>
  <2>1. /\ Len(w) \in Nat \ {0} /\ Distinct(w)
        /\ list = w[1] /\ list # NULL
        /\ \A i \in 1..(Len(w) - 1) : next[w[i]] = w[i + 1]
        /\ next[w[Len(w)]] = IF ring THEN list ELSE NULL
        /\ \A i \in 1..Len(w) : w[i] # NULL
    BY <1>2, HeapAssumption DEF Links
  <2>2. Cardinality(Node) \in Nat /\ Len(w) <= Cardinality(Node)
    BY <2>1, NoLonger
  <2>3. \A i \in 1..Len(w) : Step[i] = w[i]
    BY <1>2, StepVisits
  <2>4. LastIndex = Len(w)
    <3> DEFINE Last(i) == /\ next[Step[i]] \in {NULL, list}
                          /\ \A j \in 1..(i - 1) : next[Step[j]] \notin {NULL, list}
    <3>1. Last(Len(w)) /\ Len(w) \in 1..Cardinality(Node)
      <4>1. ASSUME NEW j \in 1..(Len(w) - 1)
            PROVE  next[Step[j]] \notin {NULL, list}
        <5>1. j \in 1..Len(w) /\ j + 1 \in 1..Len(w) /\ 1 \in 1..Len(w) /\ j + 1 # 1
          BY <2>1
        <5>2. w[j + 1] # w[1]
          BY <2>1, <5>1 DEF Distinct
        <5> QED
          BY <2>1, <2>3, <5>1, <5>2
      <4>2. Len(w) \in 1..Len(w) /\ Len(w) \in 1..Cardinality(Node)
        BY <2>1, <2>2
      <4> QED
        BY <2>1, <2>3, <4>1, <4>2
    <3>2. ASSUME NEW i \in 1..Cardinality(Node), Last(i)
          PROVE  i = Len(w)
      <4>1. ~(i > Len(w))
        <5>1. SUFFICES ASSUME i > Len(w) PROVE FALSE
          OBVIOUS
        <5>2. Len(w) \in 1..(i - 1)
          BY <2>1, <2>2, <5>1
        <5> QED
          BY <3>1, <3>2, <5>2
      <4>2. ~(i < Len(w))
        <5>1. SUFFICES ASSUME i < Len(w) PROVE FALSE
          OBVIOUS
        <5>2. i \in 1..(Len(w) - 1)
          BY <2>1, <2>2, <5>1
        <5> QED
          BY <3>1, <3>2, <5>2
      <4> QED
        BY <2>1, <2>2, <4>1, <4>2
    <3>3. LastIndex = CHOOSE i \in 1..Cardinality(Node) : Last(i)
      BY DEF LastIndex
    <3> HIDE DEF Last
    <3> QED
      BY <3>1, <3>2, <3>3
  <2>5. Walk = [i \in 1..Len(w) |-> w[i]]
    BY <2>1, <2>3, <2>4 DEF Walk
  <2>6. Walk = w
    BY <2>5
  <2>7. Closed = ring
    <3>1. Closed = (next[w[Len(w)]] = list)
      BY <2>1, <2>6 DEF Closed
    <3> QED
      BY <2>1, <3>1
  <2> QED
    BY <2>6, <2>7
<1> QED
  BY <1>1, <1>2

---------------------------------------------------------------------------
(* The macros, one assignment after the other *)

\* A heap value.
H(n, p) == [n |-> n, p |-> p]
Put(f, at, to) == [f EXCEPT ![at] = to]

LEMMA Assignments ==
    ASSUME NEW n, NEW p, NEW at, NEW to
    PROVE  /\ SetNext(H(n, p), at, to) = H(Put(n, at, to), p)
           /\ SetPrev(H(n, p), at, to) = H(n, Put(p, at, to))
           /\ H(n, p).n = n /\ H(n, p).p = p
  BY DEF H, Put, SetNext, SetPrev

\* What a macro has done to the pointers, one by one.
After(n, p, x, item, N, P) ==
    \A y \in Pointer :
        /\ N[y] = IF y = x THEN item ELSE IF y = item THEN n[x] ELSE n[y]
        /\ P[y] = IF y = item THEN x ELSE IF y = n[x] THEN item ELSE p[y]

LEMMA InsertAfterIs ==
    ASSUME NEW n, NEW p, NEW l, HeapOK(n, p, l),
           NEW x \in Node, NEW item \in Node, x # item, n[x] \in Pointer
    PROVE  \E N, P : /\ InsertAfter(H(n, p), x, item) = H(N, P)
                     /\ HeapOK(N, P, l)
                     /\ After(n, p, x, item, N, P)
<1> DEFINE N == Put(Put(n, item, n[x]), x, item)
           P == Put(Put(p, n[x], item), item, x)
<1>1. InsertAfter(H(n, p), x, item) = H(N, P)
  BY Assignments DEF InsertAfter
<1>2. HeapOK(N, P, l)
  BY DEF HeapOK, Pointer, Put
<1>3. After(n, p, x, item, N, P)
  BY DEF HeapOK, Pointer, Put, After
<1> QED
  BY <1>1, <1>2, <1>3

Before(n, p, x, item, N, P) ==
    \A y \in Pointer :
        /\ N[y] = IF y = item THEN x ELSE IF y = p[x] THEN item ELSE n[y]
        /\ P[y] = IF y = x THEN item ELSE IF y = item THEN p[x] ELSE p[y]

LEMMA InsertBeforeIs ==
    ASSUME NEW n, NEW p, NEW l, HeapOK(n, p, l),
           NEW x \in Node, NEW item \in Node, x # item, p[x] \in Pointer
    PROVE  \E N, P : /\ InsertBefore(H(n, p), x, item) = H(N, P)
                     /\ HeapOK(N, P, item)
                     /\ Before(n, p, x, item, N, P)
<1> DEFINE N == Put(Put(n, p[x], item), item, x)
           P == Put(Put(p, item, p[x]), x, item)
<1>1. InsertBefore(H(n, p), x, item) = H(N, P)
  BY Assignments DEF InsertBefore
<1>2. HeapOK(N, P, item)
  BY DEF HeapOK, Pointer, Put
<1>3. Before(n, p, x, item, N, P)
  BY DEF HeapOK, Pointer, Put, Before
<1> QED
  BY <1>1, <1>2, <1>3

\* The links of item's neighbours, then those of what is cleared.
Without(n, p, item, cleared, N, P) ==
    \A y \in Pointer :
        /\ N[y] = IF y = cleared THEN NULL ELSE IF y = p[item] THEN n[item] ELSE n[y]
        /\ P[y] = IF y = cleared THEN NULL ELSE IF y = n[item] THEN p[item] ELSE p[y]

LEMMA UnlinkIs ==
    ASSUME NEW n, NEW p, NEW l, HeapOK(n, p, l), NEW m \in Pointer,
           NEW item \in Node, NEW cleared \in Pointer,
           n[item] \in Pointer, p[item] \in Pointer,
           p[item] # item, n[item] # item
    PROVE  \E N, P : /\ Clear(Unlink(H(n, p), item), cleared) = H(N, P)
                     /\ HeapOK(N, P, m)
                     /\ Without(n, p, item, cleared, N, P)
<1> DEFINE n1 == Put(n, p[item], n[item])
           p1 == Put(p, n[item], p[item])
           N == Put(n1, cleared, NULL)
           P == Put(p1, cleared, NULL)
<1>1. n1[item] = n[item]
  BY DEF HeapOK, Pointer, Put
<1>2. Unlink(H(n, p), item) = H(n1, p1)
  BY <1>1, Assignments DEF Unlink
<1>3. Clear(H(n1, p1), cleared) = H(N, P)
  <2> HIDE DEF n1, p1
  <2> QED
    BY Assignments DEF Clear
<1>4. HeapOK(N, P, m)
  BY DEF HeapOK, Pointer, Put
<1>5. Without(n, p, item, cleared, N, P)
  BY DEF HeapOK, Pointer, Put, Without
<1> QED
  BY <1>2, <1>3, <1>4, <1>5

\* mv_list_remove reads the item's successor after the neighbours are linked.
LEMMA UnlinkedNext ==
    ASSUME NEW n, NEW p, NEW l, HeapOK(n, p, l), NEW item \in Node, p[item] # item
    PROVE  Unlink(H(n, p), item).n[item] = n[item]
<1> DEFINE n1 == Put(n, p[item], n[item])
<1>1. n1[item] = n[item]
  BY DEF HeapOK, Pointer, Put
<1>2. Unlink(H(n, p), item).n = n1
  BY Assignments DEF Unlink
<1> QED
  BY <1>1, <1>2

---------------------------------------------------------------------------
(* What the macros do to the sequence of items *)

\* Each item on the list, and the pointers at its place.
LinkedAt(n, p, l, w, ring) ==
    /\ w \in Seq(Node) /\ Len(w) \in Nat \ {0} /\ ring \in BOOLEAN
    /\ l = w[1] /\ l \in Node
    /\ \A i \in 1..Len(w) :
           /\ w[i] \in Node /\ w[i] # NULL
           /\ \A j \in 1..Len(w) : w[i] = w[j] => i = j
           /\ n[w[i]] = IF i < Len(w) THEN w[i + 1]
                        ELSE IF ring THEN w[1] ELSE NULL
           /\ p[w[i]] = IF i > 1 THEN w[i - 1]
                        ELSE IF ring THEN w[Len(w)] ELSE NULL
           /\ n[w[i]] \in Pointer /\ p[w[i]] \in Pointer

LEMMA LinkedFacts ==
    ASSUME NEW n, NEW p, NEW l, NEW w, NEW ring, Links(n, p, l, w, ring), w # <<>>
    PROVE  LinkedAt(n, p, l, w, ring)
<1>1. /\ w \in Seq(Node) /\ Len(w) \in Nat \ {0} /\ ring \in BOOLEAN /\ l = w[1]
      /\ \A i \in 1..Len(w) : w[i] \in Node /\ w[i] # NULL
      /\ \A i, j \in 1..Len(w) : w[i] = w[j] => i = j
  BY HeapAssumption DEF Links, Distinct
<1>2. ASSUME NEW i \in 1..Len(w)
      PROVE  /\ n[w[i]] = IF i < Len(w) THEN w[i + 1] ELSE IF ring THEN w[1] ELSE NULL
             /\ p[w[i]] = IF i > 1 THEN w[i - 1] ELSE IF ring THEN w[Len(w)] ELSE NULL
  <2>1. i < Len(w) => i \in 1..(Len(w) - 1)
    BY <1>1
  <2>2. i > 1 => i \in 2..Len(w)
    BY <1>1
  <2>3. ~(i < Len(w)) => i = Len(w)
    BY <1>1
  <2>4. ~(i > 1) => i = 1
    BY <1>1
  <2> QED
    BY <1>1, <2>1, <2>2, <2>3, <2>4 DEF Links
<1>3. ASSUME NEW i \in 1..Len(w)
      PROVE  n[w[i]] \in Pointer /\ p[w[i]] \in Pointer
  <2>1. i < Len(w) => i + 1 \in 1..Len(w)
    BY <1>1
  <2>2. i > 1 => i - 1 \in 1..Len(w)
    BY <1>1
  <2>3. 1 \in 1..Len(w) /\ Len(w) \in 1..Len(w)
    BY <1>1
  <2> QED
    BY <1>1, <1>2, <2>1, <2>2, <2>3 DEF Pointer
<1>4. l \in Node
  BY <1>1
<1> QED
  BY <1>1, <1>2, <1>3, <1>4 DEF LinkedAt

\* The same, the other way: what has to be shown of a list that is not empty.
LEMMA LinksIf ==
    ASSUME NEW n, NEW p, NEW l, NEW w \in Seq(Node), NEW ring \in BOOLEAN,
           w # <<>>, Distinct(w), l = w[1],
           \A i \in 1..Len(w) :
               /\ n[w[i]] = IF i < Len(w) THEN w[i + 1]
                            ELSE IF ring THEN w[1] ELSE NULL
               /\ p[w[i]] = IF i > 1 THEN w[i - 1]
                            ELSE IF ring THEN w[Len(w)] ELSE NULL
    PROVE  Links(n, p, l, w, ring)
<1>1. Len(w) \in Nat \ {0}
  OBVIOUS
<1>2. ASSUME NEW i \in 1..(Len(w) - 1) PROVE n[w[i]] = w[i + 1]
  <2>1. i \in 1..Len(w) /\ i < Len(w)
    BY <1>1
  <2> QED
    BY <2>1
<1>3. ASSUME NEW i \in 2..Len(w) PROVE p[w[i]] = w[i - 1]
  <2>1. i \in 1..Len(w) /\ i > 1
    BY <1>1
  <2> QED
    BY <2>1
<1>4. 1 \in 1..Len(w) /\ Len(w) \in 1..Len(w) /\ ~(Len(w) < Len(w)) /\ ~(1 > 1)
  BY <1>1
<1>5. /\ n[w[Len(w)]] = IF ring THEN l ELSE NULL
      /\ p[l] = IF ring THEN w[Len(w)] ELSE NULL
  BY <1>4
<1> QED
  BY <1>2, <1>3, <1>5 DEF Links

\* An item inserted after the k-th one.
Inserted(w, k, x) ==
    [i \in 1..(Len(w) + 1) |-> IF i <= k THEN w[i] ELSE IF i = k + 1 THEN x ELSE w[i - 1]]

LEMMA InsertedShape ==
    ASSUME NEW w \in Seq(Node), NEW k \in 0..Len(w), NEW x \in Node,
           Distinct(w), x \notin Items(w)
    PROVE  /\ Inserted(w, k, x) \in Seq(Node) /\ Distinct(Inserted(w, k, x))
           /\ Len(Inserted(w, k, x)) = Len(w) + 1
           /\ Inserted(w, k, x) # <<>>
<1> DEFINE v == Inserted(w, k, x)
           L == Len(w)
<1>1. L \in Nat /\ k \in 0..L
  OBVIOUS
<1>2. \A i \in 1..L : w[i] \in Node /\ w[i] # x /\ \A j \in 1..L : w[i] = w[j] => i = j
  BY DEF Distinct, Items
<1> HIDE DEF L
<1>3. ASSUME NEW i \in 1..(L + 1)
      PROVE  /\ i \in Nat /\ v[i] = IF i <= k THEN w[i] ELSE IF i = k + 1 THEN x ELSE w[i - 1]
             /\ v[i] \in Node
             /\ i <= k => i \in 1..L
             /\ i > k + 1 => i - 1 \in 1..L
  <2>1. i \in Nat /\ (i <= k => i \in 1..L) /\ (i > k + 1 => i - 1 \in 1..L)
    BY <1>1
  <2>2. v[i] = IF i <= k THEN w[i] ELSE IF i = k + 1 THEN x ELSE w[i - 1]
    BY DEF Inserted, L
  <2>3. i <= k \/ i = k + 1 \/ i > k + 1
    BY <1>1, <2>1
  <2> HIDE DEF v
  <2> QED
    BY <1>1, <1>2, <2>1, <2>2, <2>3
<1>4. v \in [1..(L + 1) -> Node]
  <2>1. v = [i \in 1..(L + 1) |-> v[i]]
    BY DEF Inserted, L
  <2> HIDE DEF v
  <2> QED
    BY <1>3, <2>1
<1>5. v \in Seq(Node) /\ Len(v) = L + 1
  <2> HIDE DEF v
  <2> QED
    BY <1>1, <1>4
<1>6. ASSUME NEW i \in 1..(L + 1), NEW j \in 1..(L + 1), i < j
      PROVE  v[i] # v[j]
  <2> HIDE DEF v
  <2>1. CASE j <= k
    BY <1>1, <1>2, <1>3, <1>6, <2>1
  <2>2. CASE j = k + 1
    BY <1>1, <1>2, <1>3, <1>6, <2>2
  <2>3. CASE j > k + 1 /\ i <= k
    <3>1. v[j] = w[j - 1] /\ v[i] = w[i] /\ i # j - 1 /\ i \in 1..L /\ j - 1 \in 1..L
      BY <1>1, <1>3, <1>6, <2>3
    <3> QED
      BY <1>2, <3>1
  <2>4. CASE j > k + 1 /\ i = k + 1
    <3>1. v[j] = w[j - 1] /\ v[i] = x /\ j - 1 \in 1..L
      BY <1>1, <1>3, <1>6, <2>4
    <3> QED
      BY <1>2, <3>1
  <2>5. CASE j > k + 1 /\ i > k + 1
    <3>1. v[j] = w[j - 1] /\ v[i] = w[i - 1] /\ i - 1 # j - 1 /\ i - 1 \in 1..L /\ j - 1 \in 1..L
      BY <1>1, <1>3, <1>6, <2>5
    <3> QED
      BY <1>2, <3>1
  <2> QED
    BY <1>1, <1>3, <2>1, <2>2, <2>3, <2>4, <2>5
<1>7. Distinct(v)
  <2> HIDE DEF v
  <2>1. SUFFICES ASSUME NEW i \in 1..(L + 1), NEW j \in 1..(L + 1), v[i] = v[j]
                 PROVE  i = j
    BY <1>5 DEF Distinct
  <2>2. ~(i < j) /\ ~(j < i)
    BY <1>6, <2>1
  <2>3. i \in Nat /\ j \in Nat
    BY <1>1
  <2> QED
    BY <2>2, <2>3
<1> QED
  <2> HIDE DEF v
  <2>1. v # <<>>
    BY <1>1, <1>5
  <2> QED
    BY <1>5, <1>7, <2>1 DEF v, L

LEMMA InsertAfterLinks ==
    ASSUME NEW n, NEW p, NEW l, NEW w, NEW ring, Links(n, p, l, w, ring),
           NEW k \in 1..Len(w), NEW x \in Node, x \notin Items(w),
           NEW N, NEW P, After(n, p, w[k], x, N, P)
    PROVE  Links(N, P, l, Inserted(w, k, x), ring)
<1> DEFINE v == Inserted(w, k, x)
           L == Len(w)
<1>0. w # <<>> /\ w \in Seq(Node)
  BY DEF Links
<1>k. k \in 1..L
  OBVIOUS
<1>1. /\ L \in Nat \ {0} /\ ring \in BOOLEAN /\ l = w[1]
      /\ \A i \in 1..L :
             /\ w[i] \in Node /\ w[i] # NULL /\ w[i] # x /\ w[i] \in Pointer
             /\ \A j \in 1..L : w[i] = w[j] => i = j
             /\ n[w[i]] = IF i < L THEN w[i + 1] ELSE IF ring THEN w[1] ELSE NULL
             /\ p[w[i]] = IF i > 1 THEN w[i - 1] ELSE IF ring THEN w[L] ELSE NULL
  BY <1>0, LinkedFacts DEF LinkedAt, Items, Pointer
<1>2. /\ v \in Seq(Node) /\ Distinct(v) /\ Len(v) = L + 1 /\ v # <<>>
  BY <1>0, InsertedShape DEF Links
<1>3. \A i \in 1..(L + 1) : v[i] = IF i <= k THEN w[i] ELSE IF i = k + 1 THEN x ELSE w[i - 1]
  BY DEF Inserted
<1>4. /\ x \in Pointer /\ x # NULL
      /\ \A y \in Pointer :
             /\ N[y] = IF y = w[k] THEN x ELSE IF y = x THEN n[w[k]] ELSE n[y]
             /\ P[y] = IF y = x THEN w[k] ELSE IF y = n[w[k]] THEN x ELSE p[y]
  BY HeapAssumption DEF After, Pointer
<1>n. L \in Nat \ {0} /\ k \in Nat /\ 1 <= k /\ k <= L
  BY <1>k, <1>1
<1> HIDE DEF v, L
<1>5. ASSUME NEW i \in 1..L, i # k
      PROVE  N[w[i]] = n[w[i]]
  BY <1>k, <1>1, <1>4, <1>5
<1>6. ASSUME NEW i \in 1..L
      PROVE  P[w[i]] = IF w[i] = n[w[k]] THEN x ELSE p[w[i]]
  BY <1>k, <1>1, <1>4
<1>7. ASSUME NEW i \in 1..(L + 1)
      PROVE  /\ N[v[i]] = IF i < L + 1 THEN v[i + 1] ELSE IF ring THEN v[1] ELSE NULL
             /\ P[v[i]] = IF i > 1 THEN v[i - 1] ELSE IF ring THEN v[L + 1] ELSE NULL
  <2>0. i \in Nat /\ 1 <= i /\ i <= L + 1
    BY <1>n
  <2>1. /\ i \in Nat /\ v[1] = w[1] /\ 1 \in 1..L /\ L \in 1..L
        /\ v[L + 1] = IF L = k THEN x ELSE w[L]
    <3>1. /\ 1 \in 1..L /\ L \in 1..L /\ 1 \in 1..(L + 1) /\ L + 1 \in 1..(L + 1)
          /\ 1 <= k /\ ~(L + 1 <= k) /\ (L + 1 = k + 1 <=> L = k) /\ (L + 1) - 1 = L
      BY <1>n
    <3> QED
      BY <1>3, <2>0, <3>1
  <2>2. CASE i < k
    <3>1. /\ i \in 1..L /\ i + 1 \in 1..L /\ i # k /\ i < L /\ i < L + 1
          /\ v[i] = w[i] /\ v[i + 1] = w[i + 1]
      BY <1>k, <1>1, <1>3, <2>1, <2>2
    <3>2. N[v[i]] = v[i + 1]
      BY <1>k, <1>1, <1>5, <3>1
    <3>3. CASE i > 1
      <4>1. i - 1 \in 1..L /\ v[i - 1] = w[i - 1]
        <5>1. i - 1 \in 1..L /\ i - 1 \in 1..(L + 1) /\ i - 1 <= k
          BY <1>n, <2>0, <2>2, <3>3
        <5> QED
          BY <1>3, <5>1
      <4>2. w[i] # n[w[k]]
        <5>1. /\ k < L => k + 1 \in 1..L /\ k + 1 # i
              /\ i \in 1..L /\ i # 1
          BY <1>n, <2>0, <2>2, <3>3
        <5>2. k < L => w[i] # w[k + 1]
          BY <1>1, <5>1
        <5>3. w[i] # w[1] /\ w[i] # NULL
          BY <1>1, <2>1, <5>1
        <5>4. n[w[k]] = IF k < L THEN w[k + 1] ELSE IF ring THEN w[1] ELSE NULL
          BY <1>k, <1>1
        <5> QED
          BY <5>2, <5>3, <5>4
      <4> QED
        BY <1>k, <1>1, <1>6, <3>1, <3>2, <3>3, <4>1, <4>2
    <3>4. CASE i = 1
      <4>1. k < L => k + 1 \in 1..L /\ k + 1 # 1
        BY <1>k, <1>1, <2>1, <2>2
      <4>2. (w[1] = n[w[k]]) <=> (k = L /\ ring)
        <5>1. k < L \/ k = L
          BY <1>k, <1>1
        <5> QED
          BY <1>k, <1>1, <2>1, <4>1, <5>1
      <4> QED
        BY <1>k, <1>1, <1>6, <2>1, <3>1, <3>2, <3>4, <4>2
    <3> QED
      BY <2>1, <3>3, <3>4
  <2>3. CASE i = k
    <3>1. /\ v[i] = w[k] /\ v[i + 1] = x /\ i < L + 1
      BY <1>k, <1>1, <1>3, <2>3
    <3>2. N[v[i]] = v[i + 1]
      BY <1>k, <1>1, <1>4, <3>1
    <3>3. CASE i > 1
      <4>1. i - 1 \in 1..L /\ v[i - 1] = w[i - 1]
        <5>1. i - 1 \in 1..L /\ i - 1 \in 1..(L + 1) /\ i - 1 <= k
          BY <1>n, <2>0, <2>3, <3>3
        <5> QED
          BY <1>3, <5>1
      <4>2. w[i] # n[w[k]]
        <5>1. /\ k < L => k + 1 \in 1..L /\ k + 1 # i
              /\ i \in 1..L /\ i # 1
          BY <1>n, <2>0, <2>3, <3>3
        <5>2. k < L => w[i] # w[k + 1]
          BY <1>1, <5>1
        <5>3. w[i] # w[1] /\ w[i] # NULL
          BY <1>1, <2>1, <5>1
        <5>4. n[w[k]] = IF k < L THEN w[k + 1] ELSE IF ring THEN w[1] ELSE NULL
          BY <1>k, <1>1
        <5> QED
          BY <5>2, <5>3, <5>4
      <4> QED
        BY <1>k, <1>1, <1>6, <2>3, <3>1, <3>2, <3>3, <4>1, <4>2
    <3>4. CASE i = 1
      <4>1. k < L => k + 1 \in 1..L /\ k + 1 # 1
        BY <1>k, <1>1, <2>1, <2>3
      <4>2. (w[1] = n[w[k]]) <=> (k = L /\ ring)
        <5>1. k < L \/ k = L
          BY <1>k, <1>1
        <5> QED
          BY <1>k, <1>1, <2>1, <4>1, <5>1
      <4> QED
        BY <1>k, <1>1, <1>6, <2>1, <2>3, <3>1, <3>2, <3>4, <4>2
    <3> QED
      BY <2>1, <3>3, <3>4
  <2>4. CASE i = k + 1
    <3>0. /\ i > 1 /\ i - 1 = k /\ i - 1 \in 1..(L + 1)
          /\ i < L + 1 => k < L /\ i + 1 \in 1..(L + 1) /\ i + 1 > k + 1 /\ (i + 1) - 1 = k + 1
          /\ ~(i < L + 1) => k = L
      BY <1>k, <1>1, <2>1, <2>4
    <3>1. /\ v[i] = x /\ i > 1 /\ v[i - 1] = w[k]
          /\ i < L + 1 => k < L /\ v[i + 1] = w[k + 1]
          /\ ~(i < L + 1) => k = L
      BY <1>k, <1>1, <1>3, <2>1, <2>4, <3>0
    <3> QED
      BY <1>k, <1>1, <1>4, <2>1, <3>1
  <2>5. CASE i > k + 1
    <3> DEFINE j == i - 1
    <3>0. /\ i = j + 1 /\ j \in 1..L /\ j > k /\ j > 1 /\ j \in 1..(L + 1)
          /\ j < L => j + 2 \in 1..(L + 1) /\ j + 2 > k + 1 /\ (j + 2) - 1 = j + 1
      BY <1>n, <2>0, <2>5
    <3> HIDE DEF j
    <3>1. /\ j \in 1..L /\ j # k /\ j > 1 /\ i > 1 /\ v[i] = w[j]
          /\ i < L + 1 <=> j < L
          /\ i < L + 1 => v[i + 1] = w[j + 1]
          /\ v[i - 1] = IF j = k + 1 THEN x ELSE w[j - 1]
      <4>1. i < L + 1 <=> j < L
        BY <1>k, <1>1, <3>0
      <4>2. v[i] = w[j] /\ i > 1
        BY <1>k, <1>1, <1>3, <2>5, <3>0
      <4>3. j < L => v[i + 1] = w[j + 1]
        <5>1. j < L => i + 1 = j + 2 /\ ~(j + 2 <= k) /\ j + 2 # k + 1
          BY <1>k, <1>1, <3>0
        <5> QED
          BY <1>3, <3>0, <5>1
      <4>4. v[i - 1] = IF j = k + 1 THEN x ELSE w[j - 1]
        <5>1. i - 1 = j /\ ~(j <= k)
          BY <1>k, <1>1, <3>0
        <5> QED
          BY <1>3, <3>0, <5>1
      <4> QED
        BY <1>k, <1>1, <3>0, <4>1, <4>2, <4>3, <4>4
    <3>2. N[v[i]] = IF i < L + 1 THEN v[i + 1] ELSE IF ring THEN v[1] ELSE NULL
      BY <1>k, <1>1, <1>5, <2>1, <3>1
    <3>3. (w[j] = n[w[k]]) <=> j = k + 1
      <4>1. k < L => k + 1 \in 1..L
        BY <1>k, <1>1
      <4>2. j = k + 1 => k < L
        BY <1>k, <1>1, <3>1
      <4> QED
        BY <1>k, <1>1, <2>1, <3>1, <4>1, <4>2
    <3> QED
      BY <1>k, <1>1, <1>6, <3>1, <3>2, <3>3
  <2>6. i < k \/ i = k \/ i = k + 1 \/ i > k + 1
    BY <1>n, <2>0
  <2> QED
    BY <2>2, <2>3, <2>4, <2>5, <2>6
<1>8. v[1] = w[1]
  BY <1>k, <1>1, <1>3
<1>9. \A i \in 1..Len(v) :
          /\ N[v[i]] = IF i < Len(v) THEN v[i + 1] ELSE IF ring THEN v[1] ELSE NULL
          /\ P[v[i]] = IF i > 1 THEN v[i - 1] ELSE IF ring THEN v[Len(v)] ELSE NULL
  BY <1>2, <1>7
<1>10. Links(N, P, l, v, ring)
  BY <1>1, <1>2, <1>8, <1>9, LinksIf, SMTT(20)
<1> QED
  BY <1>10 DEF v

LEMMA InsertBeforeLinks ==
    ASSUME NEW n, NEW p, NEW l, NEW w, NEW ring, Links(n, p, l, w, ring), w # <<>>,
           NEW x \in Node, x \notin Items(w),
           NEW N, NEW P, Before(n, p, l, x, N, P)
    PROVE  Links(N, P, x, Inserted(w, 0, x), ring)
<1> DEFINE v == Inserted(w, 0, x)
           L == Len(w)
<1>0. w \in Seq(Node)
  BY DEF Links
<1>1. /\ L \in Nat \ {0} /\ ring \in BOOLEAN /\ l = w[1]
      /\ \A i \in 1..L :
             /\ w[i] \in Node /\ w[i] # NULL /\ w[i] # x /\ w[i] \in Pointer
             /\ \A j \in 1..L : w[i] = w[j] => i = j
             /\ n[w[i]] = IF i < L THEN w[i + 1] ELSE IF ring THEN w[1] ELSE NULL
             /\ p[w[i]] = IF i > 1 THEN w[i - 1] ELSE IF ring THEN w[L] ELSE NULL
  BY <1>0, LinkedFacts DEF LinkedAt, Items, Pointer
<1>2. /\ v \in Seq(Node) /\ Distinct(v) /\ Len(v) = L + 1 /\ v # <<>>
  <2>1. 0 \in 0..Len(w)
    BY <1>0
  <2> QED
    BY <1>0, <2>1, InsertedShape DEF Links
<1>3. \A i \in 1..(L + 1) : v[i] = IF i <= 0 THEN w[i] ELSE IF i = 0 + 1 THEN x ELSE w[i - 1]
  BY DEF Inserted
<1>4. /\ x \in Pointer /\ x # NULL
      /\ \A y \in Pointer :
             /\ N[y] = IF y = x THEN w[1] ELSE IF y = p[w[1]] THEN x ELSE n[y]
             /\ P[y] = IF y = w[1] THEN x ELSE IF y = x THEN p[w[1]] ELSE p[y]
  BY <1>1, HeapAssumption DEF Before, Pointer
<1> HIDE DEF v, L
<1>5. v[1] = x /\ v[2] = w[1] /\ p[w[1]] = IF ring THEN w[L] ELSE NULL
  BY <1>1, <1>3
<1>6. ASSUME NEW i \in 1..(L + 1)
      PROVE  /\ N[v[i]] = IF i < L + 1 THEN v[i + 1] ELSE IF ring THEN v[1] ELSE NULL
             /\ P[v[i]] = IF i > 1 THEN v[i - 1] ELSE IF ring THEN v[L + 1] ELSE NULL
  <2>1. /\ i \in Nat /\ 1 \in 1..L /\ L \in 1..L /\ v[L + 1] = w[L]
    BY <1>1, <1>3
  <2>2. CASE i = 1
    <3>1. i < L + 1 /\ v[i + 1] = w[1] /\ v[i] = x
      BY <1>1, <1>5, <2>2
    <3> QED
      BY <1>1, <1>4, <1>5, <2>1, <2>2, <3>1
  <2>3. CASE i # 1
    <3> DEFINE j == i - 1
    <3>1. /\ j \in 1..L /\ i > 1 /\ v[i] = w[j]
          /\ i < L + 1 <=> j < L
          /\ i < L + 1 => v[i + 1] = w[j + 1] /\ j # L
          /\ ~(i < L + 1) => j = L
          /\ v[i - 1] = IF j = 1 THEN x ELSE w[j - 1]
      BY <1>1, <1>3, <2>1, <2>3
    <3> HIDE DEF j
    <3>2. N[w[j]] = IF ring /\ j = L THEN x ELSE n[w[j]]
      BY <1>1, <1>4, <1>5, <2>1, <3>1
    <3>3. P[w[j]] = IF j = 1 THEN x ELSE p[w[j]]
      BY <1>1, <1>4, <2>1, <3>1
    <3>4. j # 1 => j > 1
      BY <3>1
    <3> QED
      BY <1>1, <1>5, <3>1, <3>2, <3>3, <3>4
  <2> QED
    BY <2>2, <2>3
<1> QED
  BY <1>1, <1>2, <1>5, <1>6, LinksIf DEF v

LEMMA RemoveLinks ==
    ASSUME NEW n, NEW p, NEW l, NEW w, Links(n, p, l, w, TRUE),
           Len(w) > 1, NEW x \in Items(w),
           NEW N, NEW P, Without(n, p, x, x, N, P)
    PROVE  Links(N, P, IF x = l THEN n[x] ELSE l, RemoveItem(w, x), TRUE)
<1> DEFINE v == RemoveItem(w, x)
           L == Len(w)
<1>0. w # <<>> /\ w \in Seq(Node)
  BY DEF Links
<1>1. /\ L \in Nat \ {0} /\ l = w[1]
      /\ \A i \in 1..L :
             /\ w[i] \in Node /\ w[i] # NULL /\ w[i] \in Pointer
             /\ \A j \in 1..L : w[i] = w[j] => i = j
             /\ n[w[i]] = IF i < L THEN w[i + 1] ELSE w[1]
             /\ p[w[i]] = IF i > 1 THEN w[i - 1] ELSE w[L]
  <2>1. /\ Len(w) \in Nat \ {0} /\ l = w[1]
        /\ \A i \in 1..Len(w) :
               /\ w[i] \in Node /\ w[i] # NULL
               /\ \A j \in 1..Len(w) : w[i] = w[j] => i = j
               /\ n[w[i]] = IF i < Len(w) THEN w[i + 1] ELSE IF TRUE THEN w[1] ELSE NULL
               /\ p[w[i]] = IF i > 1 THEN w[i - 1] ELSE IF TRUE THEN w[Len(w)] ELSE NULL
    <3>1. LinkedAt(n, p, l, w, TRUE)
      BY <1>0, LinkedFacts, Zenon
    <3> QED
      BY <3>1 DEF LinkedAt
  <2> QED
    BY <2>1 DEF Pointer
<1>2. PICK k \in 1..L : /\ w[k] = x /\ Len(v) = L - 1
                        /\ \A i \in 1..(L - 1) : v[i] = IF i < k THEN w[i] ELSE w[i + 1]
  BY <1>0, RemoveItemShape
<1>3. v \in Seq(Node) /\ Distinct(v)
  BY <1>0, RemoveItemType, RemoveItemDistinct DEF Links
<1> HIDE DEF v, L
<1>n. L \in Nat /\ L > 1 /\ k \in Nat /\ 1 <= k /\ k <= L
  BY <1>1, <1>2 DEF L
<1> DEFINE pre == IF k > 1 THEN k - 1 ELSE L
           suc == IF k < L THEN k + 1 ELSE 1
<1>4. /\ pre \in 1..L /\ suc \in 1..L /\ pre # k /\ suc # k
  BY <1>n
<1>5. p[x] = w[pre] /\ n[x] = w[suc]
  <2>1. ~(k < L) => k = L
    BY <1>n
  <2>2. ~(k > 1) => k = 1
    BY <1>n
  <2> QED
    BY <1>1, <1>2, <2>1, <2>2
<1>6. ASSUME NEW j \in 1..L, j # k
      PROVE  /\ N[w[j]] = IF j = pre THEN w[suc] ELSE n[w[j]]
             /\ P[w[j]] = IF j = suc THEN w[pre] ELSE p[w[j]]
  <2> HIDE DEF pre, suc
  <2>1. w[j] # x /\ w[j] \in Pointer
    BY <1>1, <1>2, <1>6
  <2>2. (w[j] = w[pre] <=> j = pre) /\ (w[j] = w[suc] <=> j = suc)
    BY <1>1, <1>4
  <2> QED
    BY <1>5, <2>1, <2>2 DEF Without
\* The place in w of the i-th item that remains.
<1> DEFINE old(i) == IF i < k THEN i ELSE i + 1
<1>7. ASSUME NEW i \in 1..(L - 1)
      PROVE  i \in Nat /\ old(i) \in 1..L /\ old(i) # k /\ v[i] = w[old(i)]
  <2>1. i \in Nat /\ old(i) \in 1..L /\ old(i) # k
    BY <1>n
  <2> QED
    BY <1>2, <2>1
<1>8. ASSUME NEW i \in 1..(L - 1)
      PROVE  /\ N[v[i]] = IF i < L - 1 THEN v[i + 1] ELSE v[1]
             /\ P[v[i]] = IF i > 1 THEN v[i - 1] ELSE v[L - 1]
  <2>0. i \in Nat /\ 1 <= i /\ i <= L - 1 /\ 1 \in 1..(L - 1) /\ L - 1 \in 1..(L - 1)
    BY <1>n
  <2> DEFINE j == old(i)
             up == IF i < L - 1 THEN old(i + 1) ELSE old(1)
             down == IF i > 1 THEN old(i - 1) ELSE old(L - 1)
  <2>1. /\ i < L - 1 => v[i + 1] = w[old(i + 1)]
        /\ i > 1 => v[i - 1] = w[old(i - 1)]
        /\ v[1] = w[old(1)] /\ v[L - 1] = w[old(L - 1)]
    <3>1. /\ i < L - 1 => i + 1 \in 1..(L - 1)
          /\ i > 1 => i - 1 \in 1..(L - 1)
      BY <1>n, <2>0
    <3> HIDE DEF old
    <3> QED
      BY <1>7, <2>0, <3>1
  <2>2. /\ j = pre => up = suc
        /\ j # pre => up = IF j < L THEN j + 1 ELSE 1
        /\ j = suc => down = pre
        /\ j # suc => down = IF j > 1 THEN j - 1 ELSE L
    BY <1>n, <2>0
  <2>3. j \in 1..L /\ j # k /\ v[i] = w[j]
    BY <1>7
  <2>4. /\ (IF i < L - 1 THEN v[i + 1] ELSE v[1]) = w[up]
        /\ (IF i > 1 THEN v[i - 1] ELSE v[L - 1]) = w[down]
    BY <2>1
  <2> HIDE DEF j, up, down, pre, suc
  <2>5. N[v[i]] = w[up]
    BY <1>1, <1>6, <2>2, <2>3
  <2>6. P[v[i]] = w[down]
    BY <1>1, <1>6, <2>2, <2>3
  <2> QED
    BY <2>4, <2>5, <2>6
<1> HIDE DEF old
<1>9. v # <<>> /\ (IF x = l THEN n[x] ELSE l) = v[1]
  <2>1. 1 \in 1..(L - 1) /\ 1 \in 1..L
    BY <1>n
  <2>2. v # <<>>
    <3>1. Len(v) # 0
      BY <1>2, <1>n
    <3> QED
      BY <3>1
  <2>3. CASE k = 1
    <3>1. suc = 2 /\ v[1] = w[2]
      BY <1>2, <1>n, <2>1, <2>3
    <3> QED
      BY <1>1, <1>2, <1>5, <2>2, <2>3, <3>1
  <2>4. CASE k # 1
    <3>1. v[1] = w[1] /\ x # w[1]
      <4>1. 1 < k
        BY <1>n, <2>4
      <4> QED
        BY <1>1, <1>2, <2>1, <2>4, <4>1
    <3> QED
      BY <1>1, <2>2, <3>1
  <2> QED
    BY <2>3, <2>4
<1>10. \A i \in 1..Len(v) :
          /\ N[v[i]] = IF i < Len(v) THEN v[i + 1] ELSE IF TRUE THEN v[1] ELSE NULL
          /\ P[v[i]] = IF i > 1 THEN v[i - 1] ELSE IF TRUE THEN v[Len(v)] ELSE NULL
  BY <1>2, <1>8
<1>11. Links(N, P, v[1], v, TRUE)
  BY <1>3, <1>9, <1>10, LinksIf
<1> QED
  BY <1>9, <1>11 DEF v

LEMMA RotateLinks ==
    ASSUME NEW n, NEW p, NEW l, NEW w, Links(n, p, l, w, TRUE), w # <<>>
    PROVE  Links(n, p, n[l], RotateForward(w), TRUE)
<1> DEFINE v == RotateForward(w)
           L == Len(w)
<1>0. w \in Seq(Node)
  BY DEF Links
<1>1. /\ L \in Nat \ {0} /\ l = w[1]
      /\ \A i \in 1..L :
             /\ n[w[i]] = IF i < L THEN w[i + 1] ELSE w[1]
             /\ p[w[i]] = IF i > 1 THEN w[i - 1] ELSE w[L]
  <2>1. /\ Len(w) \in Nat \ {0} /\ l = w[1]
        /\ \A i \in 1..Len(w) :
               /\ n[w[i]] = IF i < Len(w) THEN w[i + 1] ELSE IF TRUE THEN w[1] ELSE NULL
               /\ p[w[i]] = IF i > 1 THEN w[i - 1] ELSE IF TRUE THEN w[Len(w)] ELSE NULL
    <3>1. LinkedAt(n, p, l, w, TRUE)
      BY LinkedFacts, Zenon
    <3> QED
      BY <3>1 DEF LinkedAt
  <2> QED
    BY <2>1
<1>2. /\ v \in Seq(Node) /\ Len(v) = L /\ Distinct(v)
      /\ \A i \in 1..L : v[i] = IF i = L THEN w[1] ELSE w[i + 1]
  BY <1>0, RotateForwardShape, RotateForwardItems DEF Links
<1> HIDE DEF v, L
<1>3. 1 \in 1..L /\ L \in 1..L /\ v # <<>>
  <2>1. Len(v) # 0
    BY <1>1, <1>2
  <2> QED
    BY <1>1, <2>1
<1>4. ASSUME NEW i \in 1..L
      PROVE  /\ n[v[i]] = IF i < L THEN v[i + 1] ELSE v[1]
             /\ p[v[i]] = IF i > 1 THEN v[i - 1] ELSE v[L]
  <2>0. i \in Nat /\ 1 <= i /\ i <= L /\ L \in Nat /\ 1 <= L
    BY <1>1
  <2>1. CASE i = L
    <3>1. /\ v[i] = w[1] /\ ~(i < L)
          /\ L > 1 => /\ 1 < L /\ 1 # L /\ L - 1 \in 1..L /\ L - 1 # L /\ (L - 1) + 1 = L
          /\ ~(L > 1) => L = 1
      BY <1>2, <2>0, <2>1
    <3> QED
      BY <1>1, <1>2, <1>3, <2>1, <3>1
  <2>2. CASE i # L
    <3>1. /\ i < L /\ i + 1 \in 1..L /\ i + 1 > 1 /\ (i + 1) - 1 = i /\ 1 # L
          /\ i + 1 < L <=> i + 1 # L
          /\ i > 1 => i - 1 \in 1..L /\ i - 1 # L /\ (i - 1) + 1 = i
          /\ ~(i > 1) => i = 1
      BY <2>0, <2>2
    <3>2. v[i] = w[i + 1]
      BY <1>2, <2>2
    <3>3. n[v[i]] = v[i + 1]
      BY <1>1, <1>2, <3>1, <3>2
    <3>4. p[v[i]] = w[i]
      BY <1>1, <3>1, <3>2
    <3>5. i > 1 => v[i - 1] = w[i]
      BY <1>2, <3>1
    <3>6. v[L] = w[1]
      BY <1>2, <1>3
    <3> QED
      BY <3>1, <3>3, <3>4, <3>5, <3>6
  <2> QED
    BY <2>1, <2>2
<1>5. n[l] = v[1]
  <2>1. L = 1 \/ 1 < L
    BY <1>1
  <2> QED
    BY <1>1, <1>2, <1>3, <2>1
<1>6. \A i \in 1..Len(v) :
          /\ n[v[i]] = IF i < Len(v) THEN v[i + 1] ELSE IF TRUE THEN v[1] ELSE NULL
          /\ p[v[i]] = IF i > 1 THEN v[i - 1] ELSE IF TRUE THEN v[Len(v)] ELSE NULL
  BY <1>2, <1>4
<1>7. Links(n, p, v[1], v, TRUE)
  BY <1>2, <1>3, <1>6, LinksIf
<1> QED
  BY <1>5, <1>7 DEF v

---------------------------------------------------------------------------
(* The sequences as MarvinList writes them *)

LEMMA InsertedIs ==
    ASSUME NEW w \in Seq(Node), NEW x \in Node
    PROVE  /\ w # <<>> => AddTail(w, x) = Inserted(w, 1, x)
           /\ <<x>> \o w = Inserted(w, 0, x)
           /\ \A k \in 1..Len(w) :
                  SubSeq(w, 1, k) \o <<x>> \o SubSeq(w, k + 1, Len(w)) = Inserted(w, k, x)
<1> DEFINE L == Len(w)
<1>0. L \in Nat
  OBVIOUS
<1>1. ASSUME w # <<>> PROVE AddTail(w, x) = Inserted(w, 1, x)
  <2> DEFINE v == AddTail(w, x)
  <2>1. /\ v \in Seq(Node) /\ Len(v) = L + 1
        /\ \A i \in 1..(L + 1) : v[i] = IF i = 1 THEN w[1] ELSE IF i = 2 THEN x ELSE w[i - 1]
    BY <1>1, AddTailShape
  <2>2. v = [i \in 1..(L + 1) |-> v[i]]
    <3> HIDE DEF v, L
    <3> QED
      BY <1>0, <2>1
  <2>3. \A i \in 1..(L + 1) : v[i] = IF i <= 1 THEN w[i] ELSE IF i = 1 + 1 THEN x ELSE w[i - 1]
    <3> HIDE DEF v, L
    <3>1. \A i \in 1..(L + 1) : (i <= 1 <=> i = 1) /\ (i = 1 + 1 <=> i = 2)
      BY <1>0
    <3> QED
      BY <2>1, <3>1
  <2> QED
    <3> HIDE DEF v
    <3>1. v = Inserted(w, 1, x)
      BY <2>2, <2>3 DEF Inserted
    <3> QED
      BY <3>1 DEF v
<1>2. <<x>> \o w = Inserted(w, 0, x)
  <2> DEFINE v == <<x>> \o w
  <2>1. v \in Seq(Node) /\ Len(v) = L + 1
    OBVIOUS
  <2>2. \A i \in 1..(L + 1) : v[i] = IF i <= 0 THEN w[i] ELSE IF i = 0 + 1 THEN x ELSE w[i - 1]
    OBVIOUS
  <2>3. v = [i \in 1..(L + 1) |-> v[i]]
    <3> HIDE DEF v, L
    <3> QED
      BY <1>0, <2>1
  <2> QED
    <3> HIDE DEF v
    <3>1. v = Inserted(w, 0, x)
      BY <2>2, <2>3 DEF Inserted
    <3> QED
      BY <3>1 DEF v
<1>3. ASSUME NEW k \in 1..Len(w)
      PROVE  SubSeq(w, 1, k) \o <<x>> \o SubSeq(w, k + 1, Len(w)) = Inserted(w, k, x)
  <2> DEFINE v == SubSeq(w, 1, k) \o <<x>> \o SubSeq(w, k + 1, L)
             q == [items |-> w, ring |-> TRUE]
  <2>1. /\ v \in Seq(Node) /\ Len(v) = L + 1
        /\ \A i \in 1..(L + 1) : v[i] = IF i <= k THEN w[i] ELSE IF i = k + 1 THEN x ELSE w[i - 1]
    <3>1. q \in Queues(Node) /\ q.items = w
      BY DEF Queues
    <3>2. QueueInsertAfter(q, k, x).items = v
      BY DEF QueueInsertAfter
    <3> HIDE DEF q, v, L
    <3>3. k \in 1..Len(q.items) /\ Len(q.items) = L
      BY <3>1 DEF L
    <3>4. QueueInsertAfter(q, k, x) \in Queues(Node)
      BY <3>1, <3>3, QueueInsertAfterType
    <3>5. v \in Seq(Node)
      BY <3>2, <3>4 DEF Queues
    <3>6. /\ Len(QueueInsertAfter(q, k, x).items) = Len(q.items) + 1
          /\ \A i \in 1..(Len(q.items) + 1) :
                 QueueInsertAfter(q, k, x).items[i] =
                     IF i <= k THEN q.items[i] ELSE IF i = k + 1 THEN x ELSE q.items[i - 1]
      <4>1. q \in Queues(Node) /\ k \in 1..Len(q.items)
        BY <3>1, <3>3
      <4> QED
        BY <4>1, QueueInsertAfterShape
    <3> QED
      BY <3>1, <3>2, <3>3, <3>5, <3>6
  <2>2. v = [i \in 1..(L + 1) |-> v[i]]
    <3> HIDE DEF v, L
    <3> QED
      BY <1>0, <2>1
  <2> QED
    <3> HIDE DEF v
    <3>1. v = Inserted(w, k, x)
      BY <2>1, <2>2 DEF Inserted
    <3> QED
      BY <3>1 DEF v
<1> QED
  BY <1>1, <1>2, <1>3

---------------------------------------------------------------------------
(* Every macro does to the list what MarvinList says *)

\* The step of MarvinListMachine that an expansion of a macro is.
Moves(q, r) ==
    \/ \E x \in Node : /\ x \notin Items(q.items)
                       /\ r = QueueAddTail(q, x) \/ r = QueueAddHead(q, x)
    \/ \E x \in Node, k \in 1..Len(q.items) :
           x \notin Items(q.items) /\ r = QueueInsertAfter(q, k, x)
    \/ \E x \in Node : /\ q.ring /\ x \in Items(q.items)
                       /\ r = [q EXCEPT !.items = RemoveItem(@, x)]
    \/ q.ring /\ r = [q EXCEPT !.items = RotateForward(@)]
    \/ ~IsEmptyQueue(q) /\ r = QueuePopHead(q)

LEMMA MovesOf ==
    ASSUME NEW w \in Seq(Node), NEW ring \in BOOLEAN, NEW x \in Node
    PROVE  /\ x \notin Items(w) => Moves(Queue(w, ring), Queue(AddTail(w, x), ring))
           /\ x \notin Items(w) => Moves(Queue(w, ring), Queue(<<x>> \o w, ring))
           /\ \A k \in 1..Len(w) : x \notin Items(w) =>
                  Moves(Queue(w, ring),
                        Queue(SubSeq(w, 1, k) \o <<x>> \o SubSeq(w, k + 1, Len(w)), ring))
           /\ ring /\ x \in Items(w) => Moves(Queue(w, ring), Queue(RemoveItem(w, x), ring))
           /\ ring => Moves(Queue(w, ring), Queue(RotateForward(w), ring))
           /\ w # <<>> => Moves(Queue(w, ring), QueuePopHead(Queue(w, ring)))
<1> DEFINE q == Queue(w, ring)
<1>1. /\ q.items = w /\ q.ring = ring
      /\ QueueAddTail(q, x) = Queue(AddTail(w, x), ring)
      /\ QueueAddHead(q, x) = Queue(<<x>> \o w, ring)
      /\ [q EXCEPT !.items = RemoveItem(@, x)] = Queue(RemoveItem(w, x), ring)
      /\ [q EXCEPT !.items = RotateForward(@)] = Queue(RotateForward(w), ring)
  <2>1. q.items = w /\ q.ring = ring
    BY DEF Queue
  <2>2. QueueAddTail(q, x) = Queue(AddTail(w, x), ring)
    BY DEF Queue, QueueAddTail
  <2>3. QueueAddHead(q, x) = Queue(<<x>> \o w, ring)
    <3> DEFINE v == <<x>> \o q.items
    <3>1. QueueAddHead(q, x) = [q EXCEPT !.items = v]
      BY DEF QueueAddHead
    <3> HIDE DEF v
    <3>2. [q EXCEPT !.items = v] = Queue(v, ring)
      BY DEF Queue
    <3>3. v = <<x>> \o w
      BY <2>1 DEF v
    <3> QED
      BY <3>1, <3>2, <3>3
  <2>4. [q EXCEPT !.items = RemoveItem(@, x)] = Queue(RemoveItem(w, x), ring)
    BY DEF Queue
  <2>5. [q EXCEPT !.items = RotateForward(@)] = Queue(RotateForward(w), ring)
    BY DEF Queue
  <2> QED
    BY <2>1, <2>2, <2>3, <2>4, <2>5
<1>2. \A k \in 1..Len(w) :
          QueueInsertAfter(q, k, x) =
              Queue(SubSeq(w, 1, k) \o <<x>> \o SubSeq(w, k + 1, Len(w)), ring)
  <2> SUFFICES ASSUME NEW k \in 1..Len(w)
               PROVE  QueueInsertAfter(q, k, x) =
                          Queue(SubSeq(w, 1, k) \o <<x>> \o SubSeq(w, k + 1, Len(w)), ring)
    OBVIOUS
  <2> DEFINE v == SubSeq(q.items, 1, k) \o <<x>> \o SubSeq(q.items, k + 1, Len(q.items))
  <2>1. QueueInsertAfter(q, k, x) = [q EXCEPT !.items = v]
    BY DEF QueueInsertAfter
  <2> HIDE DEF v
  <2>2. [q EXCEPT !.items = v] = Queue(v, ring)
    BY DEF Queue
  <2>3. v = SubSeq(w, 1, k) \o <<x>> \o SubSeq(w, k + 1, Len(w))
    BY <1>1 DEF v
  <2> QED
    BY <2>1, <2>2, <2>3
<1> HIDE DEF q
<1>3. x \notin Items(w) => Moves(q, QueueAddTail(q, x)) /\ Moves(q, QueueAddHead(q, x))
  BY <1>1 DEF Moves
<1>4. \A k \in 1..Len(w) : x \notin Items(w) => Moves(q, QueueInsertAfter(q, k, x))
  BY <1>1 DEF Moves
<1>5. ring /\ x \in Items(w) => Moves(q, [q EXCEPT !.items = RemoveItem(@, x)])
  BY <1>1 DEF Moves
<1>6. ring => Moves(q, [q EXCEPT !.items = RotateForward(@)])
  BY <1>1 DEF Moves
<1>7. w # <<>> => Moves(q, QueuePopHead(q))
  BY <1>1 DEF Moves, IsEmptyQueue
<1> QED
  BY <1>1, <1>2, <1>3, <1>4, <1>5, <1>6, <1>7 DEF q

\* The heap (n, p) entered at l has become (N, P) entered at m.
Became(w, ring, N, P, m) ==
    /\ HeapOK(N, P, m)
    /\ \E v \in Seq(Node), r \in BOOLEAN :
           Links(N, P, m, v, r) /\ Moves(Queue(w, ring), Queue(v, r))

\* A list of one item, and none.
LEMMA SingletonLinks ==
    ASSUME NEW n, NEW p, NEW l, HeapOK(n, p, l), NEW x \in Node
    PROVE  \E N, P : /\ InitSingleton(H(n, p), x) = H(N, P)
                     /\ HeapOK(N, P, x) /\ Links(N, P, x, <<x>>, TRUE)
<1> DEFINE N == Put(n, x, x)
           P == Put(p, x, x)
<1>1. InitSingleton(H(n, p), x) = H(N, P)
  BY Assignments DEF InitSingleton
<1>2. HeapOK(N, P, x) /\ N[x] = x /\ P[x] = x
  BY DEF HeapOK, Pointer, Put
<1> HIDE DEF N, P
<1>3. Links(N, P, x, <<x>>, TRUE)
  <2>1. <<x>> \in Seq(Node) /\ Len(<<x>>) = 1 /\ <<x>>[1] = x /\ <<x>> # <<>>
    OBVIOUS
  <2>2. Distinct(<<x>>)
    BY <2>1 DEF Distinct
  <2> QED
    BY <1>2, <2>1, <2>2 DEF Links
<1> QED
  BY <1>1, <1>2, <1>3

LEMMA ClearedOK ==
    ASSUME NEW n, NEW p, NEW l, HeapOK(n, p, l), NEW x \in Pointer, NEW m \in Pointer
    PROVE  \E N, P : /\ Clear(H(n, p), x) = H(N, P)
                     /\ HeapOK(N, P, m) /\ N[x] = NULL /\ P[x] = NULL
<1> DEFINE N == Put(n, x, NULL)
           P == Put(p, x, NULL)
<1>1. Clear(H(n, p), x) = H(N, P)
  BY Assignments DEF Clear
<1>2. HeapOK(N, P, m) /\ N[x] = NULL /\ P[x] = NULL
  BY DEF HeapOK, Pointer, Put
<1> QED
  BY <1>1, <1>2

\* Nothing is linked from an empty list, whatever the heap holds.
LEMMA EmptyLinks ==
    ASSUME NEW n, NEW p
    PROVE  Links(n, p, NULL, <<>>, TRUE)
<1>1. <<>> \in Seq(Node) /\ Len(<<>>) = 0
  OBVIOUS
<1> QED
  BY <1>1 DEF Links, Distinct

\* Whether an item is alone on a ring.
AloneAt(n, p, w, ring, x) ==
    /\ Alone(H(n, p), x) <=> (ring /\ Len(w) = 1)
    /\ ~Alone(H(n, p), x) => n[x] # x /\ p[x] # x

LEMMA AloneIs ==
    ASSUME NEW n, NEW p, NEW l, NEW w, NEW ring, Links(n, p, l, w, ring),
           NEW k \in 1..Len(w)
    PROVE  AloneAt(n, p, w, ring, w[k])
<1>0. w # <<>> /\ Len(w) \in Nat \ {0}
  BY DEF Links
<1>1. /\ w[k] # NULL
      /\ \A j \in 1..Len(w) : w[k] = w[j] => k = j
      /\ n[w[k]] = IF k < Len(w) THEN w[k + 1] ELSE IF ring THEN w[1] ELSE NULL
      /\ p[w[k]] = IF k > 1 THEN w[k - 1] ELSE IF ring THEN w[Len(w)] ELSE NULL
  BY <1>0, LinkedFacts DEF LinkedAt
<1>2. /\ k < Len(w) => k + 1 \in 1..Len(w) /\ k + 1 # k
      /\ k > 1 => k - 1 \in 1..Len(w) /\ k - 1 # k
      /\ 1 \in 1..Len(w) /\ Len(w) \in 1..Len(w)
      /\ ~(k < Len(w)) => k = Len(w)
      /\ ~(k > 1) => k = 1
  BY <1>0
<1>3. /\ n[w[k]] = w[k] <=> (ring /\ Len(w) = 1)
      /\ p[w[k]] = w[k] <=> (ring /\ Len(w) = 1)
  <2> DEFINE L == Len(w)
  <2>0. L \in Nat \ {0} /\ k \in 1..L /\ L = Len(w)
    BY <1>0
  <2> HIDE DEF L
  <2>1. (w[1] = w[k] <=> k = 1) /\ (w[L] = w[k] <=> k = L)
    BY <1>1, <1>2, <2>0
  <2>2. CASE k < L
    <3>1. w[k + 1] # w[k] /\ L # 1
      BY <1>1, <1>2, <2>0, <2>2
    <3>2. n[w[k]] # w[k]
      BY <1>1, <2>0, <2>2, <3>1
    <3>3. CASE k > 1
      <4>1. w[k - 1] # w[k]
        BY <1>1, <1>2, <2>0, <3>3
      <4> QED
        BY <1>1, <2>0, <3>1, <3>2, <3>3, <4>1
    <3>4. CASE ~(k > 1)
      <4>1. k # L
        BY <2>0, <2>2
      <4> QED
        BY <1>1, <2>0, <2>1, <3>1, <3>2, <3>4, <4>1
    <3> QED
      BY <3>3, <3>4
  <2>3. CASE ~(k < L)
    <3>1. k = L
      BY <2>0, <2>3
    <3>2. n[w[k]] = IF ring THEN w[1] ELSE NULL
      BY <1>1, <2>0, <2>3
    <3>3. CASE k > 1
      <4>1. w[k - 1] # w[k] /\ L # 1 /\ k # 1
        BY <1>1, <1>2, <2>0, <3>1, <3>3
      <4>2. p[w[k]] = w[k - 1]
        BY <1>1, <3>3
      <4> QED
        BY <1>1, <2>0, <2>1, <3>2, <4>1, <4>2
    <3>4. CASE ~(k > 1)
      <4>1. k = 1 /\ L = 1
        BY <2>0, <3>1, <3>4
      <4>2. p[w[k]] = IF ring THEN w[L] ELSE NULL
        BY <1>1, <2>0, <3>4
      <4> QED
        BY <1>1, <2>0, <2>1, <3>2, <4>1, <4>2
    <3> QED
      BY <3>3, <3>4
  <2> QED
    BY <2>2, <2>3
<1>4. Alone(H(n, p), w[k]) <=> n[w[k]] = w[k] /\ p[w[k]] = w[k]
  BY Assignments DEF Alone
<1> QED
  BY <1>3, <1>4 DEF AloneAt

LEMMA AddTailBecame ==
    ASSUME NEW n, NEW p, NEW l, HeapOK(n, p, l),
           NEW w \in Seq(Node), NEW ring \in BOOLEAN, Links(n, p, l, w, ring),
           NEW x \in Node, x \notin Items(w)
    PROVE  /\ l # NULL => \E N, P : /\ InsertAfter(H(n, p), l, x) = H(N, P)
                                    /\ Became(w, ring, N, P, l)
           /\ l = NULL => \E N, P : /\ InitSingleton(H(n, p), x) = H(N, P)
                                    /\ Became(w, ring, N, P, x)
<1>1. CASE l # NULL
  <2>1. w # <<>>
    BY <1>1 DEF Links
  <2>2. 1 \in 1..Len(w) /\ l = w[1] /\ l \in Node /\ n[l] \in Pointer /\ l # x
    <3>1. LinkedAt(n, p, l, w, ring)
      BY <2>1, LinkedFacts
    <3>2. 1 \in 1..Len(w)
      BY <3>1 DEF LinkedAt
    <3> QED
      BY <3>1, <3>2 DEF LinkedAt, Items
  <2>3. PICK N, P : /\ InsertAfter(H(n, p), l, x) = H(N, P)
                    /\ HeapOK(N, P, l) /\ After(n, p, l, x, N, P)
    BY <2>2, InsertAfterIs
  <2>4. Links(N, P, l, Inserted(w, 1, x), ring)
    BY <2>2, <2>3, InsertAfterLinks
  <2>5. AddTail(w, x) = Inserted(w, 1, x) /\ Inserted(w, 1, x) \in Seq(Node)
    BY <2>1, <2>4, InsertedIs DEF Links
  <2>6. Moves(Queue(w, ring), Queue(Inserted(w, 1, x), ring))
    BY <2>5, MovesOf
  <2> QED
    BY <1>1, <2>3, <2>4, <2>5, <2>6 DEF Became
<1>2. CASE l = NULL
  <2>1. w = <<>> /\ ring = TRUE
    <3>1. w # <<>> => l \in Node
      BY LinkedFacts DEF LinkedAt
    <3> QED
      BY <1>2, <3>1, HeapAssumption DEF Links
  <2>2. PICK N, P : /\ InitSingleton(H(n, p), x) = H(N, P)
                    /\ HeapOK(N, P, x) /\ Links(N, P, x, <<x>>, TRUE)
    BY SingletonLinks
  <2>3. AddTail(w, x) = <<x>> /\ <<x>> \in Seq(Node)
    BY <2>1 DEF AddTail
  <2>4. Moves(Queue(w, ring), Queue(<<x>>, ring))
    BY <2>3, MovesOf
  <2> QED
    BY <1>2, <2>1, <2>2, <2>3, <2>4 DEF Became
<1> QED
  BY <1>1, <1>2

LEMMA AddHeadBecame ==
    ASSUME NEW n, NEW p, NEW l, HeapOK(n, p, l),
           NEW w \in Seq(Node), NEW ring \in BOOLEAN, Links(n, p, l, w, ring),
           NEW x \in Node, x \notin Items(w), l # NULL
    PROVE  \E N, P : /\ InsertBefore(H(n, p), l, x) = H(N, P)
                     /\ Became(w, ring, N, P, x)
<1>1. w # <<>>
  BY DEF Links
<1>2. l = w[1] /\ l \in Node /\ p[l] \in Pointer /\ l # x
  <2>1. LinkedAt(n, p, l, w, ring)
    BY <1>1, LinkedFacts
  <2>2. 1 \in 1..Len(w)
    BY <2>1 DEF LinkedAt
  <2> QED
    BY <2>1, <2>2 DEF LinkedAt, Items
<1>3. PICK N, P : /\ InsertBefore(H(n, p), l, x) = H(N, P)
                  /\ HeapOK(N, P, x) /\ Before(n, p, l, x, N, P)
  BY <1>2, InsertBeforeIs
<1>4. Links(N, P, x, Inserted(w, 0, x), ring)
  BY <1>1, <1>3, InsertBeforeLinks
<1>5. <<x>> \o w = Inserted(w, 0, x) /\ Inserted(w, 0, x) \in Seq(Node)
  BY <1>4, InsertedIs DEF Links
<1>6. Moves(Queue(w, ring), Queue(Inserted(w, 0, x), ring))
  BY <1>5, MovesOf
<1> QED
  BY <1>3, <1>4, <1>5, <1>6 DEF Became

LEMMA InsertAfterBecame ==
    ASSUME NEW n, NEW p, NEW l, HeapOK(n, p, l),
           NEW w \in Seq(Node), NEW ring \in BOOLEAN, Links(n, p, l, w, ring),
           NEW k \in 1..Len(w), NEW x \in Node, x \notin Items(w)
    PROVE  \E N, P : /\ InsertAfter(H(n, p), w[k], x) = H(N, P)
                     /\ Became(w, ring, N, P, l)
<1>1. w # <<>>
  OBVIOUS
<1>2. w[k] \in Node /\ n[w[k]] \in Pointer /\ w[k] # x
  BY <1>1, LinkedFacts DEF LinkedAt, Items
<1>3. PICK N, P : /\ InsertAfter(H(n, p), w[k], x) = H(N, P)
                  /\ HeapOK(N, P, l) /\ After(n, p, w[k], x, N, P)
  BY <1>2, InsertAfterIs
<1>4. Links(N, P, l, Inserted(w, k, x), ring)
  BY <1>3, InsertAfterLinks
<1>5. /\ SubSeq(w, 1, k) \o <<x>> \o SubSeq(w, k + 1, Len(w)) = Inserted(w, k, x)
      /\ Inserted(w, k, x) \in Seq(Node)
  BY <1>4, InsertedIs DEF Links
<1>6. Moves(Queue(w, ring), Queue(Inserted(w, k, x), ring))
  BY <1>5, MovesOf
<1> QED
  BY <1>3, <1>4, <1>5, <1>6 DEF Became

\* What mv_list_remove does to a ring w.
Removes(n, p, l, w, x) ==
    /\ Alone(H(n, p), x) => \E N, P : /\ Clear(H(n, p), x) = H(N, P)
                                      /\ Became(w, TRUE, N, P, NULL)
    /\ ~Alone(H(n, p), x) =>
           /\ Unlink(H(n, p), x).n[x] = n[x]
           /\ \E N, P : /\ Clear(Unlink(H(n, p), x), x) = H(N, P)
                        /\ Became(w, TRUE, N, P, IF x = l THEN n[x] ELSE l)

LEMMA RemoveBecame ==
    ASSUME NEW n, NEW p, NEW l, HeapOK(n, p, l),
           NEW w \in Seq(Node), Links(n, p, l, w, TRUE), NEW x \in Items(w)
    PROVE  Removes(n, p, l, w, x)
<1>1. PICK k \in 1..Len(w) : w[k] = x
  BY DEF Items
<1>2. w # <<>> /\ Len(w) \in Nat \ {0}
  BY <1>1
<1>3. LinkedAt(n, p, l, w, TRUE)
  BY <1>2, LinkedFacts, Zenon
<1>4. /\ x \in Node /\ l \in Node
      /\ n[x] \in Pointer /\ p[x] \in Pointer
  BY <1>1, <1>3 DEF LinkedAt
<1>5. /\ Alone(H(n, p), x) <=> Len(w) = 1
      /\ ~Alone(H(n, p), x) => n[x] # x /\ p[x] # x
  <2>1. AloneAt(n, p, w, TRUE, w[k])
    BY AloneIs, Zenon
  <2> QED
    BY <1>1, <2>1 DEF AloneAt
<1>6. Moves(Queue(w, TRUE), Queue(RemoveItem(w, x), TRUE)) /\ RemoveItem(w, x) \in Seq(Node)
  BY <1>4, MovesOf, RemoveItemType
<1>7. CASE Alone(H(n, p), x)
  <2>1. RemoveItem(w, x) = <<>>
    <3>1. Len(RemoveItem(w, x)) = Len(w) - 1
      BY RemoveItemShape
    <3> QED
      BY <1>5, <1>6, <1>7, <3>1
  <2>2. PICK N, P : Clear(H(n, p), x) = H(N, P) /\ HeapOK(N, P, NULL)
    <3>1. x \in Pointer /\ NULL \in Pointer
      BY <1>4 DEF Pointer
    <3> QED
      BY <3>1, ClearedOK
  <2>3. Links(N, P, NULL, <<>>, TRUE)
    BY EmptyLinks
  <2>4. Became(w, TRUE, N, P, NULL)
    BY <1>6, <2>1, <2>2, <2>3 DEF Became
  <2> QED
    BY <1>7, <2>2, <2>4, Zenon DEF Removes
<1>8. CASE ~Alone(H(n, p), x)
  <2> DEFINE m == IF x = l THEN n[x] ELSE l
  <2>1. x \in Pointer /\ m \in Pointer
    BY <1>4 DEF Pointer
  <2>2. PICK N, P : /\ Clear(Unlink(H(n, p), x), x) = H(N, P)
                    /\ HeapOK(N, P, m) /\ Without(n, p, x, x, N, P)
    BY <1>4, <1>5, <1>8, <2>1, UnlinkIs
  <2>3. Len(w) > 1
    <3> DEFINE L == Len(w)
    <3>1. L \in Nat \ {0} /\ L # 1
      BY <1>2, <1>5, <1>8
    <3> HIDE DEF L
    <3>2. L > 1
      BY <3>1
    <3> QED
      BY <3>2 DEF L
  <2>4. Links(N, P, m, RemoveItem(w, x), TRUE)
    BY <2>2, <2>3, RemoveLinks, Zenon
  <2>5. Unlink(H(n, p), x).n[x] = n[x]
    BY <1>4, <1>5, <1>8, UnlinkedNext
  <2>6. Became(w, TRUE, N, P, m)
    BY <1>6, <2>2, <2>4 DEF Became
  <2> QED
    BY <1>8, <2>2, <2>5, <2>6, Zenon DEF Removes
<1> QED
  BY <1>7, <1>8

\* mv_list_pop_head loses what is behind the new head: the code clears the
\* links of the wrong item, and MarvinList says so.
LEMMA PopHeadBecame ==
    ASSUME NEW n, NEW p, NEW l, HeapOK(n, p, l), l # NULL,
           NEW w \in Seq(Node), NEW ring \in BOOLEAN, Links(n, p, l, w, ring)
    PROVE  /\ Alone(H(n, p), l) =>
                  \A x \in {l, NULL} :
                      \E N, P : /\ Clear(H(n, p), x) = H(N, P)
                                /\ Became(w, ring, N, P, NULL)
           /\ ~Alone(H(n, p), l) =>
                  /\ Unlink(H(n, p), l).n[l] = n[l]
                  /\ \E N, P : /\ Clear(Unlink(H(n, p), l), n[l]) = H(N, P)
                               /\ Became(w, ring, N, P, n[l])
<1>1. w # <<>> /\ Len(w) \in Nat \ {0}
  BY DEF Links
<1>2. LinkedAt(n, p, l, w, ring)
  BY <1>1, LinkedFacts
<1>3. /\ 1 \in 1..Len(w) /\ l = w[1] /\ l \in Node
      /\ n[l] \in Pointer /\ p[l] \in Pointer
      /\ n[l] = IF 1 < Len(w) THEN w[2] ELSE IF ring THEN w[1] ELSE NULL
  <2>1. 1 \in 1..Len(w) /\ 1 + 1 = 2
    BY <1>1
  <2> QED
    BY <1>2, <2>1 DEF LinkedAt
<1>4. /\ Alone(H(n, p), l) <=> (ring /\ Len(w) = 1)
      /\ ~Alone(H(n, p), l) => n[l] # l /\ p[l] # l
  BY <1>3, AloneIs DEF AloneAt
<1>5. /\ Len(w) = 1 => Moves(Queue(w, ring), Queue(<<>>, TRUE))
      /\ Len(w) > 1 => Moves(Queue(w, ring), Queue(<<w[2]>>, FALSE))
  <2> DEFINE q == Queue(w, ring)
             L == Len(w)
  <2>1. Moves(q, QueuePopHead(q))
    BY <1>1, <1>3, MovesOf
  <2>2. q.items = w
    BY DEF Queue
  <2>3. L \in Nat
    OBVIOUS
  <2>4. /\ L <= 1 => QueuePopHead(q) = EmptyQueue
        /\ ~(L <= 1) => QueuePopHead(q) = [items |-> <<w[2]>>, ring |-> FALSE]
    BY <2>2 DEF QueuePopHead
  <2>5. /\ Queue(<<>>, TRUE) = EmptyQueue
        /\ Queue(<<w[2]>>, FALSE) = [items |-> <<w[2]>>, ring |-> FALSE]
    BY DEF Queue, EmptyQueue
  <2> HIDE DEF q, L
  <2>6. (L = 1 => L <= 1) /\ (L > 1 => ~(L <= 1))
    BY <2>3
  <2>7. L = 1 => Moves(q, Queue(<<>>, TRUE))
    BY <2>1, <2>4, <2>5, <2>6, Zenon
  <2>8. L > 1 => Moves(q, Queue(<<w[2]>>, FALSE))
    BY <2>1, <2>4, <2>5, <2>6, Zenon
  <2> QED
    BY <2>7, <2>8 DEF q, L
<1>6. <<>> \in Seq(Node)
  OBVIOUS
<1>7. CASE Alone(H(n, p), l)
  <2>1. ASSUME NEW x \in {l, NULL}
        PROVE  \E N, P : Clear(H(n, p), x) = H(N, P) /\ Became(w, ring, N, P, NULL)
    <3>0. x \in Pointer /\ NULL \in Pointer
      BY <1>3 DEF Pointer
    <3>1. PICK N, P : Clear(H(n, p), x) = H(N, P) /\ HeapOK(N, P, NULL)
      BY <3>0, ClearedOK
    <3>2. Links(N, P, NULL, <<>>, TRUE)
      BY EmptyLinks
    <3>3. Moves(Queue(w, ring), Queue(<<>>, TRUE))
      BY <1>4, <1>5, <1>7
    <3> QED
      BY <1>6, <3>1, <3>2, <3>3 DEF Became
  <2> QED
    BY <1>7, <2>1
<1>8. CASE ~Alone(H(n, p), l)
  <2>1. PICK N, P : /\ Clear(Unlink(H(n, p), l), n[l]) = H(N, P)
                    /\ HeapOK(N, P, n[l]) /\ Without(n, p, l, n[l], N, P)
    BY <1>3, <1>4, <1>8, UnlinkIs
  <2>2. Unlink(H(n, p), l).n[l] = n[l]
    BY <1>3, <1>4, <1>8, UnlinkedNext
  <2>3. CASE Len(w) = 1
    <3>1. n[l] = NULL
      BY <1>3, <1>4, <1>8, <2>3
    <3>2. Links(N, P, NULL, <<>>, TRUE)
      BY EmptyLinks
    <3>3. Moves(Queue(w, ring), Queue(<<>>, TRUE))
      BY <1>5, <2>3
    <3>4. Became(w, ring, N, P, n[l])
      BY <1>6, <2>1, <3>1, <3>2, <3>3 DEF Became
    <3> QED
      BY <1>8, <2>1, <2>2, <3>4
  <2>4. CASE Len(w) # 1
    <3>1. 1 < Len(w) /\ 2 \in 1..Len(w) /\ Len(w) > 1
      <4> DEFINE L == Len(w)
      <4>1. L \in Nat \ {0} /\ L # 1
        BY <1>1, <2>4
      <4> HIDE DEF L
      <4>2. 1 < L /\ 2 \in 1..L /\ L > 1
        BY <4>1
      <4> QED
        BY <4>2 DEF L
    <3>2. n[l] = w[2] /\ w[2] \in Node
      BY <1>3, <3>1
    <3>3. N[w[2]] = NULL /\ P[w[2]] = NULL
      BY <2>1, <3>2 DEF Without, Pointer
    <3>4. Links(N, P, w[2], <<w[2]>>, FALSE)
      <4> DEFINE y == w[2]
      <4>0. y \in Node /\ N[y] = NULL /\ P[y] = NULL
        BY <3>2, <3>3
      <4> HIDE DEF y
      <4>1. <<y>> \in Seq(Node) /\ Len(<<y>>) = 1 /\ <<y>>[1] = y /\ <<y>> # <<>>
        BY <4>0
      <4>2. Distinct(<<y>>)
        BY <4>1 DEF Distinct
      <4>3. Links(N, P, y, <<y>>, FALSE)
        BY <4>0, <4>1, <4>2 DEF Links
      <4> QED
        BY <4>3 DEF y
    <3>5. Moves(Queue(w, ring), Queue(<<w[2]>>, FALSE))
      BY <1>5, <3>1, Zenon
    <3>6. <<w[2]>> \in Seq(Node)
      BY <3>2
    <3>7. Became(w, ring, N, P, n[l])
      <4>1. FALSE \in BOOLEAN
        OBVIOUS
      <4> QED
        BY <2>1, <3>2, <3>4, <3>5, <3>6, <4>1, Zenon DEF Became
    <3> QED
      BY <1>8, <2>1, <2>2, <3>7
  <2> QED
    BY <2>3, <2>4
<1> QED
  BY <1>7, <1>8

LEMMA RotateBecame ==
    ASSUME NEW n, NEW p, NEW l, HeapOK(n, p, l), l # NULL,
           NEW w \in Seq(Node), Links(n, p, l, w, TRUE)
    PROVE  Became(w, TRUE, n, p, n[l])
<1>1. w # <<>> /\ Len(w) \in Nat \ {0}
  BY DEF Links
<1>2. Links(n, p, n[l], RotateForward(w), TRUE)
  BY <1>1, RotateLinks, Zenon
<1>3. RotateForward(w) \in Seq(Node)
  BY RotateForwardShape
<1>4. LinkedAt(n, p, l, w, TRUE)
  BY <1>1, LinkedFacts, Zenon
<1>5. l \in Node /\ n[l] \in Pointer
  <2>1. 1 \in 1..Len(w)
    BY <1>1
  <2> QED
    BY <1>4, <2>1 DEF LinkedAt
<1>6. Moves(Queue(w, TRUE), Queue(RotateForward(w), TRUE))
  BY <1>5, MovesOf
<1> QED
  BY <1>2, <1>3, <1>5, <1>6 DEF Became, HeapOK

---------------------------------------------------------------------------
(* Every step of the heap *)

LEMMA HeapWrite ==
    /\ Heap = H(next, prev)
    /\ \A N, P : Write(H(N, P)) => next' = N /\ prev' = P
BY DEF Heap, H, Write

LEMMA StepBecame ==
    ASSUME HeapOK(next, prev, list),
           NEW w \in Seq(Node), NEW ring \in BOOLEAN,
           Links(next, prev, list, w, ring), Next
    PROVE  Became(w, ring, next', prev', list')
<1>1. Walk = w /\ Closed = ring
  BY WalkFollowsLinks DEF WalkIs
<1>2. \A x : OnList(x) <=> x \in Items(w)
  BY <1>1 DEF OnList
<1>3. list \in Pointer /\ NULL \notin Node
  BY HeapAssumption DEF HeapOK
<1>4. ASSUME NEW x \in Node, AddTailStep(x)
      PROVE  Became(w, ring, next', prev', list')
  <2>1. x \notin Items(w)
    BY <1>2, <1>4 DEF AddTailStep
  <2>2. CASE list # NULL
    <3>1. PICK N, P : /\ InsertAfter(H(next, prev), list, x) = H(N, P)
                      /\ Became(w, ring, N, P, list)
      BY <2>1, <2>2, AddTailBecame
    <3>2. Write(H(N, P)) /\ list' = list
      BY <1>4, <2>2, <3>1, HeapWrite DEF AddTailStep
    <3> QED
      BY <3>1, <3>2, HeapWrite
  <2>3. CASE list = NULL
    <3>1. PICK N, P : /\ InitSingleton(H(next, prev), x) = H(N, P)
                      /\ Became(w, ring, N, P, x)
      BY <2>1, <2>3, AddTailBecame
    <3>2. Write(H(N, P)) /\ list' = x
      BY <1>4, <2>3, <3>1, HeapWrite DEF AddTailStep
    <3> QED
      BY <3>1, <3>2, HeapWrite
  <2> QED
    BY <2>2, <2>3
<1>5. ASSUME NEW x \in Node, AddHeadStep(x)
      PROVE  Became(w, ring, next', prev', list')
  <2>1. x \notin Items(w)
    BY <1>2, <1>5 DEF AddHeadStep
  <2>2. CASE list # NULL
    <3>1. PICK N, P : /\ InsertBefore(H(next, prev), list, x) = H(N, P)
                      /\ Became(w, ring, N, P, x)
      BY <2>1, <2>2, AddHeadBecame
    <3>2. Write(H(N, P)) /\ list' = x
      BY <1>5, <2>2, <3>1, HeapWrite DEF AddHeadStep
    <3> QED
      BY <3>1, <3>2, HeapWrite
  <2>3. CASE list = NULL
    \* On an empty list the head and the tail are the same place.
    <3>1. PICK N, P : /\ InitSingleton(H(next, prev), x) = H(N, P)
                      /\ Became(w, ring, N, P, x)
      BY <2>1, <2>3, AddTailBecame
    <3>2. Write(H(N, P)) /\ list' = x
      BY <1>5, <2>3, <3>1, HeapWrite DEF AddHeadStep
    <3> QED
      BY <3>1, <3>2, HeapWrite
  <2> QED
    BY <2>2, <2>3
<1>6. ASSUME NEW y \in Node, NEW x \in Node, InsertAfterStep(y, x)
      PROVE  Became(w, ring, next', prev', list')
  <2>1. y \in Items(w) /\ x \notin Items(w)
    BY <1>2, <1>6 DEF InsertAfterStep
  <2>2. PICK k \in 1..Len(w) : w[k] = y
    BY <2>1 DEF Items
  <2>3. PICK N, P : /\ InsertAfter(H(next, prev), w[k], x) = H(N, P)
                    /\ Became(w, ring, N, P, list)
    BY <2>1, InsertAfterBecame
  <2>4. Write(H(N, P)) /\ list' = list
    BY <1>6, <2>2, <2>3, HeapWrite DEF InsertAfterStep
  <2> QED
    BY <2>3, <2>4, HeapWrite
<1>7. ASSUME NEW x \in Node, RemoveStep(x)
      PROVE  Became(w, ring, next', prev', list')
  <2>1. x \in Items(w) /\ ring = TRUE
    BY <1>1, <1>2, <1>7 DEF RemoveStep
  <2>2. Removes(next, prev, list, w, x)
    <3>1. Links(next, prev, list, w, TRUE)
      BY <2>1
    <3> QED
      BY <2>1, <3>1, RemoveBecame, Zenon
  <2>3. CASE Alone(Heap, x)
    <3>0. Alone(H(next, prev), x)
      BY <2>3, HeapWrite
    <3>1. PICK N, P : /\ Clear(H(next, prev), x) = H(N, P)
                      /\ Became(w, TRUE, N, P, NULL)
      BY <2>2, <3>0 DEF Removes
    <3>2. Write(H(N, P)) /\ list' = NULL
      BY <1>7, <2>3, <3>1, HeapWrite DEF RemoveStep
    <3> QED
      BY <2>1, <3>1, <3>2, HeapWrite
  <2>4. CASE ~Alone(Heap, x)
    <3>0. ~Alone(H(next, prev), x)
      BY <2>4, HeapWrite
    <3>1. Unlink(H(next, prev), x).n[x] = next[x]
      BY <2>2, <3>0 DEF Removes
    <3>2. PICK N, P : /\ Clear(Unlink(H(next, prev), x), x) = H(N, P)
                      /\ Became(w, TRUE, N, P, IF x = list THEN next[x] ELSE list)
      BY <2>2, <3>0 DEF Removes
    <3>3. Write(H(N, P)) /\ list' = IF x = list THEN next[x] ELSE list
      BY <1>7, <2>4, <3>1, <3>2, HeapWrite DEF RemoveStep, HeadAfter
    <3> QED
      BY <2>1, <3>2, <3>3, HeapWrite
  <2> QED
    BY <2>3, <2>4
<1>8. ASSUME PopHeadStep
      PROVE  Became(w, ring, next', prev', list')
  <2>1. list # NULL
    BY <1>8 DEF PopHeadStep
  <2>2. CASE Alone(Heap, list)
    <3>1. PICK x \in {list, NULL} : Write(Clear(Heap, x)) /\ list' = NULL
      BY <1>8, <2>2 DEF PopHeadStep
    <3>2. PICK N, P : /\ Clear(H(next, prev), x) = H(N, P)
                      /\ Became(w, ring, N, P, NULL)
      BY <2>1, <2>2, PopHeadBecame, HeapWrite
    <3> QED
      BY <3>1, <3>2, HeapWrite
  <2>3. CASE ~Alone(Heap, list)
    <3>1. /\ Unlink(Heap, list).n[list] = next[list]
          /\ \E N, P : /\ Clear(Unlink(Heap, list), next[list]) = H(N, P)
                       /\ Became(w, ring, N, P, next[list])
      BY <2>1, <2>3, PopHeadBecame, HeapWrite
    <3>2. PICK N, P : /\ Clear(Unlink(Heap, list), next[list]) = H(N, P)
                      /\ Became(w, ring, N, P, next[list])
      BY <3>1
    <3>3. Write(H(N, P)) /\ list' = next[list]
      BY <1>8, <2>3, <3>1, <3>2 DEF PopHeadStep
    <3> QED
      BY <3>2, <3>3, HeapWrite
  <2> QED
    BY <2>2, <2>3
<1>9. ASSUME RotateStep
      PROVE  Became(w, ring, next', prev', list')
  <2>1. list # NULL /\ ring = TRUE
    BY <1>1, <1>9 DEF RotateStep
  <2>2. Links(next, prev, list, w, TRUE)
    BY <2>1
  <2>3. Became(w, TRUE, next, prev, next[list])
    BY <2>1, <2>2, RotateBecame
  <2>4. next' = next /\ prev' = prev /\ list' = next[list]
    BY <1>9 DEF RotateStep
  <2> QED
    BY <2>1, <2>3, <2>4
<1> QED
  BY <1>4, <1>5, <1>6, <1>7, <1>8, <1>9 DEF Next

---------------------------------------------------------------------------
(* The invariant, and what it says *)

LEMMA HeapInit ==
    ASSUME Init
    PROVE  HeapInv /\ Machine!Init
<1>1. HeapOK(next, prev, list)
  BY DEF Init, HeapOK, Pointer
<1>2. list = NULL /\ <<>> \in Seq(Node) /\ TRUE \in BOOLEAN
  BY DEF Init
<1>3. Links(next, prev, list, <<>>, TRUE)
  BY <1>2, EmptyLinks
<1>4. Abstract = EmptyQueue
  <2>1. Queue(<<>>, TRUE) = EmptyQueue
    BY DEF Queue, EmptyQueue
  <2>2. Walk = <<>> /\ Closed = TRUE
    BY <1>2 DEF Walk, Closed
  <2> QED
    BY <2>2 DEF Abstract, EmptyQueue
<1>5. HeapInv
  BY <1>1, <1>2, <1>3, Zenon DEF HeapInv
<1> QED
  BY <1>4, <1>5 DEF Machine!Init, EmptyQueue, Machine!EmptyQueue

LEMMA HeapStep ==
    ASSUME HeapInv, Next
    PROVE  HeapInv' /\ Moves(Abstract, Abstract')
<1>1. PICK w \in Seq(Node), ring \in BOOLEAN : Links(next, prev, list, w, ring)
  BY DEF HeapInv
<1>2. Abstract = Queue(w, ring)
  BY <1>1, WalkFollowsLinks DEF WalkIs
<1>3. Became(w, ring, next', prev', list')
  BY <1>1, StepBecame DEF HeapInv
<1>4. PICK v \in Seq(Node), r \in BOOLEAN :
          Links(next', prev', list', v, r) /\ Moves(Queue(w, ring), Queue(v, r))
  BY <1>3 DEF Became
<1>5. HeapInv'
  BY <1>3, <1>4 DEF HeapInv, Became
<1>6. WalkIs'
  BY WalkFollowsLinks, PTL
<1>7. Abstract' = Queue(v, r)
  BY <1>4, <1>6 DEF WalkIs
<1> QED
  BY <1>2, <1>4, <1>5, <1>7

LEMMA HeapStutter ==
    ASSUME HeapInv, UNCHANGED vars
    PROVE  HeapInv' /\ Abstract' = Abstract
<1>1. PICK w \in Seq(Node), ring \in BOOLEAN : Links(next, prev, list, w, ring)
  BY DEF HeapInv
<1>2. next' = next /\ prev' = prev /\ list' = list
  BY DEF vars
<1>3. HeapInv'
  BY <1>2 DEF HeapInv
<1>4. Links(next', prev', list', w, ring)
  BY <1>1, <1>2
<1>5. WalkIs /\ WalkIs'
  BY WalkFollowsLinks, PTL
<1> QED
  BY <1>1, <1>3, <1>4, <1>5 DEF WalkIs

LEMMA HeapInductive == Spec => []HeapInv
<1>1. Init => HeapInv
  BY HeapInit
<1>2. HeapInv /\ [Next]_vars => HeapInv'
  BY HeapStep, HeapStutter
<1> QED
  BY <1>1, <1>2, PTL DEF Spec

LEMMA HeapInvLinked ==
    ASSUME HeapInv
    PROVE  Linked
<1>1. PICK w \in Seq(Node), ring \in BOOLEAN : Links(next, prev, list, w, ring)
  BY DEF HeapInv
<1>2. Walk = w /\ Closed = ring
  BY <1>1, WalkFollowsLinks DEF WalkIs
<1>3. TypeOK
  BY DEF HeapInv, HeapOK, TypeOK
<1>4. ASSUME list # NULL
      PROVE  /\ \A i \in 2..Len(w) : prev[w[i]] = w[i - 1]
             /\ prev[list] = IF ring THEN w[Len(w)] ELSE NULL
  BY <1>1, <1>4 DEF Links
<1>5. BackLinks
  BY <1>2, <1>4 DEF BackLinks
<1> QED
  BY <1>3, <1>5 DEF Linked

\* The two definitions of the abstract list, here and through the instance,
\* are the same.
LEMMA MachineMoves ==
    ASSUME Moves(Abstract, Abstract')
    PROVE  Machine!Next
BY DEF Moves, Machine!Next, Machine!AddTailStep, Machine!AddHeadStep, Machine!RemoveStep,
       Machine!InsertAfterStep, Machine!RotateStep, Machine!PopHeadStep, Machine!Linked,
       Machine!Items, Machine!QueueAddTail, Machine!QueueAddHead, Machine!QueueInsertAfter,
       Machine!QueuePopHead, Machine!IsEmptyQueue, Machine!RemoveItem, Machine!RotateForward,
       Machine!AddTail, Machine!EmptyQueue,
       Items, QueueAddTail, QueueAddHead, QueueInsertAfter, QueuePopHead, IsEmptyQueue,
       RemoveItem, RotateForward, AddTail, EmptyQueue

\* The macros of systems/marvin/list.h, as the scheduler and the semaphores
\* expand them, keep one list of distinct nodes: at every step the next fields
\* reach from the list variable a ring or a NULL-terminated chain, and the
\* prev fields undo them, whatever vector mv_list_pop_head writes at NULL.
THEOREM ListsAreLinked == Spec => []Linked
<1>1. HeapInv => Linked
  BY HeapInvLinked
<1> QED
  BY <1>1, HeapInductive, PTL

\* The assignments of every macro of systems/marvin/list.h, one after the
\* other, do to the sequence of items that a walk visits what the operator of
\* MarvinList that the scheduler's model uses does: a refinement, for any
\* number of nodes and lists of any length.
THEOREM MacrosImplementLists == Spec => ImplementsMachine
<1>1. Init => Machine!Init
  BY HeapInit
<1>2. HeapInv /\ [Next]_vars => [Machine!Next]_Abstract
  BY HeapStep, HeapStutter, MachineMoves
<1> QED
  BY <1>1, <1>2, HeapInductive, PTL DEF Spec, ImplementsMachine, Machine!Spec

=============================================================================
