-------------------------- MODULE PathSearchProofs --------------------------
(***************************************************************************)
(* The circular array is a queue without a limit, for any items, any       *)
(* initial capacity and any number of enlargements; BFS, which keeps its   *)
(* paths in it, frees each of them once and answers with a path of         *)
(* the fewest nodes or with none, for any input file, any requests and any *)
(* capacities.                                                             *)
(***************************************************************************)
EXTENDS PathSearch, SequenceTheorems, FiniteSetTheorems, TLAPS

-----------------------------------------------------------------------------
(* The queue. *)

\* An index that runs at most once over the end of the array.
Round(x, c) == IF x < c THEN x ELSE x - c

LEMMA Wrap == \A c \in Nat \ {0} : \A x \in 0..2 * c - 1 : x % c = Round(x, c)
<1> SUFFICES ASSUME NEW c \in Nat \ {0}, NEW x \in 0..2 * c - 1
             PROVE  x % c = Round(x, c)
  OBVIOUS
<1>1. CASE x < c
  BY <1>1, Z3 DEF Round
<1>2. CASE x >= c
  BY <1>2, Z3 DEF Round
<1> QED
  BY <1>1, <1>2

LEMMA Appended ==
    ASSUME NEW S, NEW s \in Seq(S), NEW n \in Nat, NEW item \in S, Len(s) = n
    PROVE  Append(s, item) = [k \in 1..n + 1 |-> IF k = n + 1 THEN item ELSE s[k]]
<1> DEFINE t == [k \in 1..n + 1 |-> IF k = n + 1 THEN item ELSE s[k]]
<1>1. \A k \in 1..n : s[k] \in S
  OBVIOUS
<1>2. t \in Seq(S) /\ Len(t) = n + 1
  BY <1>1
<1>3. \A k \in 1..n + 1 : t[k] = IF k = n + 1 THEN item ELSE s[k]
  OBVIOUS
<1> HIDE DEF t
<1>4. /\ Append(s, item) \in Seq(S)
      /\ Len(Append(s, item)) = n + 1
      /\ \A k \in 1..n : Append(s, item)[k] = s[k]
      /\ Append(s, item)[n + 1] = item
  BY AppendProperties
<1>5. \A k \in 1..Len(t) : t[k] = Append(s, item)[k]
  BY <1>2, <1>3, <1>4
<1>6. t = Append(s, item)
  BY <1>2, <1>4, <1>5, SeqEqual
<1> QED
  BY <1>6, Zenon DEF t

LEMMA Tailed ==
    ASSUME NEW S, NEW s \in Seq(S), NEW n \in Nat, s # <<>>, Len(s) = n
    PROVE  Tail(s) = [k \in 1..n - 1 |-> s[k + 1]]
<1> DEFINE t == [k \in 1..n - 1 |-> s[k + 1]]
<1>1. n # 0 /\ \A k \in 1..n : s[k] \in S
  BY EmptySeq
<1>2. \A k \in 1..n - 1 : k + 1 \in 1..n
  OBVIOUS
<1>3. t \in Seq(S) /\ Len(t) = n - 1 /\ \A k \in 1..n - 1 : t[k] = s[k + 1]
  BY <1>1, <1>2
<1> HIDE DEF t
<1>4. /\ Tail(s) \in Seq(S) /\ Len(Tail(s)) = n - 1
      /\ \A k \in 1..n - 1 : Tail(s)[k] = s[k + 1]
  BY HeadTailProperties
<1>5. Tail(s) = t
  BY <1>3, <1>4, SeqEqual
<1> QED
  BY <1>5, Zenon DEF t

\* The indices lie in the array.
Indices ==
    /\ cap \in Nat \ {0}
    /\ size \in 0..cap
    /\ front \in 0..cap - 1
    /\ back \in 0..cap - 1

\* Where the items lie, without a remainder.
LEMMA Places == Indices => \A i \in 0..cap : Place(i) = Round(front + i, cap)
<1> SUFFICES ASSUME Indices, NEW i \in 0..cap PROVE Place(i) = Round(front + i, cap)
  OBVIOUS
<1>1. front + i \in 0..2 * cap - 1 /\ cap \in Nat \ {0}
  BY DEF Indices
<1>2. (front + i) % cap = Round(front + i, cap)
  BY <1>1, Wrap, Zenon
<1> QED
  BY <1>2, Zenon DEF Place

\* One step further round the array.
LEMMA Step ==
    Indices => \A x \in 0..cap - 1 : (x + 1) % cap = Round(x + 1, cap)
<1> SUFFICES ASSUME Indices, NEW x \in 0..cap - 1 PROVE (x + 1) % cap = Round(x + 1, cap)
  OBVIOUS
<1>1. x + 1 \in 0..2 * cap - 1 /\ cap \in Nat \ {0}
  BY DEF Indices
<1> QED
  BY <1>1, Wrap, Zenon

\* The relation of the indices, without a remainder.
Aligned == Round(back + 1, cap) = Round(front + size, cap)

\* The array holds members of S, whatever that is, and between front and back
\* only these.
Memory(S) == line \in [0..cap - 1 -> S \cup {NoItem}] /\ taken \in S \cup {NoItem}
Filled(S) == \A i \in 0..size - 1 : line[Round(front + i, cap)] \in S

\* The invariant the steps are shown to keep.
Ring(S) == Indices /\ Aligned /\ Memory(S) /\ Filled(S)

LEMMA Plain == Ring(Items) => Consistent
<1> SUFFICES ASSUME Ring(Items) PROVE Consistent
  OBVIOUS
<1> USE DEF Ring
<1>1. (back + 1) % cap = Round(back + 1, cap)
  <2>1. back \in 0..cap - 1
    BY DEF Indices
  <2> QED
    BY <2>1, Step
<1>2. Place(size) = Round(front + size, cap)
  <2>1. size \in 0..cap
    BY DEF Indices
  <2> QED
    BY <2>1, Places, Zenon
<1>3. \A i \in 0..size - 1 : Place(i) = Round(front + i, cap)
  <2>1. \A i \in 0..size - 1 : i \in 0..cap
    BY DEF Indices
  <2> QED
    BY <2>1, Places, Zenon
<1> QED
  BY <1>1, <1>2, <1>3, Zenon DEF Consistent, Aligned, Filled

\* The same, read as a sequence.
bar == [k \in 1..size |-> line[Round(front + k - 1, cap)]]

LEMMA BarIsContents == Indices => contentsBar = bar
<1> SUFFICES ASSUME Indices PROVE contentsBar = bar
  OBVIOUS
<1>1. ASSUME NEW k \in 1..size
      PROVE  line[Place(k - 1)] = line[Round(front + k - 1, cap)]
  <2>1. k - 1 \in 0..cap /\ front + (k - 1) = front + k - 1
    BY DEF Indices
  <2>2. Place(k - 1) = Round(front + (k - 1), cap)
    BY <2>1, Places, Zenon
  <2> QED
    BY <2>1, <2>2, Zenon
<1> QED
  BY <1>1, Zenon DEF contentsBar, bar

LEMMA BarIsContentsNext == Indices' => (contentsBar = bar)'
  BY BarIsContents, PTL

\* The array of a new queue.
LEMMA InitInv == ASSUME NEW S, Init PROVE Ring(S)
  BY CapAssumption DEF Init, Indices, Ring, Aligned, Memory, Filled, Round

LEMMA PutStep ==
    ASSUME NEW S, NEW item \in S, Ring(S), Enqueue(item)
    PROVE  /\ Ring(S)'
           /\ bar' = Append(bar, item)
<1>0. Indices /\ Aligned /\ Memory(S) /\ Filled(S)
  BY DEF Ring
<1> USE <1>0
<1> DEFINE at == Round(back + 1, cap)
<1>1. back' = at /\ line' = [line EXCEPT ![at] = item]
  <2>1. (back + 1) % cap = at
    <3>1. back \in 0..cap - 1
      BY DEF Indices
    <3> QED
      BY <3>1, Step
  <2> QED
    BY <2>1, Zenon DEF Enqueue
<1>2. /\ cap' = cap /\ front' = front /\ taken' = taken
      /\ size \in 0..cap - 1 /\ size' = size + 1
  BY DEF Enqueue, IsFull, Indices
<1>3. at \in 0..cap - 1 /\ at = Round(front + size, cap)
  BY DEF Indices, Aligned, Round
<1> HIDE DEF at
<1>4. Indices' /\ Memory(S)'
  BY <1>1, <1>2, <1>3 DEF Indices, Memory
<1>5. Aligned'
  BY <1>1, <1>2, <1>3 DEF Aligned, Round, Indices
<1>6. \A i \in 0..size : line'[Round(front + i, cap)] =
                             IF i = size THEN item ELSE line[Round(front + i, cap)]
  BY <1>1, <1>2, <1>3 DEF Round, Indices, Memory
<1>7. Filled(S)'
  BY <1>2, <1>6 DEF Indices, Filled
<1>8. bar' = Append(bar, item)
  <2>1. bar' = [k \in 1..size + 1 |-> line'[Round(front + k - 1, cap)]]
    BY <1>2, Zenon DEF bar
  <2>2. bar \in Seq(S) /\ Len(bar) = size
    <3>1. \A k \in 1..size : line[Round(front + k - 1, cap)] \in S
      <4> TAKE k \in 1..size
      <4>1. k - 1 \in 0..size - 1 /\ front + (k - 1) = front + k - 1
        BY DEF Indices
      <4>2. line[Round(front + (k - 1), cap)] \in S
        BY <4>1, Zenon DEF Filled
      <4> QED
        BY <4>1, <4>2, Zenon
    <3> QED
      BY <3>1 DEF bar, Indices
  <2>3. Append(bar, item) = [k \in 1..size + 1 |-> IF k = size + 1 THEN item ELSE bar[k]]
    <3>1. size \in Nat
      BY DEF Indices
    <3> QED
      BY <2>2, <3>1, Appended
  <2>4. ASSUME NEW k \in 1..size + 1
        PROVE  line'[Round(front + k - 1, cap)] = IF k = size + 1 THEN item ELSE bar[k]
    <3>1. k - 1 \in 0..size /\ front + (k - 1) = front + k - 1
      BY DEF Indices
    <3>2. line'[Round(front + k - 1, cap)] =
              IF k - 1 = size THEN item ELSE line[Round(front + k - 1, cap)]
      BY <1>6, <3>1, Zenon
    <3> QED
      BY <3>1, <3>2 DEF bar, Indices
  <2> QED
    BY <2>1, <2>3, <2>4, Zenon
<1> QED
  BY <1>4, <1>5, <1>7, <1>8 DEF Ring

LEMMA GetStep ==
    ASSUME NEW S, Ring(S), Dequeue
    PROVE  /\ Ring(S)'
           /\ bar # <<>>
           /\ taken' = Head(bar)
           /\ bar' = Tail(bar)
<1>0. Indices /\ Aligned /\ Memory(S) /\ Filled(S)
  BY DEF Ring
<1> USE <1>0
<1>1. /\ cap' = cap /\ back' = back /\ line' = line /\ taken' = line[front]
      /\ size \in 1..cap /\ size' = size - 1
  BY DEF Dequeue, IsEmpty, Indices
<1>2. front' = Round(front + 1, cap)
  <2>1. front \in 0..cap - 1
    BY DEF Indices
  <2> QED
    BY <2>1, Step DEF Dequeue
<1>3. Indices' /\ Memory(S)'
  BY <1>1, <1>2 DEF Indices, Memory, Filled, Round
<1>4. \A i \in 0..cap - 1 : Round(front' + i, cap) = Round(front + i + 1, cap)
  BY <1>2 DEF Indices, Round
<1>5. Aligned'
  <2>1. size' \in 0..cap - 1 /\ front + size' + 1 = front + size
    BY <1>1 DEF Indices
  <2>2. Round(front' + size', cap) = Round(front + size, cap)
    BY <1>4, <2>1
  <2> QED
    BY <1>1, <2>2, Zenon DEF Aligned
<1>6. Filled(S)'
  <2> SUFFICES ASSUME NEW i \in 0..size' - 1
               PROVE  line'[Round(front' + i, cap')] \in S
    BY Zenon DEF Filled
  <2>1. i \in 0..cap - 1 /\ i + 1 \in 0..size - 1 /\ front + (i + 1) = front + i + 1
    BY <1>1 DEF Indices
  <2>2. line[Round(front + (i + 1), cap)] \in S
    BY <2>1, Zenon DEF Filled
  <2> QED
    BY <1>1, <1>4, <2>1, <2>2, Zenon
<1>7. /\ bar \in Seq(S) /\ Len(bar) = size
      /\ \A k \in 1..size : bar[k] = line[Round(front + k - 1, cap)]
  <2>1. \A k \in 1..size : line[Round(front + k - 1, cap)] \in S
    <3> TAKE k \in 1..size
    <3>1. k - 1 \in 0..size - 1 /\ front + (k - 1) = front + k - 1
      BY DEF Indices
    <3>2. line[Round(front + (k - 1), cap)] \in S
      BY <3>1, Zenon DEF Filled
    <3> QED
      BY <3>1, <3>2, Zenon
  <2> QED
    BY <2>1 DEF bar, Indices
<1>8. bar # <<>> /\ taken' = Head(bar)
  <2>1. bar[1] = line[front]
    BY <1>1, <1>7 DEF Round, Indices
  <2> QED
    BY <1>1, <1>7, <2>1
<1>9. bar' = Tail(bar)
  <2>1. bar' = [k \in 1..size - 1 |-> line[Round(front' + k - 1, cap)]]
    BY <1>1, Zenon DEF bar
  <2>2. Tail(bar) = [k \in 1..size - 1 |-> bar[k + 1]]
    BY <1>1, <1>7, <1>8, Tailed DEF Indices
  <2>3. ASSUME NEW k \in 1..size - 1
        PROVE  line[Round(front' + k - 1, cap)] = bar[k + 1]
    <3>1. /\ k - 1 \in 0..cap - 1 /\ k + 1 \in 1..size
          /\ front' + (k - 1) = front' + k - 1
          /\ front + (k - 1) + 1 = front + (k + 1) - 1
      BY <1>1, <1>2, <1>3 DEF Indices
    <3>2. Round(front' + (k - 1), cap) = Round(front + (k - 1) + 1, cap)
      BY <1>4, <3>1, Zenon
    <3>3. bar[k + 1] = line[Round(front + (k + 1) - 1, cap)]
      BY <1>7, <3>1, Zenon
    <3> QED
      BY <3>1, <3>2, <3>3, Zenon
  <2> QED
    BY <2>1, <2>2, <2>3, Zenon
<1> QED
  BY <1>3, <1>5, <1>6, <1>8, <1>9 DEF Ring

LEMMA EnlargeStep ==
    ASSUME NEW S, NEW item \in S, Ring(S), EnlargeAndEnqueue(item)
    PROVE  /\ Ring(S)'
           /\ bar' = Append(bar, item)
<1>0. Indices /\ Aligned /\ Memory(S) /\ Filled(S)
  BY DEF Ring
<1> USE <1>0
<1>1. /\ cap' = 2 * cap /\ front' = 0 /\ back' = cap /\ taken' = taken
      /\ size = cap /\ size' = cap + 1 /\ cap \in Nat \ {0}
  BY DEF EnlargeAndEnqueue, IsFull, Indices
<1>2. line' = [i \in 0..2 * cap - 1 |->
                  IF i < cap THEN line[Round(front + i, cap)]
                  ELSE IF i = cap THEN item ELSE NoItem]
  <2>1. ASSUME NEW i \in 0..2 * cap - 1, i < cap
        PROVE  line[Place(i)] = line[Round(front + i, cap)]
    <3>1. i \in 0..cap
      BY <2>1, <1>1
    <3> QED
      BY <3>1, Places, Zenon
  <2> QED
    BY <1>1, <2>1, Zenon DEF EnlargeAndEnqueue
<1>3. \A i \in 0..cap - 1 : line[Round(front + i, cap)] \in S
  BY <1>1, Zenon DEF Filled
<1>4. Indices' /\ Memory(S)'
  <2>1. Indices'
    BY <1>1 DEF Indices
  <2>2. \A i \in 0..2 * cap - 1 : i >= cap => line'[i] \in S \cup {NoItem}
    BY <1>1, <1>2
  <2>3. \A i \in 0..2 * cap - 1 : line'[i] \in S \cup {NoItem}
    BY <1>1, <1>2, <1>3, <2>2
  <2>4. line' = [i \in 0..2 * cap - 1 |-> line'[i]]
    BY <1>2
  <2>5. line' \in [0..2 * cap - 1 -> S \cup {NoItem}]
    BY <2>3, <2>4
  <2> QED
    BY <1>1, <2>1, <2>5 DEF Memory
<1>5. Aligned'
  BY <1>1 DEF Aligned, Round
<1>6. \A i \in 0..cap : line'[Round(front' + i, cap')] =
                            IF i = cap THEN item ELSE line[Round(front + i, cap)]
  BY <1>1, <1>2 DEF Round, Indices
<1>7. Filled(S)'
  <2>1. ASSUME NEW i \in 0..size' - 1
        PROVE  line'[Round(front' + i, cap')] \in S
    <3>1. i \in 0..cap /\ (i # cap => i \in 0..cap - 1)
      BY <1>1
    <3> QED
      BY <1>3, <1>6, <3>1, Zenon
  <2> QED
    BY <2>1, Zenon DEF Filled
<1>8. bar' = Append(bar, item)
  <2>1. bar' = [k \in 1..cap + 1 |-> line'[Round(front' + k - 1, cap')]]
    BY <1>1, Zenon DEF bar
  <2>2. bar = [k \in 1..cap |-> line[Round(front + k - 1, cap)]]
    BY <1>1, Zenon DEF bar
  <2>3. \A k \in 1..cap : line[Round(front + k - 1, cap)] \in S
    <3> TAKE k \in 1..cap
    <3>1. k - 1 \in 0..cap - 1 /\ front + (k - 1) = front + k - 1
      BY <1>1 DEF Indices
    <3> QED
      BY <1>3, <3>1, Zenon
  <2>4. bar \in Seq(S) /\ Len(bar) = cap
    BY <1>1, <2>2, <2>3
  <2>5. Append(bar, item) = [k \in 1..cap + 1 |-> IF k = cap + 1 THEN item ELSE bar[k]]
    <3>1. cap \in Nat
      BY DEF Indices
    <3> QED
      BY <2>4, <3>1, Appended
  <2>6. ASSUME NEW k \in 1..cap + 1
        PROVE  line'[Round(front' + k - 1, cap')] = IF k = cap + 1 THEN item ELSE bar[k]
    <3>1. /\ k - 1 \in 0..cap
          /\ front' + (k - 1) = front' + k - 1 /\ front + (k - 1) = front + k - 1
      BY <1>1 DEF Indices
    <3>2. line'[Round(front' + k - 1, cap')] =
              IF k - 1 = cap THEN item ELSE line[Round(front + k - 1, cap)]
      BY <1>6, <3>1, Zenon
    <3> QED
      BY <1>1, <2>2, <3>2
  <2> QED
    BY <2>1, <2>5, <2>6, Zenon
<1> QED
  BY <1>4, <1>5, <1>7, <1>8 DEF Ring

LEMMA NextInv == Ring(Items) /\ [Next]_vars => Ring(Items)'
<1>1. CASE UNCHANGED vars
  BY <1>1 DEF vars, Ring, Indices, Aligned, Memory, Filled
<1> QED
  BY <1>1, PutStep, GetStep, EnlargeStep DEF Next

\* Every enqueue, with or without an enlargement, appends to the queued items,
\* and every dequeue takes the oldest.
LEMMA Refines ==
    /\ Init => Queue!FifoInit
    /\ Ring(Items) /\ Ring(Items)' /\ [Next]_vars => [Queue!FifoNext]_(Queue!fifoVars)
<1>1. Init => Queue!FifoInit
  <2> SUFFICES ASSUME Init PROVE contentsBar = <<>> /\ taken \notin Items
    BY DEF Queue!FifoInit
  <2> QED
    BY ItemAssumption DEF Init, contentsBar
<1>2. ASSUME Ring(Items), Ring(Items)', [Next]_vars
      PROVE  [Queue!FifoNext]_(Queue!fifoVars)
  <2>1. contentsBar = bar
    BY <1>2, BarIsContents DEF Ring
  <2>2. contentsBar' = bar'
    BY <1>2, BarIsContentsNext DEF Ring
  <2>3. ASSUME NEW item \in Items, Enqueue(item) \/ EnlargeAndEnqueue(item)
        PROVE  Queue!Put(item)
    <3>1. taken' = taken
      BY <2>3 DEF Enqueue, EnlargeAndEnqueue
    <3> QED
      BY <1>2, <2>1, <2>2, <2>3, <3>1, PutStep, EnlargeStep DEF Queue!Put
  <2>4. ASSUME Dequeue PROVE Queue!Get
    BY <1>2, <2>1, <2>2, <2>4, GetStep DEF Queue!Get
  <2>5. ASSUME UNCHANGED vars PROVE UNCHANGED Queue!fifoVars
    BY <2>5 DEF vars, Queue!fifoVars, contentsBar, Place
  <2> QED
    BY <1>2, <2>3, <2>4, <2>5 DEF Next, Queue!FifoNext
<1> QED
  BY <1>1, <1>2

\* size, front and back of queue.h never disagree, and no place between front
\* and back is read before it was set.
THEOREM AlwaysConsistent == Spec => []Consistent
<1>1. Init => Ring(Items)
  BY InitInv
<1> QED
  BY <1>1, Plain, NextInv, PTL DEF Spec

\* The array of queue.h with enlarge is a first-in first-out queue without a
\* limit, whatever is queued.
THEOREM IsFifo == Spec => FirstInFirstOut
<1>1. Init => Ring(Items)
  BY InitInv
<1> QED
  BY <1>1, NextInv, Refines, PTL DEF Spec, FirstInFirstOut, Queue!FifoSpec

-----------------------------------------------------------------------------
(* The search. *)

\* What is allocated, by the place BFS has got to.
Account ==
    /\ size \in Nat
    /\ blocks \in Int /\ enlarged \in Int
    /\ found \in BOOLEAN
    /\ pc \in {"read_graph", "receive", "search"} => blocks = 0 /\ size = 0 /\ enlarged = 0
    /\ pc \in {"read_graph", "receive", "search", "loop", "expand"} => ~found
    /\ pc = "loop" => blocks = enlarged + 3 + 2 * size
    /\ pc \in {"expand", "clean"} => blocks = enlarged + 5 + 2 * size
    /\ pc \in {"loop", "expand", "clean"} => searches
    /\ pc = "clean" => found
    /\ pc = "answer" => blocks = enlarged + (IF searches THEN 1 ELSE 0) + (IF found THEN 2 ELSE 0)
    /\ pc = "done" => blocks = enlarged + (IF searches THEN 1 ELSE 0) + (IF found THEN 1 ELSE 0)

LEMMA AddPathGrows ==
    ASSUME NEW p, NEW n \in Int, NEW before \in Int, AddPath(p, n, before), Account
    PROVE  /\ size' = size + 1
           /\ enlarged' \in Int
           /\ blocks' = blocks + n + (enlarged' - enlarged)
<1>1. CASE Enqueue(p) /\ Allocate(n, before)
  BY <1>1 DEF Enqueue, Allocate, Account
<1>2. CASE EnlargeAndEnqueue(p) /\ Allocate(n, before + 1)
  BY <1>2 DEF EnlargeAndEnqueue, Allocate, Account
<1> QED
  BY <1>1, <1>2 DEF AddPath

LEMMA DequeueShrinks == Account /\ Dequeue => size # 0 /\ size' = size - 1 /\ size' \in Nat
  BY DEF Account, Dequeue, IsEmpty

LEMMA SameRequest ==
    ASSUME UNCHANGED <<list, start, end>>
    PROVE  searches' <=> searches
BY DEF searches, edge

LEMMA AccountStep == Account /\ [SearchNext]_allVars => Account'
<1> SUFFICES ASSUME Account, [SearchNext]_allVars PROVE Account'
  OBVIOUS
<1> USE DEF Account, QUEUE, memory
<1>1. CASE ReadGraph
  BY <1>1 DEF ReadGraph, vars
<1>2. CASE Receive
  BY <1>2 DEF Receive, vars
<1>3. CASE Shortcut
  <2>1. /\ pc = "search" /\ pc' = "answer" /\ found' = TRUE /\ size' = size
        /\ Allocate(2, 0) /\ UNCHANGED <<list, start, end>> /\ ~searches
    BY <1>3 DEF Shortcut, vars, searches
  <2>2. ~searches'
    BY <2>1, SameRequest
  <2>3. enlarged' = 0 /\ blocks' = 2
    BY <2>1 DEF Allocate
  <2> QED
    BY <2>1, <2>2, <2>3
<1>4. CASE Begin
  <2>1. size' = size + 1 /\ enlarged' \in Int /\ blocks' = blocks + 5 + (enlarged' - enlarged)
    <3>1. AddPath(appended(new_path(PathCap), start), 2 * 2 + 1, 0)
      BY <1>4 DEF Begin
    <3> QED
      BY <3>1, AddPathGrows
  <2>2. /\ pc = "search" /\ pc' = "loop" /\ found' = found
        /\ UNCHANGED <<list, start, end>> /\ searches
    BY <1>4 DEF Begin, searches
  <2>3. searches'
    BY <2>2, SameRequest
  <2> QED
    BY <2>1, <2>2, <2>3
<1>5. CASE TakePath
  <2>1. size # 0 /\ size' = size - 1 /\ size' \in Nat
    BY <1>5, DequeueShrinks, Zenon DEF TakePath
  <2>2. pc = "loop" /\ UNCHANGED <<blocks, enlarged, list, start, end>> /\ ~found
    BY <1>5 DEF TakePath
  <2>3. searches'
    BY <2>2, SameRequest
  <2>4. CASE pc' = "clean" /\ found' = TRUE
    BY <2>1, <2>2, <2>3, <2>4
  <2>5. CASE pc' = "expand" /\ found' = found
    BY <2>1, <2>2, <2>3, <2>5
  <2>6. \/ pc' = "clean" /\ found' = TRUE
        \/ pc' = "expand" /\ found' = found
    BY <1>5, Zenon DEF TakePath
  <2> QED
    BY <2>4, <2>5, <2>6
<1>6. CASE GiveUp
  <2>1. /\ pc = "loop" /\ pc' = "answer" /\ size = 0 /\ blocks' = blocks - 2
        /\ UNCHANGED <<size, found, enlarged, list, start, end>>
    BY <1>6 DEF GiveUp, IsEmpty, vars
  <2>2. searches'
    BY <2>1, SameRequest
  <2> QED
    BY <2>1, <2>2
<1>7. CASE SkipVisited
  <2>1. /\ pc = "expand" /\ UNCHANGED <<pc, size, found, blocks, enlarged, list, start, end>>
    BY <1>7 DEF SkipVisited, vars
  <2>2. searches'
    BY <2>1, SameRequest
  <2> QED
    BY <2>1, <2>2
<1>8. CASE Extend
  <2>1. size' = size + 1 /\ enlarged' \in Int /\ blocks' = blocks + 2 + (enlarged' - enlarged)
    <3>1. AddPath(appended(path, Head(adj)), 2, enlarges(path))
      BY <1>8 DEF Extend
    <3>2. enlarges(path) \in Int
      BY DEF enlarges
    <3> QED
      BY <3>1, <3>2, AddPathGrows
  <2>2. pc = "expand" /\ pc' = pc /\ found' = found /\ UNCHANGED <<list, start, end>>
    BY <1>8, Zenon DEF Extend
  <2>3. searches'
    BY <2>2, SameRequest
  <2> QED
    BY <2>1, <2>2, <2>3
<1>9. CASE CopyOverrun
  BY <1>9 DEF CopyOverrun, vars
<1>10. CASE FreePath
  <2>1. /\ pc = "expand" /\ pc' = "loop" /\ blocks' = blocks - 2
        /\ UNCHANGED <<size, found, enlarged, list, start, end>>
    BY <1>10 DEF FreePath, vars
  <2>2. searches'
    BY <2>1, SameRequest
  <2> QED
    BY <2>1, <2>2
<1>11. CASE Clean
  <2>1. /\ pc = "clean" /\ blocks' = blocks - 2
        /\ UNCHANGED <<found, enlarged, list, start, end>>
    BY <1>11 DEF Clean
  <2>2. searches'
    BY <2>1, SameRequest
  <2>3. CASE IsEmpty
    <3>1. pc' = "answer" /\ size = 0 /\ size' = size
      BY <1>11, <2>3 DEF Clean, IsEmpty, vars
    <3> QED
      BY <2>1, <2>2, <3>1
  <2>4. CASE ~IsEmpty
    <3>1. size' = size - 1 /\ size' \in Nat /\ pc' = pc
      BY <1>11, <2>4, DequeueShrinks, Zenon DEF Clean
    <3> QED
      BY <2>1, <2>2, <3>1
  <2> QED
    BY <2>3, <2>4
<1>12. CASE Answer
  <2>1. /\ pc = "answer" /\ pc' = "done"
        /\ UNCHANGED <<size, found, enlarged, list, start, end>>
    BY <1>12 DEF Answer, vars
  <2>2. blocks' = IF found THEN blocks - 1 ELSE blocks
    BY <1>12 DEF Answer
  <2>3. searches' <=> searches
    BY <2>1, SameRequest
  <2> QED
    BY <2>1, <2>2, <2>3
<1>13. CASE UNCHANGED allVars
  <2>1. UNCHANGED <<pc, size, found, blocks, enlarged, list, start, end>>
    BY <1>13 DEF allVars, vars, searchVars
  <2>2. searches' <=> searches
    BY <2>1, SameRequest
  <2> QED
    BY <2>1, <2>2
<1> QED
  BY <1>1, <1>2, <1>3, <1>4, <1>5, <1>6, <1>7, <1>8, <1>9, <1>10, <1>11, <1>12, <1>13
     DEF SearchNext

\* Every path BFS makes is freed once, array and struct, but for the struct of the
\* answer, and so is the queue of paths; visited (107), that struct (402) and one
\* for each enlargement of a queue (queue.h:100) stay allocated, and nothing else.
THEOREM SearchFreesPaths == SearchSpec => []LeaksKnown
<1>1. SearchInit => Account
  <2> SUFFICES ASSUME SearchInit PROVE Account
    OBVIOUS
  <2>1. pc = "read_graph" /\ size = 0 /\ blocks = 0 /\ enlarged = 0
    BY DEF SearchInit, Init
  <2>2. ~found /\ found \in BOOLEAN
    BY Zenon DEF SearchInit
  <2> QED
    BY <2>1, <2>2 DEF Account
<1>2. Account => LeaksKnown
  BY DEF Account, LeaksKnown, QUEUE
<1> QED
  BY <1>1, <1>2, AccountStep, PTL DEF SearchSpec

-----------------------------------------------------------------------------
(* Numbers, induction over them, and functions defined step by step. *)

\* A set of naturals that is not empty has a least element.
LEMMA Least ==
    ASSUME NEW S \in SUBSET Nat, S # {}
    PROVE  \E m \in S : \A k \in S : m <= k
<1>1. PICK R : R = OpToRel(<, Nat)
  OBVIOUS
<1>2. R = {ss \in Nat \X Nat : ss[1] < ss[2]}
  BY <1>1, Zenon DEF OpToRel
<1>3. IsWellFoundedOn(R, Nat)
  BY <1>1, NatLessThanWellFounded, Zenon
<1>4. PICK m \in S : \A k \in S : ~ (<<k, m>> \in R)
  BY <1>3, WFMin
<1>5. ASSUME NEW k \in S, k < m PROVE FALSE
  <2>1. <<k, m>> \in R
    BY <1>2, <1>5
  <2> QED
    BY <1>4, <2>1
<1> QED
  BY <1>5

\* So that what holds for 0 and passes from n to n + 1 holds for all naturals.
LEMMA Induction ==
    ASSUME NEW Good, 0 \in Good, \A n \in Nat : n \in Good => n + 1 \in Good
    PROVE  \A n \in Nat : n \in Good
<1> DEFINE Bad == {n \in Nat : n \notin Good}
<1>1. CASE Bad # {}
  <2>1. PICK m \in Bad : \A k \in Bad : m <= k
    <3>1. Bad \in SUBSET Nat
      OBVIOUS
    <3> HIDE DEF Bad
    <3> QED
      BY <1>1, <3>1, Least
  <2>2. m \in Nat /\ m # 0 /\ m \notin Good
    BY <2>1
  <2>3. m - 1 \in Nat /\ m - 1 \notin Bad
    BY <2>1, <2>2
  <2> QED
    BY <2>2, <2>3
<1> QED
  BY <1>1

\* A function can be defined step by step.
Follows(f, F, b) == f[0] = b /\ \A n \in Nat : f[n + 1] = F[<<n, f[n]>>]

LEMMA Recursion ==
    ASSUME NEW S, NEW F \in [Nat \X S -> S], NEW b \in S
    PROVE  \E f \in [Nat -> S] : Follows(f, F, b)
<1> DEFINE Upto(g, n) == g \in [0..n -> S] /\ g[0] = b /\ \A k \in 0..n - 1 : g[k + 1] = F[<<k, g[k]>>]
           Good == {n \in Nat : \E g : Upto(g, n)}
           Same == {k \in Nat : \A m, n \in Nat : \A g, h :
                       k <= m /\ k <= n /\ Upto(g, m) /\ Upto(h, n) => g[k] = h[k]}
           G(n) == CHOOSE g : Upto(g, n)
           f == [n \in Nat |-> G(n)[n]]
<1>1. \A n \in Nat : n \in Good
  <2>1. 0 \in Good
    <3>1. Upto([k \in 0..0 |-> b], 0)
      OBVIOUS
    <3> QED
      BY <3>1
  <2>2. ASSUME NEW n \in Nat, n \in Good PROVE n + 1 \in Good
    <3>1. PICK g : Upto(g, n)
      BY <2>2
    <3> DEFINE h == [k \in 0..n + 1 |-> IF k = n + 1 THEN F[<<n, g[n]>>] ELSE g[k]]
    <3>2. g[n] \in S /\ F[<<n, g[n]>>] \in S
      BY <2>2, <3>1
    <3>3. h \in [0..n + 1 -> S] /\ h[0] = b
      BY <2>2, <3>1, <3>2
    <3>4. \A k \in 0..n : h[k + 1] = F[<<k, h[k]>>]
      <4> TAKE k \in 0..n
      <4>1. h[k] = g[k]
        BY <2>2
      <4>2. CASE k = n
        <5>1. n + 1 \in 0..n + 1
          BY <2>2
        <5>2. h[n + 1] = F[<<n, g[n]>>]
          BY <5>1
        <5> QED
          BY <4>1, <4>2, <5>2
      <4>3. CASE k # n
        <5>1. k \in 0..n - 1 /\ k + 1 \in 0..n + 1 /\ k + 1 # n + 1
          BY <2>2, <4>3
        <5> QED
          BY <3>1, <4>1, <5>1
      <4> QED
        BY <4>2, <4>3
    <3>5. n + 1 - 1 = n /\ n + 1 \in Nat
      BY <2>2
    <3> HIDE DEF h
    <3>6. Upto(h, n + 1)
      BY <3>3, <3>4, <3>5
    <3> HIDE DEF Upto
    <3> QED
      BY <3>5, <3>6
  <2> HIDE DEF Good
  <2> QED
    BY <2>1, <2>2, Induction
<1>2. \A k \in Nat : k \in Same
  <2>1. 0 \in Same
    OBVIOUS
  <2>2. ASSUME NEW k \in Nat, k \in Same PROVE k + 1 \in Same
    <3>1. ASSUME NEW m \in Nat, NEW n \in Nat, NEW g, NEW h,
                 k + 1 <= m, k + 1 <= n, Upto(g, m), Upto(h, n)
          PROVE  g[k + 1] = h[k + 1]
      <4>1. k <= m /\ k <= n /\ k \in 0..m - 1 /\ k \in 0..n - 1
        BY <2>2, <3>1
      <4>2. g[k] = h[k]
        <5>1. \A i, j \in Nat : \A x, y :
                 k <= i /\ k <= j /\ Upto(x, i) /\ Upto(y, j) => x[k] = y[k]
          BY <2>2
        <5> HIDE DEF Upto, Same
        <5> QED
          BY <3>1, <4>1, <5>1
      <4>3. g[k + 1] = F[<<k, g[k]>>] /\ h[k + 1] = F[<<k, h[k]>>]
        BY <3>1, <4>1
      <4> QED
        BY <4>2, <4>3
    <3> HIDE DEF Upto
    <3> QED
      BY <2>2, <3>1
  <2> HIDE DEF Same
  <2> QED
    BY <2>1, <2>2, Induction
<1>3. \A n \in Nat : Upto(G(n), n)
  <2> TAKE n \in Nat
  <2>1. \E g : Upto(g, n)
    BY <1>1
  <2> HIDE DEF Upto
  <2> QED
    BY <2>1
<1>4. \A n \in Nat : f[n] = G(n)[n] /\ f[n] \in S
  <2> TAKE n \in Nat
  <2>1. Upto(G(n), n) /\ f[n] = G(n)[n]
    BY <1>3
  <2> HIDE DEF G
  <2>2. n \in 0..n /\ G(n) \in [0..n -> S]
    BY <2>1
  <2> HIDE DEF f
  <2> QED
    BY <2>1, <2>2
<1>5. f[0] = b
  BY <1>3, <1>4
<1>6. ASSUME NEW n \in Nat PROVE f[n + 1] = F[<<n, f[n]>>]
  <2>1. n + 1 \in Nat /\ n \in 0..n + 1 - 1 /\ n <= n + 1 /\ n <= n
    OBVIOUS
  <2>2. G(n + 1)[n + 1] = F[<<n, G(n + 1)[n]>>]
    <3>1. Upto(G(n + 1), n + 1)
      BY <1>3, <2>1
    <3> HIDE DEF G
    <3> QED
      BY <2>1, <3>1
  <2>3. G(n + 1)[n] = G(n)[n]
    <3> HIDE DEF Upto, G
    <3> QED
      BY <1>2, <1>3, <2>1
  <2> QED
    BY <1>4, <2>1, <2>2, <2>3
<1>7. f \in [Nat -> S]
  BY <1>4
<1> HIDE DEF f
<1> QED
  BY <1>5, <1>6, <1>7 DEF Follows

\* A bounded set of naturals that is not empty has a greatest element.
LEMMA Greatest ==
    ASSUME NEW S \in SUBSET Nat, NEW b \in Nat, S # {}, \A x \in S : x <= b
    PROVE  Max(S) \in S /\ \A x \in S : x <= Max(S)
<1> DEFINE U == {m \in Nat : \A x \in S : x <= m}
<1>1. PICK m \in U : \A k \in U : m <= k
  <2>1. U \in SUBSET Nat /\ U # {}
    OBVIOUS
  <2> HIDE DEF U
  <2> QED
    BY <2>1, Least
<1>2. m \in S
  <2>1. SUFFICES ASSUME m \notin S PROVE FALSE
    OBVIOUS
  <2>2. PICK x \in S : TRUE
    OBVIOUS
  <2>3. \A y \in S : y \in Nat /\ y <= m /\ y # m
    BY <1>1, <2>1
  <2>4. m - 1 \in Nat /\ \A y \in S : y <= m - 1
    BY <1>1, <2>2, <2>3
  <2>5. m - 1 \in U
    BY <2>4
  <2> QED
    BY <1>1, <2>5
<1>3. \A x \in S : m >= x
  BY <1>1
<1> HIDE DEF U
<1>4. Max(S) \in S /\ \A x \in S : Max(S) >= x
  BY <1>2, <1>3 DEF Max
<1> QED
  BY <1>4

-----------------------------------------------------------------------------
(* The graph: what read_graph builds is the file. *)

EdgesOf(f) == ToSet(f) \ {<<>>}

LEMMA EdgesArePairs ==
    ASSUME NEW f \in Files
    PROVE  /\ f \in Seq((Nat \X Nat) \cup {<<>>})
           /\ \A e \in EdgesOf(f) : e \in Nat \X Nat /\ e = <<e[1], e[2]>>
<1>1. f \in Seq((Nat \X Nat) \cup {<<>>})
  BY FilesAssumption
<1>2. \A k \in DOMAIN f : f[k] \in (Nat \X Nat) \cup {<<>>}
  BY <1>1
<1> QED
  BY <1>1, <1>2 DEF EdgesOf, ToSet

\* Every number in the file is the number of a node.
LEMMA AllNumbered ==
    ASSUME raw \in Files
    PROVE  /\ find_V \in Nat \ {0}
           /\ \A e \in edges : e[1] \in 0..find_V - 1 /\ e[2] \in 0..find_V - 1
<1> DEFINE f == raw
           Good == {k \in Nat : k <= Len(f) =>
                       \E b \in Nat : \A i \in 1..k : f[i] # <<>> => f[i][1] <= b /\ f[i][2] <= b}
           S == {0} \cup UNION {{e[1], e[2]} : e \in edges}
<1>1. /\ f \in Seq((Nat \X Nat) \cup {<<>>})
      /\ \A e \in edges : e \in Nat \X Nat
      /\ edges = {f[i] : i \in 1..Len(f)} \ {<<>>}
  <2>1. f \in Seq((Nat \X Nat) \cup {<<>>}) /\ \A e \in EdgesOf(f) : e \in Nat \X Nat
    BY EdgesArePairs
  <2>2. DOMAIN f = 1..Len(f)
    BY <2>1
  <2>3. edges = EdgesOf(f) /\ EdgesOf(f) = {f[i] : i \in 1..Len(f)} \ {<<>>}
    BY <2>2, Zenon DEF EdgesOf, edges, ToSet
  <2> QED
    BY <2>1, <2>3, Zenon
<1>2. /\ Len(f) \in Nat
      /\ \A i \in 1..Len(f) : f[i] # <<>> => f[i] \in edges /\ f[i][1] \in Nat /\ f[i][2] \in Nat
  BY <1>1
<1> HIDE DEF f
<1>3. \A k \in Nat : k \in Good
  <2>1. 0 \in Good
    OBVIOUS
  <2>2. ASSUME NEW k \in Nat, k \in Good PROVE k + 1 \in Good
    <3>1. SUFFICES ASSUME k + 1 <= Len(f)
                   PROVE  \E b \in Nat : \A i \in 1..k + 1 : f[i] # <<>> => f[i][1] <= b /\ f[i][2] <= b
      BY <2>2
    <3>2. PICK b \in Nat : \A i \in 1..k : f[i] # <<>> => f[i][1] <= b /\ f[i][2] <= b
      BY <1>2, <2>2, <3>1
    <3>3. k + 1 \in 1..Len(f) /\ \A i \in 1..k + 1 : i \in 1..Len(f) /\ (i \in 1..k \/ i = k + 1)
      BY <1>2, <2>2, <3>1
    <3>4. PICK c \in Nat : b <= c /\ (f[k + 1] # <<>> => f[k + 1][1] <= c /\ f[k + 1][2] <= c)
      <4>1. CASE f[k + 1] = <<>>
        BY <3>2, <4>1
      <4>2. CASE f[k + 1] # <<>>
        <5>1. PICK x \in Nat, y \in Nat : x = f[k + 1][1] /\ y = f[k + 1][2]
          BY <1>2, <3>3, <4>2
        <5>2. /\ b + x + y \in Nat /\ b <= b + x + y /\ x <= b + x + y /\ y <= b + x + y
          BY ONLY b \in Nat, x \in Nat, y \in Nat
        <5> QED
          BY <5>1, <5>2, Zenon
      <4> QED
        BY <4>1, <4>2
    <3>5. ASSUME NEW i \in 1..k + 1, f[i] # <<>> PROVE f[i][1] <= c /\ f[i][2] <= c
      <4>1. f[i][1] \in Nat /\ f[i][2] \in Nat
        BY <1>2, <3>3, <3>5
      <4>2. CASE i \in 1..k
        BY <3>2, <3>4, <3>5, <4>1, <4>2
      <4>3. CASE i = k + 1
        BY <3>4, <3>5, <4>3
      <4> QED
        BY <3>3, <3>5, <4>2, <4>3
    <3> QED
      BY <3>4, <3>5
  <2> HIDE DEF Good
  <2> QED
    BY <2>1, <2>2, Induction
<1>4. PICK b \in Nat : \A i \in 1..Len(f) : f[i] # <<>> => f[i][1] <= b /\ f[i][2] <= b
  <2> HIDE DEF Good
  <2>1. Len(f) \in Good
    BY <1>2, <1>3
  <2>2. Len(f) <= Len(f)
    BY <1>2
  <2> QED
    BY <2>1, <2>2 DEF Good
<1>5. \A e \in edges : e[1] \in Nat /\ e[2] \in Nat /\ e[1] <= b /\ e[2] <= b
  BY <1>1, <1>4
<1>6. S \in SUBSET Nat /\ S # {} /\ \A x \in S : x <= b
  BY <1>4, <1>5
<1>7. Max(S) \in S /\ \A x \in S : x <= Max(S)
  <2> HIDE DEF S
  <2> QED
    BY <1>4, <1>6, Greatest
<1>8. find_V = 1 + Max(S)
  BY DEF find_V
<1>9. \A e \in edges : e[1] \in S /\ e[2] \in S
  OBVIOUS
<1> HIDE DEF S
<1>10. Max(S) \in Nat
  BY <1>6, <1>7
<1>11. ASSUME NEW e \in edges
       PROVE  e[1] \in 0..find_V - 1 /\ e[2] \in 0..find_V - 1
  <2>1. e[1] \in Nat /\ e[2] \in Nat /\ e[1] <= Max(S) /\ e[2] <= Max(S)
    BY <1>5, <1>7, <1>9, <1>11
  <2> QED
    BY <1>8, <1>10, <2>1
<1> QED
  BY <1>8, <1>10, <1>11

LEMMA Prepended ==
    ASSUME NEW N, NEW x \in N, NEW s \in Seq(N)
    PROVE  <<x>> \o s \in Seq(N) /\ ToSet(<<x>> \o s) = ToSet(s) \cup {x}
<1> DEFINE t == <<x>> \o s
<1>1. /\ t \in Seq(N) /\ Len(t) = Len(s) + 1 /\ Len(s) \in Nat
      /\ t[1] = x /\ \A k \in 1..Len(s) : t[k + 1] = s[k]
  <2>1. <<x>> \in Seq(N) /\ Len(<<x>>) = 1 /\ <<x>>[1] = x
    OBVIOUS
  <2> QED
    BY <2>1, ConcatProperties
<1> HIDE DEF t
<1>2. ToSet(t) = {t[k] : k \in 1..Len(t)} /\ ToSet(s) = {s[k] : k \in 1..Len(s)}
  <2>1. DOMAIN t = 1..Len(t) /\ DOMAIN s = 1..Len(s)
    BY <1>1
  <2> QED
    BY <2>1, Zenon DEF ToSet
<1>3. ASSUME NEW k \in 1..Len(t) PROVE t[k] \in ToSet(s) \cup {x}
  <2>1. CASE k = 1
    BY <1>1, <2>1
  <2>2. CASE k # 1
    <3>1. k - 1 \in 1..Len(s) /\ (k - 1) + 1 = k
      BY <1>1, <2>2
    <3>2. t[k] = s[k - 1]
      BY <1>1, <3>1
    <3> QED
      BY <1>2, <3>1, <3>2
  <2> QED
    BY <2>1, <2>2
<1>4. ASSUME NEW k \in 1..Len(s) PROVE s[k] \in ToSet(t)
  <2>1. k + 1 \in 1..Len(t) /\ t[k + 1] = s[k]
    BY <1>1
  <2> QED
    BY <1>2, <2>1
<1>5. x \in ToSet(t)
  <2>1. 1 \in 1..Len(t)
    BY <1>1
  <2> QED
    BY <1>1, <1>2, <2>1
<1>6. ToSet(t) = ToSet(s) \cup {x}
  BY <1>2, <1>3, <1>4, <1>5
<1> QED
  BY <1>1, <1>6 DEF t

\* read_graph walks through the lines: the list of a node has its neighbours,
\* the last one first.
LEMMA ListsAreGraph ==
    ASSUME raw \in Files
    PROVE  LET n == find_V - 1
           IN /\ graph_list \in [0..n -> Seq(0..n)]
              /\ \A u \in 0..n : ToSet(graph_list[u]) = {e[2] : e \in {d \in edges : d[1] = u}}
<1> DEFINE f == raw
           N == 0..find_V - 1
           S == [N -> Seq(N)]
           none == [i \in N |-> <<>>]
           IsLoop(g) == g = [k \in 0..Len(f) |->
               IF k = 0 THEN none
               ELSE IF f[k] = <<>> THEN g[k - 1] ELSE add_edge(g[k - 1], f[k])]
           F == [x \in Nat \X S |->
               IF x[1] + 1 \in 1..Len(f) /\ f[x[1] + 1] # <<>>
               THEN add_edge(x[2], f[x[1] + 1]) ELSE x[2]]
           a == CHOOSE g : IsLoop(g)
           Upto(k) == {e \in edges : \E i \in 1..k : f[i] = e}
           Right(l, k) == l \in S /\ \A u \in N : ToSet(l[u]) = {e[2] : e \in {d \in Upto(k) : d[1] = u}}
           Good == {k \in Nat : k <= Len(f) => Right(a[k], k)}
<1>1. graph_list = a[Len(f)]
  BY DEF graph_list
<1>2. /\ Len(f) \in Nat
      /\ \A i \in 1..Len(f) : f[i] # <<>> => f[i] \in edges
      /\ \A e \in edges : e[1] \in N /\ e[2] \in N
      /\ \A e \in edges : \E i \in 1..Len(f) : f[i] = e
  BY AllNumbered, EdgesArePairs DEF EdgesOf, edges, ToSet
<1> HIDE DEF f, N
<1>3. ASSUME NEW l \in S, NEW e \in edges
      PROVE  /\ add_edge(l, e) \in S
             /\ ToSet(add_edge(l, e)[e[1]]) = ToSet(l[e[1]]) \cup {e[2]}
             /\ \A u \in N : u # e[1] => add_edge(l, e)[u] = l[u]
  <2>1. e[1] \in N /\ <<e[2]>> \in Seq(N) /\ l[e[1]] \in Seq(N)
    BY <1>2, <1>3
  <2> DEFINE s == <<e[2]>> \o l[e[1]]
  <2>2. s \in Seq(N) /\ ToSet(s) = ToSet(l[e[1]]) \cup {e[2]}
    BY <1>2, <1>3, <2>1, Prepended
  <2>3. add_edge(l, e) = [l EXCEPT ![e[1]] = s]
    BY DEF add_edge
  <2> HIDE DEF s
  <2> QED
    BY <1>3, <2>1, <2>2, <2>3
<1>4. IsLoop(a)
  <2>1. none \in S /\ F \in [Nat \X S -> S]
    <3>1. none \in S
      OBVIOUS
    <3>2. ASSUME NEW x \in Nat \X S PROVE F[x] \in S
      <4>1. x[2] \in S
        BY <3>2
      <4>2. x[1] + 1 \in 1..Len(f) /\ f[x[1] + 1] # <<>> => add_edge(x[2], f[x[1] + 1]) \in S
        BY <1>2, <1>3, <4>1
      <4> HIDE DEF S
      <4> QED
        BY <3>2, <4>1, <4>2
    <3>3. F = [x \in Nat \X S |-> F[x]]
      OBVIOUS
    <3> HIDE DEF F, S, none
    <3> QED
      BY <3>1, <3>2, <3>3
  <2>2. PICK h \in [Nat -> S] : h[0] = none /\ \A n \in Nat : h[n + 1] = F[<<n, h[n]>>]
    <3> HIDE DEF S, F, none
    <3>1. PICK h \in [Nat -> S] : Follows(h, F, none)
      BY <2>1, Recursion
    <3> QED
      BY <3>1 DEF Follows
  <2> DEFINE g == [k \in 0..Len(f) |-> h[k]]
  <2>3. ASSUME NEW k \in 0..Len(f), k # 0
        PROVE  h[k] = IF f[k] = <<>> THEN g[k - 1] ELSE add_edge(g[k - 1], f[k])
    <3>1. k - 1 \in Nat /\ k - 1 \in 0..Len(f) /\ (k - 1) + 1 = k /\ k \in 1..Len(f)
      BY <1>2, <2>3
    <3>2. h[k] = F[<<k - 1, h[k - 1]>>] /\ h[k - 1] \in S /\ g[k - 1] = h[k - 1]
      BY <2>2, <3>1
    <3> HIDE DEF S, g
    <3>3. <<k - 1, h[k - 1]>> \in Nat \X S
      BY <3>1, <3>2
    <3>4. F[<<k - 1, h[k - 1]>>] = IF k \in 1..Len(f) /\ f[k] # <<>>
                                   THEN add_edge(h[k - 1], f[k]) ELSE h[k - 1]
      BY <3>1, <3>3
    <3> QED
      BY <3>1, <3>2, <3>4
  <2>4. IsLoop(g)
    <3>1. \A k \in 0..Len(f) : h[k] = IF k = 0 THEN none
              ELSE IF f[k] = <<>> THEN g[k - 1] ELSE add_edge(g[k - 1], f[k])
      <4> HIDE DEF g, none
      <4> QED
        BY <2>2, <2>3
    <3>2. [k \in 0..Len(f) |-> h[k]] = [k \in 0..Len(f) |-> IF k = 0 THEN none
              ELSE IF f[k] = <<>> THEN g[k - 1] ELSE add_edge(g[k - 1], f[k])]
      <4> HIDE DEF g, none
      <4> QED
        BY <3>1
    <3>3. g = [k \in 0..Len(f) |-> h[k]]
      OBVIOUS
    <3> HIDE DEF g, none
    <3> QED
      BY <3>2, <3>3
  <2> HIDE DEF IsLoop
  <2> QED
    BY <2>4
<1>5. /\ a[0] = none
      /\ \A k \in 1..Len(f) : a[k] = IF f[k] = <<>> THEN a[k - 1] ELSE add_edge(a[k - 1], f[k])
  <2> HIDE DEF a, none
  <2>1. 0 \in 0..Len(f) /\ \A k \in 1..Len(f) : k \in 0..Len(f) /\ k # 0
    BY <1>2
  <2> QED
    BY <1>4, <2>1
<1> HIDE DEF a
<1>6. 0 \in Good
  <2>1. Right(none, 0)
    BY DEF ToSet
  <2> HIDE DEF none, Right
  <2> QED
    BY <1>5, <2>1
<1>7. ASSUME NEW k \in Nat, k \in Good PROVE k + 1 \in Good
  <2>1. SUFFICES ASSUME k + 1 <= Len(f) PROVE Right(a[k + 1], k + 1)
    <3> HIDE DEF Right
    <3> QED
      BY <1>7
  <2>2. /\ k + 1 \in 1..Len(f) /\ k <= Len(f) /\ (k + 1) - 1 = k
        /\ \A i \in 1..k + 1 : i \in 1..k \/ i = k + 1
        /\ \A i \in 1..k : i \in 1..k + 1
    BY <1>2, <1>7, <2>1
  <2>3. Right(a[k], k)
    BY <1>7, <2>2
  <2>4. a[k + 1] = IF f[k + 1] = <<>> THEN a[k] ELSE add_edge(a[k], f[k + 1])
    BY <1>5, <2>2
  <2>5. CASE f[k + 1] = <<>>
    <3>1. Upto(k + 1) = Upto(k)
      BY <2>2, <2>5 DEF edges
    <3> HIDE DEF Upto
    <3> QED
      BY <2>3, <2>4, <2>5, <3>1
  <2>6. CASE f[k + 1] # <<>>
    <3> DEFINE e == f[k + 1]
    <3>1. e \in edges
      BY <1>2, <2>2, <2>6
    <3>2. Upto(k + 1) = Upto(k) \cup {e}
      BY <2>2, <3>1
    <3>3. a[k + 1] = add_edge(a[k], e) /\ a[k] \in S
      BY <2>3, <2>4, <2>6
    <3> HIDE DEF e, Upto, S
    <3>4. /\ a[k + 1] \in S
          /\ ToSet(a[k + 1][e[1]]) = ToSet(a[k][e[1]]) \cup {e[2]}
          /\ \A u \in N : u # e[1] => a[k + 1][u] = a[k][u]
      <4>1. PICK l \in S : l = a[k]
        BY <3>3, Zenon
      <4>2. /\ add_edge(l, e) \in S
            /\ ToSet(add_edge(l, e)[e[1]]) = ToSet(l[e[1]]) \cup {e[2]}
            /\ \A u \in N : u # e[1] => add_edge(l, e)[u] = l[u]
        BY <1>3, <3>1, <4>1, Zenon
      <4> QED
        BY <3>3, <4>1, <4>2, Zenon
    <3>5. ASSUME NEW u \in N
          PROVE  ToSet(a[k + 1][u]) = {d[2] : d \in {c \in Upto(k + 1) : c[1] = u}}
      <4>1. ToSet(a[k][u]) = {d[2] : d \in {c \in Upto(k) : c[1] = u}}
        BY <2>3
      <4>2. CASE u = e[1]
        BY <3>2, <3>4, <4>1, <4>2
      <4>3. CASE u # e[1]
        BY <3>2, <3>4, <4>1, <4>3
      <4> QED
        BY <4>2, <4>3
    <3> QED
      BY <3>4, <3>5
  <2> QED
    BY <2>5, <2>6
<1>8. \A k \in Nat : k \in Good
  <2> HIDE DEF Good
  <2> QED
    BY <1>6, <1>7, Induction
<1>9. Right(a[Len(f)], Len(f))
  <2> HIDE DEF Right
  <2>1. Len(f) <= Len(f)
    BY <1>2
  <2> QED
    BY <1>2, <1>8, <2>1
<1>10. Upto(Len(f)) = edges
  BY <1>2
<1> HIDE DEF Upto
<1> QED
  BY <1>1, <1>9, <1>10 DEF N

-----------------------------------------------------------------------------
(* What can be reached. *)

\* What can be reached, by definition.
ReachFrom(s, E) == CHOOSE r : r = [k \in Nat |->
    IF k = 0 THEN {s} ELSE LET before == r[k - 1]
                           IN  before \cup {e[2] : e \in {d \in E : d[1] \in before}}]

LEMMA ReachIsFrom == Reach = ReachFrom(start, edges)
  BY DEF Reach, ReachFrom

LEMMA ReachIsFromNext == (Reach = ReachFrom(start, edges))'
  BY ReachIsFrom, PTL

Spreads(r, s, E) ==
    /\ r[0] = {s}
    /\ \A n \in Nat : r[n + 1] = r[n] \cup {e[2] : e \in {d \in E : d[1] \in r[n]}}

LEMMA ReachSteps == ASSUME NEW s, NEW E PROVE Spreads(ReachFrom(s, E), s, E)
<1> DEFINE S == SUBSET ({s} \cup {e[2] : e \in E})
           More(X) == X \cup {e[2] : e \in {d \in E : d[1] \in X}}
           F == [x \in Nat \X S |-> More(x[2])]
           IsReach(r) == r = [k \in Nat |-> IF k = 0 THEN {s} ELSE More(r[k - 1])]
           r == CHOOSE g : IsReach(g)
<1>1. {s} \in S /\ F \in [Nat \X S -> S]
  OBVIOUS
<1>2. PICK h \in [Nat -> S] : Follows(h, F, {s})
  <2> HIDE DEF S, F
  <2> QED
    BY <1>1, Recursion
<1>3. IsReach(h)
  <2>1. ASSUME NEW k \in Nat
        PROVE  h[k] = IF k = 0 THEN {s} ELSE More(h[k - 1])
    <3>1. CASE k = 0
      BY <1>2, <3>1 DEF Follows
    <3>2. CASE k # 0
      <4>1. k - 1 \in Nat /\ (k - 1) + 1 = k
        BY <3>2
      <4>2. h[k] = F[<<k - 1, h[k - 1]>>] /\ h[k - 1] \in S
        BY <1>2, <4>1 DEF Follows
      <4>3. <<k - 1, h[k - 1]>> \in Nat \X S
        BY <4>1, <4>2
      <4> HIDE DEF S, More
      <4>4. F[<<k - 1, h[k - 1]>>] = More(h[k - 1])
        BY <4>3
      <4> QED
        BY <3>2, <4>2, <4>4
    <3> QED
      BY <3>1, <3>2
  <2>2. h = [k \in Nat |-> h[k]]
    BY <1>2
  <2> HIDE DEF More
  <2> QED
    BY <2>1, <2>2
<1>4. IsReach(r)
  <2> HIDE DEF IsReach
  <2> QED
    BY <1>3
<1>5. r = ReachFrom(s, E)
  BY DEF ReachFrom
<1> HIDE DEF r, More
<1>6. r[0] = {s}
  BY <1>4
<1>7. \A n \in Nat : r[n + 1] = More(r[n])
  <2> TAKE n \in Nat
  <2>1. n + 1 \in Nat /\ n + 1 # 0 /\ (n + 1) - 1 = n
    OBVIOUS
  <2> QED
    BY <1>4, <2>1
<1> QED
  BY <1>5, <1>6, <1>7, Zenon DEF More, Spreads

Adjacent(u) == {e[2] : e \in {d \in edges : d[1] = u}}

LEMMA Reaches ==
    /\ Reach[0] = {start}
    /\ \A n \in Nat : /\ Reach[n] \subseteq Reach[n + 1]
                      /\ \A v \in Reach[n + 1] : v \in Reach[n] \/ \E u \in Reach[n] : v \in Adjacent(u)
                      /\ \A e \in edges : e[1] \in Reach[n] => e[2] \in Reach[n + 1]
<1> DEFINE r == ReachFrom(start, edges)
<1>0. Spreads(r, start, edges)
  BY ReachSteps, Zenon
<1>1. /\ r[0] = {start}
      /\ \A n \in Nat : r[n + 1] = r[n] \cup {e[2] : e \in {d \in edges : d[1] \in r[n]}}
  BY <1>0, Zenon DEF Spreads
<1>2. Reach = r
  BY ReachIsFrom
<1> HIDE DEF r
<1>3. \A n \in Nat : /\ r[n] \subseteq r[n + 1]
                     /\ \A v \in r[n + 1] : v \in r[n] \/ \E u \in r[n] : v \in Adjacent(u)
                     /\ \A e \in edges : e[1] \in r[n] => e[2] \in r[n + 1]
  <2> TAKE n \in Nat
  <2>1. r[n + 1] = r[n] \cup {e[2] : e \in {d \in edges : d[1] \in r[n]}}
    BY <1>1
  <2>2. ASSUME NEW v \in r[n + 1], v \notin r[n] PROVE \E u \in r[n] : v \in Adjacent(u)
    <3>1. PICK e \in edges : e[1] \in r[n] /\ v = e[2]
      BY <2>1, <2>2
    <3> QED
      BY <3>1 DEF Adjacent
  <2> QED
    BY <2>1, <2>2
<1> QED
  BY <1>1, <1>2, <1>3, Zenon

-----------------------------------------------------------------------------
(* The invariant of the search. *)

Nodes == DOMAIN list

\* What read_graph leaves.
GraphInv ==
    /\ raw \in Files
    /\ pc # "read_graph" =>
          /\ Nodes = 0..find_V - 1
          /\ \A e \in edges : e[1] \in Nodes /\ e[2] \in Nodes
          /\ \A u \in Nodes : list[u] \in Seq(Nodes) /\ ToSet(list[u]) = Adjacent(u)
    /\ pc \notin {"read_graph", "receive"} => start \in Nodes /\ end \in Nodes

\* The paths BFS holds.
Paths == [nodes : Seq(Nat), cap : Nat]
Waiting == {bar[k] : k \in 1..size}
Current == IF pc = "expand" THEN {path} ELSE {}
Foremost == IF pc = "expand" THEN {path}
         ELSE IF pc = "loop" /\ size # 0 THEN {bar[1]} ELSE {}

\* No path of fewer nodes than l leads to v, or all have at least l - 1.
Shortest(v, l) == \A n \in Nat : v \in Reach[n] => l <= n + 1
InTime(v, l) == \A n \in Nat : v \in Reach[n] => l <= n + 2

\* A path of the file without a node twice: all but its last are marked.
Simple(p) ==
    /\ p \in Seq(Nodes) /\ IsPath(p)
    /\ IsFiniteSet(ToSet(p)) /\ Len(p) = Cardinality(ToSet(p))
Marked(p) == \A k \in 1..Len(p) - 1 : p[k] \in visited

Sound == \A p \in Waiting \cup Current : Simple(p.nodes) /\ Marked(p.nodes) /\ InTime(Last(p.nodes), Len(p.nodes))

Sorted == \A j, k \in 1..size : j < k => Len(bar[k].nodes) - Len(bar[j].nodes) \in {0, 1}
Together == \A p \in Foremost, r \in Waiting : Len(r.nodes) - Len(p.nodes) \in {0, 1}

\* The nodes nearer than the path at work are marked.
NearMarked == \A p \in Foremost : \A n \in Nat : n + 2 <= Len(p.nodes) => Reach[n] \subseteq visited

\* A neighbour of a marked node is marked, or waits at the end of a path that is
\* short enough, or will be looked at.
Followed ==
    \A u \in visited : \A v \in Adjacent(u) :
        \/ v \in visited
        \/ \E r \in Waiting : Last(r.nodes) = v /\ InTime(u, Len(r.nodes))
        \/ \E p \in Current : Last(p.nodes) = u /\ v \in ToSet(adj) /\ Shortest(u, Len(p.nodes))

BfsInv ==
    /\ pc \in {"loop", "expand"} =>
          /\ visited \subseteq Nodes /\ end \notin visited
          /\ start \in visited \/ \E r \in Waiting : Last(r.nodes) = start
          /\ Sound /\ Sorted /\ Together /\ NearMarked /\ Followed
    /\ pc = "expand" =>
          /\ path \in Paths /\ Last(path.nodes) \in visited
          /\ adj \in Seq(Nodes) /\ ToSet(adj) \subseteq Adjacent(Last(path.nodes))

IsAnswer(p) == Simple(p) /\ Last(p) = end /\ Shortest(end, Len(p))
NoAnswer == \A n \in Nat : end \notin Reach[n]

AnswerInv ==
    /\ pc = "clean" => found
    /\ pc \in {"clean", "answer"} => IF found THEN IsAnswer(result.nodes) ELSE NoAnswer
    /\ pc = "done" => IsAnswer(packet) \/ (packet = Impossible /\ NoAnswer)

SearchInv == Account /\ GraphInv /\ Ring(Paths) /\ BfsInv /\ AnswerInv

\* The file and the request stay as they are, and what is defined by them.
Quiet == UNCHANGED <<raw, list, start, end>>

LEMMA Unmoved ==
    ASSUME Quiet
    PROVE  /\ Reach' = Reach /\ edges' = edges /\ Nodes' = Nodes
           /\ \A u : Adjacent(u)' = Adjacent(u)
           /\ \A p : IsPath(p)' <=> IsPath(p)
           /\ \A p : Simple(p)' <=> Simple(p)
           /\ \A v, l : (InTime(v, l)' <=> InTime(v, l)) /\ (Shortest(v, l)' <=> Shortest(v, l))
<1>1. raw' = raw /\ list' = list /\ start' = start /\ end' = end
  BY DEF Quiet
<1>2. edges' = edges /\ Nodes' = Nodes
  BY <1>1 DEF edges, Nodes
<1>3. Reach' = Reach
  BY <1>1, <1>2, ReachIsFrom, ReachIsFromNext, Zenon
<1>4. \A u : Adjacent(u)' = Adjacent(u)
  BY <1>2 DEF Adjacent
<1>5. \A p : IsPath(p)' <=> IsPath(p)
  BY <1>1, <1>2 DEF IsPath
<1>6. \A p : Simple(p)' <=> Simple(p)
  BY <1>2, <1>5, Zenon DEF Simple
<1>7. \A v, l : (InTime(v, l)' <=> InTime(v, l)) /\ (Shortest(v, l)' <=> Shortest(v, l))
  BY <1>3, Zenon DEF InTime, Shortest
<1> QED
  BY <1>2, <1>3, <1>4, <1>5, <1>6, <1>7

\* The ring, read as the set of the paths in it.
LEMMA BarSeq ==
    ASSUME Ring(Paths)
    PROVE  /\ size \in Nat /\ bar \in Seq(Paths) /\ Len(bar) = size
           /\ \A k \in 1..size : bar[k] \in Paths /\ bar[k] \in Waiting
<1>1. size \in Nat /\ front \in Nat
  BY DEF Ring, Indices
<1>2. \A k \in 1..size : line[Round(front + k - 1, cap)] \in Paths
  <2> TAKE k \in 1..size
  <2>1. k - 1 \in 0..size - 1 /\ front + (k - 1) = front + k - 1
    BY <1>1
  <2>2. line[Round(front + (k - 1), cap)] \in Paths
    BY <2>1, Zenon DEF Ring, Filled
  <2> QED
    BY <2>1, <2>2, Zenon
<1>3. bar \in Seq(Paths) /\ Len(bar) = size
  BY <1>1, <1>2 DEF bar
<1> QED
  BY <1>1, <1>3 DEF Waiting

LEMMA Joined ==
    ASSUME NEW p \in Paths, NEW n, NEW before, Ring(Paths), AddPath(p, n, before)
    PROVE  /\ Ring(Paths)' /\ taken' = taken /\ size \in Nat /\ size' = size + 1
           /\ Waiting' = Waiting \cup {p}
           /\ \A k \in 1..size : bar'[k] = bar[k]
           /\ bar'[size + 1] = p
<1>1. Ring(Paths)' /\ bar' = Append(bar, p)
  BY PutStep, EnlargeStep DEF AddPath
<1>2. taken' = taken /\ size' = size + 1
  BY DEF AddPath, Enqueue, EnlargeAndEnqueue
<1>3. size \in Nat /\ bar \in Seq(Paths) /\ Len(bar) = size
  BY BarSeq
<1>4. (\A k \in 1..size : bar'[k] = bar[k]) /\ bar'[size + 1] = p
  BY <1>1, <1>3, AppendProperties
<1>5. Waiting' = {bar'[k] : k \in 1..size + 1}
  BY <1>2, Zenon DEF Waiting
<1>6. 1..size + 1 = 1..size \cup {size + 1}
  BY <1>3
<1>7. {bar'[k] : k \in 1..size \cup {size + 1}} = Waiting \cup {p}
  BY <1>4 DEF Waiting
<1> QED
  BY <1>1, <1>2, <1>3, <1>4, <1>5, <1>6, <1>7, Zenon

LEMMA Left ==
    ASSUME Ring(Paths), Dequeue
    PROVE  /\ Ring(Paths)' /\ size \in Nat /\ size # 0 /\ size' = size - 1
           /\ taken' = bar[1] /\ bar[1] \in Paths /\ bar[1] \in Waiting
           /\ Waiting = Waiting' \cup {bar[1]}
           /\ \A k \in 1..size - 1 : bar'[k] = bar[k + 1]
<1>1. Ring(Paths)' /\ bar # <<>> /\ taken' = Head(bar) /\ bar' = Tail(bar)
  BY GetStep
<1>2. size # 0 /\ size' = size - 1
  BY DEF Dequeue, IsEmpty
<1>3. size \in Nat /\ bar \in Seq(Paths) /\ Len(bar) = size
  BY BarSeq
<1>4. taken' = bar[1] /\ bar[1] \in Paths /\ bar[1] \in Waiting
  BY <1>1, <1>2, <1>3, BarSeq
<1>5. \A k \in 1..size - 1 : bar'[k] = bar[k + 1]
  BY <1>1, <1>2, <1>3, Tailed
<1>6. Waiting' = {bar'[k] : k \in 1..size - 1}
  BY <1>2, Zenon DEF Waiting
<1>7. ASSUME NEW k \in 1..size - 1 PROVE bar'[k] \in Waiting
  BY <1>3, <1>5 DEF Waiting
<1>8. ASSUME NEW k \in 1..size, k # 1 PROVE bar[k] \in Waiting'
  <2>1. k - 1 \in 1..size - 1 /\ (k - 1) + 1 = k
    BY <1>3, <1>8
  <2> QED
    BY <1>5, <1>6, <2>1
<1>9. Waiting = Waiting' \cup {bar[1]}
  <2>1. Waiting = {bar[k] : k \in 1..size}
    BY DEF Waiting
  <2> QED
    BY <1>4, <1>6, <1>7, <1>8, <2>1
<1> QED
  BY <1>1, <1>2, <1>3, <1>4, <1>5, <1>9

LEMMA Rests ==
    ASSUME Ring(Paths), UNCHANGED vars
    PROVE  Ring(Paths)' /\ taken' = taken /\ size' = size /\ bar' = bar /\ Waiting' = Waiting
<1>1. UNCHANGED <<cap, front, back, size, line, taken>>
  BY DEF vars
<1>2. bar' = bar /\ size' = size
  BY <1>1 DEF bar
<1>3. Waiting' = Waiting
  BY <1>2, Zenon DEF Waiting
<1>4. Ring(Paths)'
  BY <1>1 DEF Ring, Indices, Aligned, Memory, Filled
<1> QED
  BY <1>1, <1>2, <1>3, <1>4

-----------------------------------------------------------------------------
(* Loading, and what it is good for. *)

LEMMA GraphStep == GraphInv /\ [SearchNext]_allVars => GraphInv'
<1> SUFFICES ASSUME GraphInv, [SearchNext]_allVars PROVE GraphInv'
  OBVIOUS
<1>1. CASE ReadGraph
  <2>1. raw' = raw /\ list' = graph_list /\ pc' = "receive" /\ raw \in Files
    BY <1>1 DEF ReadGraph, GraphInv
  <2>2. edges' = edges /\ find_V' = find_V
    BY <2>1 DEF edges, find_V
  <2>3. /\ graph_list \in [0..find_V - 1 -> Seq(0..find_V - 1)]
        /\ \A u \in 0..find_V - 1 : ToSet(graph_list[u]) = Adjacent(u)
    BY <2>1, ListsAreGraph DEF Adjacent
  <2>4. \A u : Adjacent(u)' = Adjacent(u)
    BY <2>2 DEF Adjacent
  <2>5. Nodes' = 0..find_V - 1
    BY <2>1, <2>3 DEF Nodes
  <2>6. \A e \in edges : e[1] \in 0..find_V - 1 /\ e[2] \in 0..find_V - 1
    BY <2>1, AllNumbered
  <2> QED
    BY <2>1, <2>2, <2>3, <2>4, <2>5, <2>6 DEF GraphInv
<1>2. CASE Receive
  <2>1. /\ raw' = raw /\ list' = list /\ pc = "receive" /\ pc' = "search"
        /\ start' \in Nodes /\ end' \in Nodes
    BY <1>2 DEF Receive, Nodes
  <2>2. edges' = edges /\ find_V' = find_V /\ Nodes' = Nodes
    BY <2>1 DEF edges, find_V, Nodes
  <2>3. \A u : Adjacent(u)' = Adjacent(u)
    BY <2>2 DEF Adjacent
  <2> QED
    BY <2>1, <2>2, <2>3 DEF GraphInv
<1>3. ASSUME Quiet, (pc \in {"read_graph", "receive"} <=> pc' \in {"read_graph", "receive"}),
             pc = "read_graph" <=> pc' = "read_graph"
      PROVE  GraphInv'
  <2>1. raw' = raw /\ list' = list /\ start' = start /\ end' = end
    BY <1>3 DEF Quiet
  <2>2. find_V' = find_V
    BY <2>1 DEF find_V, edges
  <2>3. edges' = edges /\ Nodes' = Nodes /\ \A u : Adjacent(u)' = Adjacent(u)
    BY <1>3, Unmoved
  <2> QED
    BY <1>3, <2>1, <2>2, <2>3 DEF GraphInv
<1>4. CASE Shortcut \/ Begin \/ TakePath \/ GiveUp \/ SkipVisited \/ Extend \/ CopyOverrun
           \/ FreePath \/ Clean \/ Answer \/ UNCHANGED allVars
  <2>1. Quiet
    BY <1>4 DEF Quiet, Shortcut, Begin, TakePath, GiveUp, SkipVisited, Extend, CopyOverrun,
                FreePath, Clean, Answer, allVars, searchVars
  <2>2. pc' = pc \/ (pc \notin {"read_graph", "receive"} /\ pc' \notin {"read_graph", "receive"})
    BY <1>4 DEF Shortcut, Begin, TakePath, GiveUp, SkipVisited, Extend, CopyOverrun,
                FreePath, Clean, Answer, allVars, searchVars
  <2> QED
    BY <1>3, <2>1, <2>2
<1> QED
  BY <1>1, <1>2, <1>4 DEF SearchNext

\* An edge of the file, read in a list.
LEMMA Neighbours ==
    ASSUME GraphInv, NEW u, NEW v \in Adjacent(u)
    PROVE  <<u, v>> \in edges
<1>1. PICK e \in edges : e[1] = u /\ e[2] = v
  BY DEF Adjacent
<1>2. e = <<e[1], e[2]>>
  BY EdgesArePairs DEF GraphInv, EdgesOf, edges
<1> QED
  BY <1>1, <1>2

LEMMA SimpleEnds ==
    ASSUME NEW p, Simple(p)
    PROVE  /\ p \in Seq(Nodes) /\ Len(p) \in Nat \ {0} /\ p[1] = start
           /\ Last(p) = p[Len(p)] /\ Last(p) \in Nodes
           /\ ToSet(p) = {p[k] : k \in 1..Len(p)}
<1>1. p \in Seq(Nodes) /\ p # <<>> /\ p[1] = start
  BY DEF Simple, IsPath
<1>2. Len(p) \in Nat \ {0}
  BY <1>1, EmptySeq
<1>3. Len(p) \in 1..Len(p)
  BY <1>2
<1> QED
  BY <1>1, <1>2, <1>3 DEF Last, ToSet

\* A path of BFS with one more node, that was not in it.
LEMMA SimpleGrows ==
    ASSUME NEW p, NEW v \in Nodes, Simple(p), <<Last(p), v>> \in edges, v \notin ToSet(p)
    PROVE  /\ Simple(Append(p, v))
           /\ Len(Append(p, v)) = Len(p) + 1 /\ Last(Append(p, v)) = v
           /\ \A k \in 1..Len(p) : Append(p, v)[k] = p[k]
<1> DEFINE t == Append(p, v)
<1>1. /\ p \in Seq(Nodes) /\ Len(p) \in Nat \ {0} /\ p[1] = start
      /\ Last(p) = p[Len(p)] /\ ToSet(p) = {p[k] : k \in 1..Len(p)}
  BY SimpleEnds
<1>2. /\ t \in Seq(Nodes) /\ t # <<>> /\ Len(t) = Len(p) + 1
      /\ (\A k \in 1..Len(p) : t[k] = p[k]) /\ t[Len(p) + 1] = v
  BY <1>1, AppendProperties
<1> HIDE DEF t
<1>3. Last(t) = v
  BY <1>2 DEF Last
<1>4. 1..Len(t) = 1..Len(p) \cup {Len(p) + 1}
  BY <1>1, <1>2
<1>5. ToSet(t) = ToSet(p) \cup {v}
  <2>1. ToSet(t) = {t[k] : k \in 1..Len(t)}
    BY <1>2 DEF ToSet
  <2>2. {t[k] : k \in 1..Len(p) \cup {Len(p) + 1}} = {p[k] : k \in 1..Len(p)} \cup {v}
    BY <1>2
  <2> QED
    BY <1>1, <1>4, <2>1, <2>2
<1>6. IsFiniteSet(ToSet(t)) /\ Cardinality(ToSet(t)) = Len(t)
  BY <1>2, <1>5, FS_AddElement DEF Simple
<1>7. IsPath(t)
  <2>1. t[1] = start
    BY <1>1, <1>2
  <2>2. ASSUME NEW k \in 1..Len(t) - 1 PROVE <<t[k], t[k + 1]>> \in edges
    <3>1. CASE k = Len(p)
      BY <1>1, <1>2, <3>1
    <3>2. CASE k # Len(p)
      <4>1. k \in 1..Len(p) - 1 /\ k \in 1..Len(p) /\ k + 1 \in 1..Len(p)
        BY <1>1, <1>2, <3>2
      <4>2. <<p[k], p[k + 1]>> \in edges
        BY <4>1 DEF Simple, IsPath
      <4> QED
        BY <1>2, <4>1, <4>2
    <3> QED
      BY <3>1, <3>2
  <2> QED
    BY <1>2, <2>1, <2>2 DEF IsPath
<1> QED
  BY <1>2, <1>3, <1>6, <1>7 DEF Simple, t

\* The shortest path.
LEMMA SimpleStart ==
    ASSUME NEW v \in Nodes, v = start
    PROVE  /\ Simple(Append(<<>>, v)) /\ Len(Append(<<>>, v)) = 1
           /\ Last(Append(<<>>, v)) = v /\ ToSet(Append(<<>>, v)) = {v}
<1> DEFINE t == Append(<<>>, v)
<1>1. t \in Seq(Nodes) /\ Len(t) = 1 /\ t[1] = v /\ t # <<>>
  OBVIOUS
<1> HIDE DEF t
<1>2. ToSet(t) = {v}
  <2>1. DOMAIN t = {1}
    BY <1>1
  <2> QED
    BY <1>1, <2>1 DEF ToSet
<1>3. IsFiniteSet({v}) /\ Cardinality({v}) = 1
  BY FS_Singleton
<1>4. IsPath(t)
  BY <1>1 DEF IsPath
<1> QED
  BY <1>1, <1>2, <1>3, <1>4 DEF Simple, Last, t

-----------------------------------------------------------------------------
(* The steps of BFS. *)

Kept == Ring(Paths) /\ BfsInv /\ AnswerInv

\* What the two steps that queue a path have in common.
LEMMA NewPath ==
    ASSUME NEW p, NEW v \in Nat, p.nodes \in Seq(Nat), p.cap \in Nat
    PROVE  appended(p, v) \in Paths /\ appended(p, v).nodes = Append(p.nodes, v)
<1>1. Append(p.nodes, v) \in Seq(Nat)
  BY AppendProperties
<1>2. (IF Len(p.nodes) = p.cap THEN 2 * p.cap ELSE p.cap) \in Nat
  OBVIOUS
<1> QED
  BY <1>1, <1>2, Zenon DEF appended, Paths

LEMMA NodesAreNat ==
    ASSUME GraphInv, pc # "read_graph"
    PROVE  Nodes \subseteq Nat /\ Seq(Nodes) \subseteq Seq(Nat)
<1>1. Nodes = 0..find_V - 1 /\ raw \in Files
  BY DEF GraphInv
<1>2. find_V \in Nat
  BY <1>1, AllNumbered
<1>3. Nodes \subseteq Nat
  BY <1>1, <1>2
<1>4. ASSUME NEW p \in Seq(Nodes) PROVE p \in Seq(Nat)
  <2>1. Len(p) \in Nat /\ p \in [1..Len(p) -> Nodes]
    OBVIOUS
  <2>2. p \in [1..Len(p) -> Nat]
    BY <1>3, <2>1
  <2> QED
    BY <2>1, <2>2
<1> QED
  BY <1>3, <1>4

LEMMA BeginStep == ASSUME SearchInv, Begin PROVE Kept'
<1>1. /\ pc = "search" /\ pc' = "loop" /\ start # end /\ visited' = {}
      /\ AddPath(appended(new_path(PathCap), start), 2 * QUEUE + 1, 0) /\ Quiet
  BY DEF Begin, Quiet
<1>2. size = 0 /\ GraphInv /\ Ring(Paths) /\ start \in Nodes
  BY <1>1 DEF SearchInv, Account, GraphInv
<1>q. PICK q : q = appended(new_path(PathCap), start)
  OBVIOUS
<1>3. q \in Paths /\ q.nodes = Append(<<>>, start)
  <2>1. start \in Nat
    BY <1>1, <1>2, NodesAreNat
  <2>2. new_path(PathCap).nodes = <<>> /\ new_path(PathCap).cap \in Nat
    BY PathCapAssumption DEF new_path
  <2>3. new_path(PathCap).nodes \in Seq(Nat)
    BY <2>2
  <2>4. \A p : p.nodes \in Seq(Nat) /\ p.cap \in Nat =>
              appended(p, start) \in Paths /\ appended(p, start).nodes = Append(p.nodes, start)
    BY <2>1, NewPath
  <2> QED
    BY <1>q, <2>2, <2>3, <2>4
<1>4. /\ Ring(Paths)' /\ size' = 1 /\ Waiting' = Waiting \cup {q} /\ bar'[1] = q
  BY <1>1, <1>2, <1>3, <1>q, Joined
<1>5. Waiting' = {q} /\ Current' = {} /\ Foremost' = {q}
  <2>1. Waiting = {}
    BY <1>2 DEF Waiting
  <2> QED
    BY <1>1, <1>4, <2>1 DEF Current, Foremost
<1>6. Simple(q.nodes) /\ Len(q.nodes) = 1 /\ Last(q.nodes) = start
  BY <1>2, <1>3, SimpleStart
<1>7. Sound'
  <2>1. Marked(q.nodes)'
    BY <1>6 DEF Marked
  <2>2. ASSUME NEW v PROVE InTime(v, 1)'
    BY DEF InTime
  <2>3. ASSUME NEW p \in Waiting' \cup Current'
        PROVE  Simple(p.nodes)' /\ Marked(p.nodes)' /\ InTime(Last(p.nodes), Len(p.nodes))'
    <3>1. p = q /\ Simple(p.nodes)' /\ Marked(p.nodes)' /\ Len(p.nodes) = 1
      BY <1>1, <1>5, <1>6, <2>1, <2>3, Unmoved
    <3> QED
      BY <2>2, <3>1
  <2> QED
    BY <2>3 DEF Sound
<1>8. Sorted' /\ Together' /\ NearMarked' /\ Followed'
  <2>1. Sorted'
    BY <1>4 DEF Sorted
  <2>2. Together'
    BY <1>5, <1>6 DEF Together
  <2>3. NearMarked'
    <3>1. ASSUME NEW p \in Foremost', NEW n \in Nat PROVE ~(n + 2 <= Len(p.nodes))
      <4>1. p = q
        BY <1>5
      <4>2. Len(p.nodes) = 1
        BY <1>6, <4>1
      <4> QED
        BY <4>2
    <3> QED
      BY <3>1 DEF NearMarked
  <2>4. Followed'
    BY <1>1 DEF Followed
  <2> QED
    BY <2>1, <2>2, <2>3, <2>4
<1>9. BfsInv'
  <2>1. start' = start /\ q \in Waiting' /\ Last(q.nodes) = start
    BY <1>1, <1>5, <1>6 DEF Quiet
  <2> QED
    BY <1>1, <1>7, <1>8, <2>1 DEF BfsInv
<1>10. AnswerInv'
  BY <1>1 DEF AnswerInv
<1> QED
  BY <1>4, <1>9, <1>10 DEF Kept

\* What is known while BFS runs.
LEMMA Running ==
    ASSUME SearchInv, pc \in {"loop", "expand"}
    PROVE  /\ Ring(Paths) /\ GraphInv /\ ~found /\ size \in Nat
           /\ visited \subseteq Nodes /\ end \notin visited
           /\ start \in visited \/ \E r \in Waiting : Last(r.nodes) = start
           /\ Sound /\ Sorted /\ Together /\ NearMarked /\ Followed
  BY DEF SearchInv, BfsInv, Account

\* A node that is not marked is not nearer than the path at work is long.
LEMMA NotNearer ==
    ASSUME NearMarked, NEW p \in Foremost, NEW v, v \notin visited, Len(p.nodes) \in Nat
    PROVE  Shortest(v, Len(p.nodes)) /\ InTime(v, Len(p.nodes) + 1)
<1>1. ASSUME NEW n \in Nat, v \in Reach[n] PROVE Len(p.nodes) <= n + 1
  <2>1. ~(n + 2 <= Len(p.nodes))
    BY <1>1 DEF NearMarked
  <2> QED
    BY <2>1
<1> QED
  BY <1>1 DEF Shortest, InTime

LEMMA TakeStep == ASSUME SearchInv, TakePath PROVE Kept'
<1>p. PICK p, node : p = bar[1] /\ node = Last(p.nodes)
  OBVIOUS
<1>1. pc = "loop" /\ Dequeue /\ Quiet
  BY DEF TakePath, Quiet
<1>2. /\ Ring(Paths) /\ GraphInv /\ size \in Nat
      /\ visited \subseteq Nodes /\ end \notin visited
      /\ start \in visited \/ \E r \in Waiting : Last(r.nodes) = start
      /\ Sound /\ Sorted /\ Together /\ NearMarked /\ Followed
  BY <1>1, Running
<1>3. /\ Ring(Paths)' /\ size # 0 /\ size' = size - 1
      /\ taken' = p /\ p \in Paths /\ p \in Waiting
      /\ Waiting = Waiting' \cup {p}
      /\ \A k \in 1..size - 1 : bar'[k] = bar[k + 1]
  BY <1>1, <1>2, <1>p, Left
<1>4. Foremost = {p} /\ Current = {}
  BY <1>1, <1>3, <1>p DEF Foremost, Current
<1>5. Simple(p.nodes) /\ Marked(p.nodes) /\ InTime(node, Len(p.nodes))
  BY <1>2, <1>3, <1>p DEF Sound
<1>6. /\ Len(p.nodes) \in Nat \ {0} /\ node \in Nodes /\ node = p.nodes[Len(p.nodes)]
      /\ p.nodes \in Seq(Nodes)
  BY <1>5, <1>p, SimpleEnds
<1>7. node \notin visited => Shortest(node, Len(p.nodes))
  BY <1>2, <1>4, <1>6, NotNearer
<1>8. CASE node = end
  <2>1. pc' = "clean" /\ found' = TRUE /\ result' = p
    BY <1>3, <1>8, <1>p DEF TakePath, path
  <2>2. IsAnswer(p.nodes)
    BY <1>2, <1>5, <1>7, <1>8, <1>p DEF IsAnswer
  <2>3. IsAnswer(p.nodes)'
    BY <1>1, <2>2, Unmoved DEF IsAnswer, Quiet
  <2>4. AnswerInv'
    BY <2>1, <2>3 DEF AnswerInv
  <2>5. BfsInv'
    BY <2>1 DEF BfsInv
  <2> QED
    BY <1>3, <2>4, <2>5 DEF Kept
<1>9. CASE node # end
  <2>1. pc' = "expand" /\ visited' = visited \cup {node} /\ adj' = list[node] /\ end' = end /\ start' = start
    BY <1>3, <1>9, <1>p DEF TakePath, path
  <2>2. Current' = {p} /\ Foremost' = {p} /\ path' = p
    BY <1>3, <2>1 DEF Current, Foremost, path
  <2>3. Waiting' \cup Current' = Waiting
    BY <1>3, <2>2
  <2>4. Sound'
    <3>1. \A r : Marked(r) => Marked(r)'
      BY <2>1 DEF Marked
    <3> QED
      BY <1>1, <1>2, <2>3, <3>1, Unmoved, Zenon DEF Sound
  <2>5. Sorted'
    <3>1. ASSUME NEW j \in 1..size', NEW k \in 1..size', j < k
          PROVE  Len(bar'[k].nodes) - Len(bar'[j].nodes) \in {0, 1}
      <4>1. /\ j \in 1..size - 1 /\ k \in 1..size - 1 /\ j + 1 < k + 1
            /\ j + 1 \in 1..size /\ k + 1 \in 1..size
        BY <1>2, <1>3, <3>1
      <4>2. bar'[j] = bar[j + 1] /\ bar'[k] = bar[k + 1]
        BY <1>3, <4>1
      <4> QED
        BY <1>2, <4>1, <4>2 DEF Sorted
    <3> QED
      BY <3>1 DEF Sorted
  <2>6. Together'
    BY <1>2, <1>3, <1>4, <2>2 DEF Together
  <2>7. NearMarked'
    BY <1>1, <1>2, <1>4, <2>1, <2>2, Unmoved DEF NearMarked
  <2>8. adj' \in Seq(Nodes) /\ ToSet(adj') = Adjacent(node)
    BY <1>1, <1>2, <1>6, <2>1 DEF GraphInv
  <2>9. Followed'
    <3>1. ASSUME NEW u \in visited', NEW v \in Adjacent(u)
          PROVE  \/ v \in visited'
                 \/ \E r \in Waiting' : Last(r.nodes) = v /\ InTime(u, Len(r.nodes))
                 \/ Last(p.nodes) = u /\ v \in ToSet(adj') /\ Shortest(u, Len(p.nodes))
      <4>1. CASE u \in visited
        BY <1>2, <1>3, <1>4, <2>1, <4>1, <1>p DEF Followed
      <4>2. CASE u = node /\ node \notin visited
        BY <1>7, <2>8, <3>1, <4>2, <1>p
      <4> QED
        BY <2>1, <4>1, <4>2
    <3> QED
      BY <1>1, <2>2, <3>1, Unmoved, Zenon DEF Followed
  <2>10. start' \in visited' \/ \E r \in Waiting' : Last(r.nodes) = start'
    BY <1>2, <1>3, <2>1, <1>p
  <2>11. visited' \subseteq Nodes' /\ end' \notin visited'
    BY <1>1, <1>2, <1>6, <1>9, <2>1, Unmoved
  <2>12. BfsInv'
    <3>1. path' \in Paths /\ Last(path'.nodes) \in visited'
      BY <1>3, <2>1, <2>2, <1>p
    <3>2. adj' \in Seq(Nodes') /\ ToSet(adj') \subseteq Adjacent(Last(path.nodes))'
      <4>1. edges' = edges /\ Nodes' = Nodes
        BY <1>1, Unmoved
      <4>2. Last(path'.nodes) = node
        BY <2>2, <1>p
      <4> QED
        BY <2>8, <4>1, <4>2 DEF Adjacent
    <3> QED
      BY <2>1, <2>4, <2>5, <2>6, <2>7, <2>9, <2>10, <2>11, <3>1, <3>2 DEF BfsInv
  <2>13. AnswerInv'
    BY <2>1 DEF AnswerInv
  <2> QED
    BY <1>3, <2>12, <2>13 DEF Kept
<1> QED
  BY <1>8, <1>9

\* A step that leaves the queue, the path at work and the marks.
LEMMA Frozen ==
    ASSUME Quiet, visited' = visited, size' = size, bar' = bar, Waiting' = Waiting,
           Current' = Current, Foremost' = Foremost
    PROVE  (Sound => Sound') /\ (Sorted => Sorted') /\ (Together => Together') /\ (NearMarked => NearMarked')
<1>1. Sound => Sound'
  <2>1. \A p : Marked(p)' <=> Marked(p)
    BY DEF Marked
  <2> QED
    BY <2>1, Unmoved, Zenon DEF Sound
<1>2. Sorted => Sorted'
  BY DEF Sorted
<1>3. Together => Together'
  BY DEF Together
<1>4. NearMarked => NearMarked'
  BY Unmoved, Zenon DEF NearMarked
<1> QED
  BY <1>1, <1>2, <1>3, <1>4

LEMMA FollowedNext ==
    ASSUME Quiet,
           \A u \in visited' : \A v \in Adjacent(u) :
              \/ v \in visited'
              \/ \E r \in Waiting' : Last(r.nodes) = v /\ InTime(u, Len(r.nodes))
              \/ \E p \in Current' : Last(p.nodes) = u /\ v \in ToSet(adj') /\ Shortest(u, Len(p.nodes))
    PROVE  Followed'
<1>1. ASSUME NEW u \in visited', NEW v \in Adjacent(u)'
      PROVE  \/ v \in visited'
             \/ \E r \in Waiting' : Last(r.nodes) = v /\ InTime(u, Len(r.nodes))'
             \/ \E p \in Current' : Last(p.nodes) = u /\ v \in ToSet(adj') /\ Shortest(u, Len(p.nodes))'
  <2>1. v \in Adjacent(u)
    BY <1>1, Unmoved, Zenon
  <2>2. \A w, l : (InTime(w, l)' <=> InTime(w, l)) /\ (Shortest(w, l)' <=> Shortest(w, l))
    BY Unmoved, Zenon
  <2> QED
    BY <1>1, <2>1, <2>2, Zenon
<1> QED
  BY <1>1, Zenon DEF Followed

\* Where BFS does not run, the ring and the answer are all there is to show.
LEMMA Idle ==
    ASSUME Ring(Paths)', AnswerInv', pc' \notin {"loop", "expand"}
    PROVE  Kept'
  BY DEF Kept, BfsInv

LEMMA ShortcutStep == ASSUME SearchInv, Shortcut PROVE Kept'
<1>1. pc = "search" /\ pc' = "answer" /\ UNCHANGED vars /\ Quiet /\ found' = TRUE
  BY DEF Shortcut, Quiet
<1>2. GraphInv /\ Ring(Paths) /\ start \in Nodes /\ end \in Nodes
  BY <1>1 DEF SearchInv, GraphInv
<1>3. Simple(Append(<<>>, start)) /\ Len(Append(<<>>, start)) = 1 /\ Last(Append(<<>>, start)) = start
      /\ ToSet(Append(<<>>, start)) = {start}
  BY <1>2, SimpleStart
<1>4. \A p, v : appended(p, v).nodes = Append(p.nodes, v)
  BY DEF appended
<1>5. new_path(V).nodes = <<>>
  BY DEF new_path
<1>6. PICK r : r = result'
  OBVIOUS
<1>7. IsAnswer(r.nodes)
  <2>1. CASE start = end
    <3>1. r.nodes = Append(<<>>, start)
      BY <1>4, <1>5, <1>6, <2>1 DEF Shortcut
    <3>2. Shortest(end, 1)
      BY DEF Shortest
    <3> QED
      BY <1>3, <2>1, <3>1, <3>2 DEF IsAnswer
  <2>2. CASE start # end
    <3>1. r.nodes = Append(Append(<<>>, start), end) /\ edge(start, end)
      BY <1>4, <1>5, <1>6, <2>2 DEF Shortcut
    <3>2. <<start, end>> \in edges
      <4>1. end \in Adjacent(start)
        BY <1>1, <1>2, <3>1 DEF GraphInv, edge
      <4> QED
        BY <1>2, <4>1, Neighbours
    <3>3. PICK p : p = Append(<<>>, start)
      OBVIOUS
    <3>4. Simple(p) /\ <<Last(p), end>> \in edges /\ end \notin ToSet(p) /\ Len(p) = 1
      BY <1>3, <2>2, <3>2, <3>3
    <3>5. Simple(Append(p, end)) /\ Len(Append(p, end)) = 2 /\ Last(Append(p, end)) = end
      <4>1. /\ Simple(Append(p, end)) /\ Len(Append(p, end)) = Len(p) + 1
            /\ Last(Append(p, end)) = end
        BY ONLY <1>2, <3>4, SimpleGrows, Zenon
      <4>2. 1 + 1 = 2
        OBVIOUS
      <4> QED
        BY ONLY <3>4, <4>1, <4>2
    <3>6. Shortest(end, 2)
      <4>1. ASSUME NEW n \in Nat, end \in Reach[n] PROVE 2 <= n + 1
        <5>1. n # 0
          BY <2>2, <4>1, Reaches
        <5> QED
          BY <5>1
      <4> QED
        BY <4>1 DEF Shortest
    <3> QED
      BY <3>1, <3>3, <3>5, <3>6 DEF IsAnswer
  <2> QED
    BY <2>1, <2>2
<1>8. IsAnswer(r.nodes)'
  BY <1>1, <1>7, Unmoved DEF IsAnswer, Quiet
<1>9. AnswerInv'
  BY <1>1, <1>6, <1>8 DEF AnswerInv
<1> QED
  BY <1>1, <1>2, <1>9, Rests, Idle

\* No path waits: what is marked is closed under the edges, and the end is not marked.
LEMMA GiveUpStep == ASSUME SearchInv, GiveUp PROVE Kept'
<1>1. pc = "loop" /\ pc' = "answer" /\ size = 0 /\ UNCHANGED vars /\ Quiet /\ found' = found
  BY Zenon DEF GiveUp, Quiet, IsEmpty
<1>2. /\ Ring(Paths) /\ ~found /\ end \notin visited
      /\ start \in visited \/ \E r \in Waiting : Last(r.nodes) = start
      /\ Followed
  BY <1>1, Running
<1>3. Waiting = {} /\ Current = {}
  BY <1>1 DEF Waiting, Current
<1>4. start \in visited /\ \A u \in visited : \A v \in Adjacent(u) : v \in visited
  BY <1>2, <1>3 DEF Followed
<1> DEFINE Good == {n \in Nat : Reach[n] \subseteq visited}
<1>5. 0 \in Good
  BY <1>4, Reaches
<1>6. ASSUME NEW n \in Nat, n \in Good PROVE n + 1 \in Good
  <2>1. ASSUME NEW v \in Reach[n + 1] PROVE v \in visited
    BY <1>4, <1>6, Reaches
  <2> QED
    BY <2>1
<1>7. \A n \in Nat : n \in Good
  <2> HIDE DEF Good
  <2> QED
    BY <1>5, <1>6, Induction
<1>8. NoAnswer
  BY <1>2, <1>7 DEF NoAnswer
<1>9. NoAnswer'
  BY <1>1, <1>8, Unmoved DEF NoAnswer, Quiet
<1>10. AnswerInv'
  BY <1>1, <1>2, <1>9 DEF AnswerInv
<1> QED
  BY <1>1, <1>2, <1>10, Rests, Idle

\* The first neighbour that is left, and the others.
LEMMA AdjSplit ==
    ASSUME NEW a \in Seq(Nodes), a # <<>>
    PROVE  /\ Head(a) \in Nodes /\ Head(a) \in ToSet(a) /\ Tail(a) \in Seq(Nodes)
           /\ ToSet(a) = ToSet(Tail(a)) \cup {Head(a)}
<1>1. Len(a) \in Nat /\ Len(a) # 0 /\ \A k \in 1..Len(a) : a[k] \in Nodes
  BY EmptySeq
<1>2. Head(a) = a[1] /\ Tail(a) \in Seq(Nodes) /\ Len(Tail(a)) = Len(a) - 1
  BY HeadTailProperties
<1>3. \A k \in 1..Len(a) - 1 : Tail(a)[k] = a[k + 1]
  BY <1>1, Tailed
<1>4. ToSet(a) = {a[k] : k \in 1..Len(a)} /\ ToSet(Tail(a)) = {Tail(a)[k] : k \in 1..Len(a) - 1}
  <2>1. DOMAIN a = 1..Len(a) /\ DOMAIN Tail(a) = 1..Len(a) - 1
    BY <1>2
  <2> QED
    BY <2>1, Zenon DEF ToSet
<1>5. ASSUME NEW k \in 1..Len(a) PROVE a[k] = a[1] \/ a[k] \in ToSet(Tail(a))
  <2>1. CASE k # 1
    <3>1. k - 1 \in 1..Len(a) - 1 /\ (k - 1) + 1 = k
      BY <1>1, <2>1
    <3> QED
      BY <1>3, <1>4, <3>1
  <2> QED
    BY <2>1
<1>6. ASSUME NEW k \in 1..Len(a) - 1 PROVE Tail(a)[k] \in ToSet(a)
  <2>1. k + 1 \in 1..Len(a)
    BY <1>1
  <2> QED
    BY <1>3, <1>4, <2>1
<1>7. 1 \in 1..Len(a)
  BY <1>1
<1> QED
  BY <1>1, <1>2, <1>4, <1>5, <1>6, <1>7

\* While the neighbours of a path are looked at.
LEMMA Expanding ==
    ASSUME SearchInv, pc = "expand"
    PROVE  /\ path \in Paths /\ Last(path.nodes) \in visited
           /\ adj \in Seq(Nodes) /\ ToSet(adj) \subseteq Adjacent(Last(path.nodes))
           /\ Current = {path} /\ Foremost = {path}
           /\ Simple(path.nodes) /\ Marked(path.nodes) /\ InTime(Last(path.nodes), Len(path.nodes))
<1>1. BfsInv /\ Sound
  BY DEF SearchInv, BfsInv
<1>2. Current = {path} /\ Foremost = {path}
  BY DEF Current, Foremost
<1> QED
  BY <1>1, <1>2 DEF BfsInv, Sound

LEMMA SkipStep == ASSUME SearchInv, SkipVisited PROVE Kept'
<1>1. /\ pc = "expand" /\ pc' = "expand" /\ adj # <<>> /\ Head(adj) \in visited /\ adj' = Tail(adj)
      /\ visited' = visited /\ UNCHANGED vars /\ Quiet
  BY DEF SkipVisited, Quiet
<1>2. /\ Ring(Paths) /\ GraphInv /\ visited \subseteq Nodes /\ end \notin visited
      /\ start \in visited \/ \E r \in Waiting : Last(r.nodes) = start
      /\ Sound /\ Sorted /\ Together /\ NearMarked /\ Followed
  BY <1>1, Running
<1>3. /\ path \in Paths /\ Last(path.nodes) \in visited
      /\ adj \in Seq(Nodes) /\ ToSet(adj) \subseteq Adjacent(Last(path.nodes))
  BY <1>1, Expanding
<1>4. Tail(adj) \in Seq(Nodes) /\ ToSet(adj) = ToSet(Tail(adj)) \cup {Head(adj)}
  BY <1>1, <1>3, AdjSplit
<1>5. Ring(Paths)' /\ path' = path /\ size' = size /\ bar' = bar /\ Waiting' = Waiting
  BY <1>1, <1>2, Rests DEF path
<1>6. Current' = Current /\ Foremost' = Foremost
  BY <1>1, <1>5 DEF Current, Foremost
<1>7. Sound' /\ Sorted' /\ Together' /\ NearMarked'
  BY <1>1, <1>2, <1>5, <1>6, Frozen
<1>8. Followed'
  <2>1. ASSUME NEW u \in visited, NEW v \in Adjacent(u)
        PROVE  \/ v \in visited
               \/ \E r \in Waiting : Last(r.nodes) = v /\ InTime(u, Len(r.nodes))
               \/ \E p \in Current : Last(p.nodes) = u /\ v \in ToSet(adj') /\ Shortest(u, Len(p.nodes))
    BY <1>1, <1>2, <1>4 DEF Followed
  <2> QED
    BY <1>1, <1>5, <1>6, <2>1, FollowedNext
<1>9. BfsInv'
  <2>1. start' = start /\ end' = end /\ Nodes' = Nodes /\ \A u : Adjacent(u)' = Adjacent(u)
    BY <1>1, Unmoved DEF Quiet
  <2>2. PICK n : n = Last(path.nodes)
    OBVIOUS
  <2>3. n = Last(path'.nodes) /\ Adjacent(n)' = Adjacent(n)
    BY <1>5, <2>1, <2>2
  <2>4. adj' \in Seq(Nodes') /\ ToSet(adj') \subseteq Adjacent(Last(path.nodes))'
    BY <1>1, <1>3, <1>4, <2>1, <2>2, <2>3
  <2> QED
    BY <1>1, <1>2, <1>3, <1>5, <1>7, <1>8, <2>1, <2>4 DEF BfsInv
<1>10. AnswerInv'
  BY <1>1 DEF AnswerInv
<1> QED
  BY <1>5, <1>9, <1>10 DEF Kept

LEMMA ExtendStep == ASSUME SearchInv, Extend PROVE Kept'
<1>1. /\ pc = "expand" /\ pc' = "expand" /\ adj # <<>> /\ Head(adj) \notin visited /\ adj' = Tail(adj)
      /\ visited' = visited /\ AddPath(appended(path, Head(adj)), QUEUE, enlarges(path)) /\ Quiet
  BY DEF Extend, Quiet
<1>2. /\ Ring(Paths) /\ GraphInv /\ size \in Nat /\ visited \subseteq Nodes /\ end \notin visited
      /\ start \in visited \/ \E r \in Waiting : Last(r.nodes) = start
      /\ Sound /\ Sorted /\ Together /\ NearMarked /\ Followed
  BY <1>1, Running
<1>3. PICK p, v, q : p = path /\ v = Head(adj) /\ q = appended(p, v)
  OBVIOUS
<1>4. /\ p \in Paths /\ Last(p.nodes) \in visited
      /\ adj \in Seq(Nodes) /\ ToSet(adj) \subseteq Adjacent(Last(p.nodes))
      /\ Current = {p} /\ Foremost = {p}
      /\ Simple(p.nodes) /\ Marked(p.nodes) /\ InTime(Last(p.nodes), Len(p.nodes))
  BY <1>1, <1>3, Expanding
<1>5. /\ v \in Nodes /\ v \in Adjacent(Last(p.nodes)) /\ Tail(adj) \in Seq(Nodes)
      /\ ToSet(adj) = ToSet(Tail(adj)) \cup {v}
  BY <1>1, <1>3, <1>4, AdjSplit
<1>6. /\ p.nodes \in Seq(Nodes) /\ Len(p.nodes) \in Nat \ {0}
      /\ Last(p.nodes) = p.nodes[Len(p.nodes)]
      /\ ToSet(p.nodes) = {p.nodes[k] : k \in 1..Len(p.nodes)}
  BY <1>4, SimpleEnds
\* A node on the path is marked, so that the new one is not on it.
<1>7. ASSUME NEW k \in 1..Len(p.nodes) PROVE p.nodes[k] \in visited
  <2>1. CASE k = Len(p.nodes)
    BY <1>4, <1>6, <2>1
  <2>2. CASE k # Len(p.nodes)
    <3>1. k \in 1..Len(p.nodes) - 1
      BY <1>6, <2>2
    <3> QED
      BY <1>4, <3>1 DEF Marked
  <2> QED
    BY <2>1, <2>2
<1>8. v \notin ToSet(p.nodes)
  BY <1>1, <1>3, <1>6, <1>7
<1>9. q \in Paths /\ q.nodes = Append(p.nodes, v)
  <2>1. v \in Nat
    BY <1>1, <1>2, <1>5, NodesAreNat
  <2>2. p.nodes \in Seq(Nat) /\ p.cap \in Nat
    BY <1>4 DEF Paths
  <2> QED
    BY <1>3, <2>1, <2>2, NewPath
<1>10. /\ Simple(q.nodes) /\ Len(q.nodes) = Len(p.nodes) + 1 /\ Last(q.nodes) = v
       /\ \A k \in 1..Len(p.nodes) : q.nodes[k] = p.nodes[k]
  <2>1. <<Last(p.nodes), v>> \in edges
    BY <1>2, <1>5, Neighbours
  <2> QED
    BY <1>4, <1>5, <1>8, <1>9, <2>1, SimpleGrows
<1>11. Marked(q.nodes)
  <2>1. ASSUME NEW k \in 1..Len(q.nodes) - 1 PROVE q.nodes[k] \in visited
    <3>1. k \in 1..Len(p.nodes)
      BY <1>6, <1>10
    <3> QED
      BY <1>7, <1>10, <3>1
  <2> QED
    BY <2>1 DEF Marked
<1>12. Shortest(v, Len(p.nodes)) /\ InTime(v, Len(p.nodes) + 1)
  BY <1>1, <1>2, <1>3, <1>4, <1>6, NotNearer
<1>13. /\ Ring(Paths)' /\ path' = p /\ size' = size + 1 /\ Waiting' = Waiting \cup {q}
       /\ (\A k \in 1..size : bar'[k] = bar[k]) /\ bar'[size + 1] = q
  BY <1>1, <1>2, <1>3, <1>9, Joined DEF path
<1>14. Current' = {p} /\ Foremost' = {p}
  BY <1>1, <1>13 DEF Current, Foremost
<1>15. Sound'
  <2>1. ASSUME NEW r \in Waiting' \cup Current'
        PROVE  Simple(r.nodes) /\ Marked(r.nodes) /\ InTime(Last(r.nodes), Len(r.nodes))
    BY <1>2, <1>4, <1>10, <1>11, <1>12, <1>13, <1>14, <2>1 DEF Sound
  <2>2. \A r : Marked(r)' <=> Marked(r)
    BY <1>1 DEF Marked
  <2> QED
    BY <1>1, <2>1, <2>2, Unmoved, Zenon DEF Sound
<1>16. ASSUME NEW r \in Waiting PROVE Len(q.nodes) - Len(r.nodes) \in {0, 1}
  <2>1. Len(r.nodes) - Len(p.nodes) \in {0, 1}
    BY <1>2, <1>4 DEF Together
  <2>2. Len(r.nodes) \in Nat
    BY <1>2, SimpleEnds DEF Sound
  <2> QED
    BY <1>6, <1>10, <2>1, <2>2
<1>17. Sorted'
  <2>1. ASSUME NEW j \in 1..size', NEW k \in 1..size', j < k
        PROVE  Len(bar'[k].nodes) - Len(bar'[j].nodes) \in {0, 1}
    <3>1. j \in 1..size /\ bar'[j] = bar[j] /\ bar[j] \in Waiting
      BY <1>2, <1>13, <2>1, BarSeq
    <3>2. CASE k = size + 1
      BY <1>13, <1>16, <3>1, <3>2
    <3>3. CASE k # size + 1
      <4>1. k \in 1..size /\ bar'[k] = bar[k]
        BY <1>2, <1>13, <3>3
      <4> QED
        BY <1>2, <2>1, <3>1, <4>1 DEF Sorted
    <3> QED
      BY <3>2, <3>3
  <2> QED
    BY <2>1 DEF Sorted
<1>18. Together'
  <2>1. ASSUME NEW r \in Waiting' PROVE Len(r.nodes) - Len(p.nodes) \in {0, 1}
    <3>1. CASE r = q
      BY <1>6, <1>10, <3>1
    <3>2. CASE r \in Waiting
      BY <1>2, <1>4, <3>2 DEF Together
    <3> QED
      BY <1>13, <3>1, <3>2
  <2> QED
    BY <1>14, <2>1 DEF Together
<1>19. NearMarked'
  BY <1>1, <1>2, <1>4, <1>14, Unmoved, Zenon DEF NearMarked
<1>20. Followed'
  <2>1. ASSUME NEW u \in visited, NEW w \in Adjacent(u)
        PROVE  \/ w \in visited
               \/ \E r \in Waiting' : Last(r.nodes) = w /\ InTime(u, Len(r.nodes))
               \/ \E r \in Current' : Last(r.nodes) = u /\ w \in ToSet(adj') /\ Shortest(u, Len(r.nodes))
    <3>1. CASE \E r \in Waiting : Last(r.nodes) = w /\ InTime(u, Len(r.nodes))
      BY <1>13, <3>1
    <3>2. CASE Last(p.nodes) = u /\ w \in ToSet(adj) /\ Shortest(u, Len(p.nodes))
      <4>1. CASE w = v
        <5>1. InTime(u, Len(q.nodes))
          <6>1. ASSUME NEW n \in Nat, u \in Reach[n] PROVE Len(q.nodes) <= n + 2
            <7>1. Len(p.nodes) <= n + 1
              BY <3>2, <6>1 DEF Shortest
            <7> QED
              BY <1>6, <1>10, <7>1
          <6> QED
            BY <6>1 DEF InTime
        <5> QED
          BY <1>10, <1>13, <4>1, <5>1
      <4>2. CASE w # v
        BY <1>1, <1>5, <1>14, <3>2, <4>2
      <4> QED
        BY <4>1, <4>2
    <3> QED
      BY <1>2, <1>4, <3>1, <3>2 DEF Followed
  <2> QED
    BY <1>1, <2>1, FollowedNext
<1>21. BfsInv'
  <2>1. start' = start /\ end' = end /\ Nodes' = Nodes /\ \A u : Adjacent(u)' = Adjacent(u)
    BY <1>1, Unmoved DEF Quiet
  <2>2. PICK n : n = Last(p.nodes)
    OBVIOUS
  <2>3. n = Last(path'.nodes) /\ Adjacent(n)' = Adjacent(n)
    BY <1>13, <2>1, <2>2
  <2>4. adj' \in Seq(Nodes') /\ ToSet(adj') \subseteq Adjacent(Last(path.nodes))'
    BY <1>1, <1>4, <1>5, <2>1, <2>2, <2>3
  <2>5. path' \in Paths /\ Last(path'.nodes) \in visited'
    BY <1>1, <1>4, <1>13
  <2>6. start' \in visited' \/ \E r \in Waiting' : Last(r.nodes) = start'
    BY <1>1, <1>2, <1>13, <2>1
  <2> QED
    BY <1>1, <1>2, <1>15, <1>17, <1>18, <1>19, <1>20, <2>1, <2>4, <2>5, <2>6 DEF BfsInv
<1>22. AnswerInv'
  BY <1>1 DEF AnswerInv
<1> QED
  BY <1>13, <1>21, <1>22 DEF Kept

LEMMA OverrunStep == ASSUME SearchInv, CopyOverrun PROVE Kept'
<1>1. pc' = "overrun" /\ UNCHANGED vars /\ Ring(Paths)
  BY DEF CopyOverrun, SearchInv
<1>2. AnswerInv'
  BY <1>1 DEF AnswerInv
<1> QED
  BY <1>1, <1>2, Rests, Idle

\* The next path may be longer than the one that is done: then what is one step
\* from the nodes near enough is marked, or would wait at a shorter path.
LEMMA FreeStep == ASSUME SearchInv, FreePath PROVE Kept'
<1>1. /\ pc = "expand" /\ pc' = "loop" /\ adj = <<>>
      /\ visited' = visited /\ adj' = adj /\ UNCHANGED vars /\ Quiet
  BY DEF FreePath, Quiet
<1>2. /\ Ring(Paths) /\ GraphInv /\ size \in Nat /\ visited \subseteq Nodes /\ end \notin visited
      /\ start \in visited \/ \E r \in Waiting : Last(r.nodes) = start
      /\ Sound /\ Sorted /\ Together /\ NearMarked /\ Followed
  BY <1>1, Running
<1>3. PICK p : p = path
  OBVIOUS
<1>4. /\ Last(p.nodes) \in visited /\ Current = {p} /\ Foremost = {p} /\ Simple(p.nodes)
  BY <1>1, <1>3, Expanding
<1>5. /\ Len(p.nodes) \in Nat \ {0} /\ p.nodes[1] = start /\ Last(p.nodes) = p.nodes[Len(p.nodes)]
  BY <1>4, SimpleEnds
<1>6. Ring(Paths)' /\ size' = size /\ bar' = bar /\ Waiting' = Waiting
  BY <1>1, <1>2, Rests
<1>7. Current' = {} /\ Foremost' = IF size # 0 THEN {bar[1]} ELSE {}
  BY <1>1, <1>6 DEF Current, Foremost
<1>8. Sound'
  <2>1. \A r : Marked(r)' <=> Marked(r)
    BY <1>1 DEF Marked
  <2>2. Waiting' \cup Current' \subseteq Waiting \cup Current
    BY <1>6, <1>7
  <2> QED
    BY <1>1, <1>2, <2>1, <2>2, Unmoved, Zenon DEF Sound
<1>9. Sorted'
  BY <1>2, <1>6 DEF Sorted
<1>10. ASSUME NEW r \in Waiting, size # 0
       PROVE  /\ bar[1] \in Waiting /\ Len(bar[1].nodes) \in Nat /\ Len(r.nodes) \in Nat
              /\ Len(r.nodes) - Len(bar[1].nodes) \in {0, 1}
  <2>1. PICK k \in 1..size : r = bar[k]
    BY DEF Waiting
  <2>2. 1 \in 1..size
    BY <1>2, <1>10
  <2>3. bar[1] \in Waiting
    BY <2>2 DEF Waiting
  <2>4. Simple(r.nodes) /\ Simple(bar[1].nodes)
    BY <1>2, <2>3, Zenon DEF Sound
  <2>5. Len(bar[1].nodes) \in Nat /\ Len(r.nodes) \in Nat
    BY <2>4, SimpleEnds
  <2>6. CASE k = 1
    BY <2>1, <2>3, <2>5, <2>6
  <2>7. CASE k # 1
    <3>1. 1 < k
      BY <2>7
    <3> QED
      BY <1>2, <2>1, <2>2, <2>3, <2>5, <3>1 DEF Sorted
  <2> QED
    BY <2>6, <2>7
<1>11. Together'
  <2>1. ASSUME NEW b \in Foremost', NEW r \in Waiting' PROVE Len(r.nodes) - Len(b.nodes) \in {0, 1}
    <3>1. size # 0 /\ b = bar[1] /\ r \in Waiting
      BY <1>6, <1>7, <2>1
    <3> QED
      BY <1>10, <3>1
  <2> QED
    BY <2>1 DEF Together
<1>12. NearMarked'
  <2>1. ASSUME NEW b \in Foremost', NEW n \in Nat, n + 2 <= Len(b.nodes), NEW w \in Reach[n],
               w \notin visited
        PROVE  FALSE
    <3>1. size # 0 /\ b = bar[1] /\ 1 \in 1..size
      BY <1>2, <1>7, <2>1
    <3>2. b \in Waiting /\ Len(b.nodes) \in Nat /\ Len(b.nodes) - Len(p.nodes) \in {0, 1}
      <4>1. b \in Waiting
        BY <3>1 DEF Waiting
      <4> QED
        BY <1>2, <1>4, <1>10, <3>1, <4>1 DEF Together
    <3>3. \A m \in Nat : m + 2 <= Len(p.nodes) => Reach[m] \subseteq visited
      BY <1>2, <1>4 DEF NearMarked
    <3>4. n + 1 = Len(p.nodes)
      <4>1. ~(n + 2 <= Len(p.nodes))
        BY <2>1, <3>3
      <4> QED
        BY <1>5, <2>1, <3>2, <4>1
    <3>5. CASE n = 0
      BY <1>4, <1>5, <2>1, <3>4, <3>5, Reaches
    <3>6. CASE n # 0
      <4>1. PICK m \in Nat : n = m + 1
        <5>1. n - 1 \in Nat /\ n = (n - 1) + 1
          BY <3>6
        <5> QED
          BY <5>1
      <4>2. m + 2 = Len(p.nodes) /\ Reach[m] \subseteq visited
        BY <1>5, <3>3, <3>4, <4>1
      <4>3. PICK u \in Reach[m] : w \in Adjacent(u)
        BY <2>1, <4>1, <4>2, Reaches
      <4>4. u \in visited /\ ToSet(adj) = {}
        BY <1>1, <4>2, <4>3 DEF ToSet
      <4>5. PICK r \in Waiting : Last(r.nodes) = w /\ InTime(u, Len(r.nodes))
        BY <1>2, <2>1, <4>3, <4>4 DEF Followed
      <4>6. Len(r.nodes) <= m + 2
        BY <4>3, <4>5 DEF InTime
      <4>7. Len(r.nodes) \in Nat /\ Len(r.nodes) - Len(b.nodes) \in {0, 1}
        BY <1>10, <3>1, <4>5
      <4> QED
        BY <2>1, <3>2, <4>1, <4>6, <4>7
    <3> QED
      BY <3>5, <3>6
  <2> QED
    BY <1>1, <2>1, Unmoved DEF NearMarked
<1>13. Followed'
  <2>1. ToSet(adj) = {}
    BY <1>1 DEF ToSet
  <2>2. \A u \in visited : \A v \in Adjacent(u) :
           v \in visited \/ \E r \in Waiting : Last(r.nodes) = v /\ InTime(u, Len(r.nodes))
    BY <1>2, <2>1, Zenon DEF Followed
  <2> QED
    BY <1>1, <1>6, <2>2, FollowedNext
<1>14. BfsInv'
  <2>1. start' = start /\ end' = end /\ Nodes' = Nodes
    BY <1>1, Unmoved DEF Quiet
  <2> QED
    BY <1>1, <1>2, <1>6, <1>8, <1>9, <1>11, <1>12, <1>13, <2>1 DEF BfsInv
<1>15. AnswerInv'
  BY <1>1 DEF AnswerInv
<1> QED
  BY <1>6, <1>14, <1>15 DEF Kept

LEMMA CleanStep == ASSUME SearchInv, Clean PROVE Kept'
<1>1. /\ pc = "clean" /\ pc' \in {"clean", "answer"} /\ Quiet
      /\ found' = found /\ result' = result /\ (UNCHANGED vars \/ Dequeue)
  BY Zenon DEF Clean, Quiet
<1>2. Ring(Paths) /\ found /\ IsAnswer(result.nodes)
  BY <1>1 DEF SearchInv, AnswerInv
<1>3. Ring(Paths)'
  BY <1>1, <1>2, Rests, Left
<1>4. PICK p : p = result.nodes
  OBVIOUS
<1>5. IsAnswer(p)' /\ p = result'.nodes
  BY <1>1, <1>2, <1>4, Unmoved DEF IsAnswer, Quiet
<1>6. AnswerInv'
  <2>1. found'
    BY <1>1, <1>2
  <2> QED
    BY <1>1, <1>5, <2>1 DEF AnswerInv
<1> QED
  BY <1>1, <1>3, <1>6, Idle

LEMMA AnswerStep == ASSUME SearchInv, Answer PROVE Kept'
<1>1. pc = "answer" /\ pc' = "done" /\ UNCHANGED vars /\ Quiet
  BY DEF Answer, Quiet
<1>2. Ring(Paths) /\ (IF found THEN IsAnswer(result.nodes) ELSE NoAnswer)
  BY <1>1 DEF SearchInv, AnswerInv
<1>3. PICK p : p = packet'
  OBVIOUS
<1>4. IsAnswer(p) \/ (p = Impossible /\ NoAnswer)
  BY <1>2, <1>3 DEF Answer
<1>5. IsAnswer(p)' \/ (p = Impossible /\ NoAnswer')
  BY <1>1, <1>4, Unmoved DEF IsAnswer, NoAnswer, Quiet
<1>6. AnswerInv'
  BY <1>1, <1>3, <1>5 DEF AnswerInv, Impossible
<1> QED
  BY <1>1, <1>2, <1>6, Rests, Idle

LEMMA LoadStep == ASSUME SearchInv, ReadGraph \/ Receive PROVE Kept'
<1>1. pc' \in {"receive", "search"} /\ UNCHANGED vars /\ Ring(Paths)
  BY DEF ReadGraph, Receive, SearchInv
<1>2. AnswerInv'
  BY <1>1 DEF AnswerInv
<1> QED
  BY <1>1, <1>2, Rests, Idle

LEMMA StutterStep == ASSUME SearchInv, UNCHANGED allVars PROVE Kept'
<1>1. /\ UNCHANGED <<pc, raw, list, start, end, visited, adj, found, result, packet>>
      /\ UNCHANGED vars /\ Quiet
  BY DEF allVars, searchVars, Quiet
<1>2. Ring(Paths) /\ BfsInv /\ AnswerInv
  BY DEF SearchInv
<1>3. Ring(Paths)' /\ path' = path /\ size' = size /\ bar' = bar /\ Waiting' = Waiting
  BY <1>1, <1>2, Rests DEF path
<1>4. Current' = Current /\ Foremost' = Foremost
  BY <1>1, <1>3 DEF Current, Foremost
<1>5. Followed => Followed'
  <2>1. ASSUME Followed, NEW u \in visited', NEW v \in Adjacent(u)
        PROVE  \/ v \in visited'
               \/ \E r \in Waiting' : Last(r.nodes) = v /\ InTime(u, Len(r.nodes))
               \/ \E p \in Current' : Last(p.nodes) = u /\ v \in ToSet(adj') /\ Shortest(u, Len(p.nodes))
    <3>1. adj' = adj /\ visited' = visited
      BY <1>1
    <3> QED
      BY <1>3, <1>4, <2>1, <3>1, Zenon DEF Followed
  <2> QED
    BY <1>1, <2>1, FollowedNext
<1>6. /\ Sound => Sound'
      /\ Sorted => Sorted'
      /\ Together => Together'
      /\ NearMarked => NearMarked'
  BY <1>1, <1>3, <1>4, Frozen
<1>7. BfsInv'
  <2>1. /\ start' = start /\ end' = end /\ Nodes' = Nodes /\ visited' = visited /\ adj' = adj /\ pc' = pc
        /\ \A u : Adjacent(u)' = Adjacent(u)
    BY <1>1, Unmoved
  <2>2. PICK n : n = Last(path.nodes)
    OBVIOUS
  <2>3. n = Last(path'.nodes) /\ Adjacent(n)' = Adjacent(n)
    BY <1>3, <2>1, <2>2
  <2>4. pc' = "expand" => adj' \in Seq(Nodes') /\ ToSet(adj') \subseteq Adjacent(Last(path.nodes))'
    BY <1>2, <2>1, <2>2, <2>3 DEF BfsInv
  <2> QED
    BY <1>2, <1>3, <1>5, <1>6, <2>1, <2>4 DEF BfsInv
<1>8. AnswerInv'
  <2>1. PICK p, r : p = packet /\ r = result.nodes
    OBVIOUS
  <2>2. /\ pc' = pc /\ packet' = p /\ result'.nodes = r
        /\ (IsAnswer(p)' <=> IsAnswer(p)) /\ (IsAnswer(r)' <=> IsAnswer(r)) /\ (NoAnswer' <=> NoAnswer)
    BY <1>1, <2>1, Unmoved DEF IsAnswer, NoAnswer
  <2>3. found' = found
    BY <1>1
  <2>4. Impossible' = Impossible
    BY DEF Impossible
  <2> QED
    BY <1>2, <2>1, <2>2, <2>3, <2>4, Zenon DEF AnswerInv
<1> QED
  BY <1>3, <1>7, <1>8 DEF Kept

LEMMA SearchInvInit == SearchInit => SearchInv
<1> SUFFICES ASSUME SearchInit PROVE SearchInv
  OBVIOUS
<1>1. pc = "read_graph" /\ size = 0 /\ blocks = 0 /\ enlarged = 0 /\ raw \in Files /\ Init
  BY DEF SearchInit, Init
<1>2. ~found /\ found \in BOOLEAN
  BY Zenon DEF SearchInit
<1>3. Account
  BY <1>1, <1>2 DEF Account
<1>4. GraphInv
  BY <1>1 DEF GraphInv
<1>5. Ring(Paths)
  BY <1>1, InitInv
<1>6. BfsInv /\ AnswerInv
  BY <1>1 DEF BfsInv, AnswerInv
<1> QED
  BY <1>3, <1>4, <1>5, <1>6 DEF SearchInv

LEMMA SearchInvStep == SearchInv /\ [SearchNext]_allVars => SearchInv'
<1> SUFFICES ASSUME SearchInv, [SearchNext]_allVars PROVE SearchInv'
  OBVIOUS
<1>1. Account' /\ GraphInv'
  BY AccountStep, GraphStep DEF SearchInv
<1>2. Kept'
  BY LoadStep, ShortcutStep, BeginStep, TakeStep, GiveUpStep, SkipStep, ExtendStep, OverrunStep,
     FreeStep, CleanStep, AnswerStep, StutterStep DEF SearchNext
<1> QED
  BY <1>1, <1>2 DEF SearchInv, Kept

-----------------------------------------------------------------------------
(* What the answer is worth. *)

LEMMA ReachGrows ==
    ASSUME NEW m \in Nat, NEW n \in Nat, m <= n
    PROVE  Reach[m] \subseteq Reach[n]
<1> DEFINE Good == {d \in Nat : Reach[m] \subseteq Reach[m + d]}
<1>1. 0 \in Good
  OBVIOUS
<1>2. ASSUME NEW d \in Nat, d \in Good PROVE d + 1 \in Good
  <2>1. m + d \in Nat /\ m + (d + 1) = (m + d) + 1
    OBVIOUS
  <2>2. Reach[m + d] \subseteq Reach[(m + d) + 1]
    BY <2>1, Reaches
  <2> QED
    BY <1>2, <2>1, <2>2
<1>3. \A d \in Nat : d \in Good
  <2> HIDE DEF Good
  <2> QED
    BY <1>1, <1>2, Induction
<1>4. n - m \in Nat /\ m + (n - m) = n
  OBVIOUS
<1>5. n - m \in Good
  BY <1>3, <1>4
<1> QED
  BY <1>4, <1>5

\* A path of k edges shows that its end is reached in k steps, and is not
\* longer than the graph has nodes.
LEMMA PathReaches ==
    ASSUME GraphInv, pc # "read_graph", NEW p, Simple(p)
    PROVE  /\ Len(p) \in Nat \ {0} /\ V \in Nat /\ Len(p) <= V
           /\ \A n \in Nat : Len(p) <= n + 1 => Last(p) \in Reach[n]
<1>1. /\ p \in Seq(Nodes) /\ Len(p) \in Nat \ {0} /\ p[1] = start
      /\ Last(p) = p[Len(p)] /\ ToSet(p) = {p[k] : k \in 1..Len(p)}
  BY SimpleEnds
<1>2. V \in Nat /\ Len(p) <= V
  <2>1. Nodes = 0..find_V - 1 /\ find_V - 1 \in Int
    BY AllNumbered DEF GraphInv
  <2>2. 0 \in Int /\ IsFiniteSet(Nodes)
    BY <2>1, FS_Interval
  <2>3. ToSet(p) \subseteq Nodes
    BY <1>1
  <2>4. Cardinality(Nodes) \in Nat /\ Cardinality(ToSet(p)) <= Cardinality(Nodes)
    BY <2>2, <2>3, FS_CardinalityType, FS_Subset
  <2> QED
    BY <2>4 DEF V, Nodes, Simple
<1> DEFINE Good == {k \in Nat : k < Len(p) => p[k + 1] \in Reach[k]}
<1>3. 0 \in Good
  BY <1>1, Reaches
<1>4. ASSUME NEW k \in Nat, k \in Good PROVE k + 1 \in Good
  <2>1. CASE k + 1 < Len(p)
    <3>1. k < Len(p) /\ k + 1 \in 1..Len(p) - 1
      BY <1>1, <2>1
    <3>2. PICK a, b : a = p[k + 1] /\ b = p[(k + 1) + 1]
      OBVIOUS
    <3>3. a \in Reach[k] /\ <<a, b>> \in edges
      BY <1>4, <3>1, <3>2 DEF Simple, IsPath
    <3>4. b \in Reach[k + 1]
      BY <3>3, Reaches
    <3> QED
      BY <3>2, <3>4
  <2> QED
    BY <2>1
<1>5. \A k \in Nat : k \in Good
  <2> HIDE DEF Good
  <2> QED
    BY <1>3, <1>4, Induction
<1>6. ASSUME NEW n \in Nat, Len(p) <= n + 1 PROVE Last(p) \in Reach[n]
  <2>1. Len(p) - 1 \in Nat /\ Len(p) - 1 <= n /\ (Len(p) - 1) + 1 = Len(p) /\ Len(p) - 1 < Len(p)
    BY <1>1, <1>6
  <2>2. Len(p) - 1 \in Good
    BY <1>5, <2>1
  <2>3. Last(p) \in Reach[Len(p) - 1]
    BY <1>1, <2>1, <2>2
  <2>4. Reach[Len(p) - 1] \subseteq Reach[n]
    BY ONLY <2>1, <1>6, ReachGrows
  <2> QED
    BY <2>3, <2>4
<1> QED
  BY <1>1, <1>2, <1>6

LEMMA VIsNat == ASSUME GraphInv, pc # "read_graph" PROVE V \in Nat
<1>1. Nodes = 0..find_V - 1 /\ find_V - 1 \in Int /\ 0 \in Int
  BY AllNumbered DEF GraphInv
<1>2. IsFiniteSet(Nodes)
  BY <1>1, FS_Interval
<1> QED
  BY <1>2, FS_CardinalityType DEF V, Nodes

LEMMA AnswerIsShortest == SearchInv => ShortestAnswer
<1> SUFFICES ASSUME SearchInv, pc = "done" PROVE
        IF end \in Reach[V]
        THEN /\ IsPath(packet)
             /\ Last(packet) = end
             /\ \A k \in 0..Len(packet) - 2 : end \notin Reach[k]
        ELSE packet = Impossible
  BY DEF ShortestAnswer
<1>1. GraphInv /\ (IsAnswer(packet) \/ (packet = Impossible /\ NoAnswer))
  BY DEF SearchInv, AnswerInv
<1>2. CASE IsAnswer(packet)
  <2>1. Simple(packet) /\ Last(packet) = end /\ Shortest(end, Len(packet))
    BY <1>2 DEF IsAnswer
  <2>2. /\ Len(packet) \in Nat \ {0} /\ V \in Nat /\ Len(packet) <= V
        /\ \A n \in Nat : Len(packet) <= n + 1 => end \in Reach[n]
    BY <1>1, <2>1, PathReaches
  <2>3. end \in Reach[V]
    BY <2>2
  <2>4. \A k \in 0..Len(packet) - 2 : end \notin Reach[k]
    BY <2>1, <2>2 DEF Shortest
  <2> QED
    BY <2>1, <2>3, <2>4 DEF Simple
<1>3. CASE packet = Impossible /\ NoAnswer
  BY <1>1, <1>3, VIsNat DEF NoAnswer
<1> QED
  BY <1>1, <1>2, <1>3

LEMMA QueueIsNearlyShortest == SearchInv => NearlyShortest
<1> SUFFICES ASSUME SearchInv, pc \in {"loop", "expand"} PROVE
        /\ \A p \in queued :
              /\ IsPath(p.nodes)
              /\ Len(p.nodes) = Cardinality(ToSet(p.nodes))
              /\ \A k \in 0..Len(p.nodes) - 3 : Last(p.nodes) \notin Reach[k]
        /\ \A i, j \in 0..size - 1 : i < j =>
              Len(line[Place(j)].nodes) - Len(line[Place(i)].nodes) \in {0, 1}
  BY DEF NearlyShortest
<1>1. Ring(Paths) /\ Sound /\ Sorted /\ size \in Nat
  BY Running
<1>2. ASSUME NEW i \in 0..size - 1
      PROVE  i + 1 \in 1..size /\ line[Place(i)] = bar[i + 1] /\ line[Place(i)] \in Waiting
  <2>1. i \in 0..cap /\ front \in Nat /\ i + 1 \in 1..size /\ front + (i + 1) - 1 = front + i
    BY <1>1, <1>2 DEF Ring, Indices
  <2>2. Place(i) = Round(front + i, cap)
    BY <1>1, <2>1, Places DEF Ring
  <2>3. bar[i + 1] = line[Round(front + i, cap)]
    BY <2>1 DEF bar
  <2> QED
    BY <2>1, <2>2, <2>3 DEF Waiting
<1>3. ASSUME NEW p \in queued
      PROVE  /\ IsPath(p.nodes)
             /\ Len(p.nodes) = Cardinality(ToSet(p.nodes))
             /\ \A k \in 0..Len(p.nodes) - 3 : Last(p.nodes) \notin Reach[k]
  <2>1. p \in Waiting
    BY <1>2 DEF queued
  <2>2. Simple(p.nodes) /\ InTime(Last(p.nodes), Len(p.nodes))
    BY <1>1, <2>1 DEF Sound
  <2>3. Len(p.nodes) \in Nat
    BY <2>2, SimpleEnds
  <2>4. ASSUME NEW k \in 0..Len(p.nodes) - 3 PROVE Last(p.nodes) \notin Reach[k]
    BY <2>2, <2>3 DEF InTime
  <2> QED
    BY <2>2, <2>4 DEF Simple
<1>4. ASSUME NEW i \in 0..size - 1, NEW j \in 0..size - 1, i < j
      PROVE  Len(line[Place(j)].nodes) - Len(line[Place(i)].nodes) \in {0, 1}
  <2>1. i + 1 \in 1..size /\ j + 1 \in 1..size /\ i + 1 < j + 1
    BY <1>1, <1>4
  <2>2. line[Place(i)] = bar[i + 1] /\ line[Place(j)] = bar[j + 1]
    BY <1>2
  <2>3. Len(bar[j + 1].nodes) - Len(bar[i + 1].nodes) \in {0, 1}
    BY <1>1, <2>1 DEF Sorted
  <2> QED
    BY <2>2, <2>3
<1> QED
  BY <1>3, <1>4

\* For every file, every request and every capacity: the answer of a search is
\* a path of the file with the fewest nodes, or says truly that there is none.
THEOREM SearchAnswersShortest == SearchSpec => []ShortestAnswer
  BY SearchInvInit, SearchInvStep, AnswerIsShortest, PTL DEF SearchSpec

\* The paths in the queue are in the order of their lengths, visit no node twice
\* and are at most one edge longer than the shortest way to where they end.
THEOREM QueueNearlyShortest == SearchSpec => []NearlyShortest
  BY SearchInvInit, SearchInvStep, QueueIsNearlyShortest, PTL DEF SearchSpec
=============================================================================
