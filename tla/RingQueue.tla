----------------------------- MODULE RingQueue ------------------------------
(***************************************************************************)
(* The circular array of final-project/queue.h, which doubles when it is   *)
(* full.  The server keeps the accepted connections in it, BFS its paths.  *)
(* The operations run one at a time: every caller either holds graph_mutex *)
(* or owns the queue.                                                      *)
(***************************************************************************)
EXTENDS Integers, Sequences

CONSTANTS Items,        \* what is queued: descriptors, nodes, paths
          StartCap,     \* capacity given to create_queue
          MaxCap,       \* bound: capacities explored
          NoItem        \* what memory holds before it is set

ASSUME CapAssumption == StartCap \in Nat \ {0} /\ MaxCap \in Nat
ASSUME ItemAssumption == NoItem \notin Items

VARIABLES cap, front, back, size, line,
          taken         \* the result of the last dequeue

vars == <<cap, front, back, size, line, taken>>

\* create_queue
Init ==
    /\ cap = StartCap
    /\ front = 0
    /\ back = cap - 1
    /\ size = 0
    /\ line = [i \in 0..cap - 1 |-> NoItem]
    /\ taken = NoItem

IsFull  == size = cap
IsEmpty == size = 0

\* The place of the i-th queued item, the oldest being the 0-th.
Place(i) == (front + i) % cap

Enqueue(item) ==
    /\ ~IsFull
    /\ back' = (back + 1) % cap
    /\ line' = [line EXCEPT ![(back + 1) % cap] = item]
    /\ size' = size + 1
    /\ UNCHANGED <<cap, front, taken>>

\* Faulty variant: the array is copied as it lies, as realloc would do.
EnlargeAndEnqueue_InPlace(item) ==
    /\ IsFull
    /\ 2 * cap <= MaxCap
    /\ cap' = 2 * cap
    /\ back' = cap
    /\ size' = size + 1
    /\ line' = [i \in 0..2 * cap - 1 |->
                    IF i < cap THEN line[i] ELSE IF i = cap THEN item ELSE NoItem]
    /\ UNCHANGED <<front, taken>>

\* enlarge moves the items, oldest first, to a queue of twice the capacity.
EnlargeAndEnqueue(item) ==
    /\ IsFull
    /\ 2 * cap <= MaxCap
    /\ cap' = 2 * cap
    /\ front' = 0
    /\ back' = size
    /\ size' = size + 1
    /\ line' = [i \in 0..2 * cap - 1 |->
                    IF i < size THEN line[Place(i)] ELSE IF i = size THEN item ELSE NoItem]
    /\ UNCHANGED taken

Dequeue ==
    /\ ~IsEmpty
    /\ taken' = line[front]
    /\ front' = (front + 1) % cap
    /\ size' = size - 1
    /\ UNCHANGED <<cap, back, line>>

Next == Dequeue \/ \E item \in Items : Enqueue(item) \/ EnlargeAndEnqueue(item)

Spec == Init /\ [][Next]_vars

-----------------------------------------------------------------------------
\* The indices stay in the array and agree with the size.
TypeOK ==
    /\ cap \in Nat \ {0}
    /\ size \in 0..cap
    /\ front \in 0..cap - 1
    /\ back \in 0..cap - 1
    /\ line \in [0..cap - 1 -> Items \cup {NoItem}]
    /\ taken \in Items \cup {NoItem}

\* size, front and back, which are kept apart, agree, and every place between
\* front and back has been set: enlarge moves nothing that was not enqueued.
Consistent ==
    /\ (back + 1) % cap = Place(size)
    /\ \A i \in 0..size - 1 : line[Place(i)] \in Items

contentsBar == [k \in 1..size |-> line[Place(k - 1)]]

Queue == INSTANCE Fifo WITH contents <- contentsBar

\* Enqueue, enlarge and dequeue behave as a sequence without a limit.
FirstInFirstOut == Queue!FifoSpec
=============================================================================
