-------------------------------- MODULE Fifo --------------------------------
(***************************************************************************)
(* What the queue of final-project/queue.h promises: first in, first out,  *)
(* and no limit.                                                           *)
(***************************************************************************)
EXTENDS Sequences

CONSTANT Items

VARIABLES contents,     \* the queued items, oldest first
          taken         \* the result of the last dequeue

fifoVars == <<contents, taken>>

FifoInit == contents = <<>> /\ taken \notin Items

Put(item) ==
    /\ contents' = Append(contents, item)
    /\ UNCHANGED taken

Get ==
    /\ contents # <<>>
    /\ taken' = Head(contents)
    /\ contents' = Tail(contents)

FifoNext == Get \/ \E item \in Items : Put(item)

FifoSpec == FifoInit /\ [][FifoNext]_fifoVars
=============================================================================
