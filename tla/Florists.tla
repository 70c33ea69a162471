------------------------------ MODULE Florists ------------------------------
(***************************************************************************)
(* homework-5/program.c: a central thread (main, supervisor) that hands    *)
(* each request to the closest florist who sells the flower, and one       *)
(* thread for each florist with a queue of its own.  All queues share one  *)
(* mutex and one condition.  A section under the mutex is one step; waiting*)
(* on the condition gives the mutex up and ends it.  Chebyshev distances   *)
(* are given instead of locations, prices in time are left out.            *)
(***************************************************************************)
EXTENDS Naturals, Sequences

CONSTANTS
    F,              \* fm->count, the number of florists
    C,              \* cm->count, the number of requests
    MaxDistance     \* bound of the distances, below FLT_MAX

Florists == 1..F
Clients  == 1..C
FLT_MAX  == MaxDistance + 1
NotSold  == MaxDistance + 2         \* the florist has no such flower

ASSUME CountsAssumption == F \in Nat \ {0} /\ C \in Nat \ {0} /\ MaxDistance \in Nat

VARIABLES
    process,        \* "running", "freed" (by handle_sigint), "exited", "aborted",
                    \* "undefined": C says nothing of what it does, and no claim is made
    supervisor,     \* "create", "request", "join", "stats"
    i,              \* its loop index
    distance,       \* what the file says
    queue_list, finished,
    florist,        \* the next operation of each florist
    client,         \* the request it holds, 0 for none
    delivered       \* what it has printed; total_sale is the length

byMain    == <<supervisor, i, distance, finished>>
byFlorist == <<florist, client, delivered>>
vars == <<process, byMain, queue_list, byFlorist>>

\* "The requested flower type can be assumed to be on sale by at least one of
\* the florists" (readme.md).
Init ==
    /\ process = "running"
    /\ supervisor = "create"
    /\ i = 1
    /\ distance \in [Clients -> [Florists -> 0..MaxDistance \cup {NotSold}]]
    /\ \A c \in Clients : \E f \in Florists : distance[c][f] # NotSold
    /\ queue_list = [f \in Florists |-> <<>>]
    /\ finished = FALSE
    /\ florist = [f \in Florists |-> "not_created"]
    /\ client = [f \in Florists |-> 0]
    /\ delivered = [f \in Florists |-> <<>>]

Sells(f, c) == distance[c][f] # NotSold

\* Faulty variant: the smallest distance so far is not remembered.
FindFlorist_Forgets(c) ==
    LET best[f \in 0..F] ==
            IF f = 0 THEN [index |-> 0, min |-> FLT_MAX]
            ELSE IF Sells(f, c) /\ distance[c][f] <= best[f - 1].min
                 THEN [index |-> f, min |-> FLT_MAX]
                 ELSE best[f - 1]
    IN  best[F].index

\* One round of the loop of find_florist; of florists equally close the last.
Closest(c, f, best) ==
    IF Sells(f, c) /\ distance[c][f] <= best.min
    THEN [index |-> f, min |-> distance[c][f]]
    ELSE best

FindFlorist(c) ==
    LET best[f \in 0..F] ==
            IF f = 0 THEN [index |-> 0, min |-> FLT_MAX] ELSE Closest(c, f, best[f - 1])
    IN  best[F].index

-----------------------------------------------------------------------------
\* supervisor
SupervisorGoto(from, to) ==
    process = "running" /\ supervisor = from /\ supervisor' = to

CreateFlorist ==
    /\ SupervisorGoto("create", IF i = F THEN "request" ELSE "create")
    /\ florist' = [florist EXCEPT ![i] = "lock"]
    /\ i' = IF i = F THEN 1 ELSE i + 1
    /\ UNCHANGED <<process, distance, queue_list, finished, client, delivered>>

\* A broadcast lets all waiting florists compete for the mutex again.
Woken == [f \in Florists |-> IF florist[f] = "waiting" THEN "lock" ELSE florist[f]]

\* Faulty variant: nobody is told.
Request_Silent ==
    /\ SupervisorGoto("request", "request")
    /\ i <= C
    /\ queue_list' = [queue_list EXCEPT ![FindFlorist(i)] = Append(@, i)]
    /\ i' = i + 1
    /\ UNCHANGED <<process, distance, finished, byFlorist>>

Request ==
    /\ SupervisorGoto("request", "request")
    /\ i <= C
    /\ queue_list' = [queue_list EXCEPT ![FindFlorist(i)] = Append(@, i)]
    /\ florist' = Woken
    /\ i' = i + 1
    /\ UNCHANGED <<process, distance, finished, client, delivered>>

\* Faulty variant: nobody is told.
Finish_Silent ==
    /\ SupervisorGoto("request", "join")
    /\ i > C
    /\ finished' = TRUE
    /\ UNCHANGED <<process, i, distance, queue_list, byFlorist>>

Finish ==
    /\ SupervisorGoto("request", "join")
    /\ i > C
    /\ finished' = TRUE
    /\ florist' = Woken
    /\ UNCHANGED <<process, i, distance, queue_list, client, delivered>>

AllClosed == \A f \in Florists : florist[f] = "closed"

Join ==
    /\ SupervisorGoto("join", "stats")
    /\ AllClosed
    /\ UNCHANGED <<process, i, distance, queue_list, finished, byFlorist>>

\* print_stats, destroy_models and the return of main.
PrintStats ==
    /\ SupervisorGoto("stats", "stats")
    /\ process' = "exited"
    /\ UNCHANGED <<byMain, queue_list, byFlorist>>

Supervisor == CreateFlorist \/ Request \/ Finish \/ Join \/ PrintStats

-----------------------------------------------------------------------------
\* florist
Alive == process \in {"running", "freed"}
FloristGoto(f, from, to) ==
    Alive /\ florist[f] = from /\ florist' = [florist EXCEPT ![f] = to]

Idle(f) == queue_list[f] = <<>>

Wait(f) ==
    /\ FloristGoto(f, "lock", "waiting")
    /\ Idle(f) /\ ~finished
    /\ UNCHANGED <<process, byMain, queue_list, client, delivered>>

\* A condition may wake a thread nobody signalled.
Spurious(f) ==
    /\ FloristGoto(f, "waiting", "lock")
    /\ UNCHANGED <<process, byMain, queue_list, client, delivered>>

Close(f) ==
    /\ FloristGoto(f, "lock", "closed")
    /\ finished /\ Idle(f)
    /\ UNCHANGED <<process, byMain, queue_list, client, delivered>>

\* Faulty variant: the request stays in the queue.
TakeOrder_Keeps(f) ==
    /\ FloristGoto(f, "lock", "deliver")
    /\ ~Idle(f)
    /\ client' = [client EXCEPT ![f] = Head(queue_list[f])]
    /\ UNCHANGED <<process, byMain, queue_list, delivered>>

TakeOrder(f) ==
    /\ FloristGoto(f, "lock", "deliver")
    /\ ~Idle(f)
    /\ client' = [client EXCEPT ![f] = Head(queue_list[f])]
    /\ queue_list' = [queue_list EXCEPT ![f] = Tail(@)]
    /\ UNCHANGED <<process, byMain, delivered>>

Delivery(f) ==
    /\ FloristGoto(f, "deliver", "lock")
    /\ delivered' = [delivered EXCEPT ![f] = Append(@, client[f])]
    /\ client' = [client EXCEPT ![f] = 0]
    /\ UNCHANGED <<process, byMain, queue_list>>

Florist(f) == Wait(f) \/ Close(f) \/ TakeOrder(f) \/ Delivery(f)

-----------------------------------------------------------------------------
\* handle_sigint interrupts the main thread, frees what the florists use, and
\* exits.  global_fm is set when all florists are created; before, only the
\* requests are freed, which no florist has.
Sigint ==
    /\ process = "running"
    /\ process' = IF supervisor = "create" THEN "exited" ELSE "freed"
    /\ UNCHANGED <<byMain, queue_list, byFlorist>>

\* The signal finds the main thread in the malloc of assign_florists or the free
\* of destroy_models, and its handler calls free: it may wait for its own lock.
SigintInHeap ==
    /\ process = "running" /\ supervisor \in {"create", "stats"}
    /\ process' = "undefined"
    /\ UNCHANGED <<byMain, queue_list, byFlorist>>

SigExit ==
    /\ process = "freed"
    /\ process' = "exited"
    /\ UNCHANGED <<byMain, queue_list, byFlorist>>

\* A florist uses the freed mutex, condition, queue or client.  It may find them
\* as they were (then it takes its own step), or the lock fails and ends the
\* process (340), or anything happens.
UseFreed(f) ==
    /\ process = "freed"
    /\ florist[f] \in {"lock", "waiting", "deliver"}
    /\ process' \in {"aborted", "undefined"}
    /\ UNCHANGED <<byMain, queue_list, byFlorist>>

\* SIGINT in destroy_models, which sets the global pointers to NULL only at its
\* end: what is freed may be freed twice.
FreeTwice ==
    /\ process = "freed" /\ supervisor = "stats"
    /\ process' \in {"aborted", "undefined"}
    /\ UNCHANGED <<byMain, queue_list, byFlorist>>

Next ==
    \/ Supervisor \/ Sigint \/ SigintInHeap \/ SigExit \/ FreeTwice
    \/ \E f \in Florists : Florist(f) \/ Spurious(f) \/ UseFreed(f)

Spec == Init /\ [][Next]_vars

\* Threads that can go on do; a florist may find the mutex taken again and again
\* and still gets it.
Fairness == WF_vars(Supervisor) /\ WF_vars(SigExit) /\ \A f \in Florists : SF_vars(Florist(f))
FairSpec == Spec /\ Fairness
-----------------------------------------------------------------------------
TypeOK ==
    /\ process \in {"running", "freed", "exited", "aborted", "undefined"}
    /\ supervisor \in {"create", "request", "join", "stats"}
    /\ i \in Nat \ {0}
    /\ distance \in [Clients -> [Florists -> 0..MaxDistance \cup {NotSold}]]
    /\ queue_list \in [Florists -> Seq(Clients)]
    /\ finished \in BOOLEAN
    /\ florist \in [Florists -> {"not_created", "lock", "waiting", "deliver", "closed"}]
    /\ client \in [Florists -> Clients \cup {0}]
    /\ delivered \in [Florists -> Seq(Clients)]

\* The requests handed out so far.
Requested == IF supervisor = "create" THEN {} ELSE 1..i - 1
InHand(f) == IF client[f] = 0 THEN <<>> ELSE <<client[f]>>

\* What was handed to a florist: it has delivered it, holds it or has it queued.
Handed(f) == delivered[f] \o (InHand(f) \o queue_list[f])
Elements(s) == {s[k] : k \in 1..Len(s)}
Increasing(s) == \A k, l \in 1..Len(s) : k < l => s[k] < s[l]

\* What a florist has delivered, holds and has queued is exactly what was handed
\* to it, in the order of the requests: none lost, none twice.  Here and below the
\* state is followed until the process is "undefined": nothing is said of what a
\* florist reads in freed memory that has changed.
InOrder ==
    \A f \in Florists :
        /\ Increasing(Handed(f))
        /\ Elements(Handed(f)) = {c \in Requested : FindFlorist(c) = f}

\* "it will delegate it to the closest florist with respect to the client"
\* (readme.md), of those that sell the flower.
ClosestDelivers ==
    \A f \in Florists : \A c \in Elements(delivered[f]) :
        Sells(f, c) /\ \A g \in Florists : Sells(g, c) => distance[c][f] <= distance[c][g]

\* A florist that waits has nothing to do: no broadcast is missed between the
\* test and the wait, although the one condition stands for all queues and for
\* finished (378-379, 122-123, 131-132).
NoMissedWork ==
    \A f \in Florists : florist[f] = "waiting" => Idle(f) /\ ~finished

\* The statistics are printed, and all memory freed, when every request has
\* been delivered and every florist has left.
StatsComplete ==
    supervisor = "stats" =>
        /\ AllClosed
        /\ \A c \in Clients : \E f \in Florists : c \in Elements(delivered[f])

\* "Once all requests have been processed, all florist threads should terminate"
\* (readme.md): the program ends, by itself or by SIGINT, unless its handler has
\* made it undefined.
ProgramEnds == <>(process \in {"exited", "aborted", "undefined"})

\* "In case of CTRL-C make sure your program (and all its threads) shuts down
\* gracefully" (readme.md).
ShutsDownGracefully == process \notin {"aborted", "undefined"}
=============================================================================
