---------------------------- MODULE ServerProofs ----------------------------
(***************************************************************************)
(* The shutdown of the server, for any pool, any clients and a SIGINT at   *)
(* any moment: nobody leaves while a client waits, and the resources are   *)
(* destroyed when nobody uses them.  Last, the guard that lets only one    *)
(* server process get this far.                                            *)
(***************************************************************************)
EXTENDS Server, FiniteSetTheorems, TLAPS

Closing == {"sig_cancel", "sig_join_resizer", "sig_post", "sig_join", "destroy"}
Serving == {"read", "lookup", "compute", "reply"}

\* The types the shutdown depends on.
ShutdownTypes ==
    /\ handlerPc \in [Handlers -> HandlerLabels]
    /\ clientfd \in [Handlers -> Clients \cup {NoClient}]
    /\ client_queue \in Seq(Clients)
    /\ accepted \in Clients \cup {NoClient}
    /\ mainPc \in {"lock", "enqueue"} => accepted # NoClient
    /\ finished \in BOOLEAN
    /\ n \in Nat
    /\ n >= 2

\* Nothing has happened before the pool is created.
Untouched ==
    /\ \A h \in Handlers : handlerPc[h] = "not_created"
    /\ resizerPc = "not_created"
    /\ client_queue = <<>>

ShutdownInv ==
    /\ ShutdownTypes
    /\ finished => mainPc \in Closing
    /\ \A h \in Handlers : handlerPc[h] \in {"leave", "terminated"} => finished /\ client_queue = <<>>
    /\ \A h \in Handlers : clientfd[h] # NoClient => handlerPc[h] \in Serving
    /\ mainPc = "read_graph" => Untouched
    /\ mainPc \in {"sig_post", "sig_join"} => resizerPc = "terminated"
    /\ mainPc = "destroy" =>
          /\ \A h \in Handlers : handlerPc[h] \in {"not_created", "terminated"}
          /\ resizerPc \in {"not_created", "terminated"}
          /\ client_queue = <<>>

LEMMA ShutdownInit == Init => ShutdownInv
<1> SUFFICES ASSUME Init PROVE ShutdownInv
  OBVIOUS
<1>1. /\ mainPc = "read_graph"
      /\ handlerPc = [h \in Handlers |-> "not_created"]
      /\ clientfd = [h \in Handlers |-> NoClient]
      /\ resizerPc = "not_created"
      /\ accepted = NoClient
      /\ client_queue = <<>>
      /\ n = MinThread + 1
  BY DEF Init
<1>2. ~finished /\ finished \in BOOLEAN
  BY Zenon DEF Init
<1>3. ShutdownTypes
  BY <1>1, <1>2, ThreadsAssumption DEF ShutdownTypes, HandlerLabels
<1> QED
  BY <1>1, <1>2, <1>3 DEF ShutdownInv, Untouched

LEMMA StaysLarge == \A k \in Nat : k >= 2 => Enlarged(k) \in Nat /\ Enlarged(k) >= 2
<1> SUFFICES ASSUME NEW k \in Nat, k >= 2 PROVE Enlarged(k) \in Nat /\ Enlarged(k) >= 2
  OBVIOUS
<1>1. ((k - 1) * 5) \div 4 >= 1 /\ ((k - 1) * 5) \div 4 \in Int
  BY Z3
<1> QED
  BY <1>1 DEF Enlarged

LEMMA ShutdownMain == ShutdownInv /\ (MainStep \/ Sigint \/ HandleSigint) => ShutdownInv'
<1> SUFFICES ASSUME ShutdownInv, MainStep \/ Sigint \/ HandleSigint PROVE ShutdownInv'
  OBVIOUS
<1> USE DEF ShutdownInv, ShutdownTypes, Untouched, MainGoto, Closing, Serving,
            handlerVars, resizerVars, queueVars, loadVars, mainVars
<1>1. CASE ReadGraph
  BY <1>1 DEF ReadGraph
<1>2. CASE CreateHandler
  BY <1>2 DEF CreateHandler, HandlerGoto, HandlerLabels
<1>3. CASE CreateResizer
  BY <1>3 DEF CreateResizer
<1>4. CASE Accept
  BY <1>4, ClientsAssumption DEF Accept
<1>5. CASE Lock
  BY <1>5 DEF Lock
<1>6. CASE Enqueue
  BY <1>6 DEF Enqueue
<1>7. CASE Unlock
  BY <1>7 DEF Unlock
<1>8. CASE Forward
  BY <1>8 DEF Forward
<1>9. CASE Sigint
  BY <1>9 DEF Sigint, ServingLabels
<1>10. CASE SigFinish
  BY <1>10 DEF SigFinish
<1>11. CASE SigCancel
  BY <1>11 DEF SigCancel
<1>12. CASE SigCancelGarbage
  BY <1>12 DEF SigCancelGarbage
<1>13. CASE SigJoinResizer
  BY <1>13 DEF SigJoinResizer
<1>14. CASE SigPost
  BY <1>14 DEF SigPost
<1>15. CASE SigJoin
  <2>1. Created # {}
    <3>1. CASE Created = {}
      BY <1>15, <3>1, FS_EmptySet DEF SigJoin
    <3> QED
      BY <3>1
  <2>2. \A h \in Handlers : handlerPc[h] \in {"not_created", "terminated"}
    BY <1>15 DEF SigJoin, AllTerminated, Created
  <2>3. client_queue = <<>>
    BY <2>1, <2>2 DEF Created
  <2>4. /\ resizerPc = "terminated"
        /\ mainPc' = "destroy"
        /\ UNCHANGED <<accepted, handlerPc, clientfd, resizerPc, client_queue, finished, n>>
    BY <1>15 DEF SigJoin
  <2> QED
    BY <2>2, <2>3, <2>4
<1>16. CASE SigJoinGarbage
  BY <1>16 DEF SigJoinGarbage
<1>17. CASE Destroy
  BY <1>17 DEF Destroy
<1> QED
  BY <1>1, <1>2, <1>3, <1>4, <1>5, <1>6, <1>7, <1>8, <1>9, <1>10, <1>11, <1>12, <1>13,
     <1>14, <1>15, <1>16, <1>17 DEF MainStep, HandleSigint

LEMMA ShutdownHandlers ==
    ASSUME ShutdownInv, NEW h \in Handlers, HandlerStep(h) PROVE ShutdownInv'
<1> USE DEF ShutdownInv, ShutdownTypes, Untouched, HandlerGoto, HandlerLabels, Closing, Serving,
            handlerVars, resizerVars, queueVars, loadVars, mainVars
<1>1. CASE WaitToken(h)
  BY <1>1 DEF WaitToken
<1>2. CASE CheckFinished(h)
  BY <1>2 DEF CheckFinished
<1>3. CASE Leave(h)
  BY <1>3 DEF Leave
<1>4. CASE Count(h)
  BY <1>4 DEF Count
<1>5. CASE AskResize(h)
  BY <1>5 DEF AskResize
<1>6. CASE Take(h)
  BY <1>6 DEF Take
<1>7. CASE TakeFromEmpty(h)
  BY <1>7 DEF TakeFromEmpty
<1>8. CASE Lookup(h)
  BY <1>8 DEF Lookup
<1>9. CASE Compute(h)
  BY <1>9 DEF Compute
<1>10. CASE Reply(h)
  BY <1>10 DEF Reply
<1>11. CASE Uncount(h)
  BY <1>11 DEF Uncount
<1>12. CASE ReadRequest(h)
  BY <1>12 DEF ReadRequest
<1>13. CASE ConnectionFails(h)
  BY <1>13 DEF ConnectionFails
<1> QED
  BY <1>1, <1>2, <1>3, <1>4, <1>5, <1>6, <1>7, <1>8, <1>9, <1>10, <1>11, <1>12, <1>13
     DEF HandlerStep

LEMMA ShutdownResizer == ShutdownInv /\ ResizerStep => ShutdownInv'
<1> SUFFICES ASSUME ShutdownInv, ResizerStep PROVE ShutdownInv'
  OBVIOUS
<1> USE DEF ShutdownInv, ShutdownTypes, Untouched, ResizerGoto, Closing, Serving,
            handlerVars, resizerVars, queueVars, loadVars, mainVars
<1>1. CASE WaitResize
  BY <1>1 DEF WaitResize
<1>2. CASE TestSize
  BY <1>2 DEF TestSize
<1>3. CASE Grow
  BY <1>3, StaysLarge DEF Grow
<1>4. CASE Realloc
  BY <1>4 DEF Realloc
<1>5. CASE AssignPool
  BY <1>5 DEF AssignPool
<1>6. CASE LogGrowth
  BY <1>6 DEF LogGrowth
<1>7. CASE Spawn
  BY <1>7 DEF Spawn, HandlerGoto, HandlerLabels
<1>8. CASE SpawnedAll
  BY <1>8 DEF SpawnedAll
<1>9. CASE EndResize
  BY <1>9 DEF EndResize
<1>10. CASE CancelResizer
  BY <1>10 DEF CancelResizer
<1> QED
  BY <1>1, <1>2, <1>3, <1>4, <1>5, <1>6, <1>7, <1>8, <1>9, <1>10 DEF ResizerStep

LEMMA ShutdownStep == ShutdownInv /\ [Next]_vars => ShutdownInv'
<1>1. ShutdownInv /\ UNCHANGED vars => ShutdownInv'
  BY DEF ShutdownInv, ShutdownTypes, Untouched, vars, mainVars, handlerVars, resizerVars,
         queueVars, loadVars
<1> QED
  BY <1>1, ShutdownMain, ShutdownHandlers, ShutdownResizer, Zenon DEF Next, Serve

\* A handler of the pool terminates only after SIGINT, when no client waits in
\* the queue and none will be put there any more.
THEOREM NobodyLeaves == Spec => []NobodyLeavesEarly
<1>1. ShutdownInv => NobodyLeavesEarly
  BY DEF ShutdownInv, NobodyLeavesEarly, HandlersAt
<1> QED
  BY <1>1, ShutdownInit, ShutdownStep, PTL DEF Spec

\* Where the main thread is, or was when SIGINT came.
Place == IF interrupted = "no" THEN mainPc ELSE interrupted

\* The connection in the main thread's hands.  A SIGINT that comes under
\* graph_mutex stays at its first operation, which waits for that mutex.
AcceptInv ==
    /\ interrupted = "no" <=> mainPc \in ServingLabels
    /\ accepted # NoClient <=> Place \in {"lock", "enqueue"}
    /\ Place \in {"enqueue", "unlock"} => graph_mutex = 0
    /\ mainPc \in Closing => interrupted \notin {"enqueue", "unlock"}

LEMMA AcceptMain == ShutdownInv /\ AcceptInv /\ (MainStep \/ Sigint \/ HandleSigint) => AcceptInv'
<1> SUFFICES ASSUME ShutdownInv, AcceptInv, MainStep \/ Sigint \/ HandleSigint PROVE AcceptInv'
  OBVIOUS
<1> USE DEF AcceptInv, Place, MainGoto, Closing, ServingLabels, queueVars
<1>1. CASE ReadGraph \/ CreateHandler \/ CreateResizer
  BY <1>1 DEF ReadGraph, CreateHandler, CreateResizer, mainVars
<1>2. CASE Accept
  BY <1>2, ClientsAssumption DEF Accept
<1>3. CASE Lock
  BY <1>3 DEF Lock
<1>4. CASE Enqueue
  BY <1>4 DEF Enqueue
<1>5. CASE Unlock \/ Forward
  BY <1>5 DEF Unlock, Forward
<1>6. CASE Sigint
  BY <1>6 DEF Sigint
<1>7. CASE SigFinish
  BY <1>7 DEF SigFinish
<1>8. CASE SigCancel \/ SigJoinResizer \/ SigPost \/ SigJoin
  BY <1>8 DEF SigCancel, SigJoinResizer, SigPost, SigJoin
<1>9. CASE SigCancelGarbage \/ SigJoinGarbage \/ Destroy
  BY <1>9 DEF SigCancelGarbage, SigJoinGarbage, Destroy, mainVars
<1> QED
  BY <1>1, <1>2, <1>3, <1>4, <1>5, <1>6, <1>7, <1>8, <1>9 DEF MainStep, HandleSigint

LEMMA AcceptStep == ShutdownInv /\ AcceptInv /\ [Next]_vars => AcceptInv'
<1> SUFFICES ASSUME ShutdownInv, AcceptInv, [Next]_vars PROVE AcceptInv'
  OBVIOUS
<1>1. ASSUME NEW h \in Handlers, HandlerStep(h) PROVE UNCHANGED <<mainVars, graph_mutex>>
  BY <1>1 DEF HandlerStep, WaitToken, CheckFinished, Leave, Count, AskResize, Take, TakeFromEmpty,
         ReadRequest, ConnectionFails, Lookup, Compute, Reply, Uncount, queueVars
<1>2. ASSUME ResizerStep PROVE UNCHANGED <<mainVars, graph_mutex>>
  BY <1>2 DEF ResizerStep, WaitResize, TestSize, Grow, Realloc, AssignPool, LogGrowth, Spawn,
         SpawnedAll, EndResize, CancelResizer, queueVars
<1>3. UNCHANGED vars => UNCHANGED <<mainVars, graph_mutex>>
  BY DEF vars, queueVars
<1>4. UNCHANGED <<mainVars, graph_mutex>> => AcceptInv'
  BY DEF AcceptInv, Place, mainVars
<1> QED
  BY <1>1, <1>2, <1>3, <1>4, AcceptMain, Zenon DEF Next, Serve

\* Besides, when destroy_shared_resources begins, every thread that was created
\* has terminated and every connection that was queued has been answered and
\* closed; the one that may still be open was accepted and not queued yet when
\* SIGINT came.
THEOREM OrderlyEnd == Spec => []OrderlyShutdown
<1>1. Init => AcceptInv
  BY DEF Init, AcceptInv, Place, ServingLabels, Closing
<1>2. ShutdownInv /\ AcceptInv => QuietDestroy
  <2> SUFFICES ASSUME ShutdownInv, AcceptInv, mainPc = "destroy" PROVE QuietDestroy
    BY DEF QuietDestroy
  <2>1. /\ \A h \in Handlers : handlerPc[h] \in {"not_created", "terminated"}
        /\ resizerPc \in {"not_created", "terminated"}
        /\ client_queue = <<>>
    BY DEF ShutdownInv
  <2>2. \A h \in Handlers : clientfd[h] = NoClient
    BY <2>1 DEF ShutdownInv, Serving
  <2>3. accepted # NoClient <=> interrupted = "lock"
    BY DEF AcceptInv, Place, ServingLabels, Closing
  <2>4. Connected = {accepted} \ {NoClient}
    BY <2>1, <2>2 DEF Connected
  <2> QED
    BY <2>1, <2>3, <2>4 DEF QuietDestroy, AllTerminated, Created
<1>3. ShutdownInv => NobodyLeavesEarly
  BY DEF ShutdownInv, NobodyLeavesEarly, HandlersAt
<1>4. ShutdownInv /\ AcceptInv => OrderlyShutdown
  BY <1>2, <1>3 DEF OrderlyShutdown
<1> QED
  BY <1>1, <1>4, ShutdownInit, ShutdownStep, AcceptStep, PTL DEF Spec

-----------------------------------------------------------------------------
LEMMA OwnersMain == ShutdownInv /\ OneOwner /\ (MainStep \/ Sigint \/ HandleSigint) => OneOwner'
<1> SUFFICES ASSUME ShutdownInv, OneOwner, MainStep \/ Sigint \/ HandleSigint PROVE OneOwner'
  OBVIOUS
<1>1. CASE Accept
  <2>1. PICK c \in Clients \ Connected : accepted' = c
    BY <1>1 DEF Accept
  <2>2. /\ \A h \in Handlers : clientfd[h] # c
        /\ \A i \in 1..Len(client_queue) : client_queue[i] # c
    BY <2>1, ClientsAssumption DEF Connected
  <2>3. UNCHANGED <<clientfd, client_queue>>
    BY <1>1 DEF Accept, handlerVars, queueVars
  <2> QED
    BY <2>1, <2>2, <2>3 DEF OneOwner
<1>2. CASE Enqueue
  <2>1. /\ accepted \in Clients
        /\ client_queue \in Seq(Clients)
        /\ client_queue' = Append(client_queue, accepted)
        /\ accepted' = NoClient
        /\ clientfd' = clientfd
    BY <1>2 DEF Enqueue, MainGoto, handlerVars, ShutdownInv, ShutdownTypes
  <2>2. /\ Len(client_queue') = Len(client_queue) + 1
        /\ client_queue'[Len(client_queue) + 1] = accepted
        /\ \A i \in 1..Len(client_queue) : client_queue'[i] = client_queue[i]
        /\ Len(client_queue) \in Nat
    BY <2>1
  <2>3. \A i \in 1..Len(client_queue) : client_queue[i] \in Clients
    BY <2>1
  <2> QED
    BY <2>1, <2>2, <2>3, ClientsAssumption DEF OneOwner
<1>3. CASE ~Accept /\ ~Enqueue
  <2>1. UNCHANGED <<accepted, clientfd, client_queue>>
    BY <1>3 DEF MainStep, HandleSigint, ReadGraph, CreateHandler, CreateResizer, Lock, Unlock,
           Forward, Sigint, SigFinish, SigCancel, SigCancelGarbage, SigJoinResizer, SigPost,
           SigJoin, SigJoinGarbage, Destroy, mainVars, handlerVars, queueVars
  <2> QED
    BY <2>1 DEF OneOwner
<1> QED
  BY <1>1, <1>2, <1>3

LEMMA OwnersHandlers ==
    ASSUME ShutdownInv, OneOwner, NEW h \in Handlers, HandlerStep(h) PROVE OneOwner'
<1>1. CASE Take(h)
  <2>1. /\ client_queue \in Seq(Clients) /\ client_queue # <<>>
        /\ client_queue' = Tail(client_queue)
        /\ clientfd' = [clientfd EXCEPT ![h] = client_queue[1]]
        /\ accepted' = accepted
        /\ clientfd \in [Handlers -> Clients \cup {NoClient}]
    BY <1>1 DEF Take, mainVars, ShutdownInv, ShutdownTypes
  <2>2. /\ Len(client_queue) \in Nat \ {0}
        /\ Len(client_queue') = Len(client_queue) - 1
        /\ \A i \in 1..Len(client_queue') : client_queue'[i] = client_queue[i + 1]
    BY <2>1
  <2>3. \A i \in 1..Len(client_queue) : client_queue[i] \in Clients
    BY <2>1
  <2> QED
    BY <2>1, <2>2, <2>3, ClientsAssumption DEF OneOwner
<1>2. CASE Reply(h)
  <2>1. /\ clientfd' = [clientfd EXCEPT ![h] = NoClient]
        /\ UNCHANGED <<accepted, client_queue>>
        /\ clientfd \in [Handlers -> Clients \cup {NoClient}]
    BY <1>2 DEF Reply, mainVars, queueVars, ShutdownInv, ShutdownTypes
  <2> QED
    BY <2>1 DEF OneOwner
<1>3. CASE ~Take(h) /\ ~Reply(h)
  <2>1. UNCHANGED <<accepted, clientfd, client_queue>>
    BY <1>3 DEF HandlerStep, WaitToken, CheckFinished, Leave, Count, AskResize, TakeFromEmpty,
           ReadRequest, ConnectionFails, Lookup, Compute, Uncount, mainVars, handlerVars, queueVars
  <2> QED
    BY <2>1 DEF OneOwner
<1> QED
  BY <1>1, <1>2, <1>3

LEMMA OwnersStep == ShutdownInv /\ OneOwner /\ [Next]_vars => OneOwner'
<1> SUFFICES ASSUME ShutdownInv, OneOwner, [Next]_vars PROVE OneOwner'
  OBVIOUS
<1>1. CASE ResizerStep
  <2>1. UNCHANGED <<accepted, clientfd, client_queue>>
    BY <1>1 DEF ResizerStep, WaitResize, TestSize, Grow, Realloc, AssignPool, LogGrowth, Spawn,
           SpawnedAll, EndResize, CancelResizer, mainVars, handlerVars, queueVars
  <2> QED
    BY <2>1 DEF OneOwner
<1>2. CASE UNCHANGED vars
  BY <1>2 DEF OneOwner, vars, mainVars, handlerVars, queueVars
<1> QED
  BY <1>1, <1>2, OwnersMain, OwnersHandlers, Zenon DEF Next, Serve

\* No two threads ever hold the same connection, and none is served while it
\* is still queued.
THEOREM OneOwnerEach == Spec => []OneOwner
<1>1. Init => OneOwner
  BY ClientsAssumption DEF Init, OneOwner
<1> QED
  BY <1>1, ShutdownInit, ShutdownStep, OwnersStep, PTL DEF Spec

-----------------------------------------------------------------------------
\* A handler that goes from one operation to another changes the number of
\* handlers at a set of operations by at most one.
LEMMA Moves ==
    ASSUME NEW CONSTANT L, NEW h \in Handlers, NEW to,
           handlerPc \in [Handlers -> HandlerLabels],
           handlerPc' = [handlerPc EXCEPT ![h] = to]
    PROVE  /\ Cardinality(HandlersAt(L)) \in Nat
           /\ Cardinality(HandlersAt(L)') \in Nat
           /\ Cardinality(HandlersAt(L)') =
                 IF handlerPc[h] \in L
                 THEN IF to \in L THEN Cardinality(HandlersAt(L)) ELSE Cardinality(HandlersAt(L)) - 1
                 ELSE IF to \in L THEN Cardinality(HandlersAt(L)) + 1 ELSE Cardinality(HandlersAt(L))
<1>1. IsFiniteSet(HandlersAt(L)) /\ Cardinality(HandlersAt(L)) \in Nat
  <2>1. HandlersAt(L) \subseteq Handlers
    BY DEF HandlersAt
  <2> QED
    BY <2>1, HandlersAssumption, FS_Subset, FS_CardinalityType
<1>2. CASE (handlerPc[h] \in L) = (to \in L)
  <2>1. HandlersAt(L)' = HandlersAt(L)
    BY <1>2 DEF HandlersAt
  <2> QED
    BY <1>1, <1>2, <2>1
<1>3. CASE handlerPc[h] \in L /\ to \notin L
  <2>1. HandlersAt(L)' = HandlersAt(L) \ {h} /\ h \in HandlersAt(L)
    BY <1>3 DEF HandlersAt
  <2> QED
    BY <1>1, <1>3, <2>1, FS_RemoveElement, FS_CardinalityType
<1>4. CASE handlerPc[h] \notin L /\ to \in L
  <2>1. HandlersAt(L)' = HandlersAt(L) \cup {h} /\ h \notin HandlersAt(L)
    BY <1>4 DEF HandlersAt
  <2> QED
    BY <1>1, <1>4, <2>1, FS_AddElement, FS_CardinalityType
<1> QED
  BY <1>2, <1>3, <1>4

\* The number of busy handlers, whatever the other threads do.
LoadInv == handler_count \in Int /\ LoadIsBusy

BusyLabels == {"ask", "take", "read", "lookup", "compute", "reply", "uncount"}

LEMMA LoadStep == ShutdownInv /\ LoadInv /\ [Next]_vars => LoadInv'
<1> SUFFICES ASSUME ShutdownInv, LoadInv, [Next]_vars PROVE LoadInv'
  OBVIOUS
<1>0. /\ handlerPc \in [Handlers -> HandlerLabels]
      /\ handler_count \in Int
      /\ handler_count = Cardinality(HandlersAt(BusyLabels))
  BY DEF ShutdownInv, ShutdownTypes, LoadInv, LoadIsBusy, Busy, BusyLabels
<1>1. SUFFICES /\ handler_count' \in Int
               /\ handler_count' = Cardinality(HandlersAt(BusyLabels)')
  BY DEF LoadInv, LoadIsBusy, Busy, BusyLabels
<1>2. ASSUME NEW h \in Handlers, HandlerStep(h)
      PROVE  /\ handler_count' \in Int
             /\ handler_count' = Cardinality(HandlersAt(BusyLabels)')
  <2>1. CASE Count(h)
    <3>1. PICK to \in {"ask", "take"} :
             /\ handlerPc[h] = "count"
             /\ handlerPc' = [handlerPc EXCEPT ![h] = to]
             /\ handler_count' = handler_count + 1
      BY <2>1 DEF Count, HandlerGoto
    <3>2. handlerPc[h] \notin BusyLabels /\ to \in BusyLabels
      BY <3>1 DEF BusyLabels
    <3>3. Cardinality(HandlersAt(BusyLabels)') = Cardinality(HandlersAt(BusyLabels)) + 1
      BY <1>0, <3>1, <3>2, Moves, Zenon
    <3> QED
      BY <1>0, <3>1, <3>3
  <2>2. CASE Uncount(h)
    <3>1. /\ handlerPc[h] = "uncount"
          /\ handlerPc' = [handlerPc EXCEPT ![h] = "wait"]
          /\ handler_count' = handler_count - 1
      BY <2>2 DEF Uncount, HandlerGoto
    <3>2. handlerPc[h] \in BusyLabels /\ "wait" \notin BusyLabels
      BY <3>1 DEF BusyLabels
    <3>3. Cardinality(HandlersAt(BusyLabels)') = Cardinality(HandlersAt(BusyLabels)) - 1
      BY <1>0, <3>1, <3>2, Moves, Zenon
    <3> QED
      BY <1>0, <3>1, <3>3
  <2>3. CASE TakeFromEmpty(h) \/ ConnectionFails(h)
    BY <1>0, <2>3 DEF TakeFromEmpty, ConnectionFails, handlerVars, loadVars, HandlersAt
  <2>4. CASE ~Count(h) /\ ~Uncount(h) /\ ~TakeFromEmpty(h) /\ ~ConnectionFails(h)
    <3>1. handler_count' = handler_count
      BY <1>2, <2>4 DEF HandlerStep, WaitToken, CheckFinished, Leave, AskResize, Take, ReadRequest, Lookup,
             Compute, Reply, loadVars
    <3>2. PICK to \in HandlerLabels :
             /\ handlerPc' = [handlerPc EXCEPT ![h] = to]
             /\ (handlerPc[h] \in BusyLabels) = (to \in BusyLabels)
      BY <1>2, <2>4 DEF HandlerStep, WaitToken, CheckFinished, Leave, AskResize, Take, ReadRequest, Lookup,
             Compute, Reply, HandlerGoto, BusyLabels, HandlerLabels
    <3> QED
      BY <1>0, <3>1, <3>2, Moves
  <2> QED
    BY <2>1, <2>2, <2>3, <2>4
<1>3. ASSUME CreateHandler \/ Spawn
      PROVE  /\ handler_count' \in Int
             /\ handler_count' = Cardinality(HandlersAt(BusyLabels)')
  <2>1. PICK h \in Handlers : HandlerGoto(h, "not_created", "wait")
    BY <1>3 DEF CreateHandler, Spawn
  <2>2. handler_count' = handler_count
    BY <1>3 DEF CreateHandler, Spawn, loadVars
  <2>3. /\ handlerPc' = [handlerPc EXCEPT ![h] = "wait"]
        /\ handlerPc[h] \notin BusyLabels /\ "wait" \notin BusyLabels
    BY <2>1 DEF HandlerGoto, BusyLabels
  <2> QED
    BY <1>0, <2>2, <2>3, Moves
<1>4. ASSUME UNCHANGED <<handlerPc, handler_count>>
      PROVE  /\ handler_count' \in Int
             /\ handler_count' = Cardinality(HandlersAt(BusyLabels)')
  BY <1>0, <1>4 DEF HandlersAt
<1>5. \/ \E h \in Handlers : HandlerStep(h)
      \/ CreateHandler \/ Spawn
      \/ UNCHANGED <<handlerPc, handler_count>>
  BY DEF Next, Serve, MainStep, HandleSigint, ReadGraph, CreateResizer, Accept, Lock, Enqueue,
         Unlock, Forward, Sigint, SigFinish, SigCancel, SigCancelGarbage, SigJoinResizer, SigPost,
         SigJoin, SigJoinGarbage, Destroy, ResizerStep, WaitResize, TestSize, Grow, Realloc,
         AssignPool, LogGrowth, SpawnedAll, EndResize, CancelResizer,
         vars, handlerVars, loadVars
<1> QED
  BY <1>2, <1>3, <1>4, <1>5

LEMMA InitLoad == Init => LoadInv
<1> SUFFICES ASSUME Init PROVE LoadInv
  OBVIOUS
<1>1. Busy = {}
  BY DEF Init, Busy, HandlersAt
<1> QED
  BY <1>1, FS_EmptySet DEF Init, LoadInv, LoadIsBusy

\* handler_count, which decides whether the pool grows, is the number of busy
\* handlers, for any pool.
THEOREM LoadIsExact == Spec => []LoadIsBusy
<1>1. LoadInv => LoadIsBusy
  BY DEF LoadInv
<1> QED
  BY <1>1, InitLoad, ShutdownInit, ShutdownStep, LoadStep, PTL DEF Spec

-----------------------------------------------------------------------------
\* The pool: threads that exist, the size they may reach, and the one request
\* to enlarge it.  That request is what dynr->resize remembers.
PoolInv ==
    /\ Cardinality(Created) <= n - 1
    /\ n - 1 <= MaxThread
    /\ resizerPc = "grow" => 5 * n <= 4 * MaxThread
    /\ pooler_sem \in Nat
    /\ OneResizeAtATime
    /\ pooler_sem > 0 \/ ResizerBusy => resize

CreatedLabels == HandlerLabels \ {"not_created"}

LEMMA CreatedAt ==
    ASSUME ShutdownInv PROVE /\ Created = HandlersAt(CreatedLabels)
                             /\ Cardinality(Created) \in Nat
<1>1. Created = HandlersAt(CreatedLabels) /\ Created \subseteq Handlers
  BY DEF ShutdownInv, ShutdownTypes, Created, HandlersAt, CreatedLabels
<1> QED
  BY <1>1, HandlersAssumption, FS_Subset, FS_CardinalityType

\* "n * 1.25 <= max_thread" is tested before 25% are added to n - 1: the pool
\* stays within its limit, and never shrinks.
LEMMA EnlargedBounded ==
    ASSUME NEW k \in Nat, k >= 2, NEW max \in Nat, 5 * k <= 4 * max
    PROVE  Enlarged(k) - 1 <= max /\ Enlarged(k) >= k /\ Enlarged(k) \in Nat
<1>1. /\ ((k - 1) * 5) \div 4 \in Int
      /\ ((k - 1) * 5) \div 4 <= max
      /\ ((k - 1) * 5) \div 4 >= k - 1
  BY Z3
<1> QED
  BY <1>1 DEF Enlarged

\* Between two operations of the pool's threads, nothing changes here.
LEMMA PoolSame ==
    ASSUME ShutdownInv, PoolInv, ShutdownInv',
           Created' = Created, UNCHANGED <<n, pooler_sem, resize>>,
           resizerPc' = "grow" => 5 * n <= 4 * MaxThread,
           ResizerBusy' => ResizerBusy
    PROVE  PoolInv'
BY DEF PoolInv, OneResizeAtATime

LEMMA PoolHandlers ==
    ASSUME ShutdownInv, ShutdownInv', PoolInv, NEW h \in Handlers, HandlerStep(h) PROVE PoolInv'
<1>1. UNCHANGED <<n, resizerPc>>
  BY DEF HandlerStep, WaitToken, CheckFinished, Leave, Count, AskResize, Take, TakeFromEmpty,
         ReadRequest, ConnectionFails, Lookup, Compute, Reply, Uncount, loadVars, resizerVars
<1>2. Created' = Created
  <2>1. \/ handlerPc' = handlerPc
        \/ \E to \in CreatedLabels :
              handlerPc[h] # "not_created" /\ handlerPc' = [handlerPc EXCEPT ![h] = to]
    BY DEF HandlerStep, WaitToken, CheckFinished, Leave, Count, AskResize, Take, TakeFromEmpty,
           ReadRequest, ConnectionFails, Lookup, Compute, Reply, Uncount, HandlerGoto, handlerVars, CreatedLabels, HandlerLabels
  <2> QED
    BY <2>1 DEF Created, CreatedLabels, ShutdownInv, ShutdownTypes
<1>3. CASE AskResize(h)
  <2>1. resize' = TRUE /\ pooler_sem' = IF resize THEN pooler_sem ELSE pooler_sem + 1
    BY <1>3 DEF AskResize
  <2>2. CASE resize
    BY <1>1, <1>2, <2>1, <2>2 DEF PoolInv, OneResizeAtATime, ResizerBusy
  <2>3. CASE ~resize
    <3>1. pooler_sem = 0 /\ ~ResizerBusy
      BY <2>3 DEF PoolInv
    <3>2. pooler_sem' = 1 /\ ~ResizerBusy'
      BY <1>1, <2>1, <2>3, <3>1 DEF ResizerBusy
    <3> QED
      BY <1>1, <1>2, <2>1, <3>2 DEF PoolInv, OneResizeAtATime
  <2> QED
    BY <2>2, <2>3
<1>4. CASE ~AskResize(h)
  <2>1. UNCHANGED <<pooler_sem, resize>>
    BY <1>4 DEF HandlerStep, WaitToken, CheckFinished, Leave, Count, Take, TakeFromEmpty,
           ReadRequest, ConnectionFails, Lookup, Compute, Reply, Uncount, loadVars
  <2> QED
    BY <1>1, <1>2, <2>1, PoolSame DEF PoolInv, ResizerBusy
<1> QED
  BY <1>3, <1>4

\* A thread is created only below the size of the pool.
LEMMA PoolCreates ==
    ASSUME ShutdownInv, ShutdownInv', PoolInv, CreateHandler \/ Spawn PROVE PoolInv'
<1>1. PICK h \in Handlers : HandlerGoto(h, "not_created", "wait")
  BY DEF CreateHandler, Spawn
<1>2. /\ Cardinality(Created) < n - 1
      /\ UNCHANGED <<n, pooler_sem, resize, resizerPc>>
  BY DEF CreateHandler, Spawn, loadVars, resizerVars
<1>3. /\ handlerPc \in [Handlers -> HandlerLabels]
      /\ handlerPc' = [handlerPc EXCEPT ![h] = "wait"]
      /\ handlerPc[h] \notin CreatedLabels /\ "wait" \in CreatedLabels
  BY <1>1 DEF HandlerGoto, CreatedLabels, HandlerLabels, ShutdownInv, ShutdownTypes
<1>4. Cardinality(HandlersAt(CreatedLabels)') = Cardinality(HandlersAt(CreatedLabels)) + 1
  BY <1>3, Moves, Zenon
<1>5. /\ Created = HandlersAt(CreatedLabels)
      /\ Created' = HandlersAt(CreatedLabels)'
      /\ Cardinality(Created) \in Nat
  <2>1. Created' = HandlersAt(CreatedLabels)'
    BY DEF ShutdownInv, ShutdownTypes, Created, HandlersAt, CreatedLabels
  <2> QED
    BY <2>1, CreatedAt
<1>6. Cardinality(Created') <= n - 1
  <2>1. Cardinality(Created') = Cardinality(Created) + 1
    BY <1>4, <1>5, Zenon
  <2>2. n \in Nat
    BY DEF ShutdownInv, ShutdownTypes
  <2> QED
    BY <1>2, <1>5, <2>1, <2>2
<1> QED
  BY <1>2, <1>6 DEF PoolInv, OneResizeAtATime, ResizerBusy

LEMMA PoolResizer == 
    ASSUME ShutdownInv, ShutdownInv', PoolInv, ResizerStep, ~Spawn PROVE PoolInv'
<1>1. Created' = Created
  BY DEF ResizerStep, WaitResize, TestSize, Grow, Realloc, AssignPool, LogGrowth, SpawnedAll,
         EndResize, CancelResizer, handlerVars, Created
<1> USE DEF ResizerGoto, ResizerBusy, loadVars, PoolInv, OneResizeAtATime
<1>2. CASE WaitResize
  BY <1>1, <1>2 DEF WaitResize
<1>3. CASE TestSize
  BY <1>1, <1>3 DEF TestSize
<1>4. CASE Grow
  <2>1. n \in Nat /\ n >= 2 /\ 5 * n <= 4 * MaxThread /\ n' = Enlarged(n)
    BY <1>4 DEF Grow, ShutdownInv, ShutdownTypes
  <2>2. n' - 1 <= MaxThread /\ n' >= n /\ n' \in Nat
    BY <2>1, EnlargedBounded, ThreadsAssumption
  <2>3. Cardinality(Created) <= n' - 1
    BY <2>1, <2>2, CreatedAt
  <2>4. resizerPc' = "realloc" /\ ResizerBusy /\ UNCHANGED <<pooler_sem, resize>>
    BY <1>4 DEF Grow
  <2> QED
    BY <1>1, <2>2, <2>3, <2>4
<1>5. CASE Realloc \/ AssignPool \/ LogGrowth \/ SpawnedAll
  BY <1>1, <1>5 DEF Realloc, AssignPool, LogGrowth, SpawnedAll
<1>6. CASE EndResize
  BY <1>1, <1>6 DEF EndResize
<1>7. CASE CancelResizer
  BY <1>1, <1>7 DEF CancelResizer
<1> QED
  BY <1>2, <1>3, <1>4, <1>5, <1>6, <1>7 DEF ResizerStep

LEMMA PoolStep == ShutdownInv /\ PoolInv /\ [Next]_vars => PoolInv'
<1> SUFFICES ASSUME ShutdownInv, PoolInv, [Next]_vars PROVE PoolInv'
  OBVIOUS
<1>1. ShutdownInv'
  BY ShutdownStep
<1>2. ASSUME MainStep \/ Sigint \/ HandleSigint \/ UNCHANGED vars, ~CreateHandler
      PROVE  PoolInv'
  <2>1. UNCHANGED <<handlerPc, n, pooler_sem, resize>>
    BY <1>2 DEF MainStep, HandleSigint, ReadGraph, CreateResizer, Accept, Lock, Enqueue, Unlock,
           Forward, Sigint, SigFinish, SigCancel, SigCancelGarbage, SigJoinResizer, SigPost,
           SigJoin, SigJoinGarbage, Destroy, vars, handlerVars, loadVars
  <2>2. resizerPc' = resizerPc \/ resizerPc' = "wait"
    BY <1>2 DEF MainStep, HandleSigint, ReadGraph, CreateResizer, Accept, Lock, Enqueue, Unlock,
           Forward, Sigint, SigFinish, SigCancel, SigCancelGarbage, SigJoinResizer, SigPost,
           SigJoin, SigJoinGarbage, Destroy, vars, resizerVars
  <2> QED
    BY <1>1, <2>1, <2>2, PoolSame DEF PoolInv, ResizerBusy, Created
<1> QED
  BY <1>1, <1>2, PoolHandlers, PoolCreates, PoolResizer, Zenon DEF Next, Serve, MainStep

\* The load is exact, the pool stays within its limit and at most one
\* enlargement is under way, for any size of the pool, its limit and the load.
THEOREM PoolHolds == Spec => []PoolConsistent
<1>1. Init => PoolInv
  <2> SUFFICES ASSUME Init PROVE PoolInv
    OBVIOUS
  <2>1. Created = {}
    BY DEF Init, Created
  <2>2. Cardinality(Created) = 0
    BY <2>1, FS_EmptySet
  <2> QED
    BY <2>2, ThreadsAssumption DEF Init, PoolInv, OneResizeAtATime, ResizerBusy
<1>2. Init => LoadInv
  BY InitLoad
<1>3. PoolInv /\ LoadInv => PoolConsistent
  BY DEF PoolInv, LoadInv, PoolConsistent, PoolBounded
<1> QED
  BY <1>1, <1>2, <1>3, ShutdownInit, ShutdownStep, LoadStep, PoolStep, PTL DEF Spec

-----------------------------------------------------------------------------
\* The tokens of handler_sem, and where SIGINT can have come.
TokenInv ==
    /\ TokensMatch
    /\ handler_sem \in Nat
    /\ mainPc \in ServingLabels <=> interrupted = "no"
    /\ mainPc \in {"sig_finish", "sig_cancel", "sig_join_resizer", "sig_post"}
          => interrupted # "read_graph"

HolderLabels == {"check", "leave", "count", "ask", "take"}

\* The equation is about four numbers.
LEMMA Balance ==
    ASSUME ShutdownInv, TokenInv, handler_sem' \in Nat, Len(client_queue') \in Nat,
           Cardinality(HandlersAt(HolderLabels)') \in Nat,
           UNCHANGED <<mainPc, interrupted>>,
           handler_sem' + Cardinality(HandlersAt(HolderLabels)') + Len(client_queue)
             = handler_sem + Cardinality(HandlersAt(HolderLabels)) + Len(client_queue'),
           Cardinality(HandlersAt(HolderLabels)) \in Nat
    PROVE  TokenInv'
<1>1. Len(client_queue) \in Nat
  BY DEF ShutdownInv, ShutdownTypes
<1>2. Owed' = Owed /\ Extra' = Extra /\ Owed \in Int /\ Extra \in Int
  BY DEF Owed, Extra
<1>3. /\ handler_sem \in Int
      /\ handler_sem + Cardinality(HandlersAt(HolderLabels)) + Owed = Len(client_queue) + Extra
  BY DEF TokenInv, TokensMatch, TokenHolders, HolderLabels
<1>4. handler_sem' + Cardinality(HandlersAt(HolderLabels)') + Owed' = Len(client_queue') + Extra'
  <2> DEFINE held == Cardinality(HandlersAt(HolderLabels))
             heldThen == Cardinality(HandlersAt(HolderLabels)')
             queue == Len(client_queue)
             queueThen == Len(client_queue')
             tokensThen == handler_sem'
  <2>1. /\ handler_sem \in Int /\ tokensThen \in Int
        /\ held \in Int /\ heldThen \in Int /\ queue \in Int /\ queueThen \in Int
        /\ Owed \in Int /\ Extra \in Int
        /\ tokensThen + heldThen + queue = handler_sem + held + queueThen
        /\ handler_sem + held + Owed = queue + Extra
    BY <1>1, <1>2, <1>3
  <2> HIDE DEF held, heldThen, queue, queueThen, tokensThen
  <2>2. tokensThen + heldThen + Owed = queueThen + Extra
    BY <2>1
  <2> QED
    BY <1>2, <2>2, Zenon DEF heldThen, queueThen, tokensThen
<1>5. TokensMatch'
  BY <1>4 DEF TokensMatch, TokenHolders, HolderLabels
<1> QED
  BY <1>5 DEF TokenInv

LEMMA HoldersFinite == Cardinality(HandlersAt(HolderLabels)) \in Nat
<1>1. HandlersAt(HolderLabels) \subseteq Handlers
  BY DEF HandlersAt
<1> QED
  BY <1>1, HandlersAssumption, FS_Subset, FS_CardinalityType

LEMMA TokensMain ==
    ShutdownInv /\ TokenInv /\ (MainStep \/ Sigint \/ HandleSigint) /\ ~CreateHandler => TokenInv'
<1> SUFFICES ASSUME ShutdownInv, TokenInv, MainStep \/ Sigint \/ HandleSigint, ~CreateHandler
             PROVE  TokenInv'
  OBVIOUS
<1> DEFINE K == Cardinality(TokenHolders)
<1>1. handlerPc' = handlerPc
  BY DEF MainStep, HandleSigint, ReadGraph, CreateResizer, Accept, Lock, Enqueue, Unlock,
         Forward, Sigint, SigFinish, SigCancel, SigCancelGarbage, SigJoinResizer, SigPost,
         SigJoin, SigJoinGarbage, Destroy, handlerVars
<1>2. K' = K /\ K \in Nat
  BY <1>1, HoldersFinite DEF TokenHolders, HandlersAt, HolderLabels
<1>3. /\ handler_sem \in Nat
      /\ handler_sem + K + Owed = Len(client_queue) + Extra
      /\ Len(client_queue) \in Nat
      /\ mainPc \in ServingLabels <=> interrupted = "no"
      /\ mainPc \in {"sig_finish", "sig_cancel", "sig_join_resizer", "sig_post"}
            => interrupted # "read_graph"
      /\ client_queue \in Seq(Clients)
      /\ mainPc = "enqueue" => accepted \in Clients
  BY DEF TokenInv, TokensMatch, ShutdownInv, ShutdownTypes
<1> HIDE DEF K
<1>4. SUFFICES /\ handler_sem' \in Nat
               /\ handler_sem' + K' + Owed' = Len(client_queue') + Extra'
               /\ mainPc' \in ServingLabels <=> interrupted' = "no"
               /\ mainPc' \in {"sig_finish", "sig_cancel", "sig_join_resizer", "sig_post"}
                     => interrupted' # "read_graph"
  BY DEF TokenInv, TokensMatch, K
<1> USE <1>2, <1>3 DEF MainGoto, Owed, Extra, ServingLabels, loadVars, queueVars
<1>5. CASE ReadGraph
  BY <1>5 DEF ReadGraph
<1>6. CASE CreateResizer
  BY <1>6 DEF CreateResizer
<1>7. CASE Accept
  BY <1>7 DEF Accept
<1>8. CASE Lock
  BY <1>8 DEF Lock
<1>9. CASE Enqueue
  <2>1. Len(client_queue') = Len(client_queue) + 1
    BY <1>9 DEF Enqueue
  <2> QED
    BY <1>9, <2>1 DEF Enqueue
<1>10. CASE Unlock
  BY <1>10 DEF Unlock
<1>11. CASE Forward
  BY <1>11 DEF Forward
<1>12. CASE Sigint
  BY <1>12 DEF Sigint
<1>13. CASE SigFinish
  BY <1>13 DEF SigFinish
<1>14. CASE SigCancel
  BY <1>14 DEF SigCancel
<1>15. CASE SigCancelGarbage
  BY <1>15 DEF SigCancelGarbage, mainVars
<1>16. CASE SigJoinResizer
  BY <1>16 DEF SigJoinResizer
<1>17. CASE SigPost
  BY <1>17 DEF SigPost
<1>18. CASE SigJoin
  BY <1>18 DEF SigJoin
<1>19. CASE SigJoinGarbage
  BY <1>19 DEF SigJoinGarbage, mainVars
<1>20. CASE Destroy
  BY <1>20 DEF Destroy, mainVars
<1> QED
  BY <1>5, <1>6, <1>7, <1>8, <1>9, <1>10, <1>11, <1>12, <1>13, <1>14, <1>15, <1>16, <1>17,
     <1>18, <1>19, <1>20 DEF MainStep, HandleSigint

\* What a step of a handler moves: tokens, holders and queued connections.
LEMMA TokensHandlers ==
    ASSUME ShutdownInv, TokenInv, NEW h \in Handlers, HandlerStep(h) PROVE TokenInv'
<1> DEFINE K == Cardinality(HandlersAt(HolderLabels))
<1>1. /\ handlerPc \in [Handlers -> HandlerLabels]
      /\ handler_sem \in Nat
      /\ client_queue \in Seq(Clients)
      /\ K \in Nat
  BY HoldersFinite DEF ShutdownInv, ShutdownTypes, TokenInv
<1>2. UNCHANGED <<mainPc, interrupted>>
  BY DEF HandlerStep, WaitToken, CheckFinished, Leave, Count, AskResize, Take, TakeFromEmpty,
         ReadRequest, ConnectionFails, Lookup, Compute, Reply, Uncount, mainVars
<1>3. CASE WaitToken(h)
  <2>1. /\ handlerPc' = [handlerPc EXCEPT ![h] = "check"]
        /\ handlerPc[h] \notin HolderLabels /\ "check" \in HolderLabels
        /\ handler_sem > 0 /\ handler_sem' = handler_sem - 1
        /\ client_queue' = client_queue
    BY <1>3 DEF WaitToken, HandlerGoto, HolderLabels
  <2>2. Cardinality(HandlersAt(HolderLabels)') = K + 1 /\ Cardinality(HandlersAt(HolderLabels)') \in Nat
    BY <1>1, <2>1, Moves, Zenon
  <2> QED
    BY <1>1, <1>2, <2>1, <2>2, Balance
<1>4. CASE Leave(h)
  <2>1. /\ handlerPc' = [handlerPc EXCEPT ![h] = "terminated"]
        /\ handlerPc[h] \in HolderLabels /\ "terminated" \notin HolderLabels
        /\ handler_sem' = handler_sem + 1
        /\ client_queue' = client_queue
    BY <1>4 DEF Leave, HandlerGoto, HolderLabels
  <2>2. Cardinality(HandlersAt(HolderLabels)') = K - 1 /\ Cardinality(HandlersAt(HolderLabels)') \in Nat
    BY <1>1, <2>1, Moves, Zenon
  <2> QED
    BY <1>1, <1>2, <2>1, <2>2, Balance
<1>5. CASE Take(h)
  <2>1. /\ handlerPc' = [handlerPc EXCEPT ![h] = "read"]
        /\ handlerPc[h] \in HolderLabels /\ "read" \notin HolderLabels
        /\ handler_sem' = handler_sem
        /\ client_queue # <<>> /\ client_queue' = Tail(client_queue)
    BY <1>5 DEF Take, HandlerGoto, HolderLabels
  <2>2. Cardinality(HandlersAt(HolderLabels)') = K - 1 /\ Cardinality(HandlersAt(HolderLabels)') \in Nat
    BY <1>1, <2>1, Moves, Zenon
  <2>3. Len(client_queue') = Len(client_queue) - 1 /\ Len(client_queue') \in Nat
    BY <1>1, <2>1
  <2> QED
    BY <1>1, <1>2, <2>1, <2>2, <2>3, Balance
<1>6. CASE ~WaitToken(h) /\ ~Leave(h) /\ ~Take(h)
  <2>1. UNCHANGED <<handler_sem, client_queue>>
    BY <1>6 DEF HandlerStep, CheckFinished, Count, AskResize, TakeFromEmpty, ReadRequest,
           ConnectionFails, Lookup, Compute,
           Reply, Uncount, queueVars
  <2>2. CASE TakeFromEmpty(h) \/ ConnectionFails(h)
    <3>1. HandlersAt(HolderLabels)' = HandlersAt(HolderLabels)
      BY <2>2 DEF TakeFromEmpty, ConnectionFails, handlerVars, HandlersAt
    <3> QED
      BY <1>1, <1>2, <2>1, <3>1, Balance
  <2>3. CASE ~TakeFromEmpty(h) /\ ~ConnectionFails(h)
    <3>1. PICK to \in HandlerLabels :
             /\ handlerPc' = [handlerPc EXCEPT ![h] = to]
             /\ (handlerPc[h] \in HolderLabels) = (to \in HolderLabels)
      BY <1>6, <2>3 DEF HandlerStep, CheckFinished, Count, AskResize, ReadRequest, Lookup, Compute, Reply,
             Uncount, HandlerGoto, HolderLabels, HandlerLabels
    <3>2. Cardinality(HandlersAt(HolderLabels)') = K /\ Cardinality(HandlersAt(HolderLabels)') \in Nat
      BY <1>1, <3>1, Moves
    <3> QED
      BY <1>1, <1>2, <2>1, <3>2, Balance
  <2> QED
    BY <2>2, <2>3
<1> QED
  BY <1>3, <1>4, <1>5, <1>6

LEMMA TokensStep == ShutdownInv /\ TokenInv /\ [Next]_vars => TokenInv'
<1> SUFFICES ASSUME ShutdownInv, TokenInv, [Next]_vars PROVE TokenInv'
  OBVIOUS
<1>1. ASSUME CreateHandler \/ Spawn PROVE TokenInv'
  <2>1. PICK h \in Handlers : HandlerGoto(h, "not_created", "wait")
    BY <1>1 DEF CreateHandler, Spawn
  <2>2. UNCHANGED <<mainPc, interrupted, handler_sem, client_queue>>
    BY <1>1 DEF CreateHandler, Spawn, mainVars, queueVars
  <2>3. /\ handlerPc \in [Handlers -> HandlerLabels]
        /\ handlerPc' = [handlerPc EXCEPT ![h] = "wait"]
        /\ handlerPc[h] \notin HolderLabels /\ "wait" \notin HolderLabels
    BY <2>1 DEF HandlerGoto, HolderLabels, ShutdownInv, ShutdownTypes
  <2>4. /\ Cardinality(HandlersAt(HolderLabels)') = Cardinality(HandlersAt(HolderLabels))
        /\ Cardinality(HandlersAt(HolderLabels)') \in Nat
    BY <2>3, Moves
  <2>5. handler_sem \in Nat /\ Len(client_queue) \in Nat
    BY DEF TokenInv, ShutdownInv, ShutdownTypes
  <2> QED
    BY <2>2, <2>4, <2>5, Balance
<1>2. ASSUME ResizerStep, ~Spawn PROVE TokenInv'
  <2>1. UNCHANGED <<mainPc, interrupted, handlerPc, handler_sem, client_queue>>
    BY <1>2 DEF ResizerStep, WaitResize, TestSize, Grow, Realloc, AssignPool, LogGrowth,
           SpawnedAll, EndResize, CancelResizer, mainVars, handlerVars, queueVars
  <2> QED
    BY <2>1 DEF TokenInv, TokensMatch, TokenHolders, HandlersAt, Owed, Extra
<1>3. CASE UNCHANGED vars
  BY <1>3 DEF TokenInv, TokensMatch, TokenHolders, HandlersAt, Owed, Extra,
         vars, mainVars, handlerVars, queueVars
<1> QED
  BY <1>1, <1>2, <1>3, TokensMain, TokensHandlers, Zenon DEF Next, Serve

LEMMA InitTokens == Init => TokenInv
<1> SUFFICES ASSUME Init PROVE TokenInv
  OBVIOUS
<1>1. TokenHolders = {}
  BY DEF Init, TokenHolders, HandlersAt
<1>2. /\ mainPc = "read_graph" /\ interrupted = "no"
      /\ handler_sem = 0 /\ client_queue = <<>>
  BY DEF Init
<1>3. Cardinality(TokenHolders) = 0 /\ Len(client_queue) = 0
  BY <1>1, <1>2, FS_EmptySet
<1>4. Owed = 0 /\ Extra = 0
  BY <1>2 DEF Owed, Extra
<1> QED
  BY <1>2, <1>3, <1>4 DEF TokenInv, TokensMatch, ServingLabels

\* The tokens of handler_sem and the queued connections agree at every step of
\* every thread, up to the connection in the main thread's hands and the token
\* of the shutdown.
THEOREM TokensAgree == Spec => []TokensMatch
<1>1. Init => TokenInv
  BY InitTokens
<1>2. TokenInv => TokensMatch
  BY DEF TokenInv
<1> QED
  BY <1>1, <1>2, ShutdownInit, ShutdownStep, TokensStep, PTL DEF Spec

\* Before a SIGINT, no handler calls dequeue on an empty queue, which would end
\* the process.
THEOREM DequeueFindsOne == Spec => []NoEmptyDequeue
<1>1. ShutdownInv /\ TokenInv => NoEmptyDequeue
  <2> SUFFICES ASSUME ShutdownInv, TokenInv, interrupted = "no",
                      HandlersAt({"count", "ask", "take"}) # {}
               PROVE  client_queue # <<>>
    BY DEF NoEmptyDequeue
  <2>1. HandlersAt(HolderLabels) # {}
    BY DEF HandlersAt, HolderLabels
  <2>2. IsFiniteSet(HandlersAt(HolderLabels)) /\ Cardinality(HandlersAt(HolderLabels)) \in Nat \ {0}
    <3>1. HandlersAt(HolderLabels) \subseteq Handlers
      BY DEF HandlersAt
    <3> QED
      BY <2>1, <3>1, HandlersAssumption, HoldersFinite, FS_Subset, FS_EmptySet
  <2>3. Extra = 0 /\ Owed \in Nat
    BY DEF TokenInv, Extra, Owed, ServingLabels
  <2>4. /\ handler_sem \in Nat /\ Len(client_queue) \in Nat
        /\ handler_sem + Cardinality(HandlersAt(HolderLabels)) + Owed = Len(client_queue) + Extra
    BY DEF TokenInv, TokensMatch, TokenHolders, HolderLabels, ShutdownInv, ShutdownTypes
  <2>5. Len(client_queue) # 0
    BY <2>2, <2>3, <2>4
  <2> QED
    BY <2>5
<1>2. Init => TokenInv
  BY InitTokens
<1> QED
  BY <1>1, <1>2, ShutdownInit, ShutdownStep, TokensStep, PTL DEF Spec

-----------------------------------------------------------------------------
(* One server at a time, for any set of processes.                         *)

CONSTANT Procs
VARIABLES pc, sem_exists, refused

Guard == INSTANCE SingleInstance

GuardInv == Guard!TypeOK /\ Guard!OneServes

\* However processes start, die and stop, at most one of them sets up or
\* serves, and the name exists as long as it does.
THEOREM Exclusive == Guard!Spec => []Guard!OneServes
<1> USE DEF GuardInv, Guard!TypeOK, Guard!OneServes, Guard!Owners, Guard!Labels, Guard!Goto
<1>1. Guard!Init => GuardInv
  BY DEF Guard!Init
<1>2. GuardInv /\ [Guard!Next]_(Guard!vars) => GuardInv'
  <2> SUFFICES ASSUME GuardInv, [Guard!Next]_(Guard!vars) PROVE GuardInv'
    OBVIOUS
  <2>1. CASE UNCHANGED Guard!vars
    BY <2>1 DEF Guard!vars
  <2>2. ASSUME NEW p \in Procs, Guard!Start(p) PROVE GuardInv'
    BY <2>2 DEF Guard!Start
  <2>3. ASSUME NEW p \in Procs, Guard!CreateSem(p) PROVE GuardInv'
    BY <2>3 DEF Guard!CreateSem
  <2>4. ASSUME NEW p \in Procs, Guard!Refuse(p) PROVE GuardInv'
    BY <2>4 DEF Guard!Refuse
  <2>5. ASSUME NEW p \in Procs, Guard!SetUp(p) PROVE GuardInv'
    BY <2>5 DEF Guard!SetUp
  <2>6. ASSUME NEW p \in Procs, Guard!Die(p) PROVE GuardInv'
    BY <2>6 DEF Guard!Die
  <2>7. ASSUME NEW p \in Procs, Guard!DeleteSem(p) PROVE GuardInv'
    <3>1. Guard!TypeOK' /\ ~sem_exists'
      BY <2>7 DEF Guard!DeleteSem
    <3>2. Guard!Owners = {p}
      BY <2>7 DEF Guard!DeleteSem
    <3>3. Guard!Owners' = {}
      BY <2>7, <3>2 DEF Guard!DeleteSem
    <3> QED
      BY <3>1, <3>3
  <2>8. ASSUME NEW p \in Procs, Guard!Exit(p) PROVE GuardInv'
    BY <2>8 DEF Guard!Exit
  <2> QED
    BY <2>1, <2>2, <2>3, <2>4, <2>5, <2>6, <2>7, <2>8 DEF Guard!Next
<1> QED
  BY <1>1, <1>2, PTL DEF Guard!Spec
=============================================================================
