------------------------------- MODULE Server -------------------------------
(***************************************************************************)
(* The threads of final-project/server.c: the main thread, which creates   *)
(* the pool, accepts connections and runs the SIGINT handler; the handlers *)
(* of the pool; and the thread that enlarges the pool.                     *)
(*                                                                         *)
(* A section under load_mutex, and a handler's section under graph_mutex,  *)
(* is one step: nothing in it blocks, and no other thread can look in      *)
(* between.  The main thread's section under graph_mutex is three steps,   *)
(* because SIGINT is handled on that thread and may interrupt it anywhere. *)
(* (Linux gives a signal of the process to its main thread, which never    *)
(* blocks SIGINT: tid is main_thread in handle_sigint.)                    *)
(*                                                                         *)
(* The database is used here through what ReadersWriters establishes: a    *)
(* lookup that hits or misses, at one instant, and never blocks for ever.  *)
(***************************************************************************)
EXTENDS Integers, Sequences, FiniteSets

CONSTANTS Handlers,     \* enough threads for the pool to grow
          Clients,      \* clients, each with one connection at a time
          MinThread,    \* option -s: handlers at startup
          MaxThread     \* option -x: handlers at most

ASSUME HandlersAssumption == IsFiniteSet(Handlers)
ASSUME ThreadsAssumption ==
    /\ MinThread \in Nat \ {0}
    /\ MaxThread \in Nat
    /\ MinThread <= MaxThread

VARIABLES
    process,        \* "running", "exited" by handle_sigint, "failed" with a
                    \* client's connection, or "aborted"
    mainPc,         \* the next operation of the main thread
    interrupted,    \* the operation SIGINT came before, or "no"
    accepted,       \* the connection in the main thread's clientfd
    handlerPc,      \* the next operation of each handler
    clientfd,       \* the connection each handler serves
    resizerPc,      \* the next operation of the resizer thread
    cancelled,      \* the resizer has been asked to terminate
    client_queue,   \* accepted connections nobody serves yet
    graph_mutex,    \* semaphore: guards client_queue, finished and the graph
    handler_sem,    \* semaphore: one token per queued connection
    pooler_sem,     \* semaphore: a token when the pool should grow
    finished,       \* SIGINT has been received
    n,              \* size of dynr->pool: the resizer and n - 1 handlers
    handler_count,  \* busy handlers
    resize          \* the pool is being enlarged

mainVars    == <<mainPc, interrupted, accepted>>
handlerVars == <<handlerPc, clientfd>>
resizerVars == <<resizerPc, cancelled>>
queueVars   == <<client_queue, graph_mutex, handler_sem, finished>>
loadVars    == <<pooler_sem, n, handler_count, resize>>
vars == <<process, mainVars, handlerVars, resizerVars, queueVars, loadVars>>

NoClient == "none"

ASSUME ClientsAssumption == NoClient \notin Clients

ServingLabels == {"read_graph", "create", "accept", "lock", "enqueue", "unlock", "forward"}
SigintLabels  == {"sig_finish", "sig_cancel", "sig_join_resizer", "sig_post",
                  "sig_join", "destroy"}
HandlerLabels == {"not_created", "wait", "check", "leave", "count", "ask", "take",
                  "read", "lookup", "compute", "reply", "uncount", "terminated"}
ResizerLabels == {"not_created", "wait", "test", "grow", "realloc", "assign", "log",
                  "spawn", "done", "terminated"}

\* init_shared_resources; dynr->resize is allocated and never set.
Init ==
    /\ process = "running"
    /\ mainPc = "read_graph"
    /\ interrupted = "no"
    /\ accepted = NoClient
    /\ handlerPc = [h \in Handlers |-> "not_created"]
    /\ clientfd = [h \in Handlers |-> NoClient]
    /\ resizerPc = "not_created"
    /\ cancelled = FALSE
    /\ client_queue = <<>>
    /\ graph_mutex = 1
    /\ handler_sem = 0
    /\ pooler_sem = 0
    /\ finished = FALSE
    /\ n = MinThread + 1
    /\ handler_count = 0
    /\ resize \in BOOLEAN

-----------------------------------------------------------------------------
Created == {h \in Handlers : handlerPc[h] # "not_created"}

\* A connection is open from accept to close.
Connected == ({accepted} \cup {clientfd[h] : h \in Handlers}
              \cup {client_queue[i] : i \in 1..Len(client_queue)}) \ {NoClient}

\* Nothing runs after exit.
Running == process = "running"

MainGoto(from, to) == Running /\ mainPc = from /\ mainPc' = to

HandlerGoto(h, from, to) ==
    /\ Running
    /\ handlerPc[h] = from
    /\ handlerPc' = [handlerPc EXCEPT ![h] = to]

ResizerGoto(from, to) == Running /\ resizerPc = from /\ resizerPc' = to

-----------------------------------------------------------------------------
(* The main thread: create_pool and connection_listener. *)

ReadGraph ==
    /\ MainGoto("read_graph", "create")
    /\ UNCHANGED <<process, interrupted, accepted, handlerVars, resizerVars, queueVars, loadVars>>

CreateHandler ==
    /\ mainPc = "create"
    /\ Cardinality(Created) < n - 1
    /\ \E h \in Handlers : HandlerGoto(h, "not_created", "wait")
    /\ UNCHANGED <<process, mainVars, clientfd, resizerVars, queueVars, loadVars>>

CreateResizer ==
    /\ MainGoto("create", "accept")
    /\ Cardinality(Created) >= n - 1
    /\ resizerPc' = "wait"
    /\ UNCHANGED <<process, interrupted, accepted, handlerVars, cancelled, queueVars, loadVars>>

Accept ==
    /\ MainGoto("accept", "lock")
    /\ \E c \in Clients \ Connected : accepted' = c
    /\ UNCHANGED <<process, interrupted, handlerVars, resizerVars, queueVars, loadVars>>

Lock ==
    /\ MainGoto("lock", "enqueue")
    /\ graph_mutex = 1
    /\ graph_mutex' = 0
    /\ UNCHANGED <<process, interrupted, accepted, handlerVars, resizerVars,
                   client_queue, handler_sem, finished, loadVars>>

Enqueue ==
    /\ MainGoto("enqueue", "unlock")
    /\ client_queue' = Append(client_queue, accepted)
    /\ accepted' = NoClient
    /\ UNCHANGED <<process, interrupted, handlerVars, resizerVars,
                   graph_mutex, handler_sem, finished, loadVars>>

Unlock ==
    /\ MainGoto("unlock", "forward")
    /\ graph_mutex' = 1
    /\ UNCHANGED <<process, interrupted, accepted, handlerVars, resizerVars,
                   client_queue, handler_sem, finished, loadVars>>

\* Faulty variant: a token only when the queue was empty.
Forward_First ==
    /\ MainGoto("forward", "accept")
    /\ handler_sem' = IF Len(client_queue) = 1 THEN handler_sem + 1 ELSE handler_sem
    /\ UNCHANGED <<process, interrupted, accepted, handlerVars, resizerVars,
                   client_queue, graph_mutex, finished, loadVars>>

Forward ==
    /\ MainGoto("forward", "accept")
    /\ handler_sem' = handler_sem + 1
    /\ UNCHANGED <<process, interrupted, accepted, handlerVars, resizerVars,
                   client_queue, graph_mutex, finished, loadVars>>

MainStep == ReadGraph \/ CreateHandler \/ CreateResizer
            \/ Accept \/ Lock \/ Enqueue \/ Unlock \/ Forward

-----------------------------------------------------------------------------
(* A thread of the pool: connection_handler. *)

WaitToken(h) ==
    /\ HandlerGoto(h, "wait", "check")
    /\ handler_sem > 0
    /\ handler_sem' = handler_sem - 1
    /\ UNCHANGED <<process, mainVars, clientfd, resizerVars,
                   client_queue, graph_mutex, finished, loadVars>>

\* is_finished
CheckFinished(h) ==
    /\ HandlerGoto(h, "check", IF finished /\ client_queue = <<>> THEN "leave" ELSE "count")
    /\ graph_mutex = 1
    /\ UNCHANGED <<process, mainVars, clientfd, resizerVars, queueVars, loadVars>>

\* Faulty variant: the token is not handed on.
Leave_Keeps(h) ==
    /\ HandlerGoto(h, "leave", "terminated")
    /\ UNCHANGED <<process, mainVars, clientfd, resizerVars, queueVars, loadVars>>

\* The token is handed on to the next handler that has to terminate.
Leave(h) ==
    /\ HandlerGoto(h, "leave", "terminated")
    /\ handler_sem' = handler_sem + 1
    /\ UNCHANGED <<process, mainVars, clientfd, resizerVars,
                   client_queue, graph_mutex, finished, loadVars>>

\* load >= MAX_LOAD, the load being busy / (n - 1) and MAX_LOAD 0.75
NeedResize(busy) == 4 * busy >= 3 * (n - 1)

Count(h) ==
    /\ HandlerGoto(h, "count", IF NeedResize(handler_count + 1) THEN "ask" ELSE "take")
    /\ handler_count' = handler_count + 1
    /\ UNCHANGED <<process, mainVars, clientfd, resizerVars, queueVars, pooler_sem, n, resize>>

AskResize(h) ==
    /\ HandlerGoto(h, "ask", "take")
    /\ resize' = TRUE
    /\ pooler_sem' = IF resize THEN pooler_sem ELSE pooler_sem + 1
    /\ UNCHANGED <<process, mainVars, clientfd, resizerVars, queueVars, n, handler_count>>

\* Faulty variants: the connection stays queued; the newest one goes first.
Take_Copies(h) ==
    /\ HandlerGoto(h, "take", "read")
    /\ graph_mutex = 1
    /\ client_queue # <<>>
    /\ clientfd' = [clientfd EXCEPT ![h] = Head(client_queue)]
    /\ UNCHANGED <<process, mainVars, resizerVars, queueVars, loadVars>>
Take_Newest(h) ==
    /\ HandlerGoto(h, "take", "read")
    /\ graph_mutex = 1
    /\ client_queue # <<>>
    /\ clientfd' = [clientfd EXCEPT ![h] = client_queue[Len(client_queue)]]
    /\ client_queue' = SubSeq(client_queue, 1, Len(client_queue) - 1)
    /\ UNCHANGED <<process, mainVars, resizerVars, graph_mutex, handler_sem, finished, loadVars>>

Take(h) ==
    /\ HandlerGoto(h, "take", "read")
    /\ graph_mutex = 1
    /\ client_queue # <<>>
    /\ clientfd' = [clientfd EXCEPT ![h] = Head(client_queue)]
    /\ client_queue' = Tail(client_queue)
    /\ UNCHANGED <<process, mainVars, resizerVars, graph_mutex, handler_sem, finished, loadVars>>

\* dequeue on an empty queue calls xerror, which exits the whole process.
TakeFromEmpty(h) ==
    /\ Running
    /\ handlerPc[h] = "take"
    /\ graph_mutex = 1
    /\ client_queue = <<>>
    /\ process' = "aborted"
    /\ UNCHANGED <<mainVars, handlerVars, resizerVars, queueVars, loadVars>>

\* xread returns what the client has sent: for a silent client, never.  Less
\* than a request, or nothing because the client is gone, is used like one.
ReadRequest(h) ==
    /\ HandlerGoto(h, "read", "lookup")
    /\ UNCHANGED <<process, mainVars, clientfd, resizerVars, queueVars, loadVars>>

\* The operations at which a handler depends on its client: the request, and
\* the answer, for which write waits when it is long and the client reads none.
OnClient == {"read", "reply"}

\* A connection that fails ends the process: xread and xwrite exit, SIGPIPE
\* kills, and what is no request may index nodes that the graph does not have.
ConnectionFails(h) ==
    /\ Running
    /\ handlerPc[h] \in OnClient
    /\ process' = "failed"
    /\ UNCHANGED <<mainVars, handlerVars, resizerVars, queueVars, loadVars>>

\* read_database finds the path or not.
Lookup(h) ==
    /\ \E next \in {"reply", "compute"} : HandlerGoto(h, "lookup", next)
    /\ UNCHANGED <<process, mainVars, clientfd, resizerVars, queueVars, loadVars>>

\* BFS under graph_mutex, then prepare_packet and write_database.
Compute(h) ==
    /\ HandlerGoto(h, "compute", "reply")
    /\ graph_mutex = 1
    /\ UNCHANGED <<process, mainVars, clientfd, resizerVars, queueVars, loadVars>>

\* xwrite and close
Reply(h) ==
    /\ HandlerGoto(h, "reply", "uncount")
    /\ clientfd' = [clientfd EXCEPT ![h] = NoClient]
    /\ UNCHANGED <<process, mainVars, resizerVars, queueVars, loadVars>>

Uncount(h) ==
    /\ HandlerGoto(h, "uncount", "wait")
    /\ handler_count' = handler_count - 1
    /\ UNCHANGED <<process, mainVars, clientfd, resizerVars, queueVars, pooler_sem, n, resize>>

HandlerStep(h) ==
    \/ WaitToken(h) \/ CheckFinished(h) \/ Leave(h) \/ Count(h) \/ AskResize(h)
    \/ Take(h) \/ TakeFromEmpty(h) \/ ReadRequest(h) \/ ConnectionFails(h)
    \/ Lookup(h) \/ Compute(h) \/ Reply(h) \/ Uncount(h)

-----------------------------------------------------------------------------
(* The resizer thread: pool_resizer. *)

WaitResize ==
    /\ ResizerGoto("wait", "test")
    /\ ~cancelled
    /\ pooler_sem > 0
    /\ pooler_sem' = pooler_sem - 1
    /\ UNCHANGED <<process, mainVars, handlerVars, cancelled, queueVars, n, handler_count, resize>>

\* n * 1.25 <= max_thread
TestSize ==
    /\ ResizerGoto("test", IF 5 * n <= 4 * MaxThread THEN "grow" ELSE "done")
    /\ UNCHANGED <<process, mainVars, handlerVars, cancelled, queueVars, loadVars>>

\* Faulty variant: the pool is doubled, after a test for a quarter more.
Enlarged_Double(size) == (size - 1) * 2 + 1

\* The new size of the pool: (n - 1) * 1.25 + 1, truncated.
Enlarged(size) == ((size - 1) * 5) \div 4 + 1

Grow ==
    /\ ResizerGoto("grow", "realloc")
    /\ ~cancelled
    /\ n' = Enlarged(n)
    /\ UNCHANGED <<process, mainVars, handlerVars, cancelled, queueVars,
                   pooler_sem, handler_count, resize>>

\* xrealloc may free the old array before dynr->pool points to the new one.
Realloc ==
    /\ ResizerGoto("realloc", "assign")
    /\ UNCHANGED <<process, mainVars, handlerVars, cancelled, queueVars, loadVars>>

AssignPool ==
    /\ ResizerGoto("assign", "log")
    /\ UNCHANGED <<process, mainVars, handlerVars, cancelled, queueVars, loadVars>>

LogGrowth ==
    /\ ResizerGoto("log", "spawn")
    /\ ~cancelled
    /\ UNCHANGED <<process, mainVars, handlerVars, cancelled, queueVars, loadVars>>

Spawn ==
    /\ resizerPc = "spawn"
    /\ Cardinality(Created) < n - 1
    /\ \E h \in Handlers : HandlerGoto(h, "not_created", "wait")
    /\ UNCHANGED <<process, mainVars, clientfd, resizerVars, queueVars, loadVars>>

SpawnedAll ==
    /\ ResizerGoto("spawn", "done")
    /\ Cardinality(Created) >= n - 1
    /\ UNCHANGED <<process, mainVars, handlerVars, cancelled, queueVars, loadVars>>

EndResize ==
    /\ ResizerGoto("done", "wait")
    /\ ~cancelled
    /\ resize' = FALSE
    /\ UNCHANGED <<process, mainVars, handlerVars, cancelled, queueVars, pooler_sem, n, handler_count>>

\* A cancelled thread ends at its next cancellation point: sem_wait, dprintf.
CancelResizer ==
    /\ Running
    /\ cancelled
    /\ resizerPc \in {"wait", "grow", "log", "done"}
    /\ resizerPc' = "terminated"
    /\ UNCHANGED <<process, mainVars, handlerVars, cancelled, queueVars, loadVars>>

ResizerStep ==
    \/ WaitResize \/ TestSize \/ Grow \/ Realloc \/ AssignPool \/ LogGrowth
    \/ Spawn \/ SpawnedAll \/ EndResize \/ CancelResizer

-----------------------------------------------------------------------------
(* handle_sigint, on the main thread. *)

\* SIGINT arrives.  Before create_pool, dynr->pool is NULL.
Sigint ==
    /\ Running
    /\ mainPc \in ServingLabels
    /\ interrupted' = mainPc
    /\ mainPc' = IF mainPc = "read_graph" THEN "destroy" ELSE "sig_finish"
    /\ UNCHANGED <<process, accepted, handlerVars, resizerVars, queueVars, loadVars>>

SigFinish ==
    /\ MainGoto("sig_finish", "sig_cancel")
    /\ graph_mutex = 1
    /\ finished' = TRUE
    /\ UNCHANGED <<process, interrupted, accepted, handlerVars, resizerVars,
                   client_queue, graph_mutex, handler_sem, loadVars>>

SigCancel ==
    /\ MainGoto("sig_cancel", "sig_join_resizer")
    /\ resizerPc # "not_created"
    /\ cancelled' = TRUE
    /\ UNCHANGED <<process, interrupted, accepted, handlerVars, resizerPc, queueVars, loadVars>>

\* pool[0] is read before it is set, or from the array that realloc freed.
SigCancelGarbage ==
    /\ Running
    /\ mainPc = "sig_cancel"
    /\ resizerPc \in {"not_created", "assign"}
    /\ process' = "aborted"
    /\ UNCHANGED <<mainVars, handlerVars, resizerVars, queueVars, loadVars>>

\* Faulty variant: the resizer is cancelled and not joined.
SigJoinResizer_Skips ==
    /\ MainGoto("sig_join_resizer", "sig_post")
    /\ UNCHANGED <<process, interrupted, accepted, handlerVars, resizerVars, queueVars, loadVars>>

SigJoinResizer ==
    /\ MainGoto("sig_join_resizer", "sig_post")
    /\ resizerPc = "terminated"
    /\ UNCHANGED <<process, interrupted, accepted, handlerVars, resizerVars, queueVars, loadVars>>

SigPost ==
    /\ MainGoto("sig_post", "sig_join")
    /\ handler_sem' = handler_sem + 1
    /\ UNCHANGED <<process, interrupted, accepted, handlerVars, resizerVars,
                   client_queue, graph_mutex, finished, loadVars>>

AllTerminated == \A h \in Created : handlerPc[h] = "terminated"

\* pool[1..n-1] are joined in turn.
SigJoin ==
    /\ MainGoto("sig_join", "destroy")
    /\ AllTerminated
    /\ Cardinality(Created) >= n - 1
    /\ UNCHANGED <<process, interrupted, accepted, handlerVars, resizerVars, queueVars, loadVars>>

\* The resizer was cancelled after it enlarged n: pool[i] was never set.
SigJoinGarbage ==
    /\ Running
    /\ mainPc = "sig_join"
    /\ AllTerminated
    /\ Cardinality(Created) < n - 1
    /\ process' = "aborted"
    /\ UNCHANGED <<mainVars, handlerVars, resizerVars, queueVars, loadVars>>

\* destroy_shared_resources and exit.  delete_graph_node and delete_cache_node
\* never leave the node they freed (graph.h:61-65, cache.h:63-68): the process
\* gets to exit only when every list of the graph and of the cache is empty.
Destroy ==
    /\ Running
    /\ mainPc = "destroy"
    /\ process' \in {"exited", "aborted"}
    /\ UNCHANGED <<mainVars, handlerVars, resizerVars, queueVars, loadVars>>

HandleSigint ==
    \/ SigFinish \/ SigCancel \/ SigCancelGarbage \/ SigJoinResizer
    \/ SigPost \/ SigJoin \/ SigJoinGarbage \/ Destroy

-----------------------------------------------------------------------------
\* The server without signals.
Serve == MainStep \/ (\E h \in Handlers : HandlerStep(h)) \/ ResizerStep

Next == Serve \/ Sigint \/ HandleSigint

ServeSpec == Init /\ [][Serve]_vars
Spec      == Init /\ [][Next]_vars

(* Every thread that can run runs, and one that waits on a semaphore which *)
(* is posted again and again gets it at last.  Clients may stop coming, or *)
(* send and read nothing, and SIGINT may never arrive.                     *)
Fairness ==
    /\ WF_vars((MainStep \/ HandleSigint) /\ mainPc # "accept")
    /\ SF_vars(Lock)
    /\ SF_vars(SigFinish)
    /\ \A h \in Handlers : SF_vars(HandlerStep(h) /\ handlerPc[h] \notin OnClient)
    /\ WF_vars(ResizerStep)

FairSpec == Spec /\ Fairness

-----------------------------------------------------------------------------
(* Properties of the service. *)

TypeOK ==
    /\ process \in {"running", "exited", "failed", "aborted"}
    /\ mainPc \in ServingLabels \cup SigintLabels
    /\ interrupted \in ServingLabels \cup {"no"}
    /\ accepted \in Clients \cup {NoClient}
    /\ handlerPc \in [Handlers -> HandlerLabels]
    /\ clientfd \in [Handlers -> Clients \cup {NoClient}]
    /\ resizerPc \in ResizerLabels
    /\ cancelled \in BOOLEAN
    /\ client_queue \in Seq(Clients)
    /\ graph_mutex \in {0, 1}
    /\ handler_sem \in Nat
    /\ pooler_sem \in Nat
    /\ finished \in BOOLEAN
    /\ n \in Nat \ {0}
    /\ handler_count \in Int
    /\ resize \in BOOLEAN

HandlersAt(L) == {h \in Handlers : handlerPc[h] \in L}

\* Handlers that took a token from handler_sem and no connection for it yet.
TokenHolders == HandlersAt({"check", "leave", "count", "ask", "take"})

\* The main thread has queued a connection whose token is not posted yet, or
\* never will be because SIGINT interrupted it there.
Owed == IF {mainPc, interrupted} \cap {"unlock", "forward"} # {} THEN 1 ELSE 0

\* The token handle_sigint adds to wake the pool.
Extra == IF mainPc \in {"sig_join", "destroy"} /\ interrupted # "read_graph" THEN 1 ELSE 0

\* Tokens and queued connections match, up to the one in the main thread's
\* hands and the one that announces the shutdown: handler_sem, client_queue and
\* the handlers in between are never updated together (312-317, 340-370).
TokensMatch ==
    handler_sem + Cardinality(TokenHolders) + Owed = Len(client_queue) + Extra

\* Before a shutdown no handler finds the queue empty, so the xerror of dequeue
\* (369) cannot end the server.
NoEmptyDequeue ==
    interrupted = "no" /\ HandlersAt({"count", "ask", "take"}) # {} => client_queue # <<>>

\* handler_count, which decides about growing, is the number of busy handlers.
Busy == HandlersAt({"ask", "take", "read", "lookup", "compute", "reply", "uncount"})
LoadIsBusy == handler_count = Cardinality(Busy)

\* "the pool must not grow beyond this number", although n is enlarged before
\* the threads exist and the test and the growth use different roundings.
PoolBounded == Cardinality(Created) <= n - 1 /\ n - 1 <= MaxThread

\* At most one enlargement is asked for or under way, whatever dynr->resize
\* held at the start.
ResizerBusy == resizerPc \in {"test", "grow", "realloc", "assign", "log", "spawn", "done"}
OneResizeAtATime == pooler_sem + (IF ResizerBusy THEN 1 ELSE 0) <= 1

\* The books of the pool, which is grown by one thread, counted by others and
\* bounded by a test that a third one makes.
PoolConsistent == LoadIsBusy /\ PoolBounded /\ OneResizeAtATime

\* A connection is in one place only, the hands of the main thread, the queue or
\* one handler: no two handlers serve, and close, the same descriptor.
OneOwner ==
    /\ \A i, j \in 1..Len(client_queue) : client_queue[i] = client_queue[j] => i = j
    /\ \A i \in 1..Len(client_queue) : client_queue[i] # accepted
    /\ \A h \in Handlers : clientfd[h] # NoClient =>
          /\ \A g \in Handlers : clientfd[g] = clientfd[h] => g = h
          /\ \A i \in 1..Len(client_queue) : client_queue[i] # clientfd[h]
          /\ accepted # clientfd[h]

\* Every accepted connection is answered and closed, as long as no SIGINT comes
\* and no connection fails, unless its own client keeps its handler waiting for
\* ever, or such clients hold the whole pool: xread (373) has no timeout.
Stuck(h) == handlerPc[h] \in OnClient
EveryClientAnswered ==
    \A c \in Clients :
        \/ \E h \in Handlers : <>[](Stuck(h) /\ clientfd[h] = c)
        \/ <>[](\A h \in Created : Stuck(h))
        \/ c \in Connected ~> c \notin Connected \/ interrupted # "no" \/ process = "failed"

\* "every time that the load of the server reaches 75% ... the pool size will be
\* enlarged by 25%": a handler that reports the load finds, or sets, the resizer
\* to work (356-361).
ReportReachesResizer ==
    [][ \A h \in Handlers : handlerPc[h] = "ask" /\ handlerPc'[h] = "take"
            => pooler_sem' > 0 \/ ResizerBusy' ]_vars

-----------------------------------------------------------------------------
(* Properties of the shutdown. *)

\* A handler terminates only when nobody is queued and nobody will be.
NobodyLeavesEarly ==
    HandlersAt({"leave", "terminated"}) # {} => finished /\ client_queue = <<>>

\* When the resources are destroyed no thread is left to use them, and every
\* connection that was queued has been answered.  One connection may still be
\* open: SIGINT came between its accept (309) and its place in the queue (312),
\* and nobody answers it.
QuietDestroy ==
    mainPc = "destroy" =>
        /\ AllTerminated
        /\ resizerPc \in {"not_created", "terminated"}
        /\ Connected = IF interrupted = "lock" THEN {accepted} ELSE {}

\* The shutdown leaves no thread behind and drops no client, but for one that
\* was accepted and not queued yet.
OrderlyShutdown == NobodyLeavesEarly /\ QuietDestroy

\* A SIGINT that comes while nobody is queued gets past all threads, unless a
\* client fails, or keeps for ever the handler that serves it (373), which the
\* shutdown joins (133).
Idle ==
    /\ interrupted = "accept"
    /\ mainPc = "sig_post"
    /\ client_queue = <<>>
    /\ Cardinality(Created) = n - 1
GracefulWhenIdle ==
    \/ \E h \in Handlers : <>[]Stuck(h)
    \/ Idle ~> mainPc = "destroy" \/ process = "failed"

\* "and then shutdown gracefully": the last step, the release of the resources,
\* ends in exit.
ReleaseExits == mainPc = "destroy" ~> process = "exited"

\* "it must wait for its ongoing threads to complete ... and then shutdown
\* gracefully": the handler gets past its first sem_wait.
SigintProceeds == mainPc = "sig_finish" ~> mainPc # "sig_finish"

\* The same sentence: once the pool has been woken, the process ends.
JoinEnds == mainPc = "sig_join" ~> process # "running"

\* The same sentence: serving the last connections does not crash the server.
NoCrashInDequeue ==
    mainPc = "sig_join" /\ HandlersAt({"take"}) # {} => client_queue # <<>>

\* The same sentence: every thread the shutdown joins has been created.
JoinsOnlyThreads ==
    mainPc = "sig_join" /\ AllTerminated => Cardinality(Created) = n - 1
=============================================================================
