--------------------------- MODULE ReadersWriters ---------------------------
(***************************************************************************)
(* The path database of final-project/server.c: read_database (427-449)    *)
(* and write_database (451-472) around get_cache and to_cache of cache.h.  *)
(*                                                                         *)
(* Every step of a thread is one semaphore operation, together with the    *)
(* counter update the semaphore protects, or one access to the shared      *)
(* list.  The list itself is walked one node at a time and a new node is   *)
(* linked and then published in two steps, so that a broken protocol would *)
(* lose insertions or miss stored paths.                                   *)
(*                                                                         *)
(* A path is determined by its pair of nodes (the graph never changes), so *)
(* a cache node is represented by its vertex only.  The locals of a thread *)
(* (rest, found) are cleared when the code no longer reads them.           *)
(***************************************************************************)
EXTENDS Integers, Sequences, FiniteSets

CONSTANTS Handlers,   \* the threads of the pool
          Nodes,      \* the vertices of the graph
          Requests    \* the pairs <<i, j>> clients ask for

ASSUME HandlersAssumption == IsFiniteSet(Handlers) /\ Handlers # {}
ASSUME RequestsAssumption == Requests \subseteq Nodes \X Nodes /\ Requests # {}

VARIABLES
    pc,             \* the next operation of each thread
    request,        \* the pair <<i, j>> each thread serves
    read_try,       \* semaphore: readers may try to enter
    read_mutex,     \* semaphore: guards read_count
    write_mutex,    \* semaphore: guards write_count
    cache_mutex,    \* semaphore: the room, taken by a writer or by the readers
    read_count,     \* readers counted in
    write_count,    \* writers counted in
    cache,          \* cache[i]: the vertices of the list of i, head first
    rest,           \* get_cache: the nodes not visited yet; to_cache: node->next
    found           \* the outcome of the thread's last get_cache

semVars  == <<read_try, read_mutex, write_mutex, cache_mutex>>
cntVars  == <<read_count, write_count>>
dataVars == <<cache, rest, found>>
vars     == <<pc, request, semVars, cntVars, dataVars>>

ReaderLabels == {"wait_try", "count_in", "lock_room", "counted_in", "let_try",
                 "scan_start", "scan", "count_out", "free_room", "counted_out"}
WriterLabels == {"w_count_in", "close_try", "w_counted_in", "w_lock", "link",
                 "publish", "w_unlock", "w_count_out", "open_try",
                 "w_counted_out"}
Labels == {"idle"} \cup ReaderLabels \cup WriterLabels

Init ==
    /\ pc = [h \in Handlers |-> "idle"]
    /\ request \in [Handlers -> Requests]
    /\ read_try = 1
    /\ read_mutex = 1
    /\ write_mutex = 1
    /\ cache_mutex = 1
    /\ read_count = 0
    /\ write_count = 0
    /\ cache = [i \in Nodes |-> <<>>]
    /\ rest = [h \in Handlers |-> <<>>]
    /\ found = [h \in Handlers |-> FALSE]

-----------------------------------------------------------------------------
Goto(h, from, to) ==
    /\ pc[h] = from
    /\ pc' = [pc EXCEPT ![h] = to]

\* sem_wait and sem_post on a semaphore s.
Wait(s, sNext) == s > 0 /\ sNext = s - 1
Post(s, sNext) == sNext = s + 1

\* connection_handler has read a packet and calls read_database.
Request(h) ==
    /\ Goto(h, "idle", "wait_try")
    /\ \E r \in Requests : request' = [request EXCEPT ![h] = r]
    /\ UNCHANGED <<semVars, cntVars, dataVars>>

-----------------------------------------------------------------------------
(* read_database: a reader enters. *)

\* Faulty variant: readers come in without read_try.
WaitReadTry_Ignored(h) ==
    /\ Goto(h, "wait_try", "count_in")
    /\ UNCHANGED <<request, semVars, cntVars, dataVars>>

WaitReadTry(h) ==
    /\ Goto(h, "wait_try", "count_in")
    /\ Wait(read_try, read_try')
    /\ UNCHANGED <<request, read_mutex, write_mutex, cache_mutex, cntVars, dataVars>>

ReaderCountIn(h) ==
    /\ Goto(h, "count_in", IF read_count + 1 = 1 THEN "lock_room" ELSE "counted_in")
    /\ Wait(read_mutex, read_mutex')
    /\ read_count' = read_count + 1
    /\ UNCHANGED <<request, read_try, write_mutex, cache_mutex, write_count, dataVars>>

FirstReaderLocks(h) ==
    /\ Goto(h, "lock_room", "counted_in")
    /\ Wait(cache_mutex, cache_mutex')
    /\ UNCHANGED <<request, read_try, read_mutex, write_mutex, cntVars, dataVars>>

ReaderCountedIn(h) ==
    /\ Goto(h, "counted_in", "let_try")
    /\ Post(read_mutex, read_mutex')
    /\ UNCHANGED <<request, read_try, write_mutex, cache_mutex, cntVars, dataVars>>

LetOthersTry(h) ==
    /\ Goto(h, "let_try", "scan_start")
    /\ Post(read_try, read_try')
    /\ UNCHANGED <<request, read_mutex, write_mutex, cache_mutex, cntVars, dataVars>>

(* get_cache: walk the list of i until a node of vertex j. *)

ScanStart(h) ==
    /\ Goto(h, "scan_start", "scan")
    /\ rest' = [rest EXCEPT ![h] = cache[request[h][1]]]
    /\ UNCHANGED <<request, semVars, cntVars, cache, found>>

\* Faulty variant: node = node->next is missing.
ScanNext_Stays(h) ==
    /\ Goto(h, "scan", "scan")
    /\ rest[h] # <<>>
    /\ Head(rest[h]) # request[h][2]
    /\ UNCHANGED <<request, semVars, cntVars, dataVars>>

ScanNext(h) ==
    /\ Goto(h, "scan", "scan")
    /\ rest[h] # <<>>
    /\ Head(rest[h]) # request[h][2]
    /\ rest' = [rest EXCEPT ![h] = Tail(rest[h])]
    /\ UNCHANGED <<request, semVars, cntVars, cache, found>>

ScanEnd(h) ==
    /\ Goto(h, "scan", "count_out")
    /\ rest[h] # <<>> => Head(rest[h]) = request[h][2]
    /\ found' = [found EXCEPT ![h] = (rest[h] # <<>>)]
    /\ rest' = [rest EXCEPT ![h] = <<>>]
    /\ UNCHANGED <<request, semVars, cntVars, cache>>

(* read_database: a reader leaves; on a miss the thread computes the path  *)
(* and calls write_database.                                               *)

ReaderCountOut(h) ==
    /\ Goto(h, "count_out", IF read_count - 1 = 0 THEN "free_room" ELSE "counted_out")
    /\ Wait(read_mutex, read_mutex')
    /\ read_count' = read_count - 1
    /\ UNCHANGED <<request, read_try, write_mutex, cache_mutex, write_count, dataVars>>

LastReaderFrees(h) ==
    /\ Goto(h, "free_room", "counted_out")
    /\ Post(cache_mutex, cache_mutex')
    /\ UNCHANGED <<request, read_try, read_mutex, write_mutex, cntVars, dataVars>>

ReaderCountedOut(h) ==
    /\ Goto(h, "counted_out", IF found[h] THEN "idle" ELSE "w_count_in")
    /\ Post(read_mutex, read_mutex')
    /\ found' = [found EXCEPT ![h] = FALSE]
    /\ UNCHANGED <<request, read_try, write_mutex, cache_mutex, cntVars, cache, rest>>

-----------------------------------------------------------------------------
(* write_database: a writer enters. *)

WriterCountIn(h) ==
    /\ Goto(h, "w_count_in", IF write_count + 1 = 1 THEN "close_try" ELSE "w_counted_in")
    /\ Wait(write_mutex, write_mutex')
    /\ write_count' = write_count + 1
    /\ UNCHANGED <<request, read_try, read_mutex, cache_mutex, read_count, dataVars>>

FirstWriterCloses(h) ==
    /\ Goto(h, "close_try", "w_counted_in")
    /\ Wait(read_try, read_try')
    /\ UNCHANGED <<request, read_mutex, write_mutex, cache_mutex, cntVars, dataVars>>

WriterCountedIn(h) ==
    /\ Goto(h, "w_counted_in", "w_lock")
    /\ Post(write_mutex, write_mutex')
    /\ UNCHANGED <<request, read_try, read_mutex, cache_mutex, cntVars, dataVars>>

\* Faulty variant: a writer trusts read_try to keep everybody out.
WriterLocks_Ignored(h) ==
    /\ Goto(h, "w_lock", "link")
    /\ cache_mutex' = 0
    /\ UNCHANGED <<request, read_try, read_mutex, write_mutex, cntVars, dataVars>>

WriterLocks(h) ==
    /\ Goto(h, "w_lock", "link")
    /\ Wait(cache_mutex, cache_mutex')
    /\ UNCHANGED <<request, read_try, read_mutex, write_mutex, cntVars, dataVars>>

(* to_cache: node->next = list[i], then list[i] = node. *)

Link(h) ==
    /\ Goto(h, "link", "publish")
    /\ rest' = [rest EXCEPT ![h] = cache[request[h][1]]]
    /\ UNCHANGED <<request, semVars, cntVars, cache, found>>

\* Faulty variant: node->next is not set, the rest of the list is lost.
Publish_Cuts(h) ==
    /\ Goto(h, "publish", "w_unlock")
    /\ cache' = [cache EXCEPT ![request[h][1]] = <<request[h][2]>>]
    /\ rest' = [rest EXCEPT ![h] = <<>>]
    /\ UNCHANGED <<request, semVars, cntVars, found>>

Publish(h) ==
    /\ Goto(h, "publish", "w_unlock")
    /\ cache' = [cache EXCEPT ![request[h][1]] = <<request[h][2]>> \o rest[h]]
    /\ rest' = [rest EXCEPT ![h] = <<>>]
    /\ UNCHANGED <<request, semVars, cntVars, found>>

(* write_database: a writer leaves. *)

WriterUnlocks(h) ==
    /\ Goto(h, "w_unlock", "w_count_out")
    /\ Post(cache_mutex, cache_mutex')
    /\ UNCHANGED <<request, read_try, read_mutex, write_mutex, cntVars, dataVars>>

WriterCountOut(h) ==
    /\ Goto(h, "w_count_out", IF write_count - 1 = 0 THEN "open_try" ELSE "w_counted_out")
    /\ Wait(write_mutex, write_mutex')
    /\ write_count' = write_count - 1
    /\ UNCHANGED <<request, read_try, read_mutex, cache_mutex, read_count, dataVars>>

LastWriterOpens(h) ==
    /\ Goto(h, "open_try", "w_counted_out")
    /\ Post(read_try, read_try')
    /\ UNCHANGED <<request, read_mutex, write_mutex, cache_mutex, cntVars, dataVars>>

WriterCountedOut(h) ==
    /\ Goto(h, "w_counted_out", "idle")
    /\ Post(write_mutex, write_mutex')
    /\ UNCHANGED <<request, read_try, read_mutex, cache_mutex, cntVars, dataVars>>

-----------------------------------------------------------------------------
ReadDatabase(h) ==
    \/ WaitReadTry(h) \/ ReaderCountIn(h) \/ FirstReaderLocks(h)
    \/ ReaderCountedIn(h) \/ LetOthersTry(h)
    \/ ScanStart(h) \/ ScanNext(h) \/ ScanEnd(h)
    \/ ReaderCountOut(h) \/ LastReaderFrees(h) \/ ReaderCountedOut(h)

WriteDatabase(h) ==
    \/ WriterCountIn(h) \/ FirstWriterCloses(h) \/ WriterCountedIn(h)
    \/ WriterLocks(h) \/ Link(h) \/ Publish(h) \/ WriterUnlocks(h)
    \/ WriterCountOut(h) \/ LastWriterOpens(h) \/ WriterCountedOut(h)

Next == \E h \in Handlers : Request(h) \/ ReadDatabase(h) \/ WriteDatabase(h)

Spec == Init /\ [][Next]_vars

(* A thread that has something to do and is not blocked runs, and a thread *)
(* waiting on a semaphore that becomes free again and again gets it at     *)
(* last.  Asking for a path is never forced.                               *)
Fairness == \A h \in Handlers : SF_vars(ReadDatabase(h) \/ WriteDatabase(h))

FairSpec == Spec /\ Fairness

-----------------------------------------------------------------------------
(* Who is where. *)

At(L) == {h \in Handlers : pc[h] \in L}

CountedReaders == At({"lock_room", "counted_in", "let_try", "scan_start", "scan", "count_out"})
CountedWriters == At({"close_try", "w_counted_in", "w_lock", "link", "publish", "w_unlock",
                      "w_count_out"})
Reading == At({"scan_start", "scan"})
Writing == At({"link", "publish"})

\* All variables have their types; no semaphore is ever posted past 1.
TypeOK ==
    /\ pc \in [Handlers -> Labels]
    /\ request \in [Handlers -> Requests]
    /\ read_try \in 0..1
    /\ read_mutex \in 0..1
    /\ write_mutex \in 0..1
    /\ cache_mutex \in 0..1
    /\ read_count \in Nat
    /\ write_count \in Nat
    /\ cache \in [Nodes -> Seq(Nodes)]
    /\ rest \in [Handlers -> Seq(Nodes)]
    /\ found \in [Handlers -> BOOLEAN]

\* The room holds one writer and nobody else, or any number of readers:
\* no get_cache ever walks a list while to_cache changes one.
MutualExclusion ==
    \A w \in Writing : \A h \in Handlers \ {w} : h \notin Reading \cup Writing

\* The first reader takes cache_mutex while it holds read_try and read_mutex
\* (433-436), which looks like a lock-order hazard: it never has to wait there.
FirstReaderNeverBlocks ==
    (\E h \in Handlers : pc[h] = "lock_room") => cache_mutex = 1

\* Once a writer has closed read_try, no further reader gets in before all
\* the writers are gone ("prioritizing writers").
WriterPriority ==
    [][ CountedWriters \ At({"close_try"}) # {} => CountedReaders' \subseteq CountedReaders ]_vars

\* Every request is answered: no thread waits for ever in the protocol.
EveryRequestAnswered ==
    \A h \in Handlers : pc[h] = "wait_try" ~> pc[h] = "idle"

\* "It must not contain duplicate entries" (readme of the assignment).
NoDuplicateEntries ==
    \A i \in Nodes : \A m, n \in 1..Len(cache[i]) : cache[i][m] = cache[i][n] => m = n

-----------------------------------------------------------------------------
(* Why the protocol excludes: who holds each semaphore. *)

InReadMutex  == At({"lock_room", "counted_in", "free_room", "counted_out"})
InWriteMutex == At({"close_try", "w_counted_in", "open_try", "w_counted_out"})
\* read_try is held by one reader, or by the writers together.
TryReaders   == At({"count_in", "lock_room", "counted_in", "let_try"})
TryWriters   == At({"w_counted_in", "w_lock", "link", "publish", "w_unlock",
                    "w_count_out", "open_try"})
\* cache_mutex is held by one writer, or by the readers together.
RoomReaders  == At({"counted_in", "let_try", "scan_start", "scan", "count_out", "free_room"})
RoomWriters  == At({"link", "publish", "w_unlock"})

AtMostOne(S) == \A g, h \in S : g = h

CountsOK ==
    /\ read_count = Cardinality(CountedReaders)
    /\ write_count = Cardinality(CountedWriters)

MutexesOK ==
    /\ AtMostOne(InReadMutex)
    /\ read_mutex = 1 <=> InReadMutex = {}
    /\ AtMostOne(InWriteMutex)
    /\ write_mutex = 1 <=> InWriteMutex = {}

TryOK ==
    /\ AtMostOne(TryReaders)
    /\ TryReaders = {} \/ TryWriters = {}
    /\ read_try = 1 <=> TryReaders = {} /\ TryWriters = {}

RoomOK ==
    /\ AtMostOne(RoomWriters)
    /\ RoomReaders = {} \/ RoomWriters = {}
    /\ cache_mutex = 1 <=> RoomReaders = {} /\ RoomWriters = {}

\* Only the first one in and the last one out move the shared semaphore.
FirstAndLastOK ==
    /\ At({"lock_room"}) # {} => read_count = 1
    /\ At({"free_room"}) # {} => read_count = 0
    /\ At({"close_try"}) # {} => write_count = 1
    /\ At({"open_try"})  # {} => write_count = 0

\* The inductive invariant: the counters count, each semaphore is closed
\* exactly while somebody holds it, and its holders agree.
Inv == TypeOK /\ CountsOK /\ MutexesOK /\ TryOK /\ RoomOK /\ FirstAndLastOK

-----------------------------------------------------------------------------
(* The protocol makes lookup and insertion atomic: it implements Database. *)

Missed == {"w_count_in", "close_try", "w_counted_in", "w_lock", "link", "publish"}
Looked == {"count_out", "free_room", "counted_out"}

phaseBar(h) ==
    CASE pc[h] = "idle"                         -> "idle"
      [] pc[h] \in Missed                       -> "missed"
      [] pc[h] \in Looked /\ ~found[h]          -> "missed"
      [] pc[h] \in Looked /\ found[h]           -> "answered"
      [] pc[h] \in WriterLabels \ Missed        -> "answered"
      [] OTHER                                  -> "asked"

storedBar == {r \in Requests : \E n \in 1..Len(cache[r[1]]) : cache[r[1]][n] = r[2]}

DB == INSTANCE Database WITH stored <- storedBar,
                             phase  <- [h \in Handlers |-> phaseBar(h)],
                             asked  <- request

\* Whatever the interleaving, each thread sees the database as if lookup and
\* insertion were single steps: no stored path is missed, no insertion lost.
AtomicDatabase == DB!DbSpec
=============================================================================
