----------------------------- MODULE PathSearch -----------------------------
(***************************************************************************)
(* One request in final-project/server.c: the graph is loaded, BFS of      *)
(* graph.h looks for a path, prepare_packet turns it into the answer.  The *)
(* queue of paths is the RingQueue this module extends: one step of BFS    *)
(* uses its operations as they are.                                        *)
(*                                                                         *)
(* The whole search holds graph_mutex, so that no other thread takes part. *)
(***************************************************************************)
EXTENDS RingQueue, SequencesExt

CONSTANTS Files,        \* inputs: sequences of edges <<i, j>> and comments <<>>
          Requests,     \* the pairs of nodes clients ask for
          PathCap       \* places of a new path, 16 in the code

\* A number of the file is an index of the list: none is negative.
ASSUME FilesAssumption == Files \subseteq Seq((Nat \X Nat) \cup {<<>>})
ASSUME PathCapAssumption == PathCap \in Nat \ {0}

VARIABLES pc,           \* the next operation
          raw,          \* the input file
          list,         \* graph->list: the neighbours of each node
          start, end,   \* the request
          visited,      \* the nodes that have been expanded
          adj,          \* the neighbours of the current path not looked at yet
          found,        \* BFS returns a path, and not NULL
          result,       \* the path it returns
          packet,       \* the nodes in the answer
          blocks,       \* what create_queue and malloc gave and nobody has freed
          enlarged      \* how many queues were enlarged

memory == <<blocks, enlarged>>
searchVars == <<pc, raw, list, start, end, visited, adj, found, result, packet, memory>>
allVars == <<vars, searchVars>>

\* The answer "path not possible." names no node.
Impossible == <<>>

\* A path is a queue of its own; BFS only appends to it, and reads its back.
new_path(capacity) == [nodes |-> <<>>, cap |-> capacity]
appended(p, v) == [nodes |-> Append(p.nodes, v),
                   cap   |-> IF Len(p.nodes) = p.cap THEN 2 * p.cap ELSE p.cap]

\* A queue is a struct and its array; destroy_queue frees the array only, free the
\* struct.  enlarge makes a queue and destroys the old one, whose struct stays.
QUEUE == 2
enlarges(p) == IF Len(p.nodes) = p.cap THEN 1 ELSE 0
Allocate(n, enlargements) ==
    /\ enlarged' = enlarged + enlargements
    /\ blocks' = blocks + n + enlargements

\* What is_comment leaves of the lines of the file.
edges == ToSet(raw) \ {<<>>}

\* find_V: one more than the largest number in the file.
find_V == 1 + Max({0} \cup UNION {{e[1], e[2]} : e \in edges})

\* A neighbour is put before the ones that are there.
add_edge(lists, e) == [lists EXCEPT ![e[1]] = <<e[2]>> \o @]

\* The loops of create_graph and read_graph.
graph_list ==
    LET after[k \in 0..Len(raw)] ==
            IF k = 0 THEN [i \in 0..find_V - 1 |-> <<>>]
            ELSE IF raw[k] = <<>> THEN after[k - 1] ELSE add_edge(after[k - 1], raw[k])
    IN  after[Len(raw)]

V == Cardinality(DOMAIN list)
edge(i, j) == j \in ToSet(list[i])

SearchInit ==
    /\ Init
    /\ pc = "read_graph"
    /\ raw \in Files
    /\ list = <<>>
    /\ start = 0 /\ end = 0
    /\ visited = {}
    /\ adj = <<>>
    /\ found = FALSE
    /\ result = new_path(0)
    /\ packet = <<>>
    /\ blocks = 0 /\ enlarged = 0

\* read_graph, create_graph
ReadGraph ==
    /\ pc = "read_graph"
    /\ pc' = "receive"
    /\ list' = graph_list
    /\ UNCHANGED <<vars, raw, start, end, visited, adj, found, result, packet, memory>>

Receive ==
    /\ pc = "receive"
    /\ pc' = "search"
    /\ \E r \in Requests :
          /\ {r[1], r[2]} \subseteq DOMAIN list
          /\ start' = r[1]
          /\ end' = r[2]
    /\ UNCHANGED <<vars, raw, list, visited, adj, found, result, packet, memory>>

\* The request is for one node, or for the two ends of an edge.
Shortcut ==
    /\ pc = "search"
    /\ pc' = "answer"
    /\ \/ /\ start = end
          /\ result' = appended(new_path(V), start)
       \/ /\ start # end
          /\ edge(start, end)
          /\ result' = appended(appended(new_path(V), start), end)
    /\ found' = TRUE
    /\ Allocate(QUEUE, 0)
    /\ UNCHANGED <<vars, raw, list, start, end, visited, adj, packet>>

\* enqueue, with n blocks and so many queues enlarged for p before.
AddPath(p, n, before) ==
    \/ Enqueue(p) /\ Allocate(n, before)
    \/ EnlargeAndEnqueue(p) /\ Allocate(n, before + 1)

\* The queue of paths, the first path, which is the start itself, and visited.
Begin ==
    /\ pc = "search"
    /\ pc' = "loop"
    /\ start # end
    /\ ~edge(start, end)
    /\ AddPath(appended(new_path(PathCap), start), 2 * QUEUE + 1, 0)
    /\ visited' = {}
    /\ UNCHANGED <<raw, list, start, end, adj, found, result, packet>>

\* The path BFS works on is the last one dequeued.
path == taken

\* Faulty variant: only a node without neighbours is marked.
TakePath_Unmarked ==
    /\ pc = "loop"
    /\ Dequeue
    /\ LET node == Last(path'.nodes)
       IN  IF node = end
           THEN /\ pc' = "clean"
                /\ found' = TRUE
                /\ result' = path'
                /\ UNCHANGED <<visited, adj>>
           ELSE /\ pc' = "expand"
                /\ visited' = IF list[node] = <<>> THEN visited \cup {node} ELSE visited
                /\ adj' = list[node]
                /\ UNCHANGED <<found, result>>
    /\ UNCHANGED <<raw, list, start, end, packet, memory>>

TakePath ==
    /\ pc = "loop"
    /\ Dequeue
    /\ LET node == Last(path'.nodes)
       IN  IF node = end
           THEN /\ pc' = "clean"
                /\ found' = TRUE
                /\ result' = path'
                /\ UNCHANGED <<visited, adj>>
           ELSE /\ pc' = "expand"
                /\ visited' = visited \cup {node}
                /\ adj' = list[node]
                /\ UNCHANGED <<found, result>>
    /\ UNCHANGED <<raw, list, start, end, packet, memory>>

\* No path is left: the end cannot be reached.  The queue of paths is freed,
\* visited is not.
GiveUp ==
    /\ pc = "loop"
    /\ IsEmpty
    /\ pc' = "answer"
    /\ blocks' = blocks - QUEUE
    /\ UNCHANGED <<vars, raw, list, start, end, visited, adj, found, result, packet, enlarged>>

\* Faulty variant: the loop does not advance.
SkipVisited_Stays ==
    /\ pc = "expand"
    /\ adj # <<>>
    /\ Head(adj) \in visited
    /\ UNCHANGED allVars

SkipVisited ==
    /\ pc = "expand"
    /\ adj # <<>>
    /\ Head(adj) \in visited
    /\ adj' = Tail(adj)
    /\ UNCHANGED <<vars, pc, raw, list, start, end, visited, found, result, packet, memory>>

\* Faulty variant: the rest of the neighbours is forgotten.
Extend_First ==
    /\ pc = "expand"
    /\ adj # <<>>
    /\ Head(adj) \notin visited
    /\ path.cap <= PathCap
    /\ AddPath(appended(path, Head(adj)), QUEUE, enlarges(path))
    /\ adj' = <<>>
    /\ UNCHANGED <<pc, raw, list, start, end, visited, found, result, packet>>

\* copy, when the array of the new path holds all places of the old one.
Extend ==
    /\ pc = "expand"
    /\ adj # <<>>
    /\ Head(adj) \notin visited
    /\ path.cap <= PathCap
    /\ AddPath(appended(path, Head(adj)), QUEUE, enlarges(path))
    /\ adj' = Tail(adj)
    /\ UNCHANGED <<pc, raw, list, start, end, visited, found, result, packet>>

\* copy writes behind the array of PathCap places: anything may follow.
CopyOverrun ==
    /\ pc = "expand"
    /\ adj # <<>>
    /\ Head(adj) \notin visited
    /\ path.cap > PathCap
    /\ pc' = "overrun"
    /\ UNCHANGED <<vars, raw, list, start, end, visited, adj, found, result, packet, memory>>

FreePath ==
    /\ pc = "expand"
    /\ adj = <<>>
    /\ pc' = "loop"
    /\ blocks' = blocks - QUEUE
    /\ UNCHANGED <<vars, raw, list, start, end, visited, adj, found, result, packet, enlarged>>

\* Faulty variant: the paths that are left are not freed.
Clean_Leaks ==
    /\ pc = "clean"
    /\ pc' = "answer"
    /\ blocks' = blocks - QUEUE
    /\ UNCHANGED <<vars, raw, list, start, end, visited, adj, found, result, packet, enlarged>>

\* The paths that are left are freed, and their queue; visited is not.
Clean ==
    /\ pc = "clean"
    /\ IF IsEmpty
       THEN pc' = "answer" /\ UNCHANGED vars
       ELSE Dequeue /\ UNCHANGED pc
    /\ blocks' = blocks - QUEUE
    /\ UNCHANGED <<raw, list, start, end, visited, adj, found, result, packet, enlarged>>

\* prepare_packet, and destroy_queue, which leaves the struct of the path.
Answer ==
    /\ pc = "answer"
    /\ pc' = "done"
    /\ IF found
       THEN packet' = result.nodes /\ blocks' = blocks - 1
       ELSE packet' = Impossible /\ UNCHANGED blocks
    /\ UNCHANGED <<vars, raw, list, start, end, visited, adj, found, result, enlarged>>

SearchNext ==
    \/ ReadGraph \/ Receive \/ Shortcut \/ Begin \/ TakePath \/ GiveUp
    \/ SkipVisited \/ Extend \/ CopyOverrun \/ FreePath \/ Clean \/ Answer

SearchSpec == SearchInit /\ [][SearchNext]_allVars
SearchFairSpec == SearchSpec /\ WF_allVars(SearchNext)

-----------------------------------------------------------------------------
\* What can be reached from start in at most k edges of the file.
Reach[k \in Nat] ==
    IF k = 0 THEN {start}
    ELSE LET before == Reach[k - 1]
         IN  before \cup {e[2] : e \in {d \in edges : d[1] \in before}}

IsPath(p) ==
    /\ p # <<>>
    /\ p[1] = start
    /\ \A k \in 1..Len(p) - 1 : <<p[k], p[k + 1]>> \in edges

\* The answer is a path of the file from start to end with the fewest nodes,
\* or says that there is none when there is none: although a node is marked
\* only when a path to it is dequeued, so that it may be queued many times.
ShortestAnswer ==
    pc = "done" =>
        IF end \in Reach[V]
        THEN /\ IsPath(packet)
             /\ Last(packet) = end
             /\ \A k \in 0..Len(packet) - 2 : end \notin Reach[k]
        ELSE packet = Impossible

queued == {line[Place(i)] : i \in 0..size - 1}

\* Paths wait in the order of their lengths, which differ by at most one, and
\* none is more than one edge longer than the shortest path to its last node:
\* what keeps the number of queued copies of a node from growing without end.
NearlyShortest ==
    pc \in {"loop", "expand"} =>
        /\ \A p \in queued :
              /\ IsPath(p.nodes)
              /\ Len(p.nodes) = Cardinality(ToSet(p.nodes))
              /\ \A k \in 0..Len(p.nodes) - 3 : Last(p.nodes) \notin Reach[k]
        /\ \A i, j \in 0..size - 1 : i < j =>
              Len(line[Place(j)].nodes) - Len(line[Place(i)].nodes) \in {0, 1}

\* BFS does more than to look at one node or one edge.
searches == start # end /\ ~edge(start, end)

\* What a request leaves allocated is no more than this: visited (107), the struct
\* of the answer's path (402) and the struct of each queue that was enlarged
\* (queue.h:100).  Every other path, whether expanded or still queued when the
\* end was found, is freed once, array and struct, and so is the queue of paths.
LeaksKnown ==
    /\ pc = "done" =>
          blocks = enlarged + (IF searches THEN 1 ELSE 0) + (IF found THEN 1 ELSE 0)
    /\ pc \in {"loop", "expand", "clean"} =>
          blocks = enlarged + QUEUE + 1 + QUEUE * size + (IF pc = "loop" THEN 0 ELSE QUEUE)

\* False: nothing is left (readme.md:208).
NothingLeaks == pc = "done" => blocks = 0

\* Every request is answered, unless copy left an array: cycles and nodes that
\* are queued many times do not keep BFS going.
SearchEnds == <>(pc \in {"done", "overrun"})

\* A path is copied to a new queue of PathCap places (133), whatever the queue it
\* is in has grown to.
CopyFits == pc # "overrun"
=============================================================================
