# TLA+ models of cse344-assignments

Six C programs of a systems programming course, one per assignment, each under
`src/<assignment>/solution/source/`.  They share no code at run time; what they
share is a subject: threads and processes that meet at semaphores, mutexes,
condition variables, signals, pipes and locked files.  This directory models the
concurrent core of those programs, checks it with TLC on small instances, and
proves the main invariants with TLAPS for every size.

## Inventory

### final-project: a path server (`server.c`, `cache.h`, `queue.h`, `graph.h`, `client.c`)

| part | state | operations | meets |
|---|---|---|---|
| single instance guard | a named semaphore | `create_sem`, `delete_sem` | other server processes, `handle_sigint` |
| listener (main thread) | `clientfd`, `client_queue`, `handler_sem` | `create_pool`, `connection_listener` | handlers, through `graph_mutex` and `handler_sem` |
| handler pool | `handler_count`, a connection per thread | `connection_handler`, `is_finished` | listener, resizer, database |
| resizer thread | `n`, `resize`, `pool` | `pool_resizer`, `need_resize` | handlers, through `load_mutex` and `pooler_sem` |
| shutdown | `finished`, the frame SIGINT interrupted | `handle_sigint`, `kill_thread`, `destroy_shared_resources` | every thread |
| path database | `cache`, four semaphores, two counters | `read_database`, `write_database` | handlers |
| containers | ring buffer, adjacency lists, cache lists | `enqueue`, `dequeue`, `copy`, `BFS`, `to_cache`, `destroy_*` | all of the above |
| client | a reply of any length | `main` | server, through a socket |

Hard: two counts (tokens and queued connections) that are never updated
together; a shutdown that runs in a signal handler on top of whatever the main
thread was doing; one token that must wake a whole pool; a pool that grows while
it is being joined; a four-semaphore readers/writers protocol with priorities.

Correct means: lookups and insertions are atomic and exclude each other, writers
go first, nobody starves; every accepted client is answered; tokens match
connections; the pool stays within its bounds; a shutdown ends and leaves no
thread and no queued client behind; a search finds a shortest path, ends on
every graph and frees every path it queued.

### midterm-project: a mess hall (`program.c`)

Supplier, cooks, students and a supervisor are processes that share memory:
the kitchen (slots, `empty`, `full[3]`), the counter (the same), the tables and
the student area, each with a room mutex.  `supplier`, `cook`, `student`,
`supervisor`, `put_item`, `get_food`.  Hard: cooks that move plates of three
kinds through two bounded buffers in an order nobody fixes, a supervisor that
grants a set of three plates at a time, termination of the cooks.  Correct
means: plates are conserved, an announced plate is there, nobody deadlocks for
any order of supplies, everybody ends.

### homework-5: florists (`program.c`, `queue.h`, `model.h`)

A supervisor gives the requests of a file to the queue of the nearest florist
that sells the flower; florist threads wait on one mutex and one condition
variable.  Hard: wake-ups, the end of the service, SIGINT that frees what the
threads use.  Correct means: every request is prepared once, in order, by a
florist that sells it; no wake-up is lost; all threads end.

### homework-4: chefs and a wholesaler (`program.c`, `utils.c`)

Six chefs each lack two of four ingredients and wait for both in one System V
`semop`; the wholesaler delivers two ingredients per line of a file and waits for
the dessert.  Hard: choosing the right chef with plain semaphores, ending all six.
Correct means: each delivery is prepared by the one chef that lacks it; all end.

### homework-3: a matrix product on four processes (`program.c`)

P1 forks four children, one after the other, writes each its operands into a
pipe (`write2matrix`), collects four quarters from four other pipes
(`collect_outputs`), merges them, and waits in `pause` until `child_handler` has
counted four children.  A child reads its matrices, multiplies and answers.
Hard: SIGCHLDs that become one, short reads and writes, who holds which end of
which pipe, a `pause` that may come late.  Correct means: the merged quarters are
the product; the handler waits for each child once and never fails for want of
one; no process waits for one that has ended.

### homework-2: a two-stage pipeline over a file (`program.c`)

P1 appends lines to a temporary file, P2 takes them out, both under a file lock;
SIGUSR1 and SIGUSR2 tell "finished" and "there is data".  The file never
shrinks: a line is removed by moving the rest to the front, and both processes
find their place by scanning it.  Hard: signals that come between a test and a
`sigsuspend`, masks and handlers that change all the time, a line that is read
in one section and removed in another.  Correct means: the file is a queue of
lines; each line is reported once and in order; no wake-up is lost; the
signals of P1 never kill P2; a SIGINT in the critical section is counted.

### homework-1: two programs over files (`programA.c`, `programB.c`, `utils.c`)

Instances of `programA` fill rows of a file, instances of `programB` take rows
out and write results to a second one, with `fcntl` locks.  An emptied row is
recognised by the character after its newline.  Hard: two Bs that read and
delete under a lock for reading, scans that look one character behind the data.
Correct means: the files consist of whole rows; nothing filled is written over
(until a space behind the data misleads an instance); no row leaves the file without a result or a failed B; all instances end.

## Modules

Each name in a model is the name of the code's variable where TLA+ allows it.
`map` in `PROJECT.json` gives the source lines of every definition.  Definitions
called `X_Something` with the comment "Faulty variant" are not part of a
specification: each is a plausible bug in `X`, and replacing `X` by it must break
the property named with it under `mutants`.

### The path database: `Database`, `ReadersWriters`

`Database` is what the database promises: lookups and insertions happen at one
instant each.  `ReadersWriters` is `read_database` and `write_database`
(server.c:427-472) operation by operation.  A step of a thread is one semaphore
operation with the counter it protects, one node of a list visited
(`get_cache`), or one of the two pointer assignments of `to_cache`; `pc` names
the next operation, `rest` is the local `node`.  A cache node is its vertex: the
path it carries is determined by the pair of vertices.  `AtomicDatabase` maps
the threads' positions to the states of `Database`: a lookup takes effect when
the scan ends, an insertion when the list head is assigned.

### The threads of the server: `Server`

Actions named after the code of `connection_listener`, `connection_handler`,
`pool_resizer` and `handle_sigint`.  What is one step and what is not:

- a section under `load_mutex`, or a handler's section under `graph_mutex`, is
  one step, since nothing in it blocks and nobody else looks in between;
- the main thread's section under `graph_mutex` is three steps (`Lock`,
  `Enqueue`, `Unlock`), because SIGINT is handled on that thread, on top of
  whatever it was doing;
- `interrupted` remembers the operation SIGINT came before.  One SIGINT is
  modelled; a second one is blocked while the first is handled.  Linux gives a
  signal sent to the process to its main thread whenever that thread does not
  block it, which it never does; so `tid` is `main_thread` at 120-125 and the
  branches for other threads are left out.  (On a thread of the pool, 132 would
  compare a thread id with an index and make the thread join itself.)

`dynr->resize` is read before it is set (`Init`: any Boolean).  Joining or
cancelling a thread id that was never stored, or that is read from an array
`realloc` has freed, is undefined: the model lets the process abort.  A
cancelled resizer ends at its cancellation points (`sem_wait`, `dprintf`).
Threads carry no index, as nothing depends on it except pool[0], the resizer.
`ReadRequest` is the read of the request (373) and `Reply` the write of the answer
(413): both wait for the client, so that no fairness is given to them, and both may
fail (`ConnectionFails`): `xread` and `xwrite` exit, SIGPIPE kills, and a request
that is none may index nodes that are not there; `process` is then `failed`.  A
lookup hits or misses; that it is atomic and ends is what `ReadersWriters` shows,
and what a search does is in `PathSearch` (here `Compute` always ends, also for
paths that overrun an array there).  The last step, `Destroy`, exits or aborts: `delete_graph_node` and
`delete_cache_node` free a node in a loop that never advances, which is undefined
for any list that is not empty.

### One server at a time: `SingleInstance`

`create_sem`, `delete_sem` and every way a server process ends, for any number
of processes.  The name is not removed by a process that dies.

### The growing queue and the search: `Fifo`, `RingQueue`, `PathSearch`

`RingQueue` is `queue.h`: `enqueue`, `enlarge`, `dequeue` on an array with
`front`, `back` and `size`; `Fifo` is a sequence.  `PathSearch` extends it: its
queue holds the paths of BFS, and one request is followed from the lines of the
input file (`read_graph`, `create_graph`) through `BFS` to the answer
(`prepare_packet`).  A step of BFS is one path dequeued, one neighbour looked at
or one path freed, with the queue operations it calls.  A path is the sequence of
its nodes and the capacity of its own queue; `copy` makes a queue of `PathCap`
places, and writes behind it when the path it copies had grown beyond that
(`CopyOverrun`, after which nothing is claimed).  `blocks` counts what the search has
allocated and not freed: the struct and the array of each queue and `visited`;
`enlarged` counts the enlargements, each of which forgets a struct.  Left out: a
file without a last newline, requests for nodes the graph does not have, negative
numbers in the file (`FilesAssumption`: they would be indices), and the answer of
`prepare_packet`, which the database keeps.

### The mess hall: `MessHall`

Supplier, cooks, students and supervisor with the tokens of kitchen, counter and
line.  A section under a room or peek mutex is one step, and the posts that
follow it belong to it, as they wait for nothing and only enable others.  Places
in a room are counted per kind; the positions in it are not told apart.  The
tables are left out: a student finds one and leaves it inside the same critical
section (477-483), so that it never waits for it.  The supply file is any order
of the right number of plates.  `AwaitFood` takes a plate of each kind at once:
only the supervisor waits on these semaphores.

### Chefs and wholesaler: `Gullac`

A chef is the pair of ingredients it lacks, the semaphores are counted per
ingredient, and `semop` takes both at once.  The posts of a chef that leaves are
one step with its test of `finished`.  `newline` tells whether the last row of
the file ends with one: without it the row is not read (238).

### Florists: `Florists`

One mutex and one condition for all queues.  `Wait` gives the mutex up,
broadcasts put every waiting florist back to competing for it, and a condition
may wake a thread nobody signalled (`Spurious`).  The distance from each request
to each florist is given in place of coordinates, and flowers not on sale are
`NotSold`; `FindFlorist` is the loop of `find_florist`, which keeps the last of
several closest.  SIGINT frees what the florists use (`freed`).  A florist
that goes on may find it as it was, may end the process, or may do anything
(`undefined`): the state is not followed any more, and no property says anything
of it.  The process is `undefined` too when the handler calls `free` while the
main thread was in `malloc` or `free`, where it may also wait for its own lock.  Times of preparation and delivery are
left out: no property depends on them.  (They are `speed * distance` with the
Manhattan distance, program.c:387; the assignment measures with the Chebyshev
distance and gives the speed in clicks per ms, readme.md:19-33.)

### The pipeline: `Pipeline`

P1 and P2 statement by statement as far as signals can tell them apart: a signal
is `pending` until the mask of the process, a function of its position
(`Blocked1`, `Blocked2`), lets it through, and then it does what the handler of
that position does.  A section under the file lock is one step.  The file is its
characters, since `next_empty`, `next_available` and `remove_line` work on them,
two at a time; a digit knows its line.  SIGINT and SIGTERM from outside come at
any moment to either process, as often as `Outside` has them.  Left out: the
values of points, equations and metrics, how one byte is turned into a
coordinate, and lines for which the fit is no number.

### The matrix product: `Quarters`

A pipe is a sequence with a capacity; a packet is a header and a rest, read
separately.  Whether the end of a pipe is seen follows from who still has the
other end open, with what the children inherit (`CanWriteTo`, `CanAnswer`).
SIGCHLD is pending or not; the handler is entered and left in two steps, with
others in between.  `int_handler` ends one process at any moment.

What happens to the buffers is modelled by what arrives.  `pack` writes a number
before it looks whether the buffer is large enough (460-470), and copies the
packet without its NUL (477); `write2matrix` then appends the second packet with
`strncat` (417), wherever in the heap the next zero is.  If memory happens to be
zero there, the two are one behind the other; otherwise stale bytes come between
them, and the write is cut off at the size of both.  So each packet is sent whole,
or is `garbled`, counted by `spoiled`; who reads where no packet begins ends with an error,
or takes any matrix of the right size that the bytes may spell (`Garbage`).  The
product is claimed as long as nothing is spoiled; everything else (children,
signals, ends of pipes, the end of P1) is claimed in any case.  Left out: the text
of the numbers, and the singular values printed at the end.

### Rows of two programs: `Rows`

The files are characters, as `get_empty` and `get_nonempty` scan them for
newlines and look at what follows; behind the end the buffer holds whatever it
held (`Stale`).  Each program is the sequence of its locked sections: find and
write for A, find, read and delete for B, find and write for its results.
`misled` records that a row was written where a space behind the data made the
last newline look like an empty row.  That row overwrites this newline and
nothing else that is filled, which `NothingOverwritten` claims of that very step;
after it rows no longer start at multiples of the row size, and only the end of
all instances is still claimed.  Left out: the transform of the numbers, rows so
full of digits that they have no newline, and files beyond one buffer of 1024
characters.

## Runs

| run | instance | states | shows |
|---|---|---|---|
| `rw` | 2 threads, 2 pairs in one list | 10,042 | exclusion, writers first, atomic lookups and insertions, every request is answered |
| `rw_duplicates` | 2 threads, 1 pair | violation | the cache gets the same pair twice |
| `server_safety` | 4 handlers growing to 5, at most 7, 3 clients, symmetric | 147,263 | tokens, load and pool size, ownership of connections, what a shutdown leaves |
| `server_live` | 2 handlers, 3 clients | 141,046 | every client is answered unless SIGINT comes, a connection fails or silent clients are in the way; an idle server shuts down |
| `path_search` | files of up to 4 edges over 5 nodes and lines that close cycles, queue of 1 place that grows, paths of 3 | 48,920 | shortest paths, near-shortest paths in the queue, paths are freed once and the leaks are the known ones, the ring is a FIFO, every search ends |
| `mess_hall` | 3 cooks, an undergraduate, a graduate, L = 1, S = 3 | 1,013,773 | tokens and plates agree, no assertion fails, no plate is lost |
| `mess_hall_live` | 3 cooks, 1 student | 113,718 | every process ends |
| `gullac` | 6 chefs, 10 rows | 337,992 | one chef for each delivery, nothing is left, all leave |
| `florists` | 2 florists, 3 requests, one SIGINT | 183,104 | order, closest florist, no missed wake-up, the end |
| `pipeline` | 4 lines of 4, 3, 3 and 5 characters, SIGINT and SIGTERM to each process | 138,444 | the file is a queue, reports in order, no lost wake-up, who can kill P2, a SIGINT in the section is counted |
| `quarters` | 4 x 4 matrices, pipes of 4 or 6 places, one SIGINT or one spoiled packet | 394,081 | the product of whole packets, children counted, nobody left behind, P1 comes to its end, the product comes |
| `rows` | 2 As with 2 and 1 rows, 2 Bs, rows of 3 characters | 125,666 | whole rows, nothing overwritten but one newline, no row without a result, all end |

Why the bounds are enough to mean something.  In `ReadersWriters` two threads are
a reader inside and a writer kept out, or the reverse, and two pairs of one list
make an insertion visible to the lookup of another; for any number of threads the
safety properties are proved.  Four handlers are the least whose growth
((n - 1) * 1.25, truncated) adds a thread, and three clients keep three of four
busy, which is the 75% that asks for it; two handlers and three clients are a pool
that is always short.  Five nodes and four edges have two paths of different
length, two of the same length and a node queued twice; a queue of one place
doubles several times and wraps around, and paths of three places reach the copy
that does not fit.  Three cooks are the least the program accepts (N > 2), and
with two the same model deadlocks.  Six chefs and ten rows are the program as it
is.  Two florists and all distances 0, 1 and "not sold" give every comparison and
tie, three requests give every length of the two queues.  Lines of 4, 3, 3 and 5
characters end at even and odd offsets, which the scan in pairs tells apart, and
are followed by many spaces, one and none.  A packet is a header and two more
places (`Rest`), so that a read may be short; a pipe of 6 places takes the two
operands of a child, one of 4 does not.  One fault (`MaxFaults`), a packet or a
process, at any moment; `Garbage` has a wrong operand and a wrong quarter.  Two As and two Bs are all pairs of programs that
can meet, three rows are a first, a middle and a last one.

`CHECK_DEADLOCK FALSE` stands only where the program itself ends; `MessHall`
ends in a stuttering action instead, so that its deadlocks are found.  In
`mess_hall_live` there are so few plates that no room is ever full; that a full
kitchen or counter stops nobody for ever is shown by the search for deadlocks of
`mess_hall` only.  With a second student, or a second round, the check of
`EveryoneLeaves` takes too long to be repeated.

### Fairness

Weak fairness for a thread that can run: the scheduler of the system gives every
runnable thread time.  Strong fairness only where a thread waits for a semaphore
or mutex that others take again and again: a waiter of a futex is served in the
end, although POSIX leaves the order open.  Nothing is assumed of the outside:
clients may stop coming, `accept` may never return, a client may send no request
or read no answer (`OnClient` has no fairness), SIGINT may never arrive, and
spurious wake-ups are allowed but not promised.  The properties of `server_live`
name what that costs: a client is answered unless it, or others of its kind on
every handler, keep a handler for ever.  In `Gullac` weak fairness is
enough: the pair posted for a chef stays until this chef takes it.  `Pipeline`
assumes weak fairness of P1, of P2 and of the delivery of signals, and nothing of
signals from outside.  In `Quarters`, `Rows` and `PathSearch` it is enough that
some step is taken while one is possible: every behaviour is finite, SIGINT
being no step of the program.  The end of the florists is claimed for a handler
whose `free` and `exit` return; where they may not, the process is `undefined`.

### Counterexamples kept beside the listed runs

Each of these configurations makes TLC find a behaviour in which the code does
not do what a document says or a reader would expect.  They are not in the list
of runs; the property is stated in the module, with the sentence it comes from
where there is one.

| configuration | property | what happens |
|---|---|---|
| `Server_sigint_stuck` | `SigintProceeds` | SIGINT comes while the main thread holds `graph_mutex` (311-313); the handler waits for it (116) |
| `Server_dequeue_crash` | `NoCrashInDequeue` | a handler that saw a queued client finds the queue empty after another took it; `dequeue` exits the process |
| `Server_join_garbage` | `JoinsOnlyThreads` | the resizer is cancelled between enlarging `n` and creating the threads; thread ids never set are joined |
| `Server_lost_report` | `ReportReachesResizer` | `resize` was never initialised: when it happens to be true, no report ever wakes the resizer |
| `Server_join_hangs` | `JoinEnds` | SIGINT comes between the queueing of a connection and its token; the shutdown waits for ever |
| `Server_release` | `ReleaseExits` | freeing a list that is not empty may abort the process |
| `PathSearch_leak` | `NothingLeaks` | "Memory leak" (readme.md:208): `visited` and the struct of the answer stay allocated |
| `PathSearch_long` | `CopyFits` | a path that has grown beyond the capacity of a new queue is copied into one (graph.h:133) |
| `SingleInstance_leak` | `RefusedForAReason` | after a crash no server can start |
| `MessHall_priority` | `GraduatesFirst` | an undergraduate is granted a place decided before a graduate came |
| `Gullac_last_row` | `EveryRowDelivered` | a last row without a newline is not delivered |
| `Florists_sigint` | `ShutsDownGracefully` | a florist uses what the handler of SIGINT freed, or the handler interrupts `malloc` |
| `Pipeline_last_lines` | `AllLinesReported` | P1 writes the last line after P2 found the file empty, and sends SIGUSR1 before P2 tests `P1_finished` |
| `Pipeline_sleeps` | `P2Ends` | SIGUSR1 is handled between the test of `P1_finished` and `sigsuspend` |
| `Quarters_pause` | `P1Ends` | SIGCHLDs of children that end together are one, and those before `pause` wake nobody |
| `Quarters_large` | `ProductAnyway` | operands that do not fit into a pipe are read before they are complete: a child gets a part of the second packet and ends, and its SIGCHLD cuts P1's blocked write short |
| `Rows_lost` | `EveryRowRead` | of three rows the third is read while the second is deleted |

`SingleInstance.cfg` (four processes, `OneServes`) passes; it is not listed
because the theorem below says the same for any number of processes.

## Proofs

All theorems hold for every value of the constants that satisfies the named
assumptions of the module; TLC evaluates these assumptions in the runs.

- `ReadersWritersProofs` (any finite set of threads, any graph, any requests):
  `Invariance`, `Exclusion`, `NoNestedWait`, `WritersFirst`, and the refinement
  `Atomicity`: every step of the threads is a step of `Database` or changes
  nothing that it sees.  Exclusion is not
  inductive: it rests on who holds each semaphore.  `Inv` says that each counter
  counts the threads between its two updates, that each of the four semaphores
  is 1 exactly when nobody is between taking and giving it, that `read_try` is
  held by one reader or by the writers together and `cache_mutex` by one writer
  or by the readers together, and that only the first in and the last out move
  the shared ones.  The first four results follow from it.  The refinement adds
  `LocalsOK`: what a lookup will find in the rest of the list is what it would
  find in the whole list, and an insertion still holds the head it read; both
  stand because exclusion keeps the list as it is while a reader walks it.
- `PathSearchProofs` (any items, start capacity and number of enlargements; any
  graph and requests): `AlwaysConsistent`, and `IsFifo`, the refinement of `Fifo`.
  Below twice the capacity, `%` is one conditional subtraction (`Wrap`), so that
  the indices are linear for the solver; then one lemma for each operation gives
  the new contents: the item appended, the head removed, nothing changed by the
  enlargement but the new item.  `SearchFreesPaths` rests on `Account`, the number
  of allocated blocks at each place of BFS.  `SearchAnswersShortest` and
  `QueueNearlyShortest` rest on `SearchInv`.  Its parts: the lists are the
  edges of the file (`GraphInv`, from a lemma that follows the loops of
  `read_graph`); every path BFS holds goes along edges, visits no node twice, and
  has marked nodes up to its last (`Sound`); the queue is in the order of lengths,
  which differ by one at most, also from the path at work (`Sorted`, `Together`);
  nodes that are at least two edges nearer than the first path is long are marked
  (`NearMarked`); and a neighbour of a marked node is marked, waits at the end of
  a path that is short enough, or is still to be looked at (`Followed`).  The step
  that needs an argument is `FreePath`: the next path may be one edge longer, and
  a node that this makes "near" is a neighbour of one that was; by `Followed` it
  is marked, or it waits at a path shorter than the first one, which `Sorted`
  excludes.  When the queue is empty, the marked nodes are closed under the edges,
  so that the answer "not possible" is true.  A node may be dequeued a second
  time at a greater length: that is why each part bounds a path by the distance
  plus one edge (`InTime`) and not by the distance, which is not inductive.
- `ServerProofs` (any pool sizes, any clients, SIGINT at any moment).  `ShutdownInv`:
  what has been announced, cancelled and joined at each place of the handler of
  SIGINT; from it `NobodyLeaves`.  `AcceptInv`: the listener has a connection in its
  hands exactly between `accept` and the queue, also when SIGINT interrupted it
  there; with `ShutdownInv` this gives `OrderlyEnd`.  `OneOwnerEach` needs no
  strengthening: that each connection is in one place is inductive.  `LoadInv` and `PoolInv`: a pending
  post of `pooler_sem` or a resizer at work keeps `resize` set, so that no second
  enlargement starts; with the bound on `n` this gives `PoolHolds`.  `TokenInv`:
  tokens, threads between a token and the queue, and queued connections add up,
  corrected for the place where SIGINT interrupted the listener; from it
  `TokensAgree` and `DequeueFindsOne`.
- `MessHallProofs` (any number of cooks, students, rounds and places that the
  program accepts): `TokensAlwaysHold`, `SlotsAlwaysFound`, `FullCounterServes`,
  `NoPlateLost`.  The counts of processes at a place change by one when one of
  them moves (`Recount`, `CookMoves`, `StudentMoves`); with these the equations
  of kitchen, counter and line are linear, and each is inductive together with
  the types.  The step that needs an argument is `PickUndergraduate`: `s_peek` is
  zero, so that every graduate in line has its grant, and the student the
  supervisor was told of is an undergraduate.
  `SlotsFound` follows from the equations, `PlatesConserved` is a sum over them.
- `PipelineProofs` (any number of lines of any length, any signals from outside):
  `P1NeverKills`, `P2Outlasts`, `TheFileIsAQueue`, `Reported`, `Woken`.
  `SignalInv` says that SIGUSR1 is pending or handled only when P1 has written all
  its lines, and that a signal that can kill P2 was sent from outside.  `FileInv`
  adds what the file holds: the lines from one that P2 has not removed to the last
  that P1 wrote, followed by spaces (`Queue`), and that the report has the lines
  before it, in order (`Reports`).  Most of the proof is about the scans in pairs
  of characters: what `next_empty`, `next_available` and `remove_line` return on
  such a file, whatever the lengths of the lines.
- `QuartersProofs` (any even size and any capacity of the pipes): `Reaping`,
  `QuartersMakeProduct`.  `ReapInv` says that the handler has counted the
  children that are reaped, while signals that come together count as one.
  The product is proved under the condition that no packet is spoiled
  (`UnspoiledInv`; a step that spoils one makes the condition false for ever):
  `ProductInv` says that the pipe to a child holds the part of its operands
  between what it has read and what P1 has written (`OperandsInv`), that the pipe
  back holds nothing, or the product, or its rest after the header (`AnswerInv`),
  and that what is collected is the product of the quarters; `Merged` then shows
  that the four quarters in their places are the product of the whole.
- `ServerProofs` also instantiates `SingleInstance` (any set of processes):
  `Exclusive`.
- `MessHallProofs` also extends `Gullac` (any finite set of at least two
  ingredients, any number of rows from two on), whose definitions do not share a
  name with those of `MessHall` (`GullacInit`, `GullacNext`, `ChefsLeave`):
  `ChefTakesOwn`, `DeliveryIsOne`, `NothingIsLeft`.  `GullacInv` adds to the three
  the phase of the wholesaler and what is in the store.  The step that needs
  an argument is `WaitIngredients`: with exactly one pair announced, the only pair
  contained in it is itself, so that the chef let in is the one the delivery is
  for.
- `RowsProofs` (any instances of the two programs, any input, rows of any length
  of at least three characters): `FilesOfWholeRows`, `NoRowIsLost`,
  `RowsAreKept`.  `RowsInv` says of the locks that who writes a file is alone
  (`Locks`), and, unless an instance was misled, that both files are rows at
  multiples of `COMPLEX_BYTE` (`IsRows`), that an offset found for writing is
  an empty row or the end (`Slot`), that one found for reading is in the file
  (`Aimed`), and the count of rows (`Counted`).  The step that needs an argument
  is `GetEmpty`: a newline before a space is the first character of an empty row,
  since the newline of a filled row is its last and no row begins with a space.
  `Overwritten` is the arithmetic: a write at the place of a row reaches no other.
  A misplaced row is written at the last character of the file (`Edge`), so that
  it reaches that newline and nothing before it (`EdgeWritten`).
- `FloristsProofs` (any number of florists, requests and distances): `NoneMissed`,
  `OrdersKept`, `DeliveredByClosest`, `EverythingDelivered`.  `Inv` adds that a
  florist closes only after `finished`, so that no request is queued for one that
  has left.  `DayInv` adds the books (`Books`): what is delivered, in hand and
  queued at a florist, one after the other, are the requests before `i` that it is
  the last of the closest for.  `FindFlorist`, a loop over the florists, is
  proved to be that florist (`Closest`).

Induction.  The induction theorems of the library take an operator as a
parameter, which the provers here cannot instantiate.  `PathSearchProofs` and
`FloristsProofs` therefore state induction about a set: a set of naturals that is
not empty has a least element (`Least`, from the library's theorem that the order
of the naturals is well-founded), so that a set that contains 0
and n + 1 with every n contains every natural (`Induction`).  From it follows that
a function defined step by step exists (`Recursion`), and so that `Reach`,
`graph_list` and the like, which TLA+ defines as a choice, satisfy their equations.

Only model-checked: liveness (`EveryRequestAnswered`, `EveryClientAnswered`,
`GracefulWhenIdle`, `EveryoneLeaves`, `ChefsLeave`, `ProgramEnds`, `SearchEnds`,
`SectionCounted`, `NobodyIsLeft`, `P1Settles`, `AllEnd`), which this prover does
not reach, and the invariant `ProductComes`.  Every other property of a passing
run is proved.

## Not modelled

- The client: one sequential process, a request and a loop that prints the answer
  in chunks; it meets nobody but the server, whose answer is one step here.
- Numeric kernels (transform, fit, singular values): floating point.
- Command lines and wrappers of system calls that only report errors, becoming a
  daemon, log output: one process, before there is another, or output only.
- `int_handler` of the mess hall: every process ends, whichever of them is the
  first to remove a name.
- The parsing of the florists' file, locations and times.
- Scripts that generate or plot data, and the program of homework 1 that starts
  the instances.

## Plan

Done, in this order: `ReadersWriters`, `Server`, `SingleInstance`, `RingQueue`,
`MessHall`, `Gullac`, `Florists`, `Pipeline`, `Quarters`, `Rows`, `PathSearch`;
then the proofs of every safety property the runs check.

Left: an answer in chunks and the loop of the client.
