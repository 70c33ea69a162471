------------------------------ MODULE Quarters ------------------------------
(***************************************************************************)
(* homework-3/program.c: P1 splits the product of two matrices among four  *)
(* children, writes each its operands into a pipe, collects the quarters   *)
(* from four other pipes, merges them and waits for the children.          *)
(* A packet is a header, read first, and a rest that is read at once: a    *)
(* short read ends the reader.  The text of the numbers is left out, but    *)
(* not what happens to the buffers it is built in: pack writes behind its   *)
(* buffer before it enlarges it, and leaves a packet without a final NUL to *)
(* which write2matrix appends with strncat.                                 *)
(***************************************************************************)
EXTENDS Integers, Sequences, SequencesExt, FiniteSets

CONSTANTS
    Inputs,         \* pairs of square matrices, sequences of rows
    Rest,           \* places of a pipe that the rest of a packet takes
    Capacities,     \* how many places a pipe may have; the header takes one
    Garbage,        \* what may be read where no packet begins: a matrix, and how
                    \* many places of the pipe it seems to take
    MaxFaults       \* bounds the packets spoiled and processes interrupted

Children == 0..3
CHILDREN == 4

ASSUME InputsAssumption ==
    \A input \in Inputs :
        LET n == Len(input[1])
        IN /\ n > 0 /\ n % 2 = 0
           /\ \A m \in {input[1], input[2]} :
                 Len(m) = n /\ \A i \in 1..n : m[i] \in Seq(Int) /\ Len(m[i]) = n
\* A quarter fits in a pipe; the operands, four times as many numbers, may not.
ASSUME PipeAssumption ==
    Rest \in Nat \ {0} /\ Capacities \subseteq Nat /\ \A n \in Capacities : n > Rest
ASSUME FaultsAssumption ==
    MaxFaults \in Nat /\ \A g \in Garbage : g.size \in Nat \ {0}

VARIABLES
    a, b,               \* the matrices
    capacity,
    p1,                 \* the next operation of P1
    q,                  \* the quarter it is at
    unwritten,          \* what P1 has still to write to the child q
    mats,               \* the quarters it has collected
    final,
    zombies_handled,
    sigchld,            \* whether SIGCHLD is pending
    child,              \* the next operation of each child, "none" before its fork
    handling,           \* whether P1 is in child_handler
    reaped,             \* how many children have been waited for
    operands_of,        \* the matrices each child has read
    to_child, to_p1,    \* the pipes fd[q][P] and fd[q][C]
    sigint,             \* whether a process may still be ended from outside
    spoiled             \* how many packets were not built as they should be

input_vars == <<a, b, capacity>>
p1_vars == <<p1, q, unwritten, mats, final>>
chld_vars == <<zombies_handled, sigchld, handling, reaped>>
child_vars == <<child, operands_of>>
pipes == <<to_child, to_p1>>
faults == <<sigint, spoiled>>
vars == <<input_vars, p1_vars, chld_vars, child_vars, pipes, faults>>

-----------------------------------------------------------------------------
\* Matrices.
piece(m, imin, imax, jmin, jmax) ==
    [i \in 1..(imax - imin) |-> [j \in 1..(jmax - jmin) |-> m[imin + i][jmin + j]]]

Columns(m) == Len(m[1])

Total(s) == FoldLeft(LAMBDA t, e : t + e, 0, s)

multiply(x, y) ==
    [i \in 1..Len(x) |-> [j \in 1..Columns(y) |->
        Total([k \in 1..Len(y) |-> x[i][k] * y[k][j]])]]

\* Faulty variant: rows and columns of the second and third are exchanged.
operands_Crossed(c) ==
    LET n == Len(a)
        half == n \div 2
    IN << IF c \in {0, 2} THEN piece(a, 0, half, 0, n) ELSE piece(a, half, n, 0, n),
          IF c \in {0, 1} THEN piece(b, 0, n, 0, half) ELSE piece(b, 0, n, half, n) >>

\* The upper or lower half of a, the left or right half of b.
operands(c) ==
    LET n == Len(a)
        half == n \div 2
    IN << IF c \in {0, 1} THEN piece(a, 0, half, 0, n) ELSE piece(a, half, n, 0, n),
          IF c \in {0, 2} THEN piece(b, 0, n, 0, half) ELSE piece(b, 0, n, half, n) >>

merge_quarters(m) ==
    LET n == Len(m[0])
        shifti == [c \in Children |-> IF c \in {2, 3} THEN n ELSE 0]
        shiftj == [c \in Children |-> IF c \in {1, 3} THEN n ELSE 0]
        At(i, j) == CHOOSE c \in Children : i - shifti[c] \in 1..n /\ j - shiftj[c] \in 1..n
    IN [i \in 1..(2 * n) |-> [j \in 1..(2 * n) |->
          m[At(i, j)][i - shifti[At(i, j)]][j - shiftj[At(i, j)]]]]

\* Packets.  The first part is the header.
pack(m) == [k \in 1..(1 + Rest) |-> [mat |-> m, part |-> k]]

\* What is sent in place of a packet that an overrun has damaged, or that is
\* appended behind stale bytes and cut off at the size of both: no header.
garbled == [k \in 1..(1 + Rest) |-> [mat |-> <<>>, part |-> 0]]

\* What is sent for a matrix, and how many packets that spoils.
sent(m) == {<<pack(m), 0>>, <<garbled, 1>>}

\* What a reader may find in a pipe where it expects a packet for m: a matrix
\* with the dimensions of m that is there completely.  Others fail an assertion,
\* go beyond a matrix, or are a short read.
found(pipe, m) == {g \in Garbage : /\ g.size <= Len(pipe)
                                   /\ Len(g.mat) = Len(m) /\ Columns(g.mat) = Columns(m)}

\* Faulty variant: without the header.
write_quarter_Bare(m) == Tail(pack(m))

write_quarter(m) == pack(m)

Least(m, n) == IF m < n THEN m ELSE n
Take(s, n) == SubSeq(s, 1, Least(n, Len(s)))
Drop(s, n) == SubSeq(s, 1 + Least(n, Len(s)), Len(s))

-----------------------------------------------------------------------------
Init ==
    /\ \E input \in Inputs : a = input[1] /\ b = input[2]
    /\ capacity \in Capacities
    /\ p1 = "fork"
    /\ q = 0
    /\ unwritten = <<>>
    /\ mats = [c \in Children |-> <<>>]
    /\ final = <<>>
    /\ zombies_handled = 0
    /\ sigchld = FALSE
    /\ handling = FALSE
    /\ reaped = 0
    /\ child = [c \in Children |-> "none"]
    /\ operands_of = [c \in Children |-> <<>>]
    /\ to_child = [c \in Children |-> <<>>]
    /\ to_p1 = [c \in Children |-> <<>>]
    /\ sigint = TRUE
    /\ spoiled = 0

\* The faults there were.
Faults == spoiled + (IF sigint THEN 0 ELSE 1)

P1Lives == p1 \notin {"exited", "dead"}
Alive == {c \in Children : child[c] \notin {"none", "exited"}}
Zombies == Cardinality({c \in Children : child[c] = "exited"}) - reaped

\* Who has an end of a pipe open: P1 closes the ends of the children after
\* each fork, so that the next children inherit only P1's ends.  P1 closes
\* those when all quarters are there.
P1Pipes == p1 \in {"fork", "write", "header", "rest"}
Later(c) == {d \in Alive : d > c}

\* Faulty variant: the child does not close the writing end of its own pipe.
CanWriteTo_Kept(c) == P1Pipes \/ Later(c) # {} \/ c \in Alive

CanWriteTo(c) == P1Pipes \/ Later(c) # {}

\* Faulty variant: P1 keeps the writing end of the child's pipe.
CanAnswer_Kept(c) == c \in Alive \/ P1Pipes

CanAnswer(c) == c \in Alive

-----------------------------------------------------------------------------
\* P1.  The operands of the child are packed and merged after its fork.
pipe_and_fork ==
    /\ p1 = "fork"
    /\ p1' = "write"
    /\ child' = [child EXCEPT ![q] = "header"]
    /\ \E x \in sent(operands(q)[1]), y \in sent(operands(q)[2]) :
          /\ unwritten' = x[1] \o y[1]
          /\ spoiled' = spoiled + x[2] + y[2]
    /\ UNCHANGED <<input_vars, q, mats, final, chld_vars, operands_of, pipes, sigint>>
    /\ Faults' <= MaxFaults

\* write2matrix: what fits goes into the pipe, the rest has to wait; without
\* the child SIGPIPE ends P1.
write_operands ==
    LET room == capacity - Len(to_child[q])
    IN /\ p1 = "write" /\ q \in Alive
       /\ room > 0
       /\ to_child' = [to_child EXCEPT ![q] = @ \o Take(unwritten, room)]
       /\ unwritten' = Drop(unwritten, room)
       /\ IF unwritten' # <<>>
             THEN UNCHANGED <<p1, q>>
             ELSE /\ p1' = IF q = CHILDREN - 1 THEN "header" ELSE "fork"
                  /\ q' = IF q = CHILDREN - 1 THEN 0 ELSE q + 1
       /\ UNCHANGED <<input_vars, mats, final, chld_vars, child_vars, to_p1, faults>>

BrokenPipe ==
    /\ p1 = "write" /\ q \notin Alive
    /\ p1' = "dead"
    /\ UNCHANGED <<input_vars, q, unwritten, mats, final, chld_vars, child_vars, pipes, faults>>

CollectHeader ==
    /\ p1 = "header"
    /\ to_p1[q] # <<>> /\ to_p1[q][1].part = 1
    /\ p1' = "rest"
    /\ to_p1' = [to_p1 EXCEPT ![q] = Tail(@)]
    /\ UNCHANGED <<input_vars, q, unwritten, mats, final, chld_vars, child_vars, to_child, faults>>

CollectRest ==
    LET read == Take(to_p1[q], Rest)
    IN /\ p1 = "rest"
       /\ read # <<>>
       /\ to_p1' = [to_p1 EXCEPT ![q] = Drop(@, Rest)]
       /\ IF Len(read) = Rest
             THEN /\ mats' = [mats EXCEPT ![q] = read[1].mat]
                  /\ p1' = IF q = CHILDREN - 1 THEN "merge" ELSE "header"
                  /\ q' = IF q = CHILDREN - 1 THEN 0 ELSE q + 1
             ELSE p1' = "dead" /\ UNCHANGED <<mats, q>>
       /\ UNCHANGED <<input_vars, unwritten, final, chld_vars, child_vars, to_child, faults>>

\* No packet begins here: whatever its first bytes say is read, in vain or not.
CollectGarbled ==
    /\ p1 = "header"
    /\ to_p1[q] # <<>> /\ to_p1[q][1].part # 1
    /\ \/ p1' = "dead" /\ UNCHANGED <<mats, q, to_p1>>
       \/ /\ \E g \in found(to_p1[q], piece(a, 0, Len(a) \div 2, 0, Len(a) \div 2)) :
                /\ to_p1' = [to_p1 EXCEPT ![q] = Drop(@, g.size)]
                /\ mats' = [mats EXCEPT ![q] = g.mat]
          /\ p1' = IF q = CHILDREN - 1 THEN "merge" ELSE "header"
          /\ q' = IF q = CHILDREN - 1 THEN 0 ELSE q + 1
    /\ UNCHANGED <<input_vars, unwritten, final, chld_vars, child_vars, to_child, faults>>

\* The end of the pipe: an assertion or a short read.
CollectNothing ==
    /\ p1 \in {"header", "rest"}
    /\ to_p1[q] = <<>> /\ ~CanAnswer(q)
    /\ p1' = "dead"
    /\ UNCHANGED <<input_vars, q, unwritten, mats, final, chld_vars, child_vars, pipes, faults>>

Merge ==
    /\ p1 = "merge"
    /\ p1' = "check"
    /\ final' = merge_quarters(mats)
    /\ UNCHANGED <<input_vars, q, unwritten, mats, chld_vars, child_vars, pipes, faults>>

CheckZombies ==
    /\ p1 = "check"
    /\ p1' = IF zombies_handled < CHILDREN THEN "pause" ELSE "exited"
    /\ UNCHANGED <<input_vars, q, unwritten, mats, final, chld_vars, child_vars, pipes, faults>>

P1 ==
    /\ ~handling
    /\ \/ pipe_and_fork \/ write_operands \/ BrokenPipe
       \/ CollectHeader \/ CollectRest \/ CollectGarbled \/ CollectNothing \/ Merge \/ CheckZombies

\* SIGCHLD is blocked in its handler; another one may become pending.
EnterHandler ==
    /\ P1Lives /\ sigchld /\ ~handling
    /\ sigchld' = FALSE
    /\ handling' = TRUE
    /\ UNCHANGED <<input_vars, p1_vars, zombies_handled, reaped, child_vars, pipes, faults>>

\* Where P1 goes on: a write that is blocked after a part of the packet is cut
\* short, an error; pause returns.
Resumed ==
    CASE p1 = "pause" -> "exited"
      [] p1 = "write" /\ unwritten # <<>> /\ Len(unwritten) < 2 * (1 + Rest) -> "dead"
      [] OTHER -> p1

\* Faulty variant: all children that have ended are waited for.
child_handler_All ==
    /\ P1Lives /\ handling
    /\ handling' = FALSE
    /\ reaped' = reaped + Zombies
    /\ zombies_handled' = zombies_handled + Zombies
    /\ p1' = Resumed
    /\ UNCHANGED <<input_vars, q, unwritten, mats, final, sigchld, child_vars, pipes, faults>>

\* One child is waited for; it is an error to have none.
child_handler ==
    /\ P1Lives /\ handling
    /\ handling' = FALSE
    /\ reaped' = IF Zombies = 0 THEN reaped ELSE reaped + 1
    /\ IF Zombies = 0 /\ Alive = {}
          THEN p1' = "dead" /\ UNCHANGED zombies_handled
          ELSE p1' = Resumed /\ zombies_handled' = zombies_handled + 1
    /\ UNCHANGED <<input_vars, q, unwritten, mats, final, sigchld, child_vars, pipes, faults>>

-----------------------------------------------------------------------------
\* A child.
Ends(c) == child' = [child EXCEPT ![c] = "exited"] /\ sigchld' = P1Lives

\* read_matrix, twice.
ReadHeader(c) ==
    /\ child[c] = "header"
    /\ to_child[c] # <<>> /\ to_child[c][1].part = 1
    /\ child' = [child EXCEPT ![c] = "rest"]
    /\ to_child' = [to_child EXCEPT ![c] = Tail(@)]
    /\ UNCHANGED <<input_vars, p1_vars, chld_vars, operands_of, to_p1, faults>>

ReadRest(c) ==
    LET read == Take(to_child[c], Rest)
    IN /\ child[c] = "rest"
       /\ read # <<>>
       /\ to_child' = [to_child EXCEPT ![c] = Drop(@, Rest)]
       /\ IF Len(read) = Rest
             THEN /\ operands_of' = [operands_of EXCEPT ![c] = Append(@, read[1].mat)]
                  /\ child' = [child EXCEPT ![c] = IF operands_of[c] = <<>> THEN "header" ELSE "multiply"]
                  /\ UNCHANGED sigchld
             ELSE Ends(c) /\ UNCHANGED operands_of
       /\ UNCHANGED <<input_vars, p1_vars, zombies_handled, handling, reaped, to_p1, faults>>

ReadGarbled(c) ==
    /\ child[c] = "header"
    /\ to_child[c] # <<>> /\ to_child[c][1].part # 1
    /\ \/ Ends(c) /\ UNCHANGED <<operands_of, to_child>>
       \/ /\ \E g \in found(to_child[c], operands(c)[Len(operands_of[c]) + 1]) :
                /\ to_child' = [to_child EXCEPT ![c] = Drop(@, g.size)]
                /\ operands_of' = [operands_of EXCEPT ![c] = Append(@, g.mat)]
          /\ child' = [child EXCEPT ![c] = IF operands_of[c] = <<>> THEN "header" ELSE "multiply"]
          /\ UNCHANGED sigchld
    /\ UNCHANGED <<input_vars, p1_vars, zombies_handled, handling, reaped, to_p1, faults>>

ReadNothing(c) ==
    /\ child[c] \in {"header", "rest"}
    /\ to_child[c] = <<>> /\ ~CanWriteTo(c)
    /\ Ends(c)
    /\ UNCHANGED <<input_vars, p1_vars, zombies_handled, handling, reaped, operands_of, pipes, faults>>

\* multiply and write_quarter; a child that nobody reads from is ended by
\* SIGPIPE.
Answer(c) ==
    /\ child[c] = "multiply"
    /\ \/ /\ P1Pipes \/ Later(c) # {}
          /\ \E x \in {<<write_quarter(multiply(operands_of[c][1], operands_of[c][2])), 0>>,
                       <<garbled, 1>>} :
                to_p1' = [to_p1 EXCEPT ![c] = x[1]] /\ spoiled' = spoiled + x[2]
          /\ child' = [child EXCEPT ![c] = "exit"]
          /\ UNCHANGED sigchld
       \/ ~P1Pipes /\ Later(c) = {} /\ Ends(c) /\ UNCHANGED <<to_p1, spoiled>>
    /\ UNCHANGED <<input_vars, p1_vars, zombies_handled, handling, reaped, operands_of, to_child, sigint>>
    /\ Faults' <= MaxFaults

Exit(c) ==
    /\ child[c] = "exit"
    /\ Ends(c)
    /\ UNCHANGED <<input_vars, p1_vars, zombies_handled, handling, reaped, operands_of, pipes, faults>>

Child(c) == ReadHeader(c) \/ ReadRest(c) \/ ReadGarbled(c) \/ ReadNothing(c) \/ Answer(c) \/ Exit(c)

-----------------------------------------------------------------------------
\* int_handler: a SIGINT for one of the processes (CTRL-C simply ends all).  A
\* process ends like this, too, when the heap notices what pack or strncat wrote
\* behind a buffer.
IntHandler1 ==
    /\ sigint /\ P1Lives /\ Faults < MaxFaults
    /\ sigint' = FALSE
    /\ p1' = "dead"
    /\ UNCHANGED <<input_vars, q, unwritten, mats, final, chld_vars, child_vars, pipes, spoiled>>

IntHandler(c) ==
    /\ sigint /\ c \in Alive /\ Faults < MaxFaults
    /\ sigint' = FALSE
    /\ Ends(c)
    /\ UNCHANGED <<input_vars, p1_vars, zombies_handled, handling, reaped, operands_of, pipes, spoiled>>

Interrupts == IntHandler1 \/ \E c \in Children : IntHandler(c)

Steps == P1 \/ EnterHandler \/ child_handler \/ \E c \in Children : Child(c)

Next == Steps \/ Interrupts

Spec == Init /\ [][Next]_vars

\* While a process or the handler of SIGCHLD can take a step, one of them does;
\* none of them can take infinitely many.
FairSpec == Spec /\ WF_vars(Steps)

-----------------------------------------------------------------------------
\* The properties.

\* The quarters, computed in any order by four processes, are the product, if
\* every packet was built as it should be: the second one of a pair directly
\* behind the first (417), none beyond its buffer (460-469).
ProductRight == final # <<>> /\ spoiled = 0 => final = multiply(a, b)

\* The handler counts what it has reaped and never fails for want of a child:
\* each SIGCHLD, pending or in its handler, has a child of its own to wait for,
\* although signals of children that end together are one.
CountsReaped ==
    /\ zombies_handled = reaped
    /\ P1Lives => Zombies >= (IF sigchld THEN 1 ELSE 0) + (IF handling THEN 1 ELSE 0)

\* A child does not outlive P1 for long: the pipes of those that wait for
\* operands end one after the other, from the last child to the first, because
\* each child has closed its own writing end.
NobodyIsLeft == ~P1Lives ~> Alive = {}

\* P1 never waits for a child that has ended without an answer, and comes to
\* the end of its work, with the product or with an error; only pause is left.
P1Settles == <>(~P1Lives \/ p1 = "pause")

\* P1 comes to that end with the product printed, unless a process was ended
\* from outside, a packet was spoiled, or the operands do not fit into the pipes:
\* no child, and no signal of one, makes it give up.
ProductComes ==
    ~P1Lives \/ p1 = "pause"
        => final # <<>> \/ ~sigint \/ spoiled > 0 \/ capacity < 2 * (1 + Rest)

\* False: SIGCHLDs of children that end together are one, and those of children
\* that end between the test and pause wake nobody up.
P1Ends == <>~P1Lives

\* False: operands that do not fit into the pipe are read before they are
\* complete.
ProductAnyway == <>(final # <<>> \/ ~sigint \/ spoiled > 0)
=============================================================================
