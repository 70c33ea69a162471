--------------------------- MODULE SingleInstance ---------------------------
(***************************************************************************)
(* How final-project/server.c keeps a second server from starting: a named *)
(* semaphore that create_sem (261-273) creates exclusively and delete_sem  *)
(* (275-281) removes at the start of handle_sigint (108-139).  The name    *)
(* outlives the process that created it.                                   *)
(***************************************************************************)
CONSTANT Procs      \* server processes started one after the other or at once

VARIABLES
    pc,             \* where each process is
    sem_exists,     \* the name is in the file system
    refused         \* the process ended with "can't create a second instance"

vars == <<pc, sem_exists, refused>>

Labels == {"off", "create_sem", "setup", "serving", "draining"}

Init ==
    /\ pc = [p \in Procs |-> "off"]
    /\ sem_exists = FALSE
    /\ refused = [p \in Procs |-> FALSE]

Goto(p, from, to) == pc[p] = from /\ pc' = [pc EXCEPT ![p] = to]

Start(p) ==
    /\ Goto(p, "off", "create_sem")
    /\ refused' = [refused EXCEPT ![p] = FALSE]
    /\ UNCHANGED sem_exists

\* sem_open with O_CREAT | O_EXCL
CreateSem(p) ==
    /\ ~sem_exists
    /\ Goto(p, "create_sem", "setup")
    /\ sem_exists' = TRUE
    /\ UNCHANGED refused

Refuse(p) ==
    /\ sem_exists
    /\ Goto(p, "create_sem", "off")
    /\ refused' = [refused EXCEPT ![p] = TRUE]
    /\ UNCHANGED sem_exists

\* parse_args, become_daemon, init_shared_resources, attach_sigint_handler
SetUp(p) ==
    /\ Goto(p, "setup", "serving")
    /\ UNCHANGED <<sem_exists, refused>>

\* A wrong argument, any xerror, or a signal without a handler: exit without
\* delete_sem.
Die(p) ==
    /\ pc[p] \in {"setup", "serving", "draining"}
    /\ pc' = [pc EXCEPT ![p] = "off"]
    /\ UNCHANGED <<sem_exists, refused>>

\* handle_sigint deletes the semaphore first, then waits for the threads.
DeleteSem(p) ==
    /\ Goto(p, "serving", "draining")
    /\ sem_exists' = FALSE
    /\ UNCHANGED refused

Exit(p) ==
    /\ Goto(p, "draining", "off")
    /\ UNCHANGED <<sem_exists, refused>>

Next == \E p \in Procs : Start(p) \/ CreateSem(p) \/ Refuse(p) \/ SetUp(p) \/ Die(p)
                         \/ DeleteSem(p) \/ Exit(p)

Spec == Init /\ [][Next]_vars

-----------------------------------------------------------------------------
Owners  == {p \in Procs : pc[p] \in {"setup", "serving"}}
Running == {p \in Procs : pc[p] \in {"setup", "serving", "draining"}}

TypeOK ==
    /\ pc \in [Procs -> Labels]
    /\ sem_exists \in BOOLEAN
    /\ refused \in [Procs -> BOOLEAN]

\* Of all processes, started in any order and dying at any moment, at most one
\* sets up or serves, and nobody removes the name under it: its sem_unlink
\* (279) cannot fail.
OneServes ==
    /\ \A p, q \in Owners : p = q
    /\ Owners # {} => sem_exists

\* "can't create a second instance" (267): there is a first one.
RefusedForAReason ==
    [][ \A p \in Procs : ~refused[p] /\ refused'[p] => Running \ {p} # {} ]_vars
=============================================================================
