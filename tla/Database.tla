------------------------------ MODULE Database ------------------------------
(***************************************************************************)
(* What the path database of final-project/server.c promises the threads   *)
(* that use it: a lookup and an insertion each happen at one instant.  No  *)
(* semaphore, list or scan appears here; ReadersWriters implements this    *)
(* specification with read_database and write_database.                    *)
(***************************************************************************)
CONSTANTS Handlers,   \* the threads of the pool
          Requests    \* the pairs <<i, j>> a client may ask a path for

VARIABLES stored,     \* the pairs whose path is in the database
          phase,      \* where each thread is with its request
          asked       \* the pair each thread works on

dbVars == <<stored, phase, asked>>

DbInit ==
    /\ stored = {}
    /\ phase = [h \in Handlers |-> "idle"]
    /\ asked \in [Handlers -> Requests]

\* A thread takes a request.
Ask(h) ==
    /\ phase[h] = "idle"
    /\ phase' = [phase EXCEPT ![h] = "asked"]
    /\ \E r \in Requests : asked' = [asked EXCEPT ![h] = r]
    /\ UNCHANGED stored

\* A lookup finds the pair exactly when it is stored at that instant.
Lookup(h) ==
    /\ phase[h] = "asked"
    /\ phase' = [phase EXCEPT ![h] =
                    IF asked[h] \in stored THEN "answered" ELSE "missed"]
    /\ UNCHANGED <<stored, asked>>

\* Only the thread that missed the pair inserts it, and nothing is lost.
Insert(h) ==
    /\ phase[h] = "missed"
    /\ phase' = [phase EXCEPT ![h] = "answered"]
    /\ stored' = stored \cup {asked[h]}
    /\ UNCHANGED asked

Reply(h) ==
    /\ phase[h] = "answered"
    /\ phase' = [phase EXCEPT ![h] = "idle"]
    /\ UNCHANGED <<stored, asked>>

DbNext == \E h \in Handlers : Ask(h) \/ Lookup(h) \/ Insert(h) \/ Reply(h)

DbSpec == DbInit /\ [][DbNext]_dbVars
=============================================================================
