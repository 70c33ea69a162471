------------------------------- MODULE Gullac -------------------------------
(***************************************************************************)
(* homework-4/program.c: a wholesaler (the main thread) that delivers two  *)
(* ingredients at a time, and one chef thread for each pair of             *)
(* ingredients.  All chefs wait on the same System V semaphores, one for   *)
(* each ingredient, and semop takes both of a pair at once or none.        *)
(* A chef is identified with the pair it lacks.  A section under           *)
(* store_mutex or finish_mutex is one step.                                *)
(***************************************************************************)
EXTENDS Naturals, FiniteSets

CONSTANTS
    Ingredients,    \* M, F, W and S in the program
    Rows            \* how many rows the file may have

Chefs == {pair \in SUBSET Ingredients : \E i, j \in pair : i # j /\ pair = {i, j}}

EMPTY == {}     \* an empty store

ASSUME IngredientsAssumption == IsFiniteSet(Ingredients) /\ \E i, j \in Ingredients : i # j
\* "Assume the file has valid content and at least 10 rows" (readme.md); with
\* two a row is left when the last one is not read.
ASSUME RowsAssumption == Rows \subseteq Nat /\ \A k \in Rows : k >= 2

VARIABLES
    rows,           \* rows of the file not read yet
    newline,        \* whether the last row ends with a newline
    wholesaler,     \* the next operation of the wholesaler
    sem_index,      \* the pair it delivered last
    store,
    sem_ingred,     \* the semaphores of the ingredients
    dessert,        \* the semaphore of the dessert
    finished,
    chef            \* the next operation of each chef

file == <<rows, newline>>
gullacVars == <<file, wholesaler, sem_index, store, sem_ingred, dessert, finished, chef>>

GullacInit ==
    /\ rows \in Rows
    /\ newline \in BOOLEAN
    /\ wholesaler = "read"
    /\ sem_index \in Chefs          \* not set before the first row
    /\ store = EMPTY
    /\ sem_ingred = [i \in Ingredients |-> 0]
    /\ dessert = 0
    /\ finished = FALSE
    /\ chef = [c \in Chefs |-> "check"]

Posted(pair) == [i \in Ingredients |-> sem_ingred[i] + (IF i \in pair THEN 1 ELSE 0)]

-----------------------------------------------------------------------------
\* The wholesaler.
WholesalerGoto(from, to) == wholesaler = from /\ wholesaler' = to

\* A row is three characters: the last one is not read without its newline.
Readable == rows > 1 \/ (rows = 1 /\ newline)

NextSupply ==
    /\ WholesalerGoto("read", "deliver")
    /\ Readable
    /\ rows' = rows - 1
    /\ sem_index' \in Chefs
    /\ UNCHANGED <<newline, store, sem_ingred, dessert, finished, chef>>

DeliverSupply ==
    /\ WholesalerGoto("deliver", "post")
    /\ store' = sem_index
    /\ UNCHANGED <<file, sem_index, sem_ingred, dessert, finished, chef>>

PostIngredients ==
    /\ WholesalerGoto("post", "wait")
    /\ sem_ingred' = Posted(sem_index)
    /\ UNCHANGED <<file, sem_index, store, dessert, finished, chef>>

\* Faulty variant: the dessert is not waited for.
WaitDessert_Hasty ==
    /\ WholesalerGoto("wait", "read")
    /\ UNCHANGED <<file, sem_index, store, sem_ingred, dessert, finished, chef>>

WaitDessert ==
    /\ WholesalerGoto("wait", "read")
    /\ dessert > 0
    /\ dessert' = dessert - 1
    /\ UNCHANGED <<file, sem_index, store, sem_ingred, finished, chef>>

Finish ==
    /\ WholesalerGoto("read", "signal")
    /\ ~Readable
    /\ finished' = TRUE
    /\ UNCHANGED <<file, sem_index, store, sem_ingred, dessert, chef>>

\* The pair of the last row once more, for one chef.
SignalFinish ==
    /\ WholesalerGoto("signal", "join")
    /\ sem_ingred' = Posted(sem_index)
    /\ UNCHANGED <<file, sem_index, store, dessert, finished, chef>>

Join ==
    /\ WholesalerGoto("join", "done")
    /\ \A c \in Chefs : chef[c] = "exited"
    /\ UNCHANGED <<file, sem_index, store, sem_ingred, dessert, finished, chef>>

Wholesaler ==
    \/ NextSupply \/ DeliverSupply \/ PostIngredients \/ WaitDessert
    \/ Finish \/ SignalFinish \/ Join

-----------------------------------------------------------------------------
\* The chefs.
ChefGoto(c, from, to) == chef[c] = from /\ chef' = [chef EXCEPT ![c] = to]

\* The pairs of all chefs are posted, each ingredient once for every other.
Others(i) == Cardinality(Ingredients \ {i})

\* Faulty variant: only the own pair is posted.
ExitFrom_Selfish(c, label) ==
    /\ finished
    /\ ChefGoto(c, label, "exited")
    /\ sem_ingred' = Posted(c)
    /\ UNCHANGED <<file, wholesaler, sem_index, store, dessert, finished>>

\* The posts are one step with the test: they wait for nothing.
ExitFrom(c, label) ==
    /\ finished
    /\ ChefGoto(c, label, "exited")
    /\ sem_ingred' = [i \in Ingredients |-> sem_ingred[i] + Others(i)]
    /\ UNCHANGED <<file, wholesaler, sem_index, store, dessert, finished>>

Exit(c) == \E label \in {"check", "recheck"} : ExitFrom(c, label)

Check(c) ==
    /\ ~finished
    /\ ChefGoto(c, "check", "wait")
    /\ UNCHANGED <<file, wholesaler, sem_index, store, sem_ingred, dessert, finished>>

WaitIngredients(c) ==
    /\ ChefGoto(c, "wait", "recheck")
    /\ \A i \in c : sem_ingred[i] > 0
    /\ sem_ingred' = [i \in Ingredients |-> IF i \in c THEN sem_ingred[i] - 1 ELSE sem_ingred[i]]
    /\ UNCHANGED <<file, wholesaler, sem_index, store, dessert, finished>>

Recheck(c) ==
    /\ ~finished
    /\ ChefGoto(c, "recheck", "take")
    /\ UNCHANGED <<file, wholesaler, sem_index, store, sem_ingred, dessert, finished>>

\* Faulty variant: the store keeps the ingredients.
TakeDelivery_Keeps(c) ==
    /\ ChefGoto(c, "take", "prepare")
    /\ UNCHANGED <<file, wholesaler, sem_index, store, sem_ingred, dessert, finished>>

TakeDelivery(c) ==
    /\ ChefGoto(c, "take", "prepare")
    /\ store' = EMPTY
    /\ UNCHANGED <<file, wholesaler, sem_index, sem_ingred, dessert, finished>>

PrepareDessert(c) ==
    /\ ChefGoto(c, "prepare", "check")
    /\ dessert' = dessert + 1
    /\ UNCHANGED <<file, wholesaler, sem_index, store, sem_ingred, finished>>

Chef(c) ==
    \/ Exit(c) \/ Check(c) \/ WaitIngredients(c)
    \/ Recheck(c) \/ TakeDelivery(c) \/ PrepareDessert(c)

GullacNext == Wholesaler \/ \E c \in Chefs : Chef(c)

GullacSpec == GullacInit /\ [][GullacNext]_gullacVars

\* Threads that can go on do, and a pair posted for one chef only is there
\* until this chef takes it.
GullacFairSpec == GullacSpec /\ WF_gullacVars(Wholesaler) /\ \A c \in Chefs : WF_gullacVars(Chef(c))
-----------------------------------------------------------------------------
GullacTypeOK ==
    /\ rows \in Nat /\ newline \in BOOLEAN
    /\ wholesaler \in {"read", "deliver", "post", "wait", "signal", "join", "done"}
    /\ sem_index \in Chefs
    /\ store \in Chefs \cup {EMPTY}
    /\ sem_ingred \in [Ingredients -> Nat]
    /\ dessert \in Nat
    /\ finished \in BOOLEAN
    /\ chef \in [Chefs -> {"check", "wait", "recheck", "take", "prepare", "exited"}]

Empty  == sem_ingred = [i \in Ingredients |-> 0]
AtWork == {c \in Chefs : chef[c] \in {"recheck", "take", "prepare"}}

\* A chef that goes to the store finds exactly the pair it lacks: the store
\* and the semaphores are set and tested apart (269, 283, 215, 170).
TakesOwn == \A c \in Chefs : chef[c] = "take" => store = c

\* While the wholesaler waits the delivery is in one place only: announced,
\* with the one chef it is for, or made into the one dessert (285-287).
Announced == sem_ingred = [i \in Ingredients |-> IF i \in sem_index THEN 1 ELSE 0]
OneDelivery ==
    wholesaler = "wait" =>
        \/ Announced /\ AtWork = {} /\ dessert = 0
        \/ Empty /\ AtWork = {sem_index} /\ dessert = 0
        \/ Empty /\ AtWork = {} /\ dessert = 1

\* Before the next row is delivered, and when the delivery is finished, nothing
\* of the rows before is left: no ingredient, no token, no dessert, and no chef
\* at work that would make one nobody collects.
NothingLeft ==
    /\ wholesaler \in {"read", "deliver", "signal"} => store = EMPTY
    /\ wholesaler # "wait" => dessert = 0
    /\ ~finished /\ wholesaler # "wait" => Empty /\ AtWork = {}
    /\ finished => \A c \in Chefs : chef[c] \notin {"take", "prepare"}

\* "she/he'll need a way to notify the chefs that there won't be any more
\* ingredients" (readme.md): one chef is told, and in the end all have left and
\* are joined, wherever they were and whoever takes whose tokens.
ChefsLeave == <>(wholesaler = "done")

\* "The wholesaler will read the ingredients to deliver from a file containing
\* two letters at each line" (readme.md): no line is left out.
EveryRowDelivered == finished => rows = 0
=============================================================================
