------------------------------ MODULE MessHall ------------------------------
(***************************************************************************)
(* The mess hall of midterm-project/program.c: a supplier, cooks, students *)
(* and a supervisor, one process each, that share three rooms and their    *)
(* semaphores.  A section under a room_mutex or a peek_mutex is one step:  *)
(* nothing in it waits for anything but another such section.  A post      *)
(* after a section waits for nothing either and belongs to its step.       *)
(* Slots are counted, not placed: next() fails exactly when the count is   *)
(* zero.  What is only printed (the number of students at the counter, who *)
(* sits where) is left out.                                                *)
(***************************************************************************)
EXTENDS Integers, FiniteSets

CONSTANTS
    Cooks,
    Undergraduates,
    Graduates,
    L,              \* rounds of a student
    S               \* places on the counter

Students == Undergraduates \cup Graduates

\* parse_args: N > 2
ASSUME CooksAssumption == IsFiniteSet(Cooks) /\ Cardinality(Cooks) >= 3
ASSUME StudentsAssumption ==
    /\ IsFiniteSet(Undergraduates) /\ IsFiniteSet(Graduates)
    /\ Undergraduates \cap Graduates = {}
\* parse_args asks for more: L >= 3, S > 3.
ASSUME SizesAssumption == L \in Nat \ {0} /\ S \in Nat /\ S >= 3

FOOD_KIND == 3
Foods == 0..FOOD_KIND - 1           \* P, C and D

Deliver == L * Cardinality(Students)    \* plates of each kind
K == 2 * Deliver + 1                    \* slots of the kitchen

VARIABLES
    supplier,           \* "go", "put", "home"
    supply,             \* what the file still holds of each kind
    carried,            \* the plate the supplier carries
    k_room, k_empty, k_full, k_peek,        \* the kitchen
    c_room, c_empty, c_full, c_peek,        \* the counter
    s_empty, s_full, s_peek,                \* the line of students
    cook, food, food_delivered,             \* each cook
    student, round,                         \* each student
    supervisor, served

kitchen == <<k_room, k_empty, k_full, k_peek>>
counter == <<c_room, c_empty, c_full, c_peek>>
line    == <<s_empty, s_full, s_peek>>
bySupplier   == <<supplier, supply, carried>>
byCooks      == <<cook, food, food_delivered>>
byStudents   == <<student, round>>
bySupervisor == <<supervisor, served>>

vars == <<kitchen, counter, line, bySupplier, byCooks, byStudents, bySupervisor>>

\* What each actor leaves alone.
restOfSupplier   == <<counter, line, byCooks, byStudents, bySupervisor>>
restOfCooks      == <<line, bySupplier, byStudents, bySupervisor>>
restOfStudents   == <<kitchen, bySupplier, byCooks, bySupervisor>>
restOfSupervisor == <<kitchen, bySupplier, byCooks, byStudents>>

\* empty of the counter is divided between the kinds, the first get the rest.
Share(f) == S \div FOOD_KIND + (IF f < S % FOOD_KIND THEN 1 ELSE 0)

Init ==
    /\ supplier = "go"
    /\ supply = [f \in Foods |-> Deliver]
    /\ carried = 0
    /\ k_room = [f \in Foods |-> 0]
    /\ k_empty = K
    /\ k_full = [f \in Foods |-> 0]
    /\ k_peek = FOOD_KIND * Deliver
    /\ c_room = [f \in Foods |-> 0]
    /\ c_empty = [f \in Foods |-> Share(f)]
    /\ c_full = [f \in Foods |-> 0]
    /\ c_peek = FOOD_KIND * Deliver
    /\ s_empty = 0
    /\ s_full = [graduate \in BOOLEAN |-> 0]
    /\ s_peek = 0
    /\ cook = [c \in Cooks |-> "check"]
    /\ food = [c \in Cooks |-> 0]
    /\ food_delivered = [c \in Cooks |-> [f \in Foods |-> Deliver]]
    /\ student = [s \in Students |-> "arrive"]
    /\ round = [s \in Students |-> 0]
    /\ supervisor = "ready"
    /\ served = 0

\* One semaphore of an array.
Post(sem, i) == [sem EXCEPT ![i] = @ + 1]
Take(sem, i) == [sem EXCEPT ![i] = @ - 1]

KitchenFree == K - (k_room[0] + k_room[1] + k_room[2])
CounterFree == S - (c_room[0] + c_room[1] + c_room[2])

-----------------------------------------------------------------------------
\* supplier: the plates of the file come in any order.
SupplierGo ==
    /\ supplier = "go"
    /\ k_empty > 0
    /\ k_empty' = k_empty - 1
    /\ \E f \in Foods :
           /\ supply[f] > 0
           /\ supply' = Take(supply, f)
           /\ carried' = f
    /\ supplier' = "put"
    /\ UNCHANGED <<k_room, k_full, k_peek, restOfSupplier>>

SupplierPut ==
    /\ supplier = "put"
    /\ k_room' = Post(k_room, carried)
    /\ k_full' = Post(k_full, carried)
    /\ supplier' = IF \A f \in Foods : supply[f] = 0 THEN "home" ELSE "go"
    /\ carried' = 0
    /\ UNCHANGED <<supply, k_empty, k_peek, restOfSupplier>>

Supplier == SupplierGo \/ SupplierPut

-----------------------------------------------------------------------------
\* cook
CookGoto(c, from, to) == cook[c] = from /\ cook' = [cook EXCEPT ![c] = to]

\* A cook that leaves signals the others.
GoHome(c, from) ==
    /\ CookGoto(c, from, "home")
    /\ k_full' = [f \in Foods |-> k_full[f] + 1]

CheckFinished(c) ==
    /\ k_peek = 0
    /\ GoHome(c, "check")
    /\ UNCHANGED <<k_room, k_empty, k_peek, counter, food, food_delivered, restOfCooks>>

GoOn(c) ==
    /\ k_peek # 0
    /\ CookGoto(c, "check", "choose")
    /\ UNCHANGED <<kitchen, counter, food, food_delivered, restOfCooks>>

\* The cooks share c_peek, which goes round the kinds.
NextFood == IF c_peek >= FOOD_KIND THEN 0 ELSE c_peek

Choose(c) ==
    /\ food_delivered[c][NextFood] # 0
    /\ food' = [food EXCEPT ![c] = NextFood]
    /\ c_peek' = NextFood + 1
    /\ CookGoto(c, "choose", "wait_kitchen")
    /\ UNCHANGED <<kitchen, c_room, c_empty, c_full, food_delivered, restOfCooks>>

\* A cook that has delivered all plates of the kind itself leaves.
ChooseNone(c) ==
    /\ food_delivered[c][NextFood] = 0
    /\ c_peek' = NextFood + 1
    /\ GoHome(c, "choose")
    /\ UNCHANGED <<k_room, k_empty, k_peek, c_room, c_empty, c_full, food, food_delivered, restOfCooks>>

WaitKitchen(c) ==
    /\ k_full[food[c]] > 0
    /\ k_full' = Take(k_full, food[c])
    /\ CookGoto(c, "wait_kitchen", "kitchen")
    /\ UNCHANGED <<k_room, k_empty, k_peek, counter, food, food_delivered, restOfCooks>>

\* Faulty variant: the plate stays in the kitchen.
TakeSupply_Copies(c) ==
    /\ k_room[food[c]] > 0
    /\ k_peek' = k_peek - 1
    /\ k_empty' = k_empty + 1
    /\ CookGoto(c, "kitchen", "counter")
    /\ UNCHANGED <<k_room, k_full, counter, food, food_delivered, restOfCooks>>

TakeSupply(c) ==
    /\ k_room[food[c]] > 0
    /\ k_room' = Take(k_room, food[c])
    /\ k_peek' = k_peek - 1
    /\ k_empty' = k_empty + 1
    /\ CookGoto(c, "kitchen", "counter")
    /\ UNCHANGED <<k_full, counter, food, food_delivered, restOfCooks>>

\* Faulty variant: the cook insists on the same kind.
GiveBack_Insists(c) ==
    /\ k_room[food[c]] = 0
    /\ k_full' = Post(k_full, food[c])
    /\ CookGoto(c, "kitchen", "wait_kitchen")
    /\ UNCHANGED <<k_room, k_empty, k_peek, counter, food, food_delivered, restOfCooks>>

\* Faulty variant: continue without the post.
GiveBack_Keeps(c) ==
    /\ k_room[food[c]] = 0
    /\ CookGoto(c, "kitchen", "check")
    /\ UNCHANGED <<kitchen, counter, food, food_delivered, restOfCooks>>

\* There is no such plate: another cook, leaving, announced it.
GiveBack(c) ==
    /\ k_room[food[c]] = 0
    /\ k_full' = Post(k_full, food[c])
    /\ food' = [food EXCEPT ![c] = 0]
    /\ CookGoto(c, "kitchen", "check")
    /\ UNCHANGED <<k_room, k_empty, k_peek, counter, food_delivered, restOfCooks>>

\* A place promised stays free, so that waiting for it and using it are one
\* step.  food is set again before it is read.
PutCounter(c) ==
    /\ c_empty[food[c]] > 0
    /\ c_empty' = Take(c_empty, food[c])
    /\ c_room' = Post(c_room, food[c])
    /\ c_full' = Post(c_full, food[c])
    /\ food_delivered' = [food_delivered EXCEPT ![c][food[c]] = @ - 1]
    /\ food' = [food EXCEPT ![c] = 0]
    /\ CookGoto(c, "counter", "check")
    /\ UNCHANGED <<kitchen, c_peek, restOfCooks>>

Cook(c) ==
    \/ CheckFinished(c) \/ GoOn(c) \/ Choose(c) \/ ChooseNone(c)
    \/ WaitKitchen(c) \/ TakeSupply(c) \/ GiveBack(c)
    \/ PutCounter(c)
-----------------------------------------------------------------------------
\* student
StudentGoto(s, from, to) == student[s] = from /\ student' = [student EXCEPT ![s] = to]

IsGraduate(s) == s \in Graduates

Arrive(s) ==
    /\ StudentGoto(s, "arrive", "join")
    /\ s_peek' = s_peek + (IF IsGraduate(s) THEN 1 ELSE 0)
    /\ UNCHANGED <<counter, s_empty, s_full, round, restOfStudents>>

JoinLine(s) ==
    /\ StudentGoto(s, "join", "in_line")
    /\ s_empty' = s_empty + 1
    /\ UNCHANGED <<counter, s_full, s_peek, round, restOfStudents>>

Granted(s) ==
    /\ s_full[IsGraduate(s)] > 0
    /\ s_full' = Take(s_full, IsGraduate(s))
    /\ StudentGoto(s, "in_line", "at_counter")
    /\ UNCHANGED <<counter, s_empty, s_peek, round, restOfStudents>>

NextRound(s) ==
    /\ round' = [round EXCEPT ![s] = @ + 1]
    /\ StudentGoto(s, "at_counter", IF round[s] + 1 = L THEN "home" ELSE "arrive")

\* One plate of each kind, all under room_mutex.  What follows concerns nobody
\* else: the table is taken and left within one section of its room, so that
\* there always is one.
TakeSet(s) ==
    /\ c_room' = [f \in Foods |-> c_room[f] - 1]
    /\ c_empty' = [f \in Foods |-> c_empty[f] + 1]
    /\ NextRound(s)
    /\ UNCHANGED <<c_full, c_peek, line, restOfStudents>>

Student(s) == Arrive(s) \/ JoinLine(s) \/ Granted(s) \/ TakeSet(s)

-----------------------------------------------------------------------------
\* supervisor
SupervisorGoto(from, to) == supervisor = from /\ supervisor' = to

\* Faulty variant: the desserts are not waited for.
AwaitFood_TwoKinds ==
    /\ c_full[0] > 0 /\ c_full[1] > 0
    /\ c_full' = [c_full EXCEPT ![0] = @ - 1, ![1] = @ - 1]
    /\ SupervisorGoto("ready", "await_student")
    /\ UNCHANGED <<c_room, c_empty, c_peek, line, served, restOfSupervisor>>

\* A plate of each kind.  Nobody else takes them, so that waiting for one kind
\* after the other is waiting for all.
AwaitFood ==
    /\ \A f \in Foods : c_full[f] > 0
    /\ c_full' = [f \in Foods |-> c_full[f] - 1]
    /\ SupervisorGoto("ready", "await_student")
    /\ UNCHANGED <<c_room, c_empty, c_peek, line, served, restOfSupervisor>>

AwaitStudent ==
    /\ s_empty > 0
    /\ s_empty' = s_empty - 1
    /\ SupervisorGoto("await_student", "pick")
    /\ UNCHANGED <<counter, s_full, s_peek, served, restOfSupervisor>>

PickUndergraduate ==
    /\ s_peek = 0
    /\ SupervisorGoto("pick", "grant_undergraduate")
    /\ UNCHANGED <<counter, line, served, restOfSupervisor>>

PickGraduate ==
    /\ s_peek # 0
    /\ s_peek' = s_peek - 1
    /\ SupervisorGoto("pick", "grant_graduate")
    /\ UNCHANGED <<counter, s_empty, s_full, served, restOfSupervisor>>

Grant(graduate) ==
    /\ s_full' = Post(s_full, graduate)
    /\ served' = served + 1
    /\ SupervisorGoto(IF graduate THEN "grant_graduate" ELSE "grant_undergraduate",
                      IF served + 1 = Deliver THEN "home" ELSE "ready")
    /\ UNCHANGED <<counter, s_empty, s_peek, restOfSupervisor>>

Supervisor ==
    \/ AwaitFood \/ AwaitStudent \/ PickUndergraduate \/ PickGraduate
    \/ \E graduate \in BOOLEAN : Grant(graduate)

-----------------------------------------------------------------------------
\* main waits for all its children.
Done ==
    /\ supplier = "home" /\ supervisor = "home"
    /\ \A c \in Cooks : cook[c] = "home"
    /\ \A s \in Students : student[s] = "home"

AllDone == Done /\ UNCHANGED vars

Next ==
    \/ Supplier
    \/ \E c \in Cooks : Cook(c)
    \/ \E s \in Students : Student(s)
    \/ Supervisor
    \/ AllDone

Spec == Init /\ [][Next]_vars

\* A process that is runnable runs, and one that waits for a semaphore which is
\* posted again and again gets it.
Fairness ==
    /\ SF_vars(Supplier) /\ SF_vars(Supervisor)
    /\ \A c \in Cooks : SF_vars(Cook(c))
    /\ \A s \in Students : SF_vars(Student(s))

FairSpec == Spec /\ Fairness
-----------------------------------------------------------------------------
CooksAt(f, labels) == Cardinality({c \in Cooks : cook[c] \in labels /\ food[c] = f})
CooksHome == Cardinality({c \in Cooks : cook[c] = "home"})
StudentsAt(group, labels) == Cardinality({s \in group : student[s] \in labels})
SupplierAt(f, labels) == IF supplier \in labels /\ carried = f THEN 1 ELSE 0
SupervisorAt(labels) == IF supervisor \in labels THEN 1 ELSE 0

SupplierLabels   == {"go", "put", "home"}
CookLabels       == {"check", "choose", "wait_kitchen", "kitchen", "counter", "home"}
StudentLabels    == {"arrive", "join", "in_line", "at_counter", "home"}
SupervisorLabels == {"ready", "await_student", "pick", "grant_undergraduate", "grant_graduate", "home"}

TypeOK ==
    /\ supplier \in SupplierLabels /\ supply \in [Foods -> Nat] /\ carried \in Foods
    /\ k_room \in [Foods -> Nat] /\ k_empty \in Nat /\ k_full \in [Foods -> Nat] /\ k_peek \in Nat
    /\ c_room \in [Foods -> Nat] /\ c_empty \in [Foods -> Nat] /\ c_full \in [Foods -> Nat]
    /\ c_peek \in Nat
    /\ s_empty \in Nat /\ s_full \in [BOOLEAN -> Nat] /\ s_peek \in Nat
    /\ cook \in [Cooks -> CookLabels] /\ food \in [Cooks -> Foods]
    /\ food_delivered \in [Cooks -> [Foods -> 0..Deliver]]
    /\ student \in [Students -> StudentLabels] /\ round \in [Students -> 0..L]
    /\ supervisor \in SupervisorLabels /\ served \in 0..Deliver

\* The tokens of the kitchen: for each kind, the plates there are those
\* announced and those a cook has been let in for; a cook that goes home adds
\* one token of each kind, and the same tokens let several cooks in in vain.
KitchenTokens ==
    /\ \A f \in Foods : k_room[f] + CooksHome = k_full[f] + CooksAt(f, {"kitchen"})
    /\ KitchenFree = k_empty + (IF supplier = "put" THEN 1 ELSE 0)

\* Sets of plates granted to students that have not taken them.
Granting == SupervisorAt({"await_student", "pick", "grant_undergraduate", "grant_graduate"})
Outstanding == s_full[TRUE] + s_full[FALSE] + StudentsAt(Students, {"at_counter"})

\* The tokens of the counter: each kind has its share of the places, and the
\* plates there are those announced, those the supervisor has set aside and
\* those a student is about to take.
CounterTokens ==
    \A f \in Foods :
        /\ Share(f) = c_room[f] + c_empty[f]
        /\ c_room[f] = c_full[f] + Outstanding + Granting

\* The tokens of the line: s_peek counts the graduates that wait and have no
\* grant, s_empty the students in line the supervisor has not looked at; no
\* grant is made out to a kind of student that nobody of is there to take.
LineTokens ==
    /\ StudentsAt(Graduates, {"join", "in_line"}) =
           s_peek + s_full[TRUE] + SupervisorAt({"grant_graduate"})
    /\ StudentsAt(Students, {"in_line"}) =
           s_empty + s_full[TRUE] + s_full[FALSE]
           + SupervisorAt({"pick", "grant_undergraduate", "grant_graduate"})
    /\ StudentsAt(Undergraduates, {"in_line"}) >=
           s_full[FALSE] + SupervisorAt({"grant_undergraduate"})

\* In all three places what the semaphores promise is there: nothing waits for
\* a plate, a place or a student that will not come.
TokensHold == KitchenTokens /\ CounterTokens /\ LineTokens

\* No assert fails and no slot -1 is written: whoever was let into a room finds
\* there what the semaphore announced (317, 425, 465).
SlotsFound ==
    /\ supplier = "put" => KitchenFree > 0
    /\ \A c \in Cooks : cook[c] = "counter" /\ c_empty[food[c]] > 0 => CounterFree > 0
    /\ \A s \in Students : student[s] = "at_counter" => \A f \in Foods : c_room[f] > 0

\* "if the counter is full, ... then at least 3 of them will be distinct"
\* (readme.md): a full counter can always serve a student.
CounterServesAll == CounterFree = 0 => \A f \in Foods : c_room[f] > 0

\* Every plate of the file is in it, on the way, in a room, or eaten; k_peek is
\* what the cooks have not taken yet.
PlatesConserved ==
    /\ \A f \in Foods :
           Deliver = supply[f] + SupplierAt(f, {"put"}) + k_room[f]
                     + CooksAt(f, {"counter"}) + c_room[f]
                     + (served - Outstanding)
    /\ k_peek = supply[0] + supply[1] + supply[2] + (IF supplier = "put" THEN 1 ELSE 0)
                + k_room[0] + k_room[1] + k_room[2]

\* Whatever the order of the file, every process ends (main, 135).
EveryoneLeaves == <>Done

\* "As long as there are graduates in front of the counter waiting for their
\* food, no undergraduate is allowed to be serviced" (readme.md).
GraduatesFirst ==
    [][ s_full'[FALSE] > s_full[FALSE] =>
            ~(s_peek > 0 /\ \E s \in Graduates : student[s] = "in_line") ]_vars
=============================================================================
