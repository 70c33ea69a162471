--------------------------- MODULE QuartersProofs ---------------------------
(***************************************************************************)
(* Four processes multiply, for matrices of any even size, pipes of any    *)
(* size, any order of the processes and a SIGINT at any moment: the        *)
(* handler of SIGCHLD counts what it reaps and always finds a child, and   *)
(* what P1 puts together from the quarters is the product, as long as no   *)
(* packet is spoiled by the buffer it is built in.                         *)
(***************************************************************************)
EXTENDS Quarters, SequenceTheorems, FiniteSetTheorems, TLAPS

-----------------------------------------------------------------------------
(* The invariants.                                                         *)

Labels1 == {"fork", "write", "header", "rest", "merge", "check", "pause", "exited", "dead"}
LabelsC == {"none", "header", "rest", "multiply", "exit", "exited"}
Ended == {c \in Children : child[c] = "exited"}

\* P1 forks the children in order.
Forks ==
    /\ q \in Children
    /\ p1 \in Labels1
    /\ child \in [Children -> LabelsC]
    /\ p1 = "fork" => \A c \in Children : c >= q => child[c] = "none"
    /\ p1 = "write" => \A c \in Children : c > q => child[c] = "none"

ReapInv ==
    /\ Forks
    /\ sigchld \in BOOLEAN /\ handling \in BOOLEAN
    /\ reaped \in Nat
    /\ CountsReaped

\* What P1 has to send to the child c, and what c has to answer.
Stream(c) == pack(operands(c)[1]) \o pack(operands(c)[2])
Whole == 2 * (1 + Rest)
Product(c) == multiply(operands(c)[1], operands(c)[2])

\* What comes in s after the first r places, up to w.
Part(s, r, w) == SubSeq(s, r + 1, w)

\* The child c has read r packets' places of its operands.
HasRead(c, r) ==
    \/ r = 0 /\ child[c] = "header" /\ operands_of[c] = <<>>
    \/ r = 1 /\ child[c] = "rest" /\ operands_of[c] = <<>>
    \/ r = 1 + Rest /\ child[c] = "header" /\ operands_of[c] = <<operands(c)[1]>>
    \/ r = 2 + Rest /\ child[c] = "rest" /\ operands_of[c] = <<operands(c)[1]>>

\* In the pipe of c: the places after r up to w; P1 has still to write those
\* after w, if it is at this child.
Sent(c, r, w) ==
    /\ HasRead(c, r)
    /\ r <= w /\ w <= Whole
    /\ to_child[c] = Part(Stream(c), r, w)
    /\ p1 = "write" /\ q = c => unwritten = Part(Stream(c), w, Whole)

OperandsInv(c) ==
    /\ child[c] = "none" => to_child[c] = <<>> /\ operands_of[c] = <<>>
    /\ child[c] \in {"header", "rest"} => \E r, w \in Nat : Sent(c, r, w)
    /\ child[c] = "multiply" => operands_of[c] = operands(c)

\* P1 has the header of the answer of c, and not yet the rest.
HalfRead(c) == p1 = "rest" /\ q = c

AnswerInv(c) ==
    /\ child[c] \notin {"exit", "exited"} => to_p1[c] = <<>> /\ ~HalfRead(c)
    /\ P1Lives => \/ to_p1[c] = <<>>
                  \/ ~HalfRead(c) /\ to_p1[c] = pack(Product(c))
                  \/ HalfRead(c) /\ to_p1[c] = Tail(pack(Product(c)))

Collected ==
    /\ p1 \in {"header", "rest"} => \A c \in Children : c < q => mats[c] = Product(c)
    /\ p1 = "merge" => \A c \in Children : mats[c] = Product(c)

IsInput == \E input \in Inputs : a = input[1] /\ b = input[2]

Domains ==
    /\ IsInput
    /\ DOMAIN operands_of = Children /\ DOMAIN mats = Children
    /\ DOMAIN to_child = Children /\ DOMAIN to_p1 = Children
    /\ capacity \in Nat

Printed == final # <<>> => final = multiply(a, b)

\* As long as no packet is spoiled.
ProductInv ==
    /\ Forks
    /\ Domains
    /\ \A c \in Children : OperandsInv(c) /\ AnswerInv(c)
    /\ Collected
    /\ Printed

UnspoiledInv ==
    /\ spoiled \in Nat
    /\ spoiled = 0 => ProductInv

-----------------------------------------------------------------------------
(* Forks, signals and the children that have ended.                        *)

LEMMA Facts ==
    /\ Children = {0, 1, 2, 3} /\ Children \subseteq Nat
    /\ Rest \in Nat /\ Rest >= 1 /\ Whole \in Nat /\ Whole = 2 * (1 + Rest)
BY PipeAssumption DEF Children, Whole

LEMMA SomeChildren ==
    ASSUME NEW S \in SUBSET Children
    PROVE  IsFiniteSet(S) /\ Cardinality(S) \in Nat
<1>1. IsFiniteSet(Children)
  <2>1. 0 \in Int /\ 3 \in Int
    OBVIOUS
  <2> QED
    BY ONLY <2>1, FS_Interval DEF Children
<1> QED
  BY <1>1, FS_Subset, FS_CardinalityType

LEMMA Counted ==
    /\ Ended \in SUBSET Children /\ Cardinality(Ended) \in Nat
    /\ Cardinality(Ended') \in Nat
    /\ Zombies = Cardinality(Ended) - reaped
    /\ Zombies' = Cardinality(Ended') - reaped'
<1>1. Ended \in SUBSET Children /\ Ended' \in SUBSET Children
  BY DEF Ended, Children
<1> QED
  BY <1>1, SomeChildren DEF Zombies, Ended

\* A step that ends nobody and forks only children that are to be forked.
LEMMA SameEnded ==
    ASSUME \A c \in Children : child'[c] = "exited" <=> child[c] = "exited"
    PROVE  Cardinality(Ended') = Cardinality(Ended)
<1>1. Ended' = Ended
  BY DEF Ended, Children
<1> QED
  BY <1>1

LEMMA OneMoreEnded ==
    ASSUME NEW c \in Children, child \in [Children -> LabelsC], child[c] # "exited",
           child' = [child EXCEPT ![c] = "exited"]
    PROVE  Cardinality(Ended') = Cardinality(Ended) + 1
<1>1. Ended' = Ended \cup {c} /\ c \notin Ended
  BY DEF Ended, Children
<1> QED
  BY <1>1, Counted, SomeChildren, FS_AddElement

\* The steps of P1 itself change nobody's end and no count.
LEMMA ForksP1 ==
    ASSUME Forks, P1
    PROVE  /\ Forks'
           /\ P1Lives
           /\ \A c \in Children : child'[c] = "exited" <=> child[c] = "exited"
           /\ UNCHANGED chld_vars
<1> USE DEF Forks, P1, P1Lives, Labels1, LabelsC, CHILDREN
<1>1. CASE pipe_and_fork
  BY <1>1, Facts DEF pipe_and_fork
<1>2. CASE write_operands
  BY <1>2, Facts DEF write_operands, child_vars
<1>3. CASE BrokenPipe
  BY <1>3 DEF BrokenPipe, child_vars
<1>4. CASE CollectHeader
  BY <1>4 DEF CollectHeader, child_vars
<1>5. CASE CollectRest
  BY <1>5, Facts DEF CollectRest, child_vars
<1>9. CASE CollectGarbled
  <2>1. /\ p1 = "header" /\ UNCHANGED <<child, chld_vars>>
        /\ \/ p1' = "dead" /\ q' = q
           \/ /\ p1' = IF q = CHILDREN - 1 THEN "merge" ELSE "header"
              /\ q' = IF q = CHILDREN - 1 THEN 0 ELSE q + 1
    BY <1>9 DEF CollectGarbled, child_vars
  <2> QED
    BY <2>1, Facts
<1>6. CASE CollectNothing
  BY <1>6 DEF CollectNothing, child_vars
<1>7. CASE Merge
  BY <1>7 DEF Merge, child_vars
<1>8. CASE CheckZombies
  BY <1>8 DEF CheckZombies, child_vars
<1> QED
  BY <1>1, <1>2, <1>3, <1>4, <1>5, <1>6, <1>7, <1>8, <1>9

\* Where the handler lets P1 go on.
LEMMA Resumes ==
    /\ Resumed \in {p1, "exited", "dead"}
    /\ p1 \in {"pause", "exited", "dead"} => Resumed # "write"
BY DEF Resumed

\* A child moves on, or it ends and sends its signal.
LEMMA ForksChild ==
    ASSUME Forks, NEW c \in Children, Child(c) \/ IntHandler(c)
    PROVE  /\ Forks'
           /\ UNCHANGED <<p1, q, zombies_handled, handling, reaped>>
           /\ child[c] \in LabelsC \ {"none", "exited"}
           /\ \/ /\ \A d \in Children : child'[d] = "exited" <=> child[d] = "exited"
                 /\ UNCHANGED sigchld
              \/ Ends(c)
<1> USE DEF Forks, P1Lives, LabelsC, Ends, p1_vars, chld_vars
<1>1. CASE ReadHeader(c)
  BY <1>1 DEF ReadHeader
<1>2. CASE ReadRest(c)
  <2>1. child[c] = "rest"
    BY <1>2 DEF ReadRest
  <2>2. \/ /\ child' = [child EXCEPT ![c] = IF operands_of[c] = <<>> THEN "header" ELSE "multiply"]
           /\ UNCHANGED sigchld
        \/ Ends(c)
    BY <1>2 DEF ReadRest
  <2>3. UNCHANGED <<p1, q, zombies_handled, handling, reaped>>
    BY <1>2 DEF ReadRest
  <2> QED
    BY <2>1, <2>2, <2>3
<1>3. CASE ReadNothing(c)
  BY <1>3 DEF ReadNothing
<1>4. CASE Answer(c)
  <2>1. /\ child[c] = "multiply" /\ UNCHANGED <<p1, q, zombies_handled, handling, reaped>>
        /\ \/ child' = [child EXCEPT ![c] = "exit"] /\ UNCHANGED sigchld
           \/ Ends(c)
    BY <1>4 DEF Answer
  <2> QED
    BY <2>1
<1>5. CASE Exit(c)
  BY <1>5 DEF Exit
<1>6. CASE IntHandler(c)
  BY <1>6 DEF IntHandler, Alive
<1>7. CASE ReadGarbled(c)
  <2>1. /\ child[c] = "header" /\ UNCHANGED <<p1, q, zombies_handled, handling, reaped>>
        /\ \/ /\ child' = [child EXCEPT ![c] = IF operands_of[c] = <<>> THEN "header" ELSE "multiply"]
              /\ UNCHANGED sigchld
           \/ Ends(c)
    BY <1>7 DEF ReadGarbled
  <2> QED
    BY <2>1
<1> QED
  BY <1>1, <1>2, <1>3, <1>4, <1>5, <1>6, <1>7 DEF Child

LEMMA ForksHandler ==
    ASSUME Forks, EnterHandler \/ child_handler \/ IntHandler1
    PROVE  Forks' /\ UNCHANGED <<child, q>> /\ P1Lives /\ p1' \in {p1, "exited", "dead"}
<1> USE Resumes DEF Forks, P1Lives, Labels1, child_vars, p1_vars
<1>1. CASE EnterHandler
  BY <1>1 DEF EnterHandler
<1>2. CASE child_handler
  BY <1>2 DEF child_handler
<1>3. CASE IntHandler1
  BY <1>3 DEF IntHandler1
<1> QED
  BY <1>1, <1>2, <1>3

LEMMA ReapInit == Init => ReapInv
<1> SUFFICES ASSUME Init PROVE ReapInv
  OBVIOUS
<1>1. Ended = {}
  BY DEF Init, Ended, Children
<1>2. Zombies = 0
  BY <1>1, Counted, FS_EmptySet DEF Init
<1>3. Forks
  BY Facts DEF Init, Forks, Labels1, LabelsC
<1>4. ~sigchld /\ ~handling /\ sigchld \in BOOLEAN /\ handling \in BOOLEAN
  BY Zenon DEF Init
<1> QED
  BY <1>2, <1>3, <1>4 DEF Init, ReapInv, CountsReaped

LEMMA ReapStep ==
    ASSUME ReapInv, [Next]_vars
    PROVE  ReapInv'
<1> DEFINE z == Cardinality(Ended)
           Owed == (IF sigchld THEN 1 ELSE 0) + (IF handling THEN 1 ELSE 0)
<1>1. /\ Forks /\ reaped \in Nat /\ zombies_handled = reaped
      /\ sigchld \in BOOLEAN /\ handling \in BOOLEAN
      /\ z \in Nat /\ z' \in Nat /\ Zombies = z - reaped /\ Zombies' = z' - reaped'
      /\ P1Lives => z - reaped >= Owed
  BY Counted DEF ReapInv, CountsReaped
<1>2. ReapInv' <=> /\ Forks' /\ reaped' \in Nat /\ zombies_handled' = reaped'
                   /\ sigchld' \in BOOLEAN /\ handling' \in BOOLEAN
                   /\ P1Lives' => z' - reaped' >= Owed'
  BY <1>1 DEF ReapInv, CountsReaped
<1>3. CASE UNCHANGED vars
  <2>1. UNCHANGED <<p1, q, child, chld_vars>>
    BY <1>3 DEF vars, p1_vars, child_vars
  <2>2. z' = z
    BY <2>1, SameEnded
  <2>3. Forks' /\ (P1Lives' <=> P1Lives)
    BY <1>1, <2>1 DEF Forks, P1Lives
  <2> QED
    BY <1>1, <1>2, <2>1, <2>2, <2>3 DEF chld_vars
<1>4. CASE P1
  <2>1. Forks' /\ P1Lives /\ UNCHANGED chld_vars /\ z' = z
    BY <1>1, <1>4, ForksP1, SameEnded
  <2> QED
    BY <1>1, <1>2, <2>1 DEF chld_vars
<1>5. CASE EnterHandler \/ child_handler \/ IntHandler1
  <2>1. Forks' /\ P1Lives /\ UNCHANGED child
    BY <1>1, <1>5, ForksHandler
  <2>2. z' = z
    BY <2>1, SameEnded
  <2>3. CASE EnterHandler
    <3>1. /\ sigchld /\ ~handling /\ sigchld' = FALSE /\ handling' = TRUE
          /\ reaped' = reaped /\ zombies_handled' = zombies_handled
      BY <2>3 DEF EnterHandler
    <3>2. z - reaped >= 1
      BY <1>1, <2>1, <3>1
    <3>3. sigchld' \in BOOLEAN /\ handling' \in BOOLEAN
      BY <3>1, Zenon
    <3>4. Owed' = 1
      BY <3>1
    <3> QED
      BY <1>1, <1>2, <2>1, <2>2, <3>1, <3>2, <3>3, <3>4
  <2>4. CASE child_handler
    <3>1. handling /\ handling' = FALSE /\ sigchld' = sigchld
      BY <2>4 DEF child_handler
    <3>2. z - reaped >= (IF sigchld THEN 1 ELSE 0) + 1
      BY <1>1, <2>1, <3>1
    <3>3. Zombies # 0
      BY <1>1, <3>2
    <3>4. reaped' = reaped + 1 /\ zombies_handled' = zombies_handled + 1
      BY <2>4, <3>3 DEF child_handler
    <3>5. sigchld' \in BOOLEAN /\ handling' \in BOOLEAN
      BY <1>1, <3>1, Zenon
    <3>6. Owed' = (IF sigchld THEN 1 ELSE 0)
      BY <3>1
    <3> QED
      BY <1>1, <1>2, <2>1, <2>2, <3>2, <3>4, <3>5, <3>6
  <2>5. CASE IntHandler1
    BY <1>1, <1>2, <2>1, <2>2, <2>5 DEF IntHandler1, chld_vars, P1Lives
  <2> QED
    BY <1>5, <2>3, <2>4, <2>5
<1>6. ASSUME NEW c \in Children, Child(c) \/ IntHandler(c) PROVE ReapInv'
  <2>1. /\ Forks' /\ UNCHANGED <<p1, q, zombies_handled, handling, reaped>>
        /\ child[c] \in LabelsC \ {"none", "exited"}
        /\ \/ /\ \A d \in Children : child'[d] = "exited" <=> child[d] = "exited"
              /\ UNCHANGED sigchld
           \/ Ends(c)
    BY <1>1, <1>6, ForksChild
  <2>2. P1Lives' <=> P1Lives
    BY <2>1 DEF P1Lives
  <2>3. CASE Ends(c)
    <3>1. z' = z + 1
      BY <1>1, <2>1, <2>3, OneMoreEnded DEF Ends, Forks
    <3>2. sigchld' = P1Lives /\ sigchld' \in BOOLEAN
      BY <2>3 DEF Ends, P1Lives
    <3> QED
      BY <1>1, <1>2, <2>1, <2>2, <3>1, <3>2
  <2>4. CASE UNCHANGED sigchld /\ \A d \in Children : child'[d] = "exited" <=> child[d] = "exited"
    <3>1. z' = z
      BY <2>4, SameEnded
    <3> QED
      BY <1>1, <1>2, <2>1, <2>2, <2>4, <3>1
  <2> QED
    BY <2>1, <2>3, <2>4
<1> QED
  BY <1>3, <1>4, <1>5, <1>6 DEF Next, Steps, Interrupts

\* P1 counts exactly the children it has waited for, and a SIGCHLD, pending or
\* in its handler, always has a child of its own to wait for: the handler does
\* not fail for want of one, although signals of children that end together
\* are one, and does not wait for a child that still runs.
THEOREM Reaping == Spec => []CountsReaped
<1>1. ReapInv => CountsReaped
  BY DEF ReapInv
<1> QED
  BY <1>1, ReapInit, ReapStep, PTL DEF Spec

-----------------------------------------------------------------------------
(* Parts of a packet.                                                      *)

\* Of what lies in a pipe, at most n places are taken and the others stay.
LEMMA Parts ==
    ASSUME NEW S, NEW s \in Seq(S), NEW r \in Nat, NEW w \in Nat, r <= w, w <= Len(s)
    PROVE  /\ Part(s, r, w) \in Seq(S) /\ Len(Part(s, r, w)) = w - r
           /\ \A i \in 1..(w - r) : Part(s, r, w)[i] = s[r + i]
           /\ Part(s, r, w) # <<>> => r < w
<1> DEFINE part == SubSeq(s, r + 1, w)
<1>1. \A i \in (r + 1)..w : s[i] \in S
  OBVIOUS
<1>2. /\ part \in Seq(S)
      /\ Len(part) = IF r + 1 <= w THEN w - (r + 1) + 1 ELSE 0
      /\ \A i \in 1..(w - (r + 1) + 1) : part[i] = s[(r + 1) + i - 1]
  BY <1>1, SubSeqProperties
<1>3. Len(part) = w - r
  BY <1>2
<1>4. ASSUME NEW i \in 1..(w - r) PROVE part[i] = s[r + i]
  <2>1. i \in 1..(w - (r + 1) + 1) /\ (r + 1) + i - 1 = r + i
    OBVIOUS
  <2> QED
    BY <1>2, <2>1
<1>5. part # <<>> => r < w
  BY <1>2, <1>3
<1> QED
  BY <1>2, <1>3, <1>4, <1>5 DEF Part

LEMMA PartAt ==
    ASSUME NEW S, NEW s \in Seq(S), NEW r \in Nat, NEW w \in Nat, NEW i \in 1..(w - r),
           r <= w, w <= Len(s)
    PROVE  Part(s, r, w)[i] = s[r + i]
BY Parts

\* Two parts with the same places are the same.
LEMMA SameSeq ==
    ASSUME NEW S, NEW s \in Seq(S), NEW t \in Seq(S), Len(s) = Len(t),
           \A i \in 1..Len(s) : s[i] = t[i]
    PROVE  s = t
OBVIOUS

LEMMA TailPart ==
    ASSUME NEW S, NEW s \in Seq(S), NEW r \in Nat, NEW w \in Nat, r < w, w <= Len(s)
    PROVE  Tail(Part(s, r, w)) = Part(s, r + 1, w)
<1>1. r + 1 \in 1..Len(s) /\ w \in (r + 1)..Len(s)
  OBVIOUS
<1> QED
  BY <1>1, HeadTailOfSubSeq DEF Part

\* n places are asked for and m taken.
TakesPart(s, r, w, n, m) ==
    /\ m <= n /\ m <= w - r /\ (m = n \/ m = w - r)
    /\ r + m \in Nat /\ r + m <= w
    /\ Take(Part(s, r, w), n) = Part(s, r, r + m)
    /\ Drop(Part(s, r, w), n) = Part(s, r + m, w)

LEMMA TakePart ==
    ASSUME NEW S, NEW s \in Seq(S), NEW r \in Nat, NEW w \in Nat, NEW n \in Nat,
           r <= w, w <= Len(s)
    PROVE  \E m \in Nat : TakesPart(s, r, w, n, m)
<1> DEFINE part == Part(s, r, w)
           m == Least(n, w - r)
           taken == Part(s, r, r + m)
           left == Part(s, r + m, w)
<1>1. part \in Seq(S) /\ Len(part) = w - r /\ \A i \in 1..(w - r) : part[i] = s[r + i]
  BY Parts
<1>2. m \in Nat /\ m <= n /\ m <= w - r /\ (m = n \/ m = w - r) /\ r + m \in Nat /\ r + m <= w
  BY DEF Least
<1> HIDE DEF m
<1>2a. PICK v \in Nat : v = r + m
  BY <1>2
<1>2b. r <= v /\ v <= w /\ v <= Len(s) /\ v - r = m
  BY <1>2, <1>2a
<1>3. taken \in Seq(S) /\ Len(taken) = m /\ \A i \in 1..m : taken[i] = s[r + i]
  <2>1. /\ Part(s, r, v) \in Seq(S) /\ Len(Part(s, r, v)) = v - r
        /\ \A i \in 1..(v - r) : Part(s, r, v)[i] = s[r + i]
    BY ONLY <1>2b, s \in Seq(S), r \in Nat, v \in Nat, Parts
  <2> QED
    BY <1>2a, <1>2b, <2>1, Zenon
<1>4. left \in Seq(S) /\ Len(left) = w - (r + m) /\ \A i \in 1..(w - (r + m)) : left[i] = s[(r + m) + i]
  <2>1. /\ Part(s, v, w) \in Seq(S) /\ Len(Part(s, v, w)) = w - v
        /\ \A i \in 1..(w - v) : Part(s, v, w)[i] = s[v + i]
    BY ONLY <1>2b, s \in Seq(S), v \in Nat, w \in Nat, w <= Len(s), Parts
  <2> QED
    BY <1>2a, <2>1, Zenon
<1> HIDE DEF part, taken, left
<1>5. \A i \in 1..m : part[i] \in S
  BY <1>1, <1>2
<1>6. /\ SubSeq(part, 1, m) \in Seq(S) /\ Len(SubSeq(part, 1, m)) = m
      /\ \A i \in 1..m : SubSeq(part, 1, m)[i] = part[i]
  BY <1>1, <1>2, <1>5
<1>7. SubSeq(part, 1, m) = taken
  <2>1. ASSUME NEW i \in 1..m PROVE SubSeq(part, 1, m)[i] = taken[i]
    <3>1. i \in 1..(w - r)
      BY <1>2
    <3> QED
      BY <1>1, <1>3, <1>6, <3>1
  <2> QED
    BY <1>3, <1>6, <2>1, SameSeq
<1>8. /\ SubSeq(part, 1 + m, w - r) \in Seq(S)
      /\ Len(SubSeq(part, 1 + m, w - r)) = w - (r + m)
      /\ \A i \in 1..(w - (r + m)) : SubSeq(part, 1 + m, w - r)[i] = part[m + i]
  <2>1. \A i \in (1 + m)..(w - r) : part[i] \in S
    BY <1>1, <1>2
  <2>2. /\ SubSeq(part, 1 + m, w - r) \in Seq(S)
        /\ Len(SubSeq(part, 1 + m, w - r)) = IF 1 + m <= w - r THEN (w - r) - (1 + m) + 1 ELSE 0
        /\ \A i \in 1..((w - r) - (1 + m) + 1) : SubSeq(part, 1 + m, w - r)[i] = part[(1 + m) + i - 1]
    BY <1>2, <2>1, SubSeqProperties
  <2>3. Len(SubSeq(part, 1 + m, w - r)) = w - (r + m)
    BY <1>2, <2>2
  <2>4. ASSUME NEW i \in 1..(w - (r + m)) PROVE SubSeq(part, 1 + m, w - r)[i] = part[m + i]
    <3>1. i \in 1..((w - r) - (1 + m) + 1) /\ (1 + m) + i - 1 = m + i
      BY <1>2
    <3> QED
      BY <2>2, <3>1
  <2> QED
    BY <2>2, <2>3, <2>4
<1>9. SubSeq(part, 1 + m, w - r) = left
  <2>1. ASSUME NEW i \in 1..(w - (r + m)) PROVE SubSeq(part, 1 + m, w - r)[i] = left[i]
    <3>1. m + i \in 1..(w - r) /\ r + (m + i) = (r + m) + i
      BY <1>2
    <3> QED
      BY <1>1, <1>4, <1>8, <3>1
  <2> QED
    BY <1>4, <1>8, <2>1, SameSeq
<1>10. Take(part, n) = taken /\ Drop(part, n) = left
  BY <1>1, <1>7, <1>9 DEF Take, Drop, m
<1> QED
  BY <1>2, <1>10 DEF TakesPart, part, taken, left

LEMMA JoinParts ==
    ASSUME NEW S, NEW s \in Seq(S), NEW r \in Nat, NEW w \in Nat, NEW v \in Nat,
           r <= w, w <= v, v <= Len(s)
    PROVE  Part(s, r, w) \o Part(s, w, v) = Part(s, r, v)
<1>1. r + 1 \in 1..(Len(s) + 1) /\ w \in ((r + 1) - 1)..Len(s) /\ v \in w..Len(s)
  OBVIOUS
<1> QED
  BY <1>1, ConcatAdjacentSubSeq DEF Part

\* A packet: the header, and Rest places with the matrix.
LEMMA Packed ==
    ASSUME NEW m
    PROVE  LET S == [mat : {m}, part : 1..(1 + Rest)]
           IN  /\ pack(m) \in Seq(S) /\ Len(pack(m)) = 1 + Rest
               /\ \A k \in 1..(1 + Rest) : pack(m)[k].mat = m /\ pack(m)[k].part = k
<1> DEFINE S == [mat : {m}, part : 1..(1 + Rest)]
           p == [k \in 1..(1 + Rest) |-> [mat |-> m, part |-> k]]
<1>1. 1 + Rest \in Nat
  BY Facts
<1>2. p \in [1..(1 + Rest) -> S]
  OBVIOUS
<1>3. \A k \in 1..(1 + Rest) : p[k].mat = m /\ p[k].part = k
  OBVIOUS
<1>4. pack(m) = p
  BY DEF pack
<1> HIDE DEF p, S
<1>5. p \in Seq(S) /\ Len(p) = 1 + Rest
  BY <1>1, <1>2
<1> QED
  BY <1>3, <1>4, <1>5 DEF S

LEMMA Header ==
    ASSUME NEW m
    PROVE  /\ pack(m) # <<>> /\ pack(m)[1].part = 1
           /\ Tail(pack(m)) # <<>>
           /\ Take(Tail(pack(m)), Rest) = Tail(pack(m))
           /\ Drop(Tail(pack(m)), Rest) = <<>>
           /\ Len(Tail(pack(m))) = Rest
           /\ Tail(pack(m))[1].mat = m
<1> DEFINE S == [mat : {m}, part : 1..(1 + Rest)]
           p == pack(m)
<1>1. /\ p \in Seq(S) /\ Len(p) = 1 + Rest
      /\ \A k \in 1..(1 + Rest) : p[k].mat = m /\ p[k].part = k
  BY Packed
<1> HIDE DEF p, S
<1>1a. p[1].part = 1
  <2>1. 1 \in 1..(1 + Rest)
    BY Facts
  <2> QED
    BY <1>1, <2>1
<1>2. p # <<>> /\ Tail(p) \in Seq(S) /\ Len(Tail(p)) = Rest /\ Tail(p)[1] = p[2]
  BY <1>1, Facts
<1>3. Tail(p) # <<>> /\ Tail(p)[1].mat = m
  <2>1. 2 \in 1..(1 + Rest)
    BY Facts
  <2>2. Tail(p) # <<>>
    <3>1. Len(Tail(p)) # Len(<<>>)
      BY <1>2, Facts
    <3> QED
      BY <3>1
  <2>3. p[2].mat = m
    BY <1>1, <2>1
  <2> QED
    BY <1>2, <2>2, <2>3
<1>4. Take(Tail(p), Rest) = SubSeq(Tail(p), 1, Len(Tail(p)))
  BY <1>2, Facts DEF Take, Least
<1>5. Drop(Tail(p), Rest) = SubSeq(Tail(p), 1 + Len(Tail(p)), Len(Tail(p)))
  BY <1>2, Facts DEF Drop, Least
<1>6. Take(Tail(p), Rest) = Tail(p)
  BY <1>2, <1>4, SubSeqFull
<1>7. Drop(Tail(p), Rest) = <<>>
  BY <1>2, <1>5, SubSeqEmpty, Facts
<1> QED
  BY <1>1a, <1>2, <1>3, <1>6, <1>7 DEF p

Places(c) == [mat : {operands(c)[1], operands(c)[2]}, part : 1..(1 + Rest)]

LEMMA StreamIs ==
    ASSUME NEW c
    PROVE  /\ Stream(c) \in Seq(Places(c)) /\ Len(Stream(c)) = Whole
           /\ Stream(c)[2].mat = operands(c)[1]
           /\ Stream(c)[3 + Rest].mat = operands(c)[2]
           /\ Stream(c)[1].part = 1 /\ Stream(c)[2 + Rest].part = 1
<1> DEFINE x == operands(c)[1]
           y == operands(c)[2]
           p == pack(x)
           r == pack(y)
<1> HIDE DEF x, y
<1>1. /\ p \in Seq([mat : {x}, part : 1..(1 + Rest)]) /\ Len(p) = 1 + Rest
      /\ \A k \in 1..(1 + Rest) : p[k].mat = x /\ p[k].part = k
  BY Packed
<1>2. /\ r \in Seq([mat : {y}, part : 1..(1 + Rest)]) /\ Len(r) = 1 + Rest
      /\ \A k \in 1..(1 + Rest) : r[k].mat = y /\ r[k].part = k
  BY Packed
<1> HIDE DEF p, r
<1> DEFINE X == [mat : {x}, part : 1..(1 + Rest)]
           Y == [mat : {y}, part : 1..(1 + Rest)]
           S == [mat : {x, y}, part : 1..(1 + Rest)]
<1>3. p \in Seq(S) /\ r \in Seq(S)
  <2>1. X \subseteq S /\ Y \subseteq S
    OBVIOUS
  <2>2. p \in Seq(X) /\ r \in Seq(Y)
    BY <1>1, <1>2
  <2> HIDE DEF X, Y, S
  <2> QED
    BY <2>1, <2>2
<1> HIDE DEF S
<1> DEFINE both == p \o r
<1>4. /\ both \in Seq(S) /\ Len(both) = Len(p) + Len(r)
      /\ \A i \in 1..Len(p) + Len(r) : both[i] = IF i <= Len(p) THEN p[i] ELSE r[i - Len(p)]
  BY <1>3, ConcatProperties
<1> HIDE DEF both
<1> DEFINE k == 3 + Rest
           l == 2 + Rest
<1>5a. /\ 1 \in 1..Len(p) + Len(r) /\ 1 <= Len(p) /\ 1 \in 1..(1 + Rest)
       /\ l \in 1..Len(p) + Len(r) /\ ~(l <= Len(p)) /\ l - Len(p) = 1
  BY <1>1, <1>2, Facts
<1>5. /\ 2 \in 1..Len(p) + Len(r) /\ 2 <= Len(p) /\ 2 \in 1..(1 + Rest)
      /\ k \in 1..Len(p) + Len(r) /\ ~(k <= Len(p)) /\ k - Len(p) = 2
  BY <1>1, <1>2, Facts
<1> HIDE DEF k, l
<1>6. both[2] = p[2] /\ both[k] = r[2]
  BY ONLY <1>4, <1>5
<1>6a. both[1] = p[1] /\ both[l] = r[1]
  BY ONLY <1>4, <1>5a
<1>7. Len(both) = Whole
  BY <1>1, <1>2, <1>4, Facts
<1>8. Stream(c) = both /\ S = Places(c)
  BY DEF Stream, Places, S, both, p, r, x, y
<1>9. both[2].mat = x /\ both[k].mat = y
  <2>1. 2 \in 1..(1 + Rest)
    BY <1>5
  <2> QED
    BY <1>1, <1>2, <1>6, <2>1
<1>10. both[1].part = 1 /\ both[l].part = 1
  <2>1. 1 \in 1..(1 + Rest)
    BY <1>5a
  <2> QED
    BY <1>1, <1>2, <1>6a, <2>1
<1> QED
  BY <1>4, <1>7, <1>8, <1>9, <1>10 DEF x, y, k, l

-----------------------------------------------------------------------------
(* The product of the quarters.                                            *)

\* Rows and columns from some place on.
Block(m, di, dj, h, n) == [i \in 1..h |-> [j \in 1..n |-> m[di + i][dj + j]]]

LEMMA BlockIs ==
    ASSUME NEW m, NEW di, NEW dj, NEW h \in Nat, NEW n \in Nat, h > 0
    PROVE  /\ Len(Block(m, di, dj, h, n)) = h
           /\ Columns(Block(m, di, dj, h, n)) = n
           /\ \A i \in 1..h, j \in 1..n : Block(m, di, dj, h, n)[i][j] = m[di + i][dj + j]
<1> DEFINE row(i) == [j \in 1..n |-> m[di + i][dj + j]]
           V == {m[di + i][dj + j] : i \in 1..h, j \in 1..n}
<1>1. \A i \in 1..h : row(i) \in [1..n -> V]
  OBVIOUS
<1>2. Block(m, di, dj, h, n) = [i \in 1..h |-> row(i)]
  BY DEF Block
<1>3. [i \in 1..h |-> row(i)] \in [1..h -> [1..n -> V]]
  BY <1>1
<1> HIDE DEF V
<1>4. [1..h -> [1..n -> V]] \subseteq Seq(Seq(V))
  OBVIOUS
<1>5. Len([i \in 1..h |-> row(i)]) = h
  BY <1>3
<1>6. Len(row(1)) = n
  BY <1>1
<1> QED
  BY <1>2, <1>5, <1>6 DEF Columns

LEMMA ProductIs ==
    ASSUME NEW x, NEW y, NEW h \in Nat, NEW n \in Nat, h > 0, n > 0,
           Len(x) = h, Columns(y) = n
    PROVE  /\ multiply(x, y) = [i \in 1..h |-> [j \in 1..n |->
                 Total([k \in 1..Len(y) |-> x[i][k] * y[k][j]])]]
           /\ Len(multiply(x, y)) = h
<1> DEFINE e(i, j) == Total([k \in 1..Len(y) |-> x[i][k] * y[k][j]])
           V == {e(i, j) : i \in 1..h, j \in 1..n}
           p == [i \in 1..h |-> [j \in 1..n |-> e(i, j)]]
<1>1. multiply(x, y) = p
  BY DEF multiply
<1> HIDE DEF e
<1>2. p \in [1..h -> [1..n -> V]]
  OBVIOUS
<1> HIDE DEF p, V
<1>3. Len(p) = h
  BY <1>2
<1> QED
  BY <1>1, <1>3 DEF p, e

\* An element of the product.
Element(i, j) == Total([k \in 1..Len(a) |-> a[i][k] * b[k][j]])

\* Where the quarter c begins.
rows_of(c) == IF c \in {2, 3} THEN Len(a) \div 2 ELSE 0
columns_of(c) == IF c \in {1, 3} THEN Len(a) \div 2 ELSE 0

LEMMA Squares ==
    ASSUME IsInput
    PROVE  /\ Len(a) \in Nat /\ Len(a) > 0 /\ Len(b) = Len(a) /\ Columns(b) = Len(a)
           /\ Len(a) \div 2 \in Nat /\ Len(a) \div 2 > 0 /\ Len(a) = 2 * (Len(a) \div 2)
<1>1. PICK input \in Inputs : a = input[1] /\ b = input[2]
  BY DEF IsInput
<1>2. /\ Len(a) > 0 /\ Len(a) % 2 = 0 /\ Len(b) = Len(a)
      /\ \A i \in 1..Len(a) : /\ a[i] \in Seq(Int) /\ Len(a[i]) = Len(a)
                              /\ b[i] \in Seq(Int) /\ Len(b[i]) = Len(a)
  BY <1>1, InputsAssumption
<1>3. Len(a) \in Nat
  <2>1. Len(a) \in Int
    BY <1>1, InputsAssumption
  <2> QED
    BY <1>2, <2>1
<1>4. 1 \in 1..Len(a)
  BY <1>2, <1>3
<1>5. Columns(b) = Len(a)
  BY <1>2, <1>4 DEF Columns
<1> DEFINE n == Len(a)
<1>6. n \in Nat /\ n > 0 /\ n % 2 = 0
  BY <1>2, <1>3
<1> HIDE DEF n
<1>7. n \div 2 \in Nat /\ n \div 2 > 0 /\ n = 2 * (n \div 2)
  BY <1>6
<1> QED
  BY <1>2, <1>3, <1>5, <1>7 DEF n

LEMMA OperandsAre ==
    ASSUME IsInput, NEW c \in Children
    PROVE  LET n == Len(a)
               h == Len(a) \div 2
           IN  operands(c) = <<Block(a, rows_of(c), 0, h, n), Block(b, 0, columns_of(c), n, h)>>
<1> DEFINE n == Len(a)
           h == Len(a) \div 2
<1>1. n \in Nat /\ h \in Nat /\ n = 2 * h
  BY Squares
<1>2. operands(c) = << IF c \in {0, 1} THEN piece(a, 0, h, 0, n) ELSE piece(a, h, n, 0, n),
                       IF c \in {0, 2} THEN piece(b, 0, n, 0, h) ELSE piece(b, 0, n, h, n) >>
  BY DEF operands
<1> HIDE DEF n, h
<1>3. /\ piece(a, 0, h, 0, n) = Block(a, 0, 0, h, n)
      /\ piece(a, h, n, 0, n) = Block(a, h, 0, h, n)
      /\ piece(b, 0, n, 0, h) = Block(b, 0, 0, n, h)
      /\ piece(b, 0, n, h, n) = Block(b, 0, h, n, h)
  <2>1. h - 0 = h /\ n - 0 = n /\ n - h = h
    BY <1>1
  <2>2. ASSUME NEW m, NEW i1, NEW i2, NEW j1, NEW j2, NEW k, NEW l, i2 - i1 = k, j2 - j1 = l
        PROVE  piece(m, i1, i2, j1, j2) = Block(m, i1, j1, k, l)
    BY <2>2 DEF piece, Block
  <2> QED
    BY <2>1, <2>2
<1>4. \/ c = 0 /\ rows_of(c) = 0 /\ columns_of(c) = 0
      \/ c = 1 /\ rows_of(c) = 0 /\ columns_of(c) = h
      \/ c = 2 /\ rows_of(c) = h /\ columns_of(c) = 0
      \/ c = 3 /\ rows_of(c) = h /\ columns_of(c) = h
  BY Facts DEF rows_of, columns_of, h
<1>5. operands(c) = <<Block(a, rows_of(c), 0, h, n), Block(b, 0, columns_of(c), n, h)>>
  <2>1. CASE c = 0
    BY <1>2, <1>3, <1>4, <2>1
  <2>2. CASE c = 1
    BY <1>2, <1>3, <1>4, <2>2
  <2>3. CASE c = 2
    BY <1>2, <1>3, <1>4, <2>3
  <2>4. CASE c = 3
    BY <1>2, <1>3, <1>4, <2>4
  <2> QED
    BY <1>4, <2>1, <2>2, <2>3, <2>4
<1> QED
  BY <1>5 DEF n, h

LEMMA ProductOfBlocks ==
    ASSUME IsInput, NEW c \in Children
    PROVE  LET h == Len(a) \div 2
           IN  /\ Product(c) = [i \in 1..h |-> [j \in 1..h |-> Element(rows_of(c) + i, columns_of(c) + j)]]
               /\ Len(Product(c)) = h
<1> DEFINE n == Len(a)
           h == Len(a) \div 2
           x == Block(a, rows_of(c), 0, h, n)
           y == Block(b, 0, columns_of(c), n, h)
<1>1. n \in Nat /\ h \in Nat /\ n > 0 /\ h > 0
  BY Squares
<1>2. operands(c)[1] = x /\ operands(c)[2] = y
  BY OperandsAre
<1> HIDE DEF n, h
<1>3. Len(x) = h /\ \A i \in 1..h, k \in 1..n : x[i][k] = a[rows_of(c) + i][0 + k]
  BY <1>1, BlockIs
<1>4. Len(y) = n /\ Columns(y) = h /\ \A k \in 1..n, j \in 1..h : y[k][j] = b[0 + k][columns_of(c) + j]
  BY <1>1, BlockIs
<1> HIDE DEF x, y
<1>5. /\ multiply(x, y) = [i \in 1..h |-> [j \in 1..h |-> Total([k \in 1..Len(y) |-> x[i][k] * y[k][j]])]]
      /\ Len(multiply(x, y)) = h
  BY <1>1, <1>3, <1>4, ProductIs
<1>6. ASSUME NEW i \in 1..h, NEW j \in 1..h
      PROVE  Total([k \in 1..Len(y) |-> x[i][k] * y[k][j]]) = Element(rows_of(c) + i, columns_of(c) + j)
  <2>1. ASSUME NEW k \in 1..n
        PROVE  x[i][k] * y[k][j] = a[rows_of(c) + i][k] * b[k][columns_of(c) + j]
    <3>1. 0 + k = k
      BY <1>1, <2>1
    <3>2. x[i][k] = a[rows_of(c) + i][k] /\ y[k][j] = b[k][columns_of(c) + j]
      BY <1>3, <1>4, <1>6, <2>1, <3>1
    <3> QED
      BY <3>2
  <2>2. [k \in 1..n |-> x[i][k] * y[k][j]] = [k \in 1..n |-> a[rows_of(c) + i][k] * b[k][columns_of(c) + j]]
    BY <2>1, Zenon
  <2> QED
    BY <1>4, <2>2 DEF Element, n
<1>7. Product(c) = [i \in 1..h |-> [j \in 1..h |-> Element(rows_of(c) + i, columns_of(c) + j)]]
  <2>1. Product(c) = multiply(x, y)
    BY <1>2 DEF Product
  <2> DEFINE e(i, j) == Total([k \in 1..Len(y) |-> x[i][k] * y[k][j]])
             f(i, j) == Element(rows_of(c) + i, columns_of(c) + j)
  <2>2. \A i \in 1..h, j \in 1..h : e(i, j) = f(i, j)
    BY <1>6
  <2>3. multiply(x, y) = [i \in 1..h |-> [j \in 1..h |-> e(i, j)]]
    BY <1>5
  <2> HIDE DEF e, f
  <2>4. \A i \in 1..h : [j \in 1..h |-> e(i, j)] = [j \in 1..h |-> f(i, j)]
    BY <2>2
  <2>5. [i \in 1..h |-> [j \in 1..h |-> e(i, j)]] = [i \in 1..h |-> [j \in 1..h |-> f(i, j)]]
    BY <2>4
  <2> QED
    BY <2>1, <2>3, <2>5 DEF f
<1>8. Len(Product(c)) = h
  BY <1>2, <1>5 DEF Product
<1> QED
  BY <1>7, <1>8 DEF h

\* Put together, the products of the quarters are the product.
LEMMA Merged ==
    ASSUME IsInput, NEW m, \A c \in Children : m[c] = Product(c)
    PROVE  merge_quarters(m) = multiply(a, b)
<1> DEFINE h == Len(m[0])
           shifti == [c \in Children |-> IF c \in {2, 3} THEN h ELSE 0]
           shiftj == [c \in Children |-> IF c \in {1, 3} THEN h ELSE 0]
           At(i, j) == CHOOSE c \in Children : i - shifti[c] \in 1..h /\ j - shiftj[c] \in 1..h
           whole == [i \in 1..(2 * h) |-> [j \in 1..(2 * h) |-> Element(i, j)]]
<1>1. /\ h = Len(a) \div 2
      /\ h \in Nat /\ h > 0 /\ Len(a) = 2 * h /\ Len(a) \in Nat /\ Len(a) > 0
      /\ Len(b) = Len(a) /\ Columns(b) = Len(a)
  <2>1. h = Len(a) \div 2
    BY ProductOfBlocks, Facts
  <2> HIDE DEF h
  <2> QED
    BY <2>1, Squares
<1>2. multiply(a, b) = whole
  <2> HIDE DEF h
  <2> DEFINE e(i, j) == Total([k \in 1..Len(b) |-> a[i][k] * b[k][j]])
  <2>1. multiply(a, b) = [i \in 1..(2 * h) |-> [j \in 1..(2 * h) |-> e(i, j)]]
    BY <1>1, Zenon DEF multiply
  <2>2. ASSUME NEW i, NEW j PROVE e(i, j) = Element(i, j)
    BY <1>1, Zenon DEF Element
  <2> HIDE DEF e
  <2>3. ASSUME NEW i PROVE [j \in 1..(2 * h) |-> e(i, j)] = [j \in 1..(2 * h) |-> Element(i, j)]
    BY <2>2
  <2> QED
    BY <2>1, <2>3
<1>4. ASSUME NEW c \in Children
      PROVE  m[c] = [i \in 1..h |-> [j \in 1..h |-> Element(rows_of(c) + i, columns_of(c) + j)]]
  BY <1>1, <1>4, ProductOfBlocks
<1>5. merge_quarters(m) =
        [i \in 1..(2 * h) |-> [j \in 1..(2 * h) |->
            m[At(i, j)][i - shifti[At(i, j)]][j - shiftj[At(i, j)]]]]
  BY DEF merge_quarters
<1>6. \A c \in Children : rows_of(c) = shifti[c] /\ columns_of(c) = shiftj[c]
  BY <1>1 DEF rows_of, columns_of
<1>7. /\ \A c \in Children : shifti[c] \in {0, h} /\ shiftj[c] \in {0, h}
      /\ shifti[0] = 0 /\ shifti[1] = 0 /\ shifti[2] = h /\ shifti[3] = h
      /\ shiftj[0] = 0 /\ shiftj[1] = h /\ shiftj[2] = 0 /\ shiftj[3] = h
  BY Facts
<1> HIDE DEF h, shifti, shiftj
<1>8. ASSUME NEW i \in 1..(2 * h), NEW j \in 1..(2 * h)
      PROVE  m[At(i, j)][i - shifti[At(i, j)]][j - shiftj[At(i, j)]] = Element(i, j)
  <2>1. \E c \in Children : i - shifti[c] \in 1..h /\ j - shiftj[c] \in 1..h
    <3>1. CASE i <= h /\ j <= h
      <4>1. 0 \in Children /\ i - shifti[0] \in 1..h /\ j - shiftj[0] \in 1..h
        BY <1>1, <1>7, <1>8, <3>1, Facts
      <4> QED
        BY <4>1
    <3>2. CASE i <= h /\ j > h
      <4>1. 1 \in Children /\ i - shifti[1] \in 1..h /\ j - shiftj[1] \in 1..h
        BY <1>1, <1>7, <1>8, <3>2, Facts
      <4> QED
        BY <4>1
    <3>3. CASE i > h /\ j <= h
      <4>1. 2 \in Children /\ i - shifti[2] \in 1..h /\ j - shiftj[2] \in 1..h
        BY <1>1, <1>7, <1>8, <3>3, Facts
      <4> QED
        BY <4>1
    <3>4. CASE i > h /\ j > h
      <4>1. 3 \in Children /\ i - shifti[3] \in 1..h /\ j - shiftj[3] \in 1..h
        BY <1>1, <1>7, <1>8, <3>4, Facts
      <4> QED
        BY <4>1
    <3> QED
      BY <1>1, <1>8, <3>1, <3>2, <3>3, <3>4
  <2> DEFINE c == At(i, j)
  <2>2. c \in Children /\ i - shifti[c] \in 1..h /\ j - shiftj[c] \in 1..h
    BY <2>1
  <2> HIDE DEF c
  <2>3. m[c][i - shifti[c]][j - shiftj[c]] =
            Element(rows_of(c) + (i - shifti[c]), columns_of(c) + (j - shiftj[c]))
    <3> DEFINE k == i - shifti[c]
               l == j - shiftj[c]
    <3>1. k \in 1..h /\ l \in 1..h
      BY <2>2
    <3> HIDE DEF k, l
    <3>2. m[c] = [x \in 1..h |-> [y \in 1..h |-> Element(rows_of(c) + x, columns_of(c) + y)]]
      BY <1>4, <2>2
    <3>3. m[c][k] = [y \in 1..h |-> Element(rows_of(c) + k, columns_of(c) + y)]
      BY <3>1, <3>2
    <3>4. m[c][k][l] = Element(rows_of(c) + k, columns_of(c) + l)
      BY <3>1, <3>3
    <3> QED
      BY <3>4 DEF k, l
  <2>4. rows_of(c) + (i - shifti[c]) = i /\ columns_of(c) + (j - shiftj[c]) = j
    <3>1. rows_of(c) = shifti[c] /\ columns_of(c) = shiftj[c] /\ shifti[c] \in {0, h} /\ shiftj[c] \in {0, h}
      BY <1>6, <1>7, <2>2
    <3>2. ASSUME NEW x \in Int, NEW y \in Int PROVE x + (y - x) = y
      OBVIOUS
    <3>3. shifti[c] \in Int /\ shiftj[c] \in Int /\ i \in Int /\ j \in Int
      BY <1>1, <1>8, <3>1
    <3> QED
      BY ONLY <3>1, <3>2, <3>3
  <2> QED
    BY <2>3, <2>4 DEF c
<1>9. merge_quarters(m) = whole
  <2> HIDE DEF At
  <2> QED
    BY <1>5, <1>8, Zenon
<1> QED
  BY <1>2, <1>9

-----------------------------------------------------------------------------
(* What lies in the pipes belongs to the child it is for.                  *)

LEMMA SameInput ==
    ASSUME UNCHANGED input_vars
    PROVE  /\ \A c : operands(c)' = operands(c) /\ Product(c)' = Product(c) /\ Stream(c)' = Stream(c)
           /\ IsInput' <=> IsInput
           /\ multiply(a, b)' = multiply(a, b)
<1>1. a' = a /\ b' = b
  BY DEF input_vars
<1>2. ASSUME NEW c PROVE operands(c)' = operands(c)
  BY <1>1 DEF operands
<1>3. IsInput' <=> IsInput
  BY <1>1 DEF IsInput
<1> QED
  BY <1>1, <1>2, <1>3 DEF Product, Stream

\* A step of somebody else.
LEMMA SameOperands ==
    ASSUME UNCHANGED input_vars, NEW c \in Children, OperandsInv(c),
           child'[c] = child[c], operands_of'[c] = operands_of[c], to_child'[c] = to_child[c],
           p1' = "write" /\ q' = c => p1 = "write" /\ q = c /\ unwritten' = unwritten
    PROVE  OperandsInv(c)'
<1>1. ASSUME NEW r \in Nat, HasRead(c, r) PROVE HasRead(c, r)'
  BY <1>1, SameInput DEF HasRead
<1>2. ASSUME NEW r \in Nat, NEW w \in Nat, Sent(c, r, w) PROVE Sent(c, r, w)'
  BY <1>1, <1>2, SameInput DEF Sent
<1> QED
  BY <1>2, SameInput DEF OperandsInv

LEMMA SameAnswer ==
    ASSUME UNCHANGED input_vars, NEW c \in Children, AnswerInv(c), to_p1'[c] = to_p1[c],
           child'[c] \notin {"exit", "exited"} => child[c] \notin {"exit", "exited"},
           HalfRead(c)' => HalfRead(c),
           P1Lives' => P1Lives /\ (HalfRead(c) => HalfRead(c)')
    PROVE  AnswerInv(c)'
BY SameInput DEF AnswerInv

LEMMA ProductInit == Init => ProductInv
<1> SUFFICES ASSUME Init PROVE ProductInv
  OBVIOUS
<1>1. Forks
  BY Facts DEF Init, Forks, Labels1, LabelsC
<1>2. Domains
  BY PipeAssumption DEF Init, Domains, IsInput
<1>3. ASSUME NEW c \in Children PROVE OperandsInv(c) /\ AnswerInv(c)
  BY <1>3 DEF Init, OperandsInv, AnswerInv, HalfRead
<1>4. Collected /\ Printed
  BY DEF Init, Collected, Printed
<1> QED
  BY <1>1, <1>2, <1>3, <1>4 DEF ProductInv

\* The parts of the invariant that a step of P1 disturbs.
LEMMA ForkStep ==
    ASSUME ProductInv, pipe_and_fork, spoiled \in Nat, spoiled' = spoiled
    PROVE  ProductInv'
<1>0. unwritten' = Stream(q)
  <2>1. PICK x \in sent(operands(q)[1]), y \in sent(operands(q)[2]) :
               unwritten' = x[1] \o y[1] /\ spoiled' = spoiled + x[2] + y[2]
    BY DEF pipe_and_fork
  <2>2. /\ x = <<pack(operands(q)[1]), 0>> \/ x[2] = 1
        /\ y = <<pack(operands(q)[2]), 0>> \/ y[2] = 1
        /\ x[2] \in {0, 1} /\ y[2] \in {0, 1}
    BY <2>1 DEF sent
  <2>3. x[2] = 0 /\ y[2] = 0
    BY <2>1, <2>2
  <2>4. x[1] = pack(operands(q)[1]) /\ y[1] = pack(operands(q)[2])
    BY <2>2, <2>3
  <2> QED
    BY <2>1, <2>4 DEF Stream
<1>1. /\ p1 = "fork" /\ p1' = "write" /\ q' = q /\ q \in Children /\ Forks
      /\ child' = [child EXCEPT ![q] = "header"]
      /\ unwritten' = Stream(q)
      /\ UNCHANGED <<input_vars, operands_of, to_child, to_p1, mats, final, capacity>>
      /\ child[q] = "none" /\ child \in [Children -> LabelsC]
  BY <1>0, Facts DEF pipe_and_fork, pipes, input_vars, ProductInv, Forks
<1>2. Forks'
  BY <1>1, Facts DEF Forks, Labels1, LabelsC
<1>3. Domains' /\ Collected' /\ Printed'
  BY <1>1, SameInput DEF ProductInv, Domains, Collected, Printed
<1>4. OperandsInv(q)'
  <2>1. to_child[q] = <<>> /\ operands_of[q] = <<>>
    BY <1>1 DEF ProductInv, OperandsInv
  <2>2. Stream(q) \in Seq(Places(q)) /\ Len(Stream(q)) = Whole
    BY StreamIs
  <2>3. Part(Stream(q), 0, 0) = <<>> /\ Part(Stream(q), 0, Whole) = Stream(q)
    BY <2>2, SubSeqEmpty, SubSeqFull DEF Part
  <2>4. Sent(q, 0, 0)'
    BY <1>1, <2>1, <2>3, SameInput, Facts DEF Sent, HasRead
  <2> QED
    BY <1>1, <2>4 DEF OperandsInv
<1>5. ASSUME NEW c \in Children, c # q PROVE OperandsInv(c)'
  BY <1>1, <1>5, SameOperands DEF ProductInv
<1>6. ASSUME NEW c \in Children PROVE AnswerInv(c)'
  BY <1>1, <1>6, SameAnswer DEF ProductInv, HalfRead, P1Lives
<1> QED
  BY <1>1, <1>2, <1>3, <1>4, <1>5, <1>6 DEF ProductInv

LEMMA WriteStep ==
    ASSUME ProductInv, write_operands
    PROVE  ProductInv'
<1> DEFINE room == capacity - Len(to_child[q])
<1>1. /\ p1 = "write" /\ q \in Children /\ Forks /\ Domains
      /\ child[q] \notin {"none", "exited"}
      /\ room > 0
      /\ to_child' = [to_child EXCEPT ![q] = @ \o Take(unwritten, room)]
      /\ unwritten' = Drop(unwritten, room)
      /\ \/ p1' = "write" /\ q' = q
         \/ p1' = "header" /\ q' = 0
         \/ p1' = "fork" /\ q' \in Children
      /\ UNCHANGED <<input_vars, child, operands_of, to_p1, mats, final, capacity>>
  <2>1. \/ UNCHANGED <<p1, q>>
        \/ p1' = "header" /\ q' = 0
        \/ p1' = "fork" /\ q' = q + 1 /\ q # CHILDREN - 1
    BY DEF write_operands
  <2>2. /\ p1 = "write" /\ q \in Children /\ Forks /\ Domains
        /\ child[q] \notin {"none", "exited"} /\ room > 0
        /\ to_child' = [to_child EXCEPT ![q] = @ \o Take(unwritten, room)]
        /\ unwritten' = Drop(unwritten, room)
        /\ UNCHANGED <<input_vars, child, operands_of, to_p1, mats, final, capacity>>
    BY DEF write_operands, Alive, child_vars, input_vars, ProductInv, Forks
  <2> QED
    BY <2>1, <2>2, Facts DEF CHILDREN
<1> HIDE DEF room
<1>2. Forks'
  BY Facts DEF write_operands, Forks, Labels1, LabelsC, CHILDREN, child_vars, ProductInv
<1>3. Domains' /\ Collected' /\ Printed'
  BY <1>1, SameInput, Facts DEF ProductInv, Domains, Collected, Printed
<1>4. ASSUME NEW c \in Children, c = q PROVE OperandsInv(c)'
  <2>1. CASE child[c] \in {"header", "rest"}
    <3>1. PICK r \in Nat, w \in Nat : Sent(c, r, w)
      BY <2>1 DEF ProductInv, OperandsInv
    <3> DEFINE s == Stream(c)
    <3>2. s \in Seq(Places(c)) /\ Len(s) = Whole
      BY StreamIs
    <3> HIDE DEF s
    <3>3. /\ r <= w /\ w <= Whole /\ HasRead(c, r)
          /\ to_child[c] = Part(s, r, w)
          /\ unwritten = Part(s, w, Whole)
      BY <1>1, <1>4, <3>1 DEF Sent, s
    <3>4. Len(to_child[c]) = w - r
      <4>1. r \in Nat /\ w \in Nat /\ r <= w /\ w <= Len(s) /\ s \in Seq(Places(c))
        BY <3>1, <3>2, <3>3
      <4>2. Len(Part(s, r, w)) = w - r
        BY <4>1, Parts
      <4> QED
        BY <3>3, <4>2
    <3>5. room \in Nat /\ Whole \in Nat /\ Whole <= Len(s)
      BY <1>1, <1>4, <3>2, <3>3, <3>4, Facts DEF room, Domains
    <3>6. PICK m \in Nat : /\ m <= Whole - w /\ w + m \in Nat /\ w + m <= Whole
                           /\ Take(unwritten, room) = Part(s, w, w + m)
                           /\ Drop(unwritten, room) = Part(s, w + m, Whole)
      <4>1. \E m \in Nat : TakesPart(s, w, Whole, room, m)
        BY <3>1, <3>2, <3>3, <3>5, TakePart
      <4> QED
        BY <3>3, <4>1 DEF TakesPart
    <3>7. to_child'[c] = Part(s, r, w + m)
      <4>1. to_child'[c] = Part(s, r, w) \o Part(s, w, w + m)
        BY <1>1, <1>4, <3>3, <3>6 DEF Domains
      <4>2. w <= w + m
        BY <3>6
      <4> QED
        BY <3>2, <3>3, <3>6, <4>1, <4>2, JoinParts
    <3>8. HasRead(c, r)'
      BY <1>1, <3>3, SameInput DEF HasRead
    <3>9. r <= w + m
      BY <3>3, <3>6
    <3>10. Sent(c, r, w + m)'
      <4>1. s' = s
        BY <1>1, SameInput DEF s
      <4>2. unwritten' = Part(s, w + m, Whole)
        BY <1>1, <3>6
      <4> QED
        BY <3>6, <3>7, <3>8, <3>9, <4>1, <4>2 DEF Sent, s, Whole
    <3> QED
      BY <1>1, <1>4, <2>1, <3>1, <3>6, <3>10 DEF OperandsInv
  <2>2. CASE child[c] \in {"multiply", "exit"}
    BY <1>1, <1>4, <2>2, SameInput DEF ProductInv, OperandsInv
  <2> QED
    BY <1>1, <1>4, <2>1, <2>2 DEF Forks, LabelsC
<1>5. ASSUME NEW c \in Children, c # q PROVE OperandsInv(c)'
  <2>1. to_child'[c] = to_child[c]
    BY <1>1, <1>5 DEF Domains
  <2>2. p1' = "write" => q' # c
    BY <1>1, <1>5
  <2> QED
    BY <1>1, <1>5, <2>1, <2>2, SameOperands DEF ProductInv
<1>6. ASSUME NEW c \in Children PROVE AnswerInv(c)'
  BY <1>1, <1>6, SameAnswer DEF ProductInv, HalfRead, P1Lives
<1> QED
  BY <1>1, <1>2, <1>3, <1>4, <1>5, <1>6 DEF ProductInv

\* A step that touches neither the pipes to the children nor what they have
\* read, and starts no writing.
LEMMA AllOperands ==
    ASSUME ProductInv, UNCHANGED <<input_vars, child, operands_of, to_child>>, p1' # "write"
    PROVE  \A c \in Children : OperandsInv(c)'
BY SameOperands DEF ProductInv

LEMMA CollectStep ==
    ASSUME ProductInv, BrokenPipe \/ CollectHeader \/ CollectRest \/ CollectGarbled
                       \/ CollectNothing \/ Merge \/ CheckZombies,
           Forks', P1Lives
    PROVE  ProductInv'
<1>0. Forks /\ Domains /\ Collected /\ Printed /\ q \in Children
  BY DEF ProductInv, Forks
<1>1. CASE BrokenPipe \/ CollectNothing \/ CheckZombies
  <2>1. /\ UNCHANGED <<input_vars, child, operands_of, to_child, to_p1, mats, final, q, capacity>>
        /\ p1' \in {"dead", "pause", "exited"}
        /\ p1' # "dead" => p1 = "check"
    BY <1>1 DEF BrokenPipe, CollectNothing, CheckZombies, child_vars, pipes, input_vars
  <2>2. \A c \in Children : OperandsInv(c)'
    BY <2>1, AllOperands
  <2>3. \A c \in Children : AnswerInv(c)'
    BY <2>1, SameAnswer DEF ProductInv, HalfRead, P1Lives
  <2>4. Domains' /\ Collected' /\ Printed'
    BY <1>0, <2>1, SameInput DEF Domains, Collected, Printed
  <2> QED
    BY <2>2, <2>3, <2>4 DEF ProductInv
<1>2. CASE CollectHeader
  <2>1. /\ UNCHANGED <<input_vars, child, operands_of, to_child, mats, final, q, capacity>>
        /\ p1 = "header" /\ p1' = "rest"
        /\ to_p1[q] # <<>>
        /\ to_p1' = [to_p1 EXCEPT ![q] = Tail(@)]
    BY <1>2 DEF CollectHeader, child_vars, input_vars
  <2>2. \A c \in Children : OperandsInv(c)'
    BY <2>1, AllOperands
  <2>3. ASSUME NEW c \in Children, c = q PROVE AnswerInv(c)'
    <3>1. to_p1[c] = pack(Product(c)) /\ child[c] \in {"exit", "exited"}
      BY <2>1, <2>3 DEF ProductInv, AnswerInv, P1Lives, HalfRead
    <3>2. to_p1'[c] = Tail(pack(Product(c))) /\ HalfRead(c)'
      BY <1>0, <2>1, <2>3, <3>1 DEF Domains, HalfRead
    <3>3. pack(Product(c))' = pack(Product(c))
      BY <2>1, SameInput DEF pack
    <3> QED
      BY <2>1, <3>1, <3>2, <3>3 DEF AnswerInv
  <2>4. ASSUME NEW c \in Children, c # q PROVE AnswerInv(c)'
    <3>1. to_p1'[c] = to_p1[c] /\ ~HalfRead(c) /\ ~HalfRead(c)'
      BY <1>0, <2>1, <2>4 DEF Domains, HalfRead
    <3> QED
      BY <2>1, <2>4, <3>1, SameAnswer DEF ProductInv, P1Lives
  <2>5. Domains' /\ Collected' /\ Printed'
    BY <1>0, <2>1, SameInput DEF Domains, Collected, Printed
  <2> QED
    BY <2>2, <2>3, <2>4, <2>5 DEF ProductInv
<1>3. CASE CollectRest
  <2>1. /\ UNCHANGED <<input_vars, child, operands_of, to_child, final, capacity>>
        /\ p1 = "rest"
        /\ Take(to_p1[q], Rest) # <<>>
        /\ to_p1' = [to_p1 EXCEPT ![q] = Drop(@, Rest)]
    BY <1>3 DEF CollectRest, child_vars, input_vars
  <2>2. to_p1[q] # <<>>
    <3>1. Take(<<>>, Rest) = <<>>
      <4>1. Least(Rest, 0) = 0
        BY Facts DEF Least
      <4>2. Take(<<>>, Rest) = SubSeq(<<>>, 1, 0)
        BY <4>1 DEF Take
      <4> QED
        BY <4>2, SubSeqEmpty
    <3> QED
      BY <2>1, <3>1
  <2>3. to_p1[q] = Tail(pack(Product(q)))
    BY <1>0, <2>1, <2>2 DEF ProductInv, AnswerInv, P1Lives, HalfRead
  <2>4. /\ to_p1' = [to_p1 EXCEPT ![q] = <<>>]
        /\ mats' = [mats EXCEPT ![q] = Product(q)]
        /\ p1' = IF q = CHILDREN - 1 THEN "merge" ELSE "header"
        /\ q' = IF q = CHILDREN - 1 THEN 0 ELSE q + 1
    BY <1>3, <2>1, <2>3, Header DEF CollectRest
  <2>5. \A c \in Children : OperandsInv(c)'
    BY <2>1, <2>4, AllOperands
  <2>6. ASSUME NEW c \in Children PROVE AnswerInv(c)'
    <3>1. CASE c = q
      BY <1>0, <2>1, <2>4, <3>1 DEF AnswerInv, Domains, HalfRead
    <3>2. CASE c # q
      <4>1. to_p1'[c] = to_p1[c] /\ ~HalfRead(c) /\ ~HalfRead(c)'
        BY <1>0, <2>1, <2>4, <3>2 DEF Domains, HalfRead
      <4> QED
        BY <2>1, <2>6, <4>1, SameAnswer DEF ProductInv, P1Lives
    <3> QED
      BY <3>1, <3>2
  <2>7. Domains' /\ Printed'
    BY <1>0, <2>1, <2>4, SameInput DEF Domains, Printed
  <2>8. Collected'
    <3>1. ASSUME NEW c \in Children, c < q PROVE mats[c] = Product(c)
      BY <1>0, <2>1, <3>1 DEF Collected
    <3>2. ASSUME NEW c \in Children, c <= q PROVE mats'[c] = Product(c)'
      <4>1. c = q \/ c < q
        BY <1>0, <3>2, Facts
      <4> QED
        BY <1>0, <2>1, <2>4, <3>1, <3>2, <4>1, SameInput DEF Domains
    <3>3. CASE q = CHILDREN - 1
      <4>1. \A c \in Children : c <= q
        BY <3>3, Facts DEF CHILDREN
      <4> QED
        BY <2>4, <3>2, <3>3, <4>1 DEF Collected
    <3>4. CASE q # CHILDREN - 1
      <4>1. p1' = "header" /\ q' = q + 1
        BY <2>4, <3>4
      <4>2. \A c \in Children : c < q + 1 => c <= q
        BY <1>0, Facts
      <4> QED
        BY <3>2, <4>1, <4>2 DEF Collected
    <3> QED
      BY <3>3, <3>4
  <2> QED
    BY <2>5, <2>6, <2>7, <2>8 DEF ProductInv
<1>4. CASE Merge
  <2>1. /\ UNCHANGED <<input_vars, child, operands_of, to_child, to_p1, mats, q, capacity>>
        /\ p1 = "merge" /\ p1' = "check"
        /\ final' = merge_quarters(mats)
    BY <1>4 DEF Merge, child_vars, pipes, input_vars
  <2>2. final' = multiply(a, b)
    BY <1>0, <2>1, Merged DEF Domains, Collected
  <2>3. \A c \in Children : OperandsInv(c)'
    BY <2>1, AllOperands
  <2>4. \A c \in Children : AnswerInv(c)'
    BY <2>1, SameAnswer DEF ProductInv, HalfRead, P1Lives
  <2>5. Domains' /\ Collected' /\ Printed'
    BY <1>0, <2>1, <2>2, SameInput DEF Domains, Collected, Printed
  <2> QED
    BY <2>3, <2>4, <2>5 DEF ProductInv
\* There is a header where P1 expects one.
<1>5. CASE CollectGarbled
  <2>1. p1 = "header" /\ to_p1[q] # <<>> /\ to_p1[q][1].part # 1
    BY <1>5 DEF CollectGarbled
  <2>2. to_p1[q] = pack(Product(q))
    BY <1>0, <2>1 DEF ProductInv, AnswerInv, P1Lives, HalfRead
  <2> QED
    BY <2>1, <2>2, Header
<1> QED
  BY <1>1, <1>2, <1>3, <1>4, <1>5

\* The handlers of signals.
LEMMA SignalStep ==
    ASSUME ProductInv, EnterHandler \/ child_handler \/ IntHandler1
    PROVE  ProductInv'
<1>1. Forks' /\ UNCHANGED <<child, q>> /\ P1Lives /\ p1' \in {p1, "exited", "dead"}
  BY ForksHandler DEF ProductInv
<1>2. UNCHANGED <<input_vars, unwritten, mats, final, operands_of, to_child, to_p1, capacity>>
  BY DEF EnterHandler, child_handler, IntHandler1, p1_vars, child_vars, pipes, input_vars
<1>3. ASSUME NEW c \in Children PROVE OperandsInv(c)'
  BY <1>1, <1>2, <1>3, SameOperands DEF ProductInv
<1>4. ASSUME NEW c \in Children PROVE AnswerInv(c)'
  BY <1>1, <1>2, <1>4, SameAnswer DEF ProductInv, HalfRead, P1Lives
<1>5. Domains' /\ Collected' /\ Printed'
  BY <1>1, <1>2, SameInput DEF ProductInv, Domains, Collected, Printed
<1> QED
  BY <1>1, <1>3, <1>4, <1>5 DEF ProductInv

\* A step of a child leaves what belongs to the others alone.
LEMMA ChildFrame ==
    ASSUME ProductInv, NEW c \in Children, Child(c) \/ IntHandler(c),
           OperandsInv(c)', AnswerInv(c)'
    PROVE  ProductInv'
<1>1. /\ Forks' /\ UNCHANGED <<p1, q>> /\ Domains
  BY ForksChild DEF ProductInv
<1>2. /\ UNCHANGED <<input_vars, unwritten, mats, final, capacity>>
      /\ DOMAIN operands_of' = DOMAIN operands_of
      /\ DOMAIN to_child' = DOMAIN to_child
      /\ DOMAIN to_p1' = DOMAIN to_p1
      /\ \A d \in Children \ {c} : /\ child'[d] = child[d] /\ operands_of'[d] = operands_of[d]
                                   /\ to_child'[d] = to_child[d] /\ to_p1'[d] = to_p1[d]
  <2> USE DEF ProductInv, Forks, Domains, Ends, p1_vars, pipes, input_vars
  <2>1. CASE ReadHeader(c)
    BY <2>1 DEF ReadHeader
  <2>2. CASE ReadRest(c)
    <3>1. /\ UNCHANGED <<input_vars, p1_vars, to_p1>>
          /\ to_child' = [to_child EXCEPT ![c] = Drop(@, Rest)]
      BY <2>2 DEF ReadRest
    <3>2. \/ /\ operands_of' = [operands_of EXCEPT ![c] = Append(@, Take(to_child[c], Rest)[1].mat)]
             /\ child' = [child EXCEPT ![c] = IF operands_of[c] = <<>> THEN "header" ELSE "multiply"]
          \/ Ends(c) /\ UNCHANGED operands_of
      BY <2>2 DEF ReadRest
    <3> QED
      BY <3>1, <3>2
  <2>3. CASE ReadNothing(c)
    BY <2>3 DEF ReadNothing
  <2>4. CASE Answer(c)
    <3>1. UNCHANGED <<input_vars, p1_vars, operands_of, to_child>>
      BY <2>4 DEF Answer
    <3>2. \/ /\ \E packet : to_p1' = [to_p1 EXCEPT ![c] = packet]
             /\ child' = [child EXCEPT ![c] = "exit"]
          \/ Ends(c) /\ UNCHANGED to_p1
      BY <2>4 DEF Answer
    <3> QED
      BY <3>1, <3>2
  <2>5. CASE Exit(c)
    BY <2>5 DEF Exit
  <2>6. CASE IntHandler(c)
    BY <2>6 DEF IntHandler
  <2>7. CASE ReadGarbled(c)
    <3>1. UNCHANGED <<input_vars, p1_vars, to_p1>>
      BY <2>7 DEF ReadGarbled
    <3>2. \/ Ends(c) /\ UNCHANGED <<operands_of, to_child>>
          \/ /\ child' = [child EXCEPT ![c] = IF operands_of[c] = <<>> THEN "header" ELSE "multiply"]
             /\ \E g : /\ to_child' = [to_child EXCEPT ![c] = Drop(@, g.size)]
                       /\ operands_of' = [operands_of EXCEPT ![c] = Append(@, g.mat)]
      BY <2>7 DEF ReadGarbled
    <3> QED
      BY <3>1, <3>2
  <2> QED
    BY <2>1, <2>2, <2>3, <2>4, <2>5, <2>6, <2>7 DEF Child
<1>3. ASSUME NEW d \in Children, d # c PROVE OperandsInv(d)'
  BY <1>1, <1>2, <1>3, SameOperands DEF ProductInv
<1>4. ASSUME NEW d \in Children, d # c PROVE AnswerInv(d)'
  BY <1>1, <1>2, <1>4, SameAnswer DEF ProductInv, HalfRead, P1Lives
<1>5. Domains' /\ Collected' /\ Printed'
  BY <1>1, <1>2, SameInput DEF ProductInv, Domains, Collected, Printed
<1> QED
  BY <1>1, <1>3, <1>4, <1>5 DEF ProductInv

\* A child that ends owes nothing any more.
LEMMA EndStep ==
    ASSUME ProductInv, NEW c \in Children, Child(c) \/ IntHandler(c), Ends(c),
           UNCHANGED <<input_vars, p1, q, to_p1>>
    PROVE  ProductInv'
<1>1. child'[c] = "exited"
  BY DEF Ends, ProductInv, Forks
<1>2. OperandsInv(c)'
  BY <1>1 DEF OperandsInv
<1>3. AnswerInv(c)'
  BY <1>1, SameAnswer DEF ProductInv, HalfRead, P1Lives
<1> QED
  BY <1>2, <1>3, ChildFrame

LEMMA Pair ==
    ASSUME NEW x, NEW y
    PROVE  Append(<<x>>, y) = <<x, y>> /\ <<x>> # <<>>
<1> DEFINE S == {x, y}
           s == Append(<<x>>, y)
           t == <<x, y>>
<1>1. <<x>> \in Seq(S) /\ Len(<<x>>) = 1 /\ Len(<<>>) = 0
  OBVIOUS
<1>2. s \in Seq(S) /\ Len(s) = 2 /\ s[1] = x /\ s[2] = y
  BY <1>1
<1>3. t \in Seq(S) /\ Len(t) = 2 /\ t[1] = x /\ t[2] = y
  OBVIOUS
<1> HIDE DEF S, s, t
<1>4. \A i \in 1..Len(s) : s[i] = t[i]
  BY <1>2, <1>3
<1>5. s = t
  BY <1>2, <1>3, <1>4, SameSeq
<1> QED
  BY <1>1, <1>5 DEF s, t

LEMMA ReadStep ==
    ASSUME ProductInv, NEW c \in Children, ReadHeader(c) \/ ReadRest(c) \/ ReadGarbled(c)
    PROVE  ProductInv'
<1> DEFINE s == Stream(c)
<1>1. /\ child[c] \in {"header", "rest"}
      /\ UNCHANGED <<input_vars, p1, q, unwritten, to_p1>>
      /\ child \in [Children -> LabelsC] /\ Domains
  BY DEF ReadHeader, ReadRest, ReadGarbled, p1_vars, ProductInv, Forks
<1>2. PICK r \in Nat, w \in Nat : Sent(c, r, w)
  BY <1>1 DEF ProductInv, OperandsInv
<1>3. /\ r <= w /\ w <= Whole /\ HasRead(c, r)
      /\ to_child[c] = Part(s, r, w)
      /\ p1 = "write" /\ q = c => unwritten = Part(s, w, Whole)
  BY <1>2 DEF Sent
<1>4. /\ s \in Seq(Places(c)) /\ Len(s) = Whole /\ Whole \in Nat /\ Whole <= Len(s)
      /\ s[2].mat = operands(c)[1] /\ s[3 + Rest].mat = operands(c)[2]
      /\ s[1].part = 1 /\ s[2 + Rest].part = 1
  BY StreamIs, Facts
<1>5. s' = s
  BY <1>1, SameInput
<1>6. ASSUME child'[c] \notin {"exit", "exited"} PROVE AnswerInv(c)'
  <2>1. to_p1'[c] = to_p1[c] /\ to_p1[c] = <<>> /\ ~HalfRead(c)
    BY <1>1 DEF ProductInv, AnswerInv
  <2> QED
    BY <1>1, <2>1 DEF AnswerInv, HalfRead
<1> HIDE DEF s
\* The reader is at k, with the same places in the pipe up to w.
<1>7. ASSUME NEW k \in Nat, k <= w, to_child'[c] = Part(s, k, w), HasRead(c, k)' PROVE Sent(c, k, w)'
  <2>1. Stream(c)' = s
    BY <1>5 DEF s
  <2>2. p1' = "write" /\ q' = c => unwritten' = Part(s, w, Whole)
    BY <1>1, <1>3
  <2> QED
    BY <1>3, <1>7, <2>1, <2>2 DEF Sent, Whole
<1>8. CASE ReadHeader(c)
  <2>1. /\ child[c] = "header" /\ to_child[c] # <<>>
        /\ child' = [child EXCEPT ![c] = "rest"]
        /\ to_child' = [to_child EXCEPT ![c] = Tail(@)]
        /\ operands_of' = operands_of
    BY <1>8 DEF ReadHeader
  <2>2. r < w
    BY <1>2, <1>3, <1>4, <2>1, Parts
  <2>3. to_child'[c] = Part(s, r + 1, w)
    BY <1>1, <1>2, <1>3, <1>4, <2>1, <2>2, TailPart DEF Domains
  <2>4. HasRead(c, r + 1)'
    BY <1>1, <1>3, <2>1, SameInput, Facts DEF HasRead
  <2>5. r + 1 \in Nat /\ r + 1 <= w
    BY <1>2, <1>3, <2>2
  <2>6. Sent(c, r + 1, w)'
    BY <1>7, <2>3, <2>4, <2>5
  <2>7. child'[c] = "rest"
    BY <1>1, <2>1
  <2>8. OperandsInv(c)'
    BY <1>2, <2>5, <2>6, <2>7 DEF OperandsInv
  <2> QED
    BY <1>6, <1>8, <2>7, <2>8, ChildFrame DEF Child
<1>9. CASE ReadRest(c)
  <2> DEFINE read == Take(to_child[c], Rest)
  <2>1. PICK m \in Nat : TakesPart(s, r, w, Rest, m)
    BY <1>2, <1>3, <1>4, TakePart, Facts
  <2>2. /\ m <= w - r /\ r + m \in Nat /\ r + m <= w
        /\ read = Part(s, r, r + m)
        /\ Drop(to_child[c], Rest) = Part(s, r + m, w)
    BY <1>3, <2>1 DEF TakesPart
  <2>3. Len(read) = m /\ (m > 0 => read[1] = s[r + 1])
    <3>1. r <= r + m /\ r + m <= Len(s)
      BY <1>2, <1>3, <1>4, <2>1, <2>2
    <3> DEFINE v == r + m
    <3>2. v \in Nat /\ r \in Nat /\ r <= v /\ v <= Len(s) /\ s \in Seq(Places(c)) /\ v - r = m
      BY <1>2, <1>4, <2>1, <2>2, <3>1
    <3>3. read = Part(s, r, v)
      BY <2>2
    <3> HIDE DEF v, read
    <3>4. Len(read) = m
      BY <3>2, <3>3, Parts
    <3>5. ASSUME m > 0 PROVE read[1] = s[r + 1]
      <4>1. 1 \in 1..(v - r)
        BY <2>1, <3>2, <3>5
      <4> QED
        BY <3>2, <3>3, <4>1, PartAt, ZenonT(30)
    <3> QED
      BY <3>4, <3>5
  <2> HIDE DEF read
  <2>4. /\ child[c] = "rest"
        /\ to_child' = [to_child EXCEPT ![c] = Drop(@, Rest)]
    BY <1>9 DEF ReadRest
  <2>5. CASE m = Rest
    <3>1. /\ operands_of' = [operands_of EXCEPT ![c] = Append(@, read[1].mat)]
          /\ child' = [child EXCEPT ![c] = IF operands_of[c] = <<>> THEN "header" ELSE "multiply"]
      BY <1>9, <2>3, <2>5 DEF ReadRest, read
    <3>2. read[1] = s[r + 1]
      BY <2>3, <2>5, Facts
    <3>3. to_child'[c] = Part(s, r + Rest, w)
      BY <1>1, <2>2, <2>4, <2>5 DEF Domains
    <3>4. CASE r = 1 /\ operands_of[c] = <<>>
      <4>1. read[1].mat = operands(c)[1]
        BY <1>4, <3>2, <3>4
      <4>2. operands_of'[c] = <<operands(c)[1]>> /\ child'[c] = "header"
        BY <1>1, <3>1, <3>4, <4>1 DEF Domains
      <4>3. HasRead(c, 1 + Rest)'
        BY <1>1, <4>2, SameInput DEF HasRead
      <4>4. Sent(c, 1 + Rest, w)'
        BY <1>7, <2>2, <2>5, <3>3, <3>4, <4>3
      <4>5. OperandsInv(c)'
        BY <1>2, <2>2, <2>5, <3>4, <4>2, <4>4 DEF OperandsInv
      <4> QED
        BY <1>6, <1>9, <4>2, <4>5, ChildFrame DEF Child
    <3>5. CASE r = 2 + Rest /\ operands_of[c] = <<operands(c)[1]>>
      <4>1. read[1].mat = operands(c)[2]
        <5>1. r + 1 = 3 + Rest
          BY <3>5, Facts
        <5> QED
          BY <1>4, <3>2, <5>1
      <4>2. operands_of'[c] = <<operands(c)[1], operands(c)[2]>> /\ child'[c] = "multiply"
        <5>1. operands_of'[c] = Append(<<operands(c)[1]>>, operands(c)[2])
          BY <1>1, <3>1, <3>5, <4>1 DEF Domains
        <5>2. ASSUME NEW x, NEW y PROVE Append(<<x>>, y) = <<x, y>> /\ <<x>> # <<>>
          BY Pair
        <5>3. operands_of[c] # <<>>
          BY <3>5, <5>2
        <5> QED
          BY <1>1, <3>1, <5>1, <5>2, <5>3
      <4>3. operands(c) = <<operands(c)[1], operands(c)[2]>>
        BY DEF operands
      <4>4. OperandsInv(c)'
        BY <1>1, <4>2, <4>3, SameInput DEF OperandsInv
      <4> QED
        BY <1>6, <1>9, <4>2, <4>4, ChildFrame DEF Child
    <3> QED
      BY <1>3, <2>4, <3>4, <3>5 DEF HasRead
  <2>6. CASE m # Rest
    <3>1. Ends(c)
      BY <1>9, <2>3, <2>6 DEF ReadRest, read
    <3> QED
      BY <1>1, <1>9, <3>1, EndStep DEF Child
  <2> QED
    BY <2>5, <2>6
\* There is a header where the child expects one.
<1>10. CASE ReadGarbled(c)
  <2>1. child[c] = "header" /\ to_child[c] # <<>> /\ to_child[c][1].part # 1
    BY <1>10 DEF ReadGarbled
  <2>2. r < w
    <3>1. r \in Nat /\ w \in Nat /\ w <= Len(s) /\ s \in Seq(Places(c))
      BY <1>2, <1>3, <1>4
    <3>2. Part(s, r, w) # <<>>
      BY <1>3, <2>1, Zenon
    <3> QED
      BY ONLY <1>3, <3>1, <3>2, Parts
  <2>3. 1 \in 1..(w - r)
    BY <1>2, <2>2
  <2>4. to_child[c][1] = s[r + 1]
    <3>1. r \in Nat /\ w \in Nat /\ w <= Len(s) /\ s \in Seq(Places(c))
      BY <1>2, <1>3, <1>4
    <3>2. Part(s, r, w)[1] = s[r + 1]
      BY ONLY <1>3, <2>3, <3>1, PartAt
    <3> QED
      BY <1>3, <3>2, Zenon
  <2>5. r = 0 \/ r = 1 + Rest
    BY <1>3, <2>1 DEF HasRead
  <2>6. r + 1 = 1 \/ r + 1 = 2 + Rest
    BY <2>5, Facts
  <2> QED
    BY <1>4, <2>1, <2>4, <2>6
<1> QED
  BY <1>8, <1>9, <1>10

LEMMA AnswerStep ==
    ASSUME ProductInv, NEW c \in Children, Answer(c), spoiled \in Nat, spoiled' = spoiled
    PROVE  ProductInv'
<1>1. /\ child[c] = "multiply" /\ operands_of[c] = operands(c)
      /\ UNCHANGED <<input_vars, p1, q>>
      /\ child \in [Children -> LabelsC] /\ Domains /\ ~HalfRead(c)
  BY DEF Answer, p1_vars, ProductInv, Forks, OperandsInv, AnswerInv
<1>2. CASE to_p1' = [to_p1 EXCEPT ![c] = pack(Product(c))] /\ child' = [child EXCEPT ![c] = "exit"]
  <2>1. child'[c] = "exit" /\ to_p1'[c] = pack(Product(c))
    BY <1>1, <1>2 DEF Domains
  <2>2. OperandsInv(c)'
    BY <2>1 DEF OperandsInv
  <2>3. pack(Product(c))' = pack(Product(c))
    BY <1>1, SameInput DEF pack
  <2>4. AnswerInv(c)'
    BY <1>1, <2>1, <2>3 DEF AnswerInv, HalfRead
  <2> QED
    BY <2>2, <2>4, ChildFrame DEF Child
<1>3. CASE Ends(c) /\ UNCHANGED to_p1
  BY <1>1, <1>3, EndStep DEF Child
<1>4. CASE to_p1' = [to_p1 EXCEPT ![c] = garbled] /\ spoiled' = spoiled + 1
  BY <1>4
<1> DEFINE answer == write_quarter(multiply(operands_of[c][1], operands_of[c][2]))
<1>5. answer = pack(Product(c))
  BY <1>1 DEF write_quarter, Product
<1> HIDE DEF answer
<1>6. \/ /\ \E x \in {<<answer, 0>>, <<garbled, 1>>} :
               to_p1' = [to_p1 EXCEPT ![c] = x[1]] /\ spoiled' = spoiled + x[2]
         /\ child' = [child EXCEPT ![c] = "exit"]
      \/ Ends(c) /\ UNCHANGED to_p1
  BY DEF Answer, answer
<1> QED
  BY <1>2, <1>3, <1>4, <1>5, <1>6

LEMMA ProductStep ==
    ASSUME ProductInv, [Next]_vars, spoiled \in Nat, spoiled' = spoiled
    PROVE  ProductInv'
<1>1. CASE UNCHANGED vars
  <2>1. UNCHANGED <<input_vars, capacity, p1, q, unwritten, mats, final, child, operands_of, to_child, to_p1>>
    BY <1>1 DEF vars, input_vars, p1_vars, child_vars, pipes
  <2>2. \A c \in Children : OperandsInv(c)' /\ AnswerInv(c)'
    BY <2>1, SameOperands, SameAnswer DEF ProductInv, HalfRead, P1Lives
  <2>3. Forks' /\ Domains' /\ Collected' /\ Printed'
    BY <2>1, SameInput DEF ProductInv, Forks, Domains, Collected, Printed
  <2> QED
    BY <2>2, <2>3 DEF ProductInv
<1>2. CASE P1
  <2>1. Forks' /\ P1Lives
    BY <1>2, ForksP1 DEF ProductInv
  <2> QED
    BY <1>2, <2>1, ForkStep, WriteStep, CollectStep DEF P1
<1>3. CASE EnterHandler \/ child_handler \/ IntHandler1
  BY <1>3, SignalStep
<1>4. ASSUME NEW c \in Children, Child(c) \/ IntHandler(c) PROVE ProductInv'
  <2>1. CASE ReadNothing(c) \/ Exit(c) \/ IntHandler(c)
    <3>1. Ends(c) /\ UNCHANGED <<input_vars, p1, q, to_p1>>
      BY <2>1 DEF ReadNothing, Exit, IntHandler, p1_vars, pipes
    <3> QED
      BY <2>1, <3>1, EndStep DEF Child
  <2> QED
    BY <1>4, <2>1, ReadStep, AnswerStep DEF Child
<1> QED
  BY <1>1, <1>2, <1>3, <1>4 DEF Next, Steps, Interrupts

\* Packets are spoiled only where they are built.
LEMMA Spoils ==
    ASSUME [Next]_vars, spoiled \in Nat
    PROVE  spoiled' \in Nat /\ spoiled <= spoiled'
<1>1. CASE pipe_and_fork
  <2>1. PICK x \in sent(operands(q)[1]), y \in sent(operands(q)[2]) :
               spoiled' = spoiled + x[2] + y[2]
    BY <1>1 DEF pipe_and_fork
  <2>2. x[2] \in {0, 1} /\ y[2] \in {0, 1}
    BY DEF sent
  <2> QED
    BY <2>1, <2>2
<1>2. ASSUME NEW c \in Children, Answer(c) PROVE spoiled' \in Nat /\ spoiled <= spoiled'
  <2>1. spoiled' = spoiled \/ spoiled' = spoiled + 1 \/ spoiled' = spoiled + 0
    BY <1>2 DEF Answer
  <2> QED
    BY <2>1
<1>3. CASE P1 /\ ~pipe_and_fork
  <2>1. UNCHANGED faults
    <3>1. CASE write_operands \/ BrokenPipe \/ CollectHeader
      BY <3>1 DEF write_operands, BrokenPipe, CollectHeader
    <3>2. CASE CollectRest
      BY <3>2 DEF CollectRest
    <3>3. CASE CollectGarbled \/ CollectNothing \/ Merge \/ CheckZombies
      BY <3>3 DEF CollectGarbled, CollectNothing, Merge, CheckZombies
    <3> QED
      BY <1>3, <3>1, <3>2, <3>3 DEF P1
  <2> QED
    BY <2>1 DEF faults
<1>4. CASE EnterHandler \/ child_handler \/ IntHandler1
  BY <1>4 DEF EnterHandler, child_handler, IntHandler1, faults
<1>5. ASSUME NEW c \in Children, Child(c) \/ IntHandler(c), ~Answer(c) PROVE spoiled' = spoiled
  BY <1>5 DEF Child, ReadHeader, ReadRest, ReadGarbled, ReadNothing, Exit, IntHandler, faults
<1>6. CASE UNCHANGED vars
  BY <1>6 DEF vars, faults
<1> QED
  BY <1>1, <1>2, <1>3, <1>4, <1>5, <1>6 DEF Next, Steps, Interrupts, P1

\* Whatever the matrices, however little fits into a pipe, whichever child is
\* fast or slow and whoever is interrupted: what P1 prints is the product, if
\* none of the packets was overrun or put behind stale bytes where it was built
\* (417, 460-477).
THEOREM QuartersMakeProduct == Spec => []ProductRight
<1>1. Init => UnspoiledInv
  BY ProductInit DEF Init, UnspoiledInv
<1>2. ASSUME UnspoiledInv, [Next]_vars PROVE UnspoiledInv'
  <2>1. spoiled \in Nat /\ spoiled' \in Nat /\ spoiled <= spoiled'
    BY <1>2, Spoils DEF UnspoiledInv
  <2>2. spoiled' = 0 => spoiled = 0 /\ spoiled' = spoiled
    BY <2>1
  <2> QED
    BY <1>2, <2>1, <2>2, ProductStep DEF UnspoiledInv
<1>3. UnspoiledInv => ProductRight
  BY DEF UnspoiledInv, ProductInv, Printed, ProductRight
<1> QED
  BY <1>1, <1>2, <1>3, PTL DEF Spec
=============================================================================
