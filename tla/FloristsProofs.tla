--------------------------- MODULE FloristsProofs ---------------------------
(***************************************************************************)
(* For any number of florists and requests: every request reaches the      *)
(* closest florist, in order, once; no florist misses a broadcast; and the *)
(* day ends when all is delivered.                                         *)
(***************************************************************************)
EXTENDS Florists, SequenceTheorems, FiniteSetTheorems, TLAPS

States == {"not_created", "lock", "waiting", "deliver", "closed"}

\* What the argument needs to know of the types.
Types ==
    /\ florist \in [Florists -> States]
    /\ queue_list \in [Florists -> Seq(Nat)]
    /\ i \in Nat

\* The supervisor is done with its requests when the day is over, and who has
\* closed has nothing left to do and never will.
Closing ==
    /\ finished => supervisor \in {"join", "stats"}
    /\ \A f \in Florists : florist[f] = "closed" => finished /\ Idle(f)
    /\ supervisor = "stats" => AllClosed

Inv == Types /\ Closing /\ NoMissedWork

LEMMA Initially == Init => Inv
  BY CountsAssumption DEF Init, Inv, Types, States, Closing, NoMissedWork, AllClosed, Idle, Florists

\* A broadcast leaves nobody waiting, and closes nobody.
LEMMA WokenStates ==
    ASSUME Types
    PROVE  /\ Woken \in [Florists -> States]
           /\ \A f \in Florists : Woken[f] # "waiting" /\ (Woken[f] = "closed" => florist[f] = "closed")
  BY DEF Types, Woken, States

LEMMA SupervisorStep == Inv /\ Supervisor => Inv'
<1> SUFFICES ASSUME Inv, Supervisor PROVE Inv'
  OBVIOUS
<1> USE DEF Inv, Types, Closing, NoMissedWork, SupervisorGoto, AllClosed, Idle, byMain, byFlorist
<1>1. CASE CreateFlorist
  <2>1. florist' \in [Florists -> States] /\ queue_list' = queue_list
    BY <1>1 DEF CreateFlorist, States
  <2>2. i' \in Nat
    BY <1>1 DEF CreateFlorist
  <2> QED
    BY <1>1, <2>1, <2>2 DEF CreateFlorist, States
<1>2. CASE Request
  <2>1. i \in Nat /\ \A f \in Florists : queue_list[f] \in Seq(Nat)
    OBVIOUS
  <2>2. Types'
    <3>1. \A f \in Florists : Append(queue_list[f], i) \in Seq(Nat)
      BY <2>1
    <3>2. queue_list' \in [Florists -> Seq(Nat)]
      BY <1>2, <3>1 DEF Request
    <3>3. i' \in Nat /\ florist' = Woken
      BY <1>2 DEF Request
    <3> QED
      BY <3>2, <3>3, WokenStates
  <2>3. ~finished
    BY <1>2 DEF Request
  <2> QED
    BY <1>2, <2>2, <2>3, WokenStates DEF Request
<1>3. CASE Finish
  BY <1>3, WokenStates DEF Finish
<1>4. CASE Join
  BY <1>4 DEF Join
<1>5. CASE PrintStats
  BY <1>5 DEF PrintStats
<1> QED
  BY <1>1, <1>2, <1>3, <1>4, <1>5 DEF Supervisor

LEMMA FloristStep ==
    ASSUME Inv, NEW f \in Florists, Florist(f) \/ Spurious(f)
    PROVE  Inv'
<1> USE DEF Inv, Types, Closing, NoMissedWork, FloristGoto, AllClosed, Idle, byMain, States
<1>1. CASE Wait(f)
  BY <1>1 DEF Wait
<1>2. CASE Close(f)
  BY <1>2 DEF Close
<1>3. CASE TakeOrder(f)
  <2>1. queue_list[f] \in Seq(Nat) /\ queue_list[f] # <<>>
    BY <1>3 DEF TakeOrder
  <2>2. Tail(queue_list[f]) \in Seq(Nat)
    BY <2>1
  <2>3. queue_list' \in [Florists -> Seq(Nat)]
    BY <1>3, <2>2 DEF TakeOrder
  <2> QED
    BY <1>3, <2>1, <2>3 DEF TakeOrder
<1>4. CASE Delivery(f)
  BY <1>4 DEF Delivery
<1>5. CASE Spurious(f)
  BY <1>5 DEF Spurious
<1> QED
  BY <1>1, <1>2, <1>3, <1>4, <1>5 DEF Florist

LEMMA Preserved == Inv /\ [Next]_vars => Inv'
<1> SUFFICES ASSUME Inv, [Next]_vars PROVE Inv'
  OBVIOUS
<1> USE DEF Inv, Types, Closing, NoMissedWork, AllClosed, Idle
<1>1. CASE UNCHANGED vars
  BY <1>1 DEF vars, byMain, byFlorist
<1>2. CASE Supervisor
  BY <1>2, SupervisorStep
<1>3. CASE Sigint \/ SigintInHeap \/ SigExit \/ FreeTwice \/ \E f \in Florists : UseFreed(f)
  BY <1>3 DEF Sigint, SigintInHeap, SigExit, FreeTwice, UseFreed, byMain, byFlorist
<1>4. CASE \E f \in Florists : Florist(f) \/ Spurious(f)
  BY <1>4, FloristStep
<1> QED
  BY <1>1, <1>2, <1>3, <1>4 DEF Next

\* No florist sleeps while it has an order or the day is over: the test and the
\* wait are one section of the mutex, and every change they look at is followed
\* by a broadcast in the same section.
THEOREM NoneMissed == Spec => []NoMissedWork
<1>1. Inv => NoMissedWork
  BY DEF Inv
<1> QED
  BY <1>1, Initially, Preserved, PTL DEF Spec

-----------------------------------------------------------------------------
(* Induction over the naturals.                                            *)

\* A set of naturals that is not empty has a least element.
LEMMA Least ==
    ASSUME NEW S \in SUBSET Nat, S # {}
    PROVE  \E m \in S : \A k \in S : m <= k
<1>1. PICK R : R = OpToRel(<, Nat)
  OBVIOUS
<1>2. R = {ss \in Nat \X Nat : ss[1] < ss[2]}
  BY <1>1, Zenon DEF OpToRel
<1>3. IsWellFoundedOn(R, Nat)
  BY <1>1, NatLessThanWellFounded, Zenon
<1>4. PICK m \in S : \A k \in S : ~ (<<k, m>> \in R)
  BY <1>3, WFMin
<1>5. ASSUME NEW k \in S, k < m PROVE FALSE
  <2>1. <<k, m>> \in R
    BY <1>2, <1>5
  <2> QED
    BY <1>4, <2>1
<1> QED
  BY <1>5

\* So that what holds for 0 and passes from n to n + 1 holds for all naturals.
LEMMA Induction ==
    ASSUME NEW Good, 0 \in Good, \A n \in Nat : n \in Good => n + 1 \in Good
    PROVE  \A n \in Nat : n \in Good
<1> DEFINE Bad == {n \in Nat : n \notin Good}
<1>1. CASE Bad # {}
  <2>1. PICK m \in Bad : \A k \in Bad : m <= k
    <3>1. Bad \in SUBSET Nat
      OBVIOUS
    <3> HIDE DEF Bad
    <3> QED
      BY <1>1, <3>1, Least
  <2>2. m \in Nat /\ m # 0 /\ m \notin Good
    BY <2>1
  <2>3. m - 1 \in Nat /\ m - 1 \notin Bad
    BY <2>1, <2>2
  <2> QED
    BY <2>2, <2>3
<1> QED
  BY <1>1

-----------------------------------------------------------------------------
(* What the loop of find_florist finds.                                    *)

best(c) ==
    CHOOSE b : b = [f \in 0..F |->
        IF f = 0 THEN [index |-> 0, min |-> FLT_MAX] ELSE Closest(c, f, b[f - 1])]

\* The recursive function exists: it can be built one round after the other.
LEMMA Rounds ==
    ASSUME NEW c
    PROVE  best(c) = [f \in 0..F |->
        IF f = 0 THEN [index |-> 0, min |-> FLT_MAX] ELSE Closest(c, f, best(c)[f - 1])]
<1> DEFINE IsLoop(b, n) == b = [f \in 0..n |->
               IF f = 0 THEN [index |-> 0, min |-> FLT_MAX] ELSE Closest(c, f, b[f - 1])]
           Good == {n \in Nat : \E b : IsLoop(b, n)}
<1>1. best(c) = CHOOSE b : IsLoop(b, F)
  BY DEF best
<1>2. 0 \in Good
  <2>1. IsLoop([f \in 0..0 |-> [index |-> 0, min |-> FLT_MAX]], 0)
    OBVIOUS
  <2> QED
    BY <2>1
<1>3. ASSUME NEW n \in Nat, n \in Good PROVE n + 1 \in Good
  <2>1. PICK b : IsLoop(b, n)
    BY <1>3
  <2> DEFINE l == [f \in 0..n + 1 |->
          IF f = 0 THEN [index |-> 0, min |-> FLT_MAX] ELSE Closest(c, f, b[f - 1])]
  <2>2. \A f \in 0..n : l[f] = b[f]
    BY <1>3, <2>1
  <2>3. \A f \in 0..n + 1 : f # 0 => b[f - 1] = l[f - 1]
    <3>1. \A f \in 0..n + 1 : f # 0 => f - 1 \in 0..n
      BY <1>3
    <3> HIDE DEF l
    <3> QED
      BY <2>2, <3>1
  <2>4. IsLoop(l, n + 1)
    BY <2>3
  <2> HIDE DEF IsLoop, l
  <2> QED
    BY <1>3, <2>4
<1> HIDE DEF IsLoop
<1>4. F \in Nat
  BY CountsAssumption
<1>5. \A n \in Nat : n \in Good
  <2> HIDE DEF Good
  <2> QED
    BY <1>2, <1>3, Induction
<1>6. IsLoop(best(c), F)
  BY <1>1, <1>4, <1>5
<1> QED
  BY <1>6 DEF IsLoop

\* What the file says, as init_models read it.
Distances ==
    /\ distance \in [Clients -> [Florists -> 0..MaxDistance \cup {NotSold}]]
    /\ \A c \in Clients : \E f \in Florists : Sells(f, c)

\* After n rounds the loop holds the closest seller among the first n florists.
Holds(c, b, n) ==
    \/ b = [index |-> 0, min |-> FLT_MAX] /\ \A g \in 1..n : ~Sells(g, c)
    \/ /\ b.index \in 1..n /\ Sells(b.index, c) /\ b.min = distance[c][b.index]
       /\ \A g \in 1..n : Sells(g, c) => b.min <= distance[c][g]

LEMMA RoundHolds ==
    ASSUME Distances, NEW c \in Clients, NEW n \in Nat, n + 1 \in 1..F, NEW b, Holds(c, b, n)
    PROVE  Holds(c, Closest(c, n + 1, b), n + 1)
<1>1. \A g \in 1..n + 1 : g \in 1..n \/ g = n + 1
  OBVIOUS
<1>2. \A g \in 1..n + 1 : Sells(g, c) => distance[c][g] \in 0..MaxDistance
  <2>1. \A g \in 1..n + 1 : g \in Florists
    BY CountsAssumption DEF Florists
  <2>2. \A g \in Florists : distance[c][g] \in 0..MaxDistance \cup {NotSold}
    BY DEF Distances
  <2> QED
    BY <2>1, <2>2 DEF Sells
<1>3. MaxDistance \in Nat /\ \A d \in 0..MaxDistance : d <= FLT_MAX
  BY CountsAssumption DEF FLT_MAX
<1>4. CASE Sells(n + 1, c) /\ distance[c][n + 1] <= b.min
  <2>1. Closest(c, n + 1, b) = [index |-> n + 1, min |-> distance[c][n + 1]]
    BY <1>4 DEF Closest
  <2>2. \A g \in 1..n + 1 : Sells(g, c) => distance[c][n + 1] <= distance[c][g]
    BY <1>1, <1>2, <1>4 DEF Holds
  <2> QED
    BY <1>4, <2>1, <2>2 DEF Holds
<1>5. CASE ~(Sells(n + 1, c) /\ distance[c][n + 1] <= b.min)
  <2>1. Closest(c, n + 1, b) = b
    BY <1>5 DEF Closest
  <2>2. CASE b = [index |-> 0, min |-> FLT_MAX] /\ \A g \in 1..n : ~Sells(g, c)
    <3>1. ~Sells(n + 1, c)
      BY <1>2, <1>3, <1>5, <2>2
    <3> QED
      BY <1>1, <2>1, <2>2, <3>1 DEF Holds
  <2>3. CASE /\ b.index \in 1..n /\ Sells(b.index, c) /\ b.min = distance[c][b.index]
             /\ \A g \in 1..n : Sells(g, c) => b.min <= distance[c][g]
    <3>1. b.min \in 0..MaxDistance /\ b.index \in 1..n + 1
      BY <1>2, <2>3
    <3>2. Sells(n + 1, c) => b.min <= distance[c][n + 1]
      BY <1>2, <1>5, <3>1
    <3> QED
      BY <1>1, <2>1, <2>3, <3>1, <3>2 DEF Holds
  <2> QED
    BY <2>2, <2>3 DEF Holds
<1> QED
  BY <1>4, <1>5

\* find_florist returns a florist who sells the flower, and none who sells it is
\* closer to the client.
LEMMA FindsClosest ==
    ASSUME Distances, NEW c \in Clients
    PROVE  /\ FindFlorist(c) \in Florists /\ Sells(FindFlorist(c), c)
           /\ \A g \in Florists : Sells(g, c) => distance[c][FindFlorist(c)] <= distance[c][g]
<1> DEFINE b == best(c)
           Good == {n \in Nat : n <= F => Holds(c, b[n], n)}
<1>1. F \in Nat /\ F # 0
  BY CountsAssumption
<1>2. b = [f \in 0..F |->
              IF f = 0 THEN [index |-> 0, min |-> FLT_MAX] ELSE Closest(c, f, b[f - 1])]
  BY Rounds
<1> HIDE DEF b
<1>3. 0 \in Good
  <2>1. b[0] = [index |-> 0, min |-> FLT_MAX]
    BY <1>1, <1>2
  <2> QED
    BY <2>1 DEF Holds
<1>4. ASSUME NEW n \in Nat, n \in Good PROVE n + 1 \in Good
  <2>1. CASE n + 1 <= F
    <3>1. n + 1 \in 1..F /\ Holds(c, b[n], n)
      BY <1>1, <1>4, <2>1
    <3>2. b[n + 1] = Closest(c, n + 1, b[n])
      BY <1>1, <1>2, <1>4, <3>1
    <3>3. Holds(c, b[n + 1], n + 1)
      BY <1>4, <3>1, <3>2, RoundHolds
    <3> QED
      BY <1>4, <3>3
  <2>2. CASE ~(n + 1 <= F)
    BY <1>4, <2>2
  <2> QED
    BY <2>1, <2>2
<1>5. \A n \in Nat : n \in Good
  <2> HIDE DEF Good
  <2> QED
    BY <1>3, <1>4, Induction
<1>6. Holds(c, b[F], F)
  BY <1>1, <1>5
<1>7. FindFlorist(c) = b[F].index
  BY DEF FindFlorist, best, b
<1>8. \E f \in 1..F : Sells(f, c)
  BY DEF Distances, Florists
<1> QED
  BY <1>6, <1>7, <1>8 DEF Holds, Florists

\* It depends on the file only, which nobody writes.
LEMMA FindsTheSame ==
    ASSUME NEW c, distance' = distance
    PROVE  FindFlorist(c)' = FindFlorist(c)
  BY DEF FindFlorist, Closest, Sells

-----------------------------------------------------------------------------
(* The requests reach the florists in order.                               *)

LEMMA Appended ==
    ASSUME NEW s \in Seq(Nat), NEW e \in Nat, Increasing(s), \A x \in Elements(s) : x < e
    PROVE  /\ Increasing(Append(s, e))
           /\ Elements(Append(s, e)) = Elements(s) \cup {e}
<1> DEFINE t == Append(s, e)
<1>1. /\ Len(s) \in Nat /\ Len(t) = Len(s) + 1 /\ t[Len(s) + 1] = e
      /\ \A k \in 1..Len(s) : t[k] = s[k] /\ s[k] \in Nat
  BY AppendProperties, LenProperties, ElementOfSeq
<1> HIDE DEF t
<1>2. \A k \in 1..Len(t) : k \in 1..Len(s) \/ k = Len(s) + 1
  BY <1>1
<1>3. 1..Len(s) \subseteq 1..Len(t) /\ Len(s) + 1 \in 1..Len(t)
  BY <1>1
<1>4. Increasing(t)
  <2> SUFFICES ASSUME NEW k \in 1..Len(t), NEW l \in 1..Len(t), k < l PROVE t[k] < t[l]
    BY DEF Increasing
  <2>1. k \in 1..Len(s)
    BY <1>1, <1>2
  <2>2. CASE l \in 1..Len(s)
    BY <1>1, <2>1, <2>2 DEF Increasing
  <2>3. CASE l = Len(s) + 1
    BY <1>1, <2>1, <2>3 DEF Elements
  <2> QED
    BY <1>2, <2>2, <2>3
<1>5. Elements(t) = Elements(s) \cup {e}
  BY <1>1, <1>2, <1>3 DEF Elements
<1> QED
  BY <1>4, <1>5 DEF t

\* The parts of the argument about the requests; each is in one florist's hands.
Books ==
    /\ Distances
    /\ delivered \in [Florists -> Seq(Nat)]
    /\ client \in [Florists -> Nat]
    /\ \A f \in Florists : client[f] # 0 <=> florist[f] = "deliver"
    /\ supervisor # "create" => i <= C + 1
    /\ supervisor \in {"join", "stats"} => i = C + 1
    /\ i # 0
    /\ supervisor = "create" => \A f \in Florists : i <= f => florist[f] = "not_created"

DayInv == Inv /\ Books /\ InOrder

LEMMA HandedSeq ==
    ASSUME Types, Books, NEW f \in Florists
    PROVE  /\ delivered[f] \in Seq(Nat) /\ InHand(f) \in Seq(Nat) /\ queue_list[f] \in Seq(Nat)
           /\ Handed(f) \in Seq(Nat)
<1>1. delivered[f] \in Seq(Nat) /\ InHand(f) \in Seq(Nat) /\ queue_list[f] \in Seq(Nat)
  BY DEF Types, Books, InHand
<1>2. InHand(f) \o queue_list[f] \in Seq(Nat)
  BY <1>1, ConcatProperties
<1> QED
  BY <1>1, <1>2, ConcatProperties DEF Handed

LEMMA DayInit == Init => DayInv
<1> SUFFICES ASSUME Init PROVE Books /\ InOrder
  BY Initially DEF DayInv
<1>1. Books
  BY DEF Init, Books, Distances, Sells
<1>2. ASSUME NEW f \in Florists PROVE Handed(f) = <<>>
  <2>1. delivered[f] = <<>> /\ queue_list[f] = <<>> /\ InHand(f) = <<>>
    BY DEF Init, InHand
  <2> QED
    BY <2>1 DEF Handed
<1>3. Requested = {}
  BY DEF Init, Requested
<1> QED
  BY <1>1, <1>2, <1>3 DEF InOrder, Increasing, Elements

\* Nothing happens to the order while each florist's sequence, the requests and
\* the file stay.
LEMMA OrderKept ==
    ASSUME InOrder, distance' = distance, Requested' = Requested,
           \A f \in Florists : Handed(f)' = Handed(f)
    PROVE  InOrder'
<1>1. \A c : FindFlorist(c)' = FindFlorist(c)
  BY FindsTheSame
<1> QED
  BY <1>1 DEF InOrder

\* The supervisor hands out the next request: it goes to the end of one queue.
LEMMA RequestOrder ==
    ASSUME DayInv, Request
    PROVE  InOrder'
<1> DEFINE to == FindFlorist(i)
<1>1. /\ i \in Clients /\ i \in Nat /\ supervisor = "request" /\ supervisor' = "request" /\ i' = i + 1
      /\ distance' = distance /\ delivered' = delivered /\ client' = client
      /\ queue_list' = [queue_list EXCEPT ![to] = Append(@, i)]
  BY CountsAssumption DEF DayInv, Inv, Types, Books, Request, SupervisorGoto, Clients
<1>2. to \in Florists
  BY <1>1, FindsClosest DEF DayInv, Books
<1> HIDE DEF to
<1>3. \A c : FindFlorist(c)' = FindFlorist(c)
  BY <1>1, FindsTheSame
<1>4. Requested' = Requested \cup {i} /\ \A c \in Requested : c < i
  <2>1. Requested = 1..i - 1 /\ Requested' = 1..(i + 1) - 1 /\ i \in Nat /\ i # 0
    BY <1>1 DEF Requested, DayInv, Books
  <2>2. 1..(i + 1) - 1 = (1..i - 1) \cup {i}
    BY <2>1
  <2> QED
    BY <2>1, <2>2
<1>5. queue_list \in [Florists -> Seq(Nat)]
  BY DEF DayInv, Inv, Types
<1>6. ASSUME NEW f \in Florists
      PROVE  /\ Increasing(Handed(f)')
             /\ Elements(Handed(f)') = {c \in Requested' : FindFlorist(c)' = f}
  <2>1. /\ Increasing(Handed(f))
        /\ Elements(Handed(f)) = {c \in Requested : FindFlorist(c) = f}
    BY DEF DayInv, InOrder
  <2>2. InHand(f)' = InHand(f)
    BY <1>1 DEF InHand
  <2>3. CASE f = to
    <3>1. Handed(f)' = Append(Handed(f), i)
      <4>1. queue_list'[f] = Append(queue_list[f], i)
        BY <1>1, <1>5, <2>3
      <4> DEFINE d == delivered[f]
                 h == InHand(f)
                 q == queue_list[f]
      <4>2. d \in Seq(Nat) /\ h \in Seq(Nat) /\ q \in Seq(Nat) /\ <<i>> \in Seq(Nat)
        BY <1>1, HandedSeq DEF DayInv, Inv
      <4> HIDE DEF d, h, q
      <4>3. Append(q, i) = q \o <<i>>
        BY <1>1, <4>2, AppendIsConcat
      <4>4. h \o q \in Seq(Nat) /\ h \o (q \o <<i>>) = (h \o q) \o <<i>>
        BY <4>2, ConcatProperties, ConcatAssociative
      <4>5. d \o (h \o q) \in Seq(Nat) /\ d \o ((h \o q) \o <<i>>) = (d \o (h \o q)) \o <<i>>
        <5> DEFINE r == h \o q
        <5>1. r \in Seq(Nat)
          BY <4>4
        <5> HIDE DEF r
        <5>2. d \o r \in Seq(Nat)
          BY ONLY <4>2, <5>1, ConcatProperties
        <5>3. d \o (r \o <<i>>) = (d \o r) \o <<i>>
          BY ONLY <4>2, <5>1, ConcatAssociative
        <5> QED
          BY <5>2, <5>3 DEF r
      <4>6. (d \o (h \o q)) \o <<i>> = Append(d \o (h \o q), i)
        BY <1>1, <4>5, AppendIsConcat
      <4>7. Handed(f)' = d \o (h \o Append(q, i)) /\ Handed(f) = d \o (h \o q)
        BY <1>1, <2>2, <4>1 DEF Handed, d, h, q
      <4> QED
        BY <4>3, <4>4, <4>5, <4>6, <4>7
    <3>2. Handed(f) \in Seq(Nat)
      BY HandedSeq DEF DayInv, Inv
    <3>3. \A x \in Elements(Handed(f)) : x < i
      BY <1>4, <2>1
    <3>4. /\ Increasing(Append(Handed(f), i))
          /\ Elements(Append(Handed(f), i)) = Elements(Handed(f)) \cup {i}
      BY ONLY <1>1, <2>1, <3>2, <3>3, Appended
    <3>5. FindFlorist(i) = f
      BY <2>3 DEF to
    <3>6. {c \in Requested' : FindFlorist(c)' = f} = {c \in Requested : FindFlorist(c) = f} \cup {i}
      BY <1>3, <1>4, <3>5
    <3> QED
      BY <2>1, <3>1, <3>4, <3>6
  <2>4. CASE f # to
    <3>1. Handed(f)' = Handed(f)
      BY <1>1, <1>5, <2>2, <2>4 DEF Handed
    <3>2. FindFlorist(i) # f
      BY <2>4 DEF to
    <3>3. {c \in Requested' : FindFlorist(c)' = f} = {c \in Requested : FindFlorist(c) = f}
      BY <1>3, <1>4, <3>2
    <3> QED
      BY <2>1, <3>1, <3>3
  <2> QED
    BY <2>3, <2>4
<1> QED
  BY <1>6 DEF InOrder, Increasing, Elements

LEMMA SupervisorBooks ==
    ASSUME DayInv, Supervisor
    PROVE  Books' /\ InOrder'
<1> USE DEF DayInv, Books, SupervisorGoto, byMain, byFlorist
<1>0. i \in Nat /\ C \in Nat /\ C # 0
  BY CountsAssumption DEF Inv, Types
<1>1. distance' = distance /\ delivered' = delivered /\ client' = client
  BY DEF Supervisor, CreateFlorist, Request, Finish, Join, PrintStats
<1>2. Distances'
  BY <1>1 DEF Distances, Sells
<1>3. CASE Request
  <2>1. \A f \in Florists : florist'[f] = "deliver" <=> florist[f] = "deliver"
    BY <1>3 DEF Request, Woken
  <2>2. i' # 0 /\ i' <= C + 1
    BY <1>0, <1>3 DEF Request
  <2>3. Books'
    BY <1>1, <1>2, <1>3, <2>1, <2>2 DEF Request
  <2> QED
    BY <1>3, <2>3, RequestOrder
<1>4. CASE Supervisor /\ ~Request
  <2>1. queue_list' = queue_list
    BY <1>4 DEF Supervisor, CreateFlorist, Finish, Join, PrintStats
  <2>2. \A f \in Florists : Handed(f)' = Handed(f)
    BY <1>1, <2>1 DEF Handed, InHand
  <2>3. Requested' = Requested
    <3>1. CASE CreateFlorist
      BY <3>1 DEF CreateFlorist, Requested
    <3>2. CASE Finish \/ Join \/ PrintStats
      BY <3>2 DEF Finish, Join, PrintStats, Requested
    <3> QED
      BY <1>4, <3>1, <3>2 DEF Supervisor
  <2>4. InOrder'
    BY <1>1, <2>2, <2>3, OrderKept
  <2>5. \A f \in Florists : florist'[f] = "deliver" <=> florist[f] = "deliver"
    <3>1. CASE CreateFlorist
      <4>1. i \in Florists => florist[i] # "deliver"
        BY <1>0, <3>1 DEF CreateFlorist
      <4> QED
        BY <3>1, <4>1 DEF CreateFlorist, Inv, Types
    <3>2. CASE Finish
      BY <3>2 DEF Finish, Woken
    <3>3. CASE Join \/ PrintStats
      BY <3>3 DEF Join, PrintStats
    <3> QED
      BY <1>4, <3>1, <3>2, <3>3 DEF Supervisor
  <2>6. /\ supervisor' # "create" => i' <= C + 1
        /\ supervisor' \in {"join", "stats"} => i' = C + 1
        /\ i' # 0
        /\ supervisor' = "create" => \A f \in Florists : i' <= f => florist'[f] = "not_created"
    <3>1. CASE CreateFlorist
      <4>1. \A f \in Florists : i + 1 <= f => i <= f /\ i # f
        BY <1>0 DEF Florists
      <4> QED
        BY <1>0, <3>1, <4>1 DEF CreateFlorist, Inv, Types
    <3>2. CASE Finish
      BY <1>0, <3>2 DEF Finish
    <3>3. CASE Join \/ PrintStats
      BY <3>3 DEF Join, PrintStats
    <3> QED
      BY <1>4, <3>1, <3>2, <3>3 DEF Supervisor
  <2> QED
    BY <1>1, <1>2, <2>4, <2>5, <2>6
<1> QED
  BY <1>3, <1>4

\* A step of a florist moves a request within the florist's own sequence.
LEMMA FloristBooks ==
    ASSUME DayInv, NEW f \in Florists, Florist(f) \/ Spurious(f)
    PROVE  Books' /\ InOrder'
<1> USE DEF DayInv, Inv, Books, FloristGoto, byMain
<1>1. supervisor' = supervisor /\ i' = i /\ distance' = distance
  BY DEF Florist, Wait, Close, TakeOrder, Delivery, Spurious
<1>2. Distances' /\ Requested' = Requested
  BY <1>1 DEF Distances, Sells, Requested
<1>3. florist \in [Florists -> States] /\ queue_list \in [Florists -> Seq(Nat)]
  BY DEF Types
<1>4. florist[f] # "not_created" /\ \A g \in Florists : florist'[g] = "not_created" <=> florist[g] = "not_created"
  BY <1>3 DEF Florist, Wait, Close, TakeOrder, Delivery, Spurious
<1>5. supervisor' = "create" => \A g \in Florists : i' <= g => florist'[g] = "not_created"
  BY <1>1, <1>4
<1>6. CASE Wait(f) \/ Close(f) \/ Spurious(f)
  <2>1. queue_list' = queue_list /\ client' = client /\ delivered' = delivered
    BY <1>6 DEF Wait, Close, Spurious
  <2>2. \A g \in Florists : Handed(g)' = Handed(g)
    BY <2>1 DEF Handed, InHand
  <2>3. \A g \in Florists : florist'[g] = "deliver" <=> florist[g] = "deliver"
    BY <1>3, <1>6 DEF Wait, Close, Spurious
  <2> QED
    BY <1>1, <1>2, <1>5, <2>1, <2>2, <2>3, OrderKept
<1>7. CASE TakeOrder(f)
  <2> DEFINE q == queue_list[f]
  <2>1. q \in Seq(Nat) /\ q # <<>> /\ client[f] = 0
    BY <1>3, <1>7 DEF TakeOrder, Idle
  <2>2. /\ Handed(f) \in Seq(Nat)
        /\ Elements(Handed(f)) \subseteq Clients
    <3>1. Requested \subseteq Clients
      BY CountsAssumption DEF Requested, Clients, Types
    <3> QED
      BY <3>1, HandedSeq DEF InOrder
  <2>3. Head(q) \in Nat /\ Head(q) # 0 /\ Tail(q) \in Seq(Nat) /\ <<Head(q)>> \o Tail(q) = q
    <3>1. Head(q) \in Nat /\ Tail(q) \in Seq(Nat) /\ q = <<Head(q)>> \o Tail(q)
      BY <2>1
    <3>2. delivered[f] \in Seq(Nat) /\ Handed(f) = delivered[f] \o q
      BY <2>1, HandedSeq, ConcatEmptySeq DEF Handed, InHand
    <3>3. Len(q) >= 1 /\ Head(q) = q[1] /\ Len(q) \in Nat
      BY <2>1
    <3>4. Head(q) \in Elements(Handed(f))
      <4>1. /\ Len(Handed(f)) = Len(delivered[f]) + Len(q) /\ Len(delivered[f]) \in Nat
            /\ Handed(f)[Len(delivered[f]) + 1] = q[1]
        <5>1. 1 \in 1..Len(q) /\ Len(delivered[f]) \in Nat
          BY <3>2, <3>3, LenProperties
        <5> HIDE DEF q
        <5> QED
          BY <2>1, <3>2, <3>3, <5>1, ConcatProperties
      <4>2. Len(delivered[f]) + 1 \in 1..Len(Handed(f))
        BY <3>3, <4>1
      <4> QED
        BY <3>3, <4>1, <4>2 DEF Elements
    <3>5. Head(q) \in Clients
      BY <2>2, <3>4
    <3> QED
      BY <3>1, <3>5 DEF Clients
  <2>4. /\ client' = [client EXCEPT ![f] = Head(q)]
        /\ queue_list' = [queue_list EXCEPT ![f] = Tail(q)]
        /\ delivered' = delivered /\ florist' = [florist EXCEPT ![f] = "deliver"]
    BY <1>7 DEF TakeOrder
  <2> HIDE DEF q
  <2>5. ASSUME NEW g \in Florists PROVE Handed(g)' = Handed(g)
    <3>1. CASE g = f
      <4>1. InHand(f) = <<>> /\ <<>> \o q = q
        BY <2>1 DEF InHand
      <4>2. InHand(f)' = <<Head(q)>> /\ queue_list'[f] = Tail(q)
        BY <1>3, <2>3, <2>4 DEF InHand
      <4> QED
        BY <2>3, <2>4, <3>1, <4>1, <4>2 DEF Handed, q
    <3>2. CASE g # f
      BY <1>3, <2>4, <3>2 DEF Handed, InHand
    <3> QED
      BY <3>1, <3>2
  <2>6. client' \in [Florists -> Nat] /\ \A g \in Florists : client'[g] # 0 <=> florist'[g] = "deliver"
    BY <1>3, <2>3, <2>4
  <2> QED
    BY <1>1, <1>2, <1>5, <2>4, <2>5, <2>6, OrderKept
<1>8. CASE Delivery(f)
  <2> DEFINE d == delivered[f]
             q == queue_list[f]
             c == client[f]
  <2>1. d \in Seq(Nat) /\ q \in Seq(Nat) /\ c \in Nat /\ c # 0
    BY <1>3, <1>8 DEF Delivery
  <2>2. /\ client' = [client EXCEPT ![f] = 0] /\ queue_list' = queue_list
        /\ delivered' = [delivered EXCEPT ![f] = Append(d, c)]
        /\ florist' = [florist EXCEPT ![f] = "lock"]
    BY <1>8 DEF Delivery
  <2>3. Append(d, c) \in Seq(Nat) /\ Append(d, c) \o (<<>> \o q) = d \o (<<c>> \o q)
    <3> HIDE DEF c, d, q
    <3>1. <<c>> \in Seq(Nat)
      BY <2>1
    <3>2. Append(d, c) \in Seq(Nat) /\ Append(d, c) = d \o <<c>>
      BY <2>1, AppendProperties, AppendIsConcat
    <3>3. <<>> \o q = q
      BY ONLY <2>1, ConcatEmptySeq
    <3>4. (d \o <<c>>) \o q = d \o (<<c>> \o q)
      BY ONLY <2>1, <3>1, ConcatAssociative
    <3> QED
      BY <3>2, <3>3, <3>4
  <2>4. ASSUME NEW g \in Florists PROVE Handed(g)' = Handed(g)
    <3>1. CASE g = f
      <4>1. InHand(f) = <<c>>
        BY <2>1 DEF InHand
      <4>2. InHand(f)' = <<>> /\ delivered'[f] = Append(d, c)
        BY <2>2 DEF InHand
      <4> QED
        BY <2>2, <2>3, <3>1, <4>1, <4>2 DEF Handed
    <3>2. CASE g # f
      BY <2>2, <3>2 DEF Handed, InHand
    <3> QED
      BY <3>1, <3>2
  <2>5. /\ client' \in [Florists -> Nat] /\ delivered' \in [Florists -> Seq(Nat)]
        /\ \A g \in Florists : client'[g] # 0 <=> florist'[g] = "deliver"
    BY <1>3, <2>2, <2>3
  <2> QED
    BY <1>1, <1>2, <1>5, <2>4, <2>5, OrderKept
<1> QED
  BY <1>6, <1>7, <1>8 DEF Florist

LEMMA DayStep == DayInv /\ [Next]_vars => DayInv'
<1> SUFFICES ASSUME DayInv, [Next]_vars PROVE Books' /\ InOrder'
  BY Preserved DEF DayInv
<1>1. CASE Supervisor
  BY <1>1, SupervisorBooks
<1>2. CASE \E f \in Florists : Florist(f) \/ Spurious(f)
  BY <1>2, FloristBooks
<1>3. CASE UNCHANGED <<byMain, queue_list, byFlorist>>
  <2>1. Books'
    BY <1>3 DEF DayInv, Books, Distances, Sells, byMain, byFlorist
  <2>2. distance' = distance /\ Requested' = Requested /\ \A f \in Florists : Handed(f)' = Handed(f)
    BY <1>3 DEF byMain, byFlorist, Requested, Handed, InHand
  <2> QED
    BY <2>1, <2>2, OrderKept DEF DayInv
<1>4. CASE Sigint \/ SigintInHeap \/ SigExit \/ FreeTwice \/ \E f \in Florists : UseFreed(f)
  BY <1>3, <1>4 DEF Sigint, SigintInHeap, SigExit, FreeTwice, UseFreed
<1> QED
  BY <1>1, <1>2, <1>3, <1>4 DEF Next, vars

LEMMA DayHolds == Spec => []DayInv
  BY DayInit, DayStep, PTL DEF Spec

\* However the florists and the supervisor are scheduled, a florist's orders are
\* the requests it is the closest seller for, each once and in their order.
THEOREM OrdersKept == Spec => []InOrder
<1>1. DayInv => InOrder
  BY DEF DayInv
<1> QED
  BY <1>1, DayHolds, PTL

\* Only requests are in a florist's sequence, so its deliveries are its own.
LEMMA DeliveredOwn ==
    ASSUME DayInv, NEW f \in Florists, NEW c \in Elements(delivered[f])
    PROVE  c \in Clients /\ FindFlorist(c) = f
<1>1. delivered[f] \in Seq(Nat) /\ InHand(f) \o queue_list[f] \in Seq(Nat)
  BY HandedSeq, ConcatProperties DEF DayInv, Inv
<1> DEFINE d == delivered[f]
           r == InHand(f) \o queue_list[f]
<1>2. PICK k \in 1..Len(d) : d[k] = c
  BY DEF Elements
<1>3. Len(d) \in Nat /\ Len(r) \in Nat
  BY <1>1
<1>4. Handed(f) = d \o r
  BY DEF Handed
<1> HIDE DEF d, r
<1>5. d \in Seq(Nat) /\ r \in Seq(Nat)
  BY <1>1 DEF d, r
<1>6. k \in 1..Len(Handed(f)) /\ Handed(f)[k] = c
  BY <1>2, <1>3, <1>4, <1>5, ConcatProperties
<1>7. c \in Requested /\ FindFlorist(c) = f
  BY <1>6 DEF DayInv, InOrder, Elements
<1> QED
  BY <1>7, CountsAssumption DEF DayInv, Inv, Types, Books, Requested, Clients

\* Who delivers sells the flower, and nobody who sells it is closer.
THEOREM DeliveredByClosest == Spec => []ClosestDelivers
<1>1. DayInv => ClosestDelivers
  BY DeliveredOwn, FindsClosest DEF DayInv, Books, ClosestDelivers
<1> QED
  BY <1>1, DayHolds, PTL

\* When the statistics are printed every request was delivered, by one florist
\* and once, and all florists have left.
THEOREM EverythingDelivered == Spec => []StatsComplete
<1>1. DayInv => StatsComplete
  <2> SUFFICES ASSUME DayInv, supervisor = "stats"
               PROVE  AllClosed /\ \A c \in Clients : \E f \in Florists : c \in Elements(delivered[f])
    BY DEF StatsComplete
  <2>1. AllClosed /\ i = C + 1
    BY DEF DayInv, Inv, Closing, Books
  <2>2. ASSUME NEW c \in Clients PROVE \E f \in Florists : c \in Elements(delivered[f])
    <3>1. PICK f \in Florists : f = FindFlorist(c)
      BY FindsClosest DEF DayInv, Books
    <3>2. c \in Elements(Handed(f))
      BY <2>1, <3>1, CountsAssumption DEF DayInv, InOrder, Requested, Clients
    <3>3. Handed(f) = delivered[f]
      <4>1. florist[f] = "closed" /\ queue_list[f] = <<>> /\ client[f] = 0
        BY <2>1 DEF AllClosed, DayInv, Inv, Closing, Books, Idle
      <4>2. delivered[f] \in Seq(Nat) /\ <<>> \o <<>> = <<>>
        BY DEF DayInv, Books
      <4> QED
        BY <4>1, <4>2, ConcatEmptySeq DEF Handed, InHand
    <3> QED
      BY <3>2, <3>3
  <2> QED
    BY <2>1, <2>2
<1> QED
  BY <1>1, DayHolds, PTL
=============================================================================
