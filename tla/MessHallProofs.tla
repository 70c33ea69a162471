--------------------------- MODULE MessHallProofs ---------------------------
(***************************************************************************)
(* The tokens and the plates of the mess hall, for any number of cooks,    *)
(* students, rounds and places on the counter; and the deliveries of the   *)
(* other kitchen, Gullac.                                                  *)
(***************************************************************************)
EXTENDS MessHall, Gullac, FiniteSetTheorems, TLAPS

\* The types the counting depends on.
Types ==
    /\ carried \in Foods
    /\ supply \in [Foods -> Int]
    /\ k_room \in [Foods -> Int] /\ k_full \in [Foods -> Int]
    /\ k_empty \in Nat /\ k_peek \in Int
    /\ c_room \in [Foods -> Int] /\ c_empty \in [Foods -> Nat] /\ c_full \in [Foods -> Nat]
    /\ c_peek \in Nat
    /\ s_empty \in Nat /\ s_full \in [BOOLEAN -> Nat] /\ s_peek \in Int
    /\ cook \in [Cooks -> CookLabels] /\ food \in [Cooks -> Foods]
    /\ student \in [Students -> StudentLabels]
    /\ served \in Int

LEMMA FoodsAre == Foods = {0, 1, 2}
  BY DEF Foods, FOOD_KIND

LEMMA Sizes ==
    /\ Deliver \in Nat /\ K \in Nat
    /\ \A f \in Foods : Share(f) \in Nat /\ Share(f) >= 1
    /\ Share(0) + Share(1) + Share(2) = S
<1>1. Cardinality(Students) \in Nat
  BY StudentsAssumption, FS_Union, FS_CardinalityType DEF Students
<1>2. Deliver \in Nat
  BY <1>1, SizesAssumption DEF Deliver
<1>3. K \in Nat
  BY <1>2 DEF K
<1> DEFINE q == S \div 3
           r == S % 3
<1>4. q \in Nat /\ q >= 1 /\ r \in Nat /\ r < 3
  BY SizesAssumption, Z3
<1>5. r = S - 3 * q
  BY SizesAssumption, Z3
<1>6. /\ Share(0) = q + (IF 0 < r THEN 1 ELSE 0)
      /\ Share(1) = q + (IF 1 < r THEN 1 ELSE 0)
      /\ Share(2) = q + (IF 2 < r THEN 1 ELSE 0)
  BY Zenon DEF Share, FOOD_KIND
<1> HIDE DEF q, r
<1>7. S \in Nat
  BY SizesAssumption
<1>8. CASE r = 0
  <2>1. Share(0) = q /\ Share(1) = q /\ Share(2) = q
    BY <1>4, <1>6, <1>8
  <2> QED
    BY <1>2, <1>3, <1>4, <1>5, <1>7, <1>8, <2>1, FoodsAre
<1>9. CASE r = 1
  <2>1. Share(0) = q + 1 /\ Share(1) = q /\ Share(2) = q
    BY <1>4, <1>6, <1>9
  <2> QED
    BY <1>2, <1>3, <1>4, <1>5, <1>7, <1>9, <2>1, FoodsAre
<1>10. CASE r = 2
  <2>1. Share(0) = q + 1 /\ Share(1) = q + 1 /\ Share(2) = q
    BY <1>4, <1>6, <1>10
  <2> QED
    BY <1>2, <1>3, <1>4, <1>5, <1>7, <1>10, <2>1, FoodsAre
<1> QED
  BY <1>4, <1>8, <1>9, <1>10

LEMMA InitTypes == Init => Types
BY Sizes, FoodsAre DEF Init, Types, FOOD_KIND, CookLabels, StudentLabels

LEMMA TypesStep == Types /\ [Next]_vars => Types'
<1> SUFFICES ASSUME Types, [Next]_vars PROVE Types'
  OBVIOUS
<1> USE DEF Types, kitchen, counter, line, bySupplier, byCooks, byStudents, bySupervisor,
            restOfSupplier, restOfCooks, restOfStudents, restOfSupervisor, Post, Take
<1>1. CASE SupplierGo
  BY <1>1 DEF SupplierGo
<1>2. CASE SupplierPut
  BY <1>2, FoodsAre DEF SupplierPut
<1>3. ASSUME NEW c \in Cooks, Cook(c) PROVE Types'
  <2> USE DEF CookGoto, CookLabels, GoHome
  <2>0. NextFood \in Foods /\ 0 \in Foods
    BY FoodsAre DEF NextFood, FOOD_KIND
  <2>1. CASE CheckFinished(c)
    BY <2>1 DEF CheckFinished
  <2>2. CASE GoOn(c)
    BY <2>2 DEF GoOn
  <2>3. CASE Choose(c)
    BY <2>0, <2>3, FoodsAre DEF Choose
  <2>4. CASE ChooseNone(c)
    BY <2>0, <2>4, FoodsAre DEF ChooseNone
  <2>5. CASE WaitKitchen(c)
    BY <2>5 DEF WaitKitchen
  <2>6. CASE TakeSupply(c)
    BY <2>6 DEF TakeSupply
  <2>7. CASE GiveBack(c)
    BY <2>0, <2>7 DEF GiveBack
  <2>8. CASE PutCounter(c)
    BY <2>0, <2>8 DEF PutCounter
  <2> QED
    BY <1>3, <2>1, <2>2, <2>3, <2>4, <2>5, <2>6, <2>7, <2>8 DEF Cook
<1>4. ASSUME NEW s \in Students, Student(s) PROVE Types'
  <2> USE DEF StudentGoto, StudentLabels
  <2>1. CASE Arrive(s)
    BY <2>1 DEF Arrive, IsGraduate
  <2>2. CASE JoinLine(s)
    BY <2>2 DEF JoinLine
  <2>3. CASE Granted(s)
    <3>0. IsGraduate(s) \in BOOLEAN
      BY DEF IsGraduate
    <3>1. PICK g \in BOOLEAN : s_full[g] > 0 /\ s_full' = [s_full EXCEPT ![g] = s_full[g] - 1]
      BY <2>3, <3>0, Zenon DEF Granted
    <3>2. s_full' \in [BOOLEAN -> Nat]
      <4> DEFINE tokens == s_full[g]
      <4>1. tokens \in Nat /\ tokens > 0
        BY <3>1, Zenon
      <4> HIDE DEF tokens
      <4>2. tokens - 1 \in Nat
        BY <4>1
      <4> QED
        BY <3>1, <4>2, Zenon DEF tokens
    <3> QED
      BY <2>3, <3>2 DEF Granted
  <2>4. CASE TakeSet(s)
    BY <2>4 DEF TakeSet, NextRound
  <2> QED
    BY <1>4, <2>1, <2>2, <2>3, <2>4 DEF Student
<1>5. CASE Supervisor
  <2> USE DEF SupervisorGoto
  <2>1. CASE AwaitFood
    BY <2>1 DEF AwaitFood
  <2>2. CASE AwaitStudent
    BY <2>2 DEF AwaitStudent
  <2>3. CASE PickUndergraduate
    BY <2>3 DEF PickUndergraduate
  <2>4. CASE PickGraduate
    BY <2>4 DEF PickGraduate
  <2>5. ASSUME NEW graduate \in BOOLEAN, Grant(graduate) PROVE Types'
    BY <2>5 DEF Grant
  <2> QED
    BY <1>5, <2>1, <2>2, <2>3, <2>4, <2>5 DEF Supervisor
<1>6. CASE UNCHANGED vars
  BY <1>6 DEF vars
<1> QED
  BY <1>1, <1>2, <1>3, <1>4, <1>5, <1>6 DEF Next, Supplier, AllDone

-----------------------------------------------------------------------------
(* Counting. *)

One(b) == IF b THEN 1 ELSE 0

\* Two sets that agree but for one element.
LEMMA Recount ==
    ASSUME NEW A, IsFiniteSet(A), NEW P \in SUBSET A, NEW Q \in SUBSET A, NEW x,
           P \ {x} = Q \ {x}
    PROVE  /\ Cardinality(P) \in Nat /\ Cardinality(Q) \in Nat
           /\ Cardinality(Q) = Cardinality(P) - One(x \in P) + One(x \in Q)
<1>1. ASSUME NEW B \in SUBSET A
      PROVE  /\ Cardinality(B) \in Nat /\ Cardinality(B \ {x}) \in Nat
             /\ Cardinality(B) = Cardinality(B \ {x}) + One(x \in B)
  <2>1. IsFiniteSet(B) /\ IsFiniteSet(B \ {x})
    BY FS_Subset
  <2>2. Cardinality(B) \in Nat /\ Cardinality(B \ {x}) \in Nat
    BY <2>1, FS_CardinalityType
  <2>3. CASE x \in B
    BY <2>1, <2>2, <2>3, FS_RemoveElement DEF One
  <2>4. CASE x \notin B
    <3>1. B \ {x} = B
      BY <2>4
    <3> QED
      BY <2>2, <2>4, <3>1 DEF One
  <2> QED
    BY <2>2, <2>3, <2>4
<1> DEFINE rest == Cardinality(P \ {x})
<1>2. /\ Cardinality(P) = rest + One(x \in P)
      /\ Cardinality(Q) = rest + One(x \in Q)
      /\ rest \in Nat /\ Cardinality(P) \in Nat /\ Cardinality(Q) \in Nat
  BY <1>1
<1> HIDE DEF rest
<1>3. One(x \in P) \in Int /\ One(x \in Q) \in Int
  BY DEF One
<1> QED
  BY <1>2, <1>3

LEMMA CountsAreNat ==
    /\ CooksHome \in Nat
    /\ \A f : \A labels : CooksAt(f, labels) \in Nat
    /\ \A group \in SUBSET Students : \A labels : StudentsAt(group, labels) \in Nat
<1>1. IsFiniteSet(Students)
  BY StudentsAssumption, FS_Union DEF Students
<1>2. \A P \in SUBSET Cooks : Cardinality(P) \in Nat
  BY CooksAssumption, FS_Subset, FS_CardinalityType
<1>3. \A P \in SUBSET Students : Cardinality(P) \in Nat
  BY <1>1, FS_Subset, FS_CardinalityType
<1> QED
  BY <1>2, <1>3 DEF CooksHome, CooksAt, StudentsAt

\* A cook goes on from one label to another, with another kind of food.
CookTurns(c, from, to, g) ==
    /\ CookGoto(c, from, to)
    /\ food' = [food EXCEPT ![c] = g]

LEMMA CookMoves ==
    ASSUME Types, NEW c \in Cooks, NEW from, NEW to \in CookLabels, NEW g \in Foods,
           CookTurns(c, from, to, g)
    PROVE  /\ CooksHome' = CooksHome - One(from = "home") + One(to = "home")
           /\ \A f, labels :
                 CooksAt(f, labels)' = CooksAt(f, labels)
                     - One(from \in labels /\ food[c] = f) + One(to \in labels /\ g = f)
<1>0. /\ cook[c] = from /\ cook' = [cook EXCEPT ![c] = to]
      /\ food' = [food EXCEPT ![c] = g]
  BY DEF CookTurns, CookGoto
<1>1. CooksHome' = CooksHome - One(from = "home") + One(to = "home")
  <2> DEFINE P == {d \in Cooks : cook[d] = "home"}
             Q == {d \in Cooks : cook'[d] = "home"}
  <2>1. /\ P \in SUBSET Cooks /\ Q \in SUBSET Cooks /\ P \ {c} = Q \ {c}
        /\ (c \in P) = (from = "home") /\ (c \in Q) = (to = "home")
    BY <1>0 DEF Types
  <2>2. Cardinality(Q) = Cardinality(P) - One(c \in P) + One(c \in Q)
    BY <2>1, Recount, CooksAssumption
  <2> QED
    BY <2>1, <2>2 DEF CooksHome
<1>2. ASSUME NEW CONSTANT f, NEW CONSTANT labels
      PROVE  CooksAt(f, labels)' = CooksAt(f, labels)
                 - One(from \in labels /\ food[c] = f) + One(to \in labels /\ g = f)
  <2> DEFINE P == {d \in Cooks : cook[d] \in labels /\ food[d] = f}
             Q == {d \in Cooks : cook'[d] \in labels /\ food'[d] = f}
  <2>1. /\ P \in SUBSET Cooks /\ Q \in SUBSET Cooks /\ P \ {c} = Q \ {c}
        /\ (c \in P) = (from \in labels /\ food[c] = f)
        /\ (c \in Q) = (to \in labels /\ g = f)
    BY <1>0 DEF Types
  <2>2. Cardinality(Q) = Cardinality(P) - One(c \in P) + One(c \in Q)
    BY <2>1, Recount, CooksAssumption
  <2> QED
    BY <2>1, <2>2 DEF CooksAt
<1> QED
  BY <1>1, <1>2

LEMMA StudentMoves ==
    ASSUME Types, NEW s \in Students, NEW from, NEW to \in StudentLabels,
           StudentGoto(s, from, to)
    PROVE  \A group \in SUBSET Students : \A labels :
               StudentsAt(group, labels)' = StudentsAt(group, labels)
                   - One(s \in group /\ from \in labels) + One(s \in group /\ to \in labels)
<1> SUFFICES ASSUME NEW CONSTANT group \in SUBSET Students, NEW CONSTANT labels
             PROVE  StudentsAt(group, labels)' = StudentsAt(group, labels)
                   - One(s \in group /\ from \in labels) + One(s \in group /\ to \in labels)
  OBVIOUS
<1> DEFINE P == {t \in group : student[t] \in labels}
           Q == {t \in group : student'[t] \in labels}
<1>1. /\ P \in SUBSET Students /\ Q \in SUBSET Students /\ P \ {s} = Q \ {s}
      /\ (s \in P) = (s \in group /\ from \in labels)
      /\ (s \in Q) = (s \in group /\ to \in labels)
  BY DEF Types, StudentGoto
<1>2. IsFiniteSet(Students)
  BY StudentsAssumption, FS_Union DEF Students
<1>3. Cardinality(Q) = Cardinality(P) - One(s \in P) + One(s \in Q)
  BY <1>1, <1>2, Recount
<1> QED
  BY <1>1, <1>3 DEF StudentsAt

-----------------------------------------------------------------------------
(* The kitchen. *)

\* What the steps of a cook c from one label to another change.
LEMMA CookMoved ==
    ASSUME Types, NEW c \in Cooks, NEW from, NEW to \in CookLabels,
           CookGoto(c, from, to), food' = food
    PROVE  /\ CooksHome' = CooksHome - One(from = "home") + One(to = "home")
           /\ \A f, labels :
                 CooksAt(f, labels)' = CooksAt(f, labels)
                     - One(from \in labels /\ food[c] = f) + One(to \in labels /\ food[c] = f)
<1>1. CookTurns(c, from, to, food[c]) /\ food[c] \in Foods
  BY DEF CookTurns, Types
<1> QED
  BY <1>1, CookMoves

LEMMA KitchenCook ==
    ASSUME Types, KitchenTokens, NEW c \in Cooks, Cook(c) PROVE KitchenTokens'
<1>1. /\ CooksHome \in Int
      /\ \A f, labels : CooksAt(f, labels) \in Int
      /\ food[c] \in Foods
  BY CountsAreNat DEF Types
<1>2. supplier' = supplier
  BY DEF Cook, CheckFinished, GoOn, Choose, ChooseNone, WaitKitchen, TakeSupply, GiveBack,
         PutCounter, restOfCooks, bySupplier
<1> USE FoodsAre, Sizes, <1>1, <1>2 DEF KitchenTokens, KitchenFree, Types, One, Post, Take, kitchen
<1>3. CASE CheckFinished(c) \/ ChooseNone(c)
  <2>1. \E from \in {"check", "choose"} : CookGoto(c, from, "home")
    BY <1>3 DEF CheckFinished, ChooseNone, GoHome
  <2>2. /\ food' = food /\ UNCHANGED <<k_room, k_empty>>
        /\ k_full' = [f \in Foods |-> k_full[f] + 1]
    BY <1>3 DEF CheckFinished, ChooseNone, GoHome
  <2>3. /\ CooksHome' = CooksHome + 1
        /\ \A f : CooksAt(f, {"kitchen"})' = CooksAt(f, {"kitchen"})
    BY <2>1, <2>2, CookMoved DEF CookLabels
  <2> QED
    BY <2>2, <2>3
<1>4. CASE GoOn(c)
  <2>1. CookGoto(c, "check", "choose") /\ food' = food /\ UNCHANGED kitchen
    BY <1>4 DEF GoOn
  <2>2. /\ CooksHome' = CooksHome
        /\ \A f : CooksAt(f, {"kitchen"})' = CooksAt(f, {"kitchen"})
    BY <2>1, CookMoved DEF CookLabels
  <2> QED
    BY <2>1, <2>2
<1>5. CASE Choose(c)
  <2>1. CookTurns(c, "choose", "wait_kitchen", NextFood) /\ NextFood \in Foods
        /\ UNCHANGED kitchen
    BY <1>5 DEF Choose, CookTurns, NextFood, FOOD_KIND
  <2>2. /\ CooksHome' = CooksHome
        /\ \A f : CooksAt(f, {"kitchen"})' = CooksAt(f, {"kitchen"})
    BY <2>1, CookMoves DEF CookLabels
  <2> QED
    BY <2>1, <2>2
<1>6. CASE WaitKitchen(c)
  <2>1. /\ CookGoto(c, "wait_kitchen", "kitchen") /\ food' = food
        /\ UNCHANGED <<k_room, k_empty>>
        /\ k_full' = [k_full EXCEPT ![food[c]] = @ - 1]
    BY <1>6 DEF WaitKitchen
  <2>2. /\ CooksHome' = CooksHome
        /\ \A f : CooksAt(f, {"kitchen"})' = CooksAt(f, {"kitchen"}) + One(food[c] = f)
    BY <2>1, CookMoved DEF CookLabels
  <2> QED
    BY <2>1, <2>2
<1>7. CASE TakeSupply(c)
  <2>1. /\ CookGoto(c, "kitchen", "counter") /\ food' = food
        /\ UNCHANGED k_full
        /\ k_room' = [k_room EXCEPT ![food[c]] = @ - 1]
        /\ k_empty' = k_empty + 1
    BY <1>7 DEF TakeSupply
  <2>2. /\ CooksHome' = CooksHome
        /\ \A f : CooksAt(f, {"kitchen"})' = CooksAt(f, {"kitchen"}) - One(food[c] = f)
    BY <2>1, CookMoved DEF CookLabels
  <2> QED
    BY <2>1, <2>2
<1>8. CASE GiveBack(c)
  <2>1. /\ CookTurns(c, "kitchen", "check", 0)
        /\ UNCHANGED <<k_room, k_empty>>
        /\ k_full' = [k_full EXCEPT ![food[c]] = @ + 1]
    BY <1>8 DEF GiveBack, CookTurns
  <2>2. /\ CooksHome' = CooksHome
        /\ \A f : CooksAt(f, {"kitchen"})' = CooksAt(f, {"kitchen"}) - One(food[c] = f)
    BY <2>1, CookMoves DEF CookLabels
  <2> QED
    BY <2>1, <2>2
<1>9. CASE PutCounter(c)
  <2>1. /\ CookTurns(c, "counter", "check", 0)
        /\ UNCHANGED kitchen
    BY <1>9 DEF PutCounter, CookTurns
  <2>2. /\ CooksHome' = CooksHome
        /\ \A f : CooksAt(f, {"kitchen"})' = CooksAt(f, {"kitchen"})
    BY <2>1, CookMoves DEF CookLabels
  <2> QED
    BY <2>1, <2>2
<1> QED
  BY <1>3, <1>4, <1>5, <1>6, <1>7, <1>8, <1>9 DEF Cook

LEMMA KitchenStep == Types /\ KitchenTokens /\ [Next]_vars => KitchenTokens'
<1> SUFFICES ASSUME Types, KitchenTokens, [Next]_vars PROVE KitchenTokens'
  OBVIOUS
<1>1. CASE Supplier
  <2>1. CooksHome' = CooksHome /\ \A f : CooksAt(f, {"kitchen"})' = CooksAt(f, {"kitchen"})
    BY <1>1 DEF Supplier, SupplierGo, SupplierPut, restOfSupplier, byCooks, CooksHome, CooksAt
  <2> USE CountsAreNat, FoodsAre, Sizes DEF KitchenTokens, KitchenFree, Types, Post, Take
  <2>2. CASE SupplierGo
    BY <2>1, <2>2 DEF SupplierGo
  <2>3. CASE SupplierPut
    BY <2>1, <2>3 DEF SupplierPut
  <2> QED
    BY <1>1, <2>2, <2>3 DEF Supplier
<1>2. ASSUME Supervisor \/ (\E s \in Students : Student(s)) \/ UNCHANGED vars
      PROVE  KitchenTokens'
  <2>1. UNCHANGED <<k_room, k_empty, k_full, supplier, cook, food>>
    BY <1>2 DEF Supervisor, AwaitFood, AwaitStudent, PickUndergraduate, PickGraduate, Grant,
           Student, Arrive, JoinLine, Granted, TakeSet, restOfStudents, restOfSupervisor,
           vars, kitchen, bySupplier, byCooks
  <2> QED
    BY <2>1 DEF KitchenTokens, KitchenFree, CooksHome, CooksAt
<1> QED
  BY <1>1, <1>2, KitchenCook DEF Next, AllDone

-----------------------------------------------------------------------------
(* The counter. *)

GraduatesLetIn == s_full[TRUE]
OthersLetIn == s_full[FALSE]

LEMMA Permits ==
    Types => /\ GraduatesLetIn \in Nat /\ OthersLetIn \in Nat
             /\ Outstanding = GraduatesLetIn + OthersLetIn + StudentsAt(Students, {"at_counter"})
  BY Zenon DEF Types, GraduatesLetIn, OthersLetIn, Outstanding

LEMMA PermitsThen ==
    Outstanding' = GraduatesLetIn' + OthersLetIn' + StudentsAt(Students, {"at_counter"})'
  BY Zenon DEF GraduatesLetIn, OthersLetIn, Outstanding

LEMMA PermitMoves ==
    ASSUME Types, NEW g \in BOOLEAN, NEW v, s_full' = [s_full EXCEPT ![g] = v]
    PROVE  /\ g => GraduatesLetIn' = v /\ OthersLetIn' = OthersLetIn
           /\ ~g => OthersLetIn' = v /\ GraduatesLetIn' = GraduatesLetIn
<1>1. s_full \in [BOOLEAN -> Nat]
  BY DEF Types
<1>2. CASE g = TRUE
  <2>1. s_full'[TRUE] = v /\ s_full'[FALSE] = s_full[FALSE]
    BY <1>1, <1>2, Zenon
  <2> QED
    BY <1>2, <2>1, Zenon DEF GraduatesLetIn, OthersLetIn
<1>3. CASE g = FALSE
  <2>1. s_full'[FALSE] = v /\ s_full'[TRUE] = s_full[TRUE]
    BY <1>1, <1>3, Zenon
  <2> QED
    BY <1>3, <2>1, Zenon DEF GraduatesLetIn, OthersLetIn
<1> QED
  BY <1>2, <1>3

LEMMA CounterThen ==
    CounterTokens' <=> \A f \in Foods : /\ Share(f) = c_room'[f] + c_empty'[f]
                                        /\ c_room'[f] = c_full'[f] + Outstanding' + Granting'
  BY DEF CounterTokens, Share

\* What Granted and Grant do to the permits.
LEMMA GrantedMoves ==
    ASSUME Types, NEW s \in Students, Granted(s)
    PROVE  /\ IsGraduate(s) =>
                 /\ GraduatesLetIn > 0 /\ GraduatesLetIn' = GraduatesLetIn - 1
                 /\ OthersLetIn' = OthersLetIn
           /\ ~IsGraduate(s) =>
                 /\ OthersLetIn > 0 /\ OthersLetIn' = OthersLetIn - 1
                 /\ GraduatesLetIn' = GraduatesLetIn
<1>1. IsGraduate(s) \in BOOLEAN
  BY DEF IsGraduate
<1>2. /\ s_full[IsGraduate(s)] > 0
      /\ s_full' = [s_full EXCEPT ![IsGraduate(s)] = s_full[IsGraduate(s)] - 1]
  BY Zenon DEF Granted, Take
<1>3. CASE IsGraduate(s) = TRUE
  <2>1. s_full[TRUE] > 0 /\ s_full' = [s_full EXCEPT ![TRUE] = s_full[TRUE] - 1]
    BY <1>2, <1>3, Zenon
  <2>2. GraduatesLetIn' = s_full[TRUE] - 1 /\ OthersLetIn' = OthersLetIn
    BY <2>1, PermitMoves, Zenon
  <2> QED
    BY <1>3, <2>1, <2>2, Zenon DEF GraduatesLetIn
<1>4. CASE IsGraduate(s) = FALSE
  <2>1. s_full[FALSE] > 0 /\ s_full' = [s_full EXCEPT ![FALSE] = s_full[FALSE] - 1]
    BY <1>2, <1>4, Zenon
  <2>2. OthersLetIn' = s_full[FALSE] - 1 /\ GraduatesLetIn' = GraduatesLetIn
    BY <2>1, PermitMoves, Zenon
  <2> QED
    BY <1>4, <2>1, <2>2, Zenon DEF OthersLetIn
<1> QED
  BY <1>1, <1>3, <1>4

LEMMA GrantMoves ==
    ASSUME Types, NEW graduate \in BOOLEAN, Grant(graduate)
    PROVE  /\ graduate => GraduatesLetIn' = GraduatesLetIn + 1 /\ OthersLetIn' = OthersLetIn
           /\ ~graduate => OthersLetIn' = OthersLetIn + 1 /\ GraduatesLetIn' = GraduatesLetIn
<1>1. s_full' = [s_full EXCEPT ![graduate] = s_full[graduate] + 1]
  BY Zenon DEF Grant, Post
<1>2. CASE graduate = TRUE
  <2>1. s_full' = [s_full EXCEPT ![TRUE] = s_full[TRUE] + 1]
    BY <1>1, <1>2, Zenon
  <2>2. GraduatesLetIn' = s_full[TRUE] + 1 /\ OthersLetIn' = OthersLetIn
    BY <2>1, PermitMoves, Zenon
  <2> QED
    BY <1>2, <2>2, Zenon DEF GraduatesLetIn
<1>3. CASE graduate = FALSE
  <2>1. s_full' = [s_full EXCEPT ![FALSE] = s_full[FALSE] + 1]
    BY <1>1, <1>3, Zenon
  <2>2. OthersLetIn' = s_full[FALSE] + 1 /\ GraduatesLetIn' = GraduatesLetIn
    BY <2>1, PermitMoves, Zenon
  <2> QED
    BY <1>3, <2>2, Zenon DEF OthersLetIn
<1> QED
  BY <1>2, <1>3

\* What every step changes of the numbers CounterTokens and the plates depend on.
LEMMA OutstandingMoves ==
    ASSUME Types, Types', NEW s \in Students, Student(s)
    PROVE  Outstanding' = Outstanding - (IF TakeSet(s) THEN 1 ELSE 0)
<1> USE Permits, PermitsThen, StudentMoves, CountsAreNat DEF One, StudentLabels
<1>1. CASE Arrive(s) \/ JoinLine(s)
  <2>1. /\ StudentGoto(s, "arrive", "join") \/ StudentGoto(s, "join", "in_line")
        /\ s_full' = s_full
    BY <1>1 DEF Arrive, JoinLine
  <2>2. StudentsAt(Students, {"at_counter"})' = StudentsAt(Students, {"at_counter"})
    BY <2>1
  <2>3. Outstanding' = Outstanding
    BY <2>1, <2>2 DEF Outstanding
  <2>4. ~TakeSet(s)
    BY <2>1 DEF TakeSet, NextRound, StudentGoto
  <2> QED
    BY <2>3, <2>4
<1>2. CASE Granted(s)
  <2>1. StudentGoto(s, "in_line", "at_counter")
    BY <1>2 DEF Granted
  <2>2. StudentsAt(Students, {"at_counter"})' = StudentsAt(Students, {"at_counter"}) + 1
    BY <2>1
  <2>3. GraduatesLetIn' + OthersLetIn' = GraduatesLetIn + OthersLetIn - 1
    BY <1>2, GrantedMoves
  <2>4. Outstanding' = Outstanding
    BY <2>2, <2>3
  <2>5. ~TakeSet(s)
    BY <2>1 DEF TakeSet, NextRound, StudentGoto
  <2> QED
    BY <2>4, <2>5
<1>3. CASE TakeSet(s)
  <2>1. \E to \in {"home", "arrive"} : StudentGoto(s, "at_counter", to)
    BY <1>3 DEF TakeSet, NextRound
  <2>2. StudentsAt(Students, {"at_counter"})' = StudentsAt(Students, {"at_counter"}) - 1
    BY <2>1
  <2>3. GraduatesLetIn' = GraduatesLetIn /\ OthersLetIn' = OthersLetIn
    BY <1>3, Zenon DEF TakeSet, line, GraduatesLetIn, OthersLetIn
  <2>4. Outstanding' = Outstanding - 1
    BY <2>2, <2>3
  <2> QED
    BY <1>3, <2>4
<1> QED
  BY <1>1, <1>2, <1>3 DEF Student

LEMMA SupervisorMoves ==
    ASSUME Types, Types', Supervisor
    PROVE  /\ Outstanding' = Outstanding + (served' - served)
           /\ Granting' = Granting - (served' - served) + (IF AwaitFood THEN 1 ELSE 0)
           /\ served' \in Int /\ served \in Int
<1>1. StudentsAt(Students, {"at_counter"})' = StudentsAt(Students, {"at_counter"})
  BY DEF Supervisor, AwaitFood, AwaitStudent, PickUndergraduate, PickGraduate, Grant,
         restOfSupervisor, byStudents, StudentsAt
<1>2. served' \in Int /\ served \in Int
  BY DEF Types
<1>3. ASSUME NEW graduate \in BOOLEAN, Grant(graduate)
      PROVE  /\ Outstanding' = Outstanding + 1 /\ served' = served + 1
             /\ Granting' = Granting - 1 /\ ~AwaitFood
  <2>1. GraduatesLetIn' + OthersLetIn' = GraduatesLetIn + OthersLetIn + 1
    BY <1>3, GrantMoves, Permits
  <2>2. Outstanding' = Outstanding + 1
    BY <1>1, <2>1, Permits, PermitsThen, CountsAreNat
  <2>3. /\ supervisor \in {"grant_graduate", "grant_undergraduate"}
        /\ supervisor' \in {"home", "ready"}
        /\ served' = served + 1
    BY <1>3 DEF Grant, SupervisorGoto
  <2> QED
    BY <2>2, <2>3 DEF Granting, SupervisorAt, AwaitFood, SupervisorGoto
<1>4. CASE AwaitFood \/ AwaitStudent \/ PickUndergraduate \/ PickGraduate
  <2>1. s_full' = s_full /\ served' = served
    BY <1>4 DEF AwaitFood, AwaitStudent, PickUndergraduate, PickGraduate, line
  <2>2. Outstanding' = Outstanding
    BY <1>1, <2>1 DEF Outstanding
  <2>3. Granting' = Granting + (IF AwaitFood THEN 1 ELSE 0)
    BY <1>4 DEF AwaitFood, AwaitStudent, PickUndergraduate, PickGraduate, SupervisorGoto,
           Granting, SupervisorAt
  <2>4. Outstanding \in Int /\ Granting \in Int
    BY Permits, CountsAreNat DEF Granting, SupervisorAt
  <2> QED
    BY <1>2, <2>1, <2>2, <2>3, <2>4
<1>5. Outstanding \in Int /\ Granting \in Int
  BY Permits, CountsAreNat DEF Granting, SupervisorAt
<1> QED
  BY <1>2, <1>3, <1>4, <1>5 DEF Supervisor

\* The supplier and the cooks have nothing to do with the line.
LEMMA LineSame ==
    ASSUME Supplier \/ (\E c \in Cooks : Cook(c)) \/ UNCHANGED vars
    PROVE  /\ UNCHANGED <<s_empty, s_full, s_peek, student, supervisor, served>>
           /\ Outstanding' = Outstanding /\ Granting' = Granting
<1>1. UNCHANGED <<s_empty, s_full, s_peek, student, supervisor, served>>
  BY DEF Supplier, SupplierGo, SupplierPut, Cook, CheckFinished, GoOn, Choose, ChooseNone,
         WaitKitchen, TakeSupply, GiveBack, PutCounter, restOfSupplier, restOfCooks, vars,
         line, byStudents, bySupervisor
<1> QED
  BY <1>1 DEF Outstanding, Granting, SupervisorAt, StudentsAt

LEMMA CounterStep == Types /\ CounterTokens /\ [Next]_vars => CounterTokens'
<1> SUFFICES ASSUME Types, CounterTokens, [Next]_vars PROVE CounterTokens'
  OBVIOUS
<1>0. Types'
  BY TypesStep
<1>1. Outstanding \in Int /\ Granting \in Int
  BY Permits, CountsAreNat DEF Granting, SupervisorAt
<1>2. ASSUME UNCHANGED <<c_room, c_empty, c_full>>, Outstanding' = Outstanding, Granting' = Granting
      PROVE  CounterTokens'
  BY <1>2, CounterThen DEF CounterTokens
<1>3. CASE Supplier \/ UNCHANGED vars
  <2>1. UNCHANGED <<c_room, c_empty, c_full>>
    BY <1>3 DEF Supplier, SupplierGo, SupplierPut, restOfSupplier, counter, vars
  <2> QED
    BY <1>2, <1>3, <2>1, LineSame
<1>4. ASSUME NEW c \in Cooks, Cook(c) PROVE CounterTokens'
  <2>1. Outstanding' = Outstanding /\ Granting' = Granting
    BY <1>4, LineSame
  <2>2. CASE PutCounter(c)
    <3>1. /\ food[c] \in Foods
          /\ \A f \in Foods :
                /\ c_room'[f] = c_room[f] + One(f = food[c])
                /\ c_empty'[f] = c_empty[f] - One(f = food[c])
                /\ c_full'[f] = c_full[f] + One(f = food[c])
      BY <2>2 DEF PutCounter, Post, Take, Types, One
    <3> SUFFICES ASSUME NEW f \in Foods
                 PROVE  /\ Share(f) = c_room'[f] + c_empty'[f]
                        /\ c_room'[f] = c_full'[f] + Outstanding' + Granting'
      BY CounterThen
    <3>2. /\ Share(f) = c_room[f] + c_empty[f]
          /\ c_room[f] = c_full[f] + Outstanding + Granting
      BY DEF CounterTokens
    <3>3. /\ c_room[f] \in Int /\ c_empty[f] \in Int /\ c_full[f] \in Int
          /\ One(f = food[c]) \in Int
      BY DEF Types, One
    <3> QED
      BY <1>1, <2>1, <3>1, <3>2, <3>3
  <2>3. CASE ~PutCounter(c)
    <3>1. UNCHANGED <<c_room, c_empty, c_full>>
      BY <1>4, <2>3 DEF Cook, CheckFinished, GoOn, Choose, ChooseNone, WaitKitchen, TakeSupply,
             GiveBack, counter
    <3> QED
      BY <1>2, <2>1, <3>1
  <2> QED
    BY <2>2, <2>3
<1>5. ASSUME NEW s \in Students, Student(s) PROVE CounterTokens'
  <2>1. Granting' = Granting
    BY <1>5 DEF Student, Arrive, JoinLine, Granted, TakeSet, restOfStudents, bySupervisor,
           Granting, SupervisorAt
  <2>2. CASE TakeSet(s)
    <3>1. \A f \in Foods :
             /\ c_room'[f] = c_room[f] - 1
             /\ c_empty'[f] = c_empty[f] + 1
             /\ c_full'[f] = c_full[f]
      BY <2>2 DEF TakeSet
    <3>2. Outstanding' = Outstanding - 1
      BY <1>0, <1>5, <2>2, OutstandingMoves
    <3>3. ASSUME NEW f \in Foods
          PROVE  /\ Share(f) = c_room'[f] + c_empty'[f]
                 /\ c_room'[f] = c_full'[f] + Outstanding' + Granting'
      <4>1. /\ c_room[f] \in Int /\ c_empty[f] \in Int /\ c_full[f] \in Int
            /\ Share(f) = c_room[f] + c_empty[f]
            /\ c_room[f] = c_full[f] + Outstanding + Granting
        BY DEF CounterTokens, Types
      <4> QED
        BY <1>1, <2>1, <3>1, <3>2, <4>1
    <3> QED
      BY <3>3, CounterThen
  <2>3. CASE ~TakeSet(s)
    <3>1. UNCHANGED <<c_room, c_empty, c_full>>
      BY <1>5, <2>3 DEF Student, Arrive, JoinLine, Granted, counter
    <3>2. Outstanding' = Outstanding
      BY <1>0, <1>1, <1>5, <2>3, OutstandingMoves
    <3> QED
      BY <1>2, <2>1, <3>1, <3>2
  <2> QED
    BY <2>2, <2>3
<1>6. CASE Supervisor
  <2>1. c_room' = c_room /\ c_empty' = c_empty
    BY <1>6 DEF Supervisor, AwaitFood, AwaitStudent, PickUndergraduate, PickGraduate, Grant, counter
  <2>2. Outstanding' + Granting' = Outstanding + Granting + (IF AwaitFood THEN 1 ELSE 0)
    <3>1. Outstanding' \in Int /\ Granting' \in Int
      BY <1>0, <1>1, <1>6, SupervisorMoves DEF Granting, SupervisorAt
    <3> QED
      BY <1>0, <1>1, <1>6, <3>1, SupervisorMoves
  <2>3. \A f \in Foods : c_full'[f] = c_full[f] - (IF AwaitFood THEN 1 ELSE 0)
    BY <1>6 DEF Supervisor, AwaitFood, AwaitStudent, PickUndergraduate, PickGraduate, Grant, counter, Types
  <2>4. \A f \in Foods : c_full[f] \in Int /\ c_room[f] = c_full[f] + Outstanding + Granting
    BY DEF CounterTokens, Types
  <2>5. Outstanding' \in Int /\ Granting' \in Int
    BY <1>0, <1>1, <1>6, SupervisorMoves DEF Granting, SupervisorAt
  <2>6. \A f \in Foods : c_room[f] = c_full'[f] + Outstanding' + Granting'
    <3> DEFINE set == IF AwaitFood THEN 1 ELSE 0
    <3>1. /\ set \in Int
          /\ Outstanding' + Granting' = Outstanding + Granting + set
          /\ \A f \in Foods : c_full'[f] = c_full[f] - set
      BY <2>2, <2>3
    <3> HIDE DEF set
    <3> SUFFICES ASSUME NEW f \in Foods PROVE c_room[f] = c_full'[f] + Outstanding' + Granting'
      OBVIOUS
    <3>2. /\ c_full'[f] = c_full[f] - set
          /\ c_full[f] \in Int /\ c_room[f] = c_full[f] + Outstanding + Granting
      BY <2>4, <3>1
    <3> QED
      BY <1>1, <2>5, <3>1, <3>2
  <2>7. \A f \in Foods : /\ Share(f) = c_room'[f] + c_empty'[f]
                        /\ c_room'[f] = c_full'[f] + Outstanding' + Granting'
    <3>1. \A f \in Foods : Share(f) = c_room[f] + c_empty[f]
      BY DEF CounterTokens
    <3> QED
      BY <2>1, <2>6, <3>1, Zenon
  <2> QED
    BY <2>7, CounterThen, Zenon
<1> QED
  BY <1>3, <1>4, <1>5, <1>6 DEF Next, AllDone

-----------------------------------------------------------------------------
(* The line of students. *)

Line ==
    /\ StudentsAt(Graduates, {"join", "in_line"}) =
           s_peek + GraduatesLetIn + SupervisorAt({"grant_graduate"})
    /\ StudentsAt(Students, {"in_line"}) =
           s_empty + GraduatesLetIn + OthersLetIn
           + SupervisorAt({"pick", "grant_undergraduate", "grant_graduate"})
    /\ StudentsAt(Undergraduates, {"in_line"}) >=
           OthersLetIn + SupervisorAt({"grant_undergraduate"})

LEMMA LineIs == (LineTokens <=> Line) /\ (LineTokens' <=> Line')
  BY Zenon DEF LineTokens, Line, GraduatesLetIn, OthersLetIn

\* Who is in line is a graduate or an undergraduate, and a graduate in line has
\* been counted.
LEMMA Queue ==
    /\ StudentsAt(Students, {"in_line"}) =
           StudentsAt(Graduates, {"in_line"}) + StudentsAt(Undergraduates, {"in_line"})
    /\ StudentsAt(Graduates, {"in_line"}) <= StudentsAt(Graduates, {"join", "in_line"})
<1> DEFINE G == {s \in Graduates : student[s] \in {"in_line"}}
           U == {s \in Undergraduates : student[s] \in {"in_line"}}
           W == {s \in Graduates : student[s] \in {"join", "in_line"}}
<1>1. /\ IsFiniteSet(G) /\ IsFiniteSet(U) /\ IsFiniteSet(W)
      /\ G \cap U = {} /\ G \subseteq W
      /\ {s \in Students : student[s] \in {"in_line"}} = G \cup U
  BY StudentsAssumption, FS_Subset DEF Students
<1>2. Cardinality(G \cup U) = Cardinality(G) + Cardinality(U)
  <2>1. Cardinality(G \cup U) = Cardinality(G) + Cardinality(U) - Cardinality(G \cap U)
    BY <1>1, FS_Union
  <2>2. Cardinality(G \cap U) = 0
    BY <1>1, FS_EmptySet
  <2>3. Cardinality(G) \in Nat /\ Cardinality(U) \in Nat
    BY <1>1, FS_CardinalityType
  <2> QED
    BY <2>1, <2>2, <2>3
<1>3. Cardinality(G) <= Cardinality(W)
  BY <1>1, FS_Subset
<1> QED
  BY <1>1, <1>2, <1>3 DEF StudentsAt

LEMMA LineStudent ==
    ASSUME Types, Line, NEW s \in Students, Student(s) PROVE Line'
<1>1. supervisor' = supervisor
  BY DEF Student, Arrive, JoinLine, Granted, TakeSet, restOfStudents, bySupervisor
<1>2. \A labels : SupervisorAt(labels)' = SupervisorAt(labels) /\ SupervisorAt(labels) \in Int
  BY <1>1 DEF SupervisorAt
<1>3. /\ Graduates \in SUBSET Students /\ Undergraduates \in SUBSET Students
      /\ Students \in SUBSET Students
      /\ s \in Graduates <=> s \notin Undergraduates
  BY StudentsAssumption DEF Students
<1>4. s_peek \in Int /\ s_empty \in Int /\ GraduatesLetIn \in Int /\ OthersLetIn \in Int
  BY Permits DEF Types
<1>5. \A group \in SUBSET Students : \A labels : StudentsAt(group, labels) \in Int
  BY CountsAreNat
<1>6. ASSUME s_full' = s_full PROVE GraduatesLetIn' = GraduatesLetIn /\ OthersLetIn' = OthersLetIn
  BY <1>6, Zenon DEF GraduatesLetIn, OthersLetIn
<1> DEFINE waiting == StudentsAt(Graduates, {"join", "in_line"})
           queue   == StudentsAt(Students, {"in_line"})
           others  == StudentsAt(Undergraduates, {"in_line"})
<1>7. waiting \in Int /\ queue \in Int /\ others \in Int
  BY <1>3, <1>5
<1>8. CASE Arrive(s)
  <2>1. /\ StudentGoto(s, "arrive", "join")
        /\ s_peek' = s_peek + One(s \in Graduates)
        /\ s_empty' = s_empty /\ s_full' = s_full
    BY <1>8 DEF Arrive, IsGraduate, One
  <2>2. waiting' = waiting + One(s \in Graduates) /\ queue' = queue /\ others' = others
    BY <1>3, <1>7, <2>1, StudentMoves DEF One, StudentLabels
  <2>3. GraduatesLetIn' = GraduatesLetIn /\ OthersLetIn' = OthersLetIn
    BY <1>6, <2>1
  <2> HIDE DEF waiting, queue, others
  <2> QED
    BY <1>2, <1>4, <1>7, <2>1, <2>2, <2>3 DEF Line, One, waiting, queue, others
<1>9. CASE JoinLine(s)
  <2>1. /\ StudentGoto(s, "join", "in_line")
        /\ s_empty' = s_empty + 1
        /\ s_peek' = s_peek /\ s_full' = s_full
    BY <1>9 DEF JoinLine
  <2>2. /\ waiting' = waiting
        /\ queue' = queue + 1
        /\ others' = others + One(s \in Undergraduates)
    BY <1>3, <1>7, <2>1, StudentMoves DEF One, StudentLabels
  <2>3. GraduatesLetIn' = GraduatesLetIn /\ OthersLetIn' = OthersLetIn
    BY <1>6, <2>1
  <2> HIDE DEF waiting, queue, others
  <2> QED
    BY <1>2, <1>4, <1>7, <2>1, <2>2, <2>3 DEF Line, One, waiting, queue, others
<1>10. CASE Granted(s)
  <2>1. /\ StudentGoto(s, "in_line", "at_counter")
        /\ s_empty' = s_empty /\ s_peek' = s_peek
    BY <1>10 DEF Granted
  <2>2. /\ waiting' = waiting - One(s \in Graduates)
        /\ queue' = queue - 1
        /\ others' = others - One(s \in Undergraduates)
    BY <1>3, <1>7, <2>1, StudentMoves DEF One, StudentLabels
  <2>3. /\ GraduatesLetIn' = GraduatesLetIn - One(s \in Graduates)
        /\ OthersLetIn' = OthersLetIn - One(s \in Undergraduates)
    BY <1>3, <1>4, <1>10, GrantedMoves DEF One, IsGraduate
  <2> HIDE DEF waiting, queue, others
  <2> QED
    BY <1>2, <1>3, <1>4, <1>7, <2>1, <2>2, <2>3 DEF Line, One, waiting, queue, others
<1>11. CASE TakeSet(s)
  <2>1. /\ \E to \in {"home", "arrive"} : StudentGoto(s, "at_counter", to)
        /\ s_empty' = s_empty /\ s_peek' = s_peek /\ s_full' = s_full
    BY <1>11 DEF TakeSet, NextRound, line
  <2>2. waiting' = waiting /\ queue' = queue /\ others' = others
    BY <1>3, <1>7, <2>1, StudentMoves DEF One, StudentLabels
  <2>3. GraduatesLetIn' = GraduatesLetIn /\ OthersLetIn' = OthersLetIn
    BY <1>6, <2>1
  <2> HIDE DEF waiting, queue, others
  <2> QED
    BY <1>2, <1>4, <1>7, <2>1, <2>2, <2>3 DEF Line, waiting, queue, others
<1> QED
  BY <1>8, <1>9, <1>10, <1>11 DEF Student

\* The argument is in PickUndergraduate: s_peek is zero, so that the graduates
\* in line all have their grants, and the student looked at is another one.
LEMMA LineSupervisor == Types /\ Line /\ Supervisor => Line'
<1> SUFFICES ASSUME Types, Line, Supervisor PROVE Line'
  OBVIOUS
<1>1. student' = student
  BY DEF Supervisor, AwaitFood, AwaitStudent, PickUndergraduate, PickGraduate, Grant,
         restOfSupervisor, byStudents
<1> DEFINE waiting == StudentsAt(Graduates, {"join", "in_line"})
           queue   == StudentsAt(Students, {"in_line"})
           others  == StudentsAt(Undergraduates, {"in_line"})
           inLine  == StudentsAt(Graduates, {"in_line"})
<1>2. waiting' = waiting /\ queue' = queue /\ others' = others
  BY <1>1 DEF StudentsAt
<1>3. /\ waiting \in Nat /\ queue \in Nat /\ others \in Nat /\ inLine \in Nat
      /\ queue = inLine + others /\ inLine <= waiting
  BY Queue, CountsAreNat DEF Students
<1>4. s_peek \in Int /\ s_empty \in Nat /\ GraduatesLetIn \in Nat /\ OthersLetIn \in Nat
  BY Permits DEF Types
<1>5. ASSUME s_full' = s_full PROVE GraduatesLetIn' = GraduatesLetIn /\ OthersLetIn' = OthersLetIn
  BY <1>5, Zenon DEF GraduatesLetIn, OthersLetIn
<1>6. /\ waiting = s_peek + GraduatesLetIn + SupervisorAt({"grant_graduate"})
      /\ queue = s_empty + GraduatesLetIn + OthersLetIn
                 + SupervisorAt({"pick", "grant_undergraduate", "grant_graduate"})
      /\ others >= OthersLetIn + SupervisorAt({"grant_undergraduate"})
  BY DEF Line
<1> HIDE DEF waiting, queue, others, inLine
<1>7. SUFFICES
      /\ waiting = s_peek' + GraduatesLetIn' + SupervisorAt({"grant_graduate"})'
      /\ queue = s_empty' + GraduatesLetIn' + OthersLetIn'
                 + SupervisorAt({"pick", "grant_undergraduate", "grant_graduate"})'
      /\ others >= OthersLetIn' + SupervisorAt({"grant_undergraduate"})'
  BY <1>2 DEF Line, waiting, queue, others
<1> USE <1>3, <1>4, <1>6 DEF SupervisorAt, SupervisorGoto
<1>8. CASE AwaitFood
  BY <1>5, <1>8 DEF AwaitFood, line
<1>9. CASE AwaitStudent
  BY <1>5, <1>9 DEF AwaitStudent
<1>10. CASE PickUndergraduate
  BY <1>5, <1>10 DEF PickUndergraduate, line
<1>11. CASE PickGraduate
  BY <1>5, <1>11 DEF PickGraduate
<1>12. ASSUME NEW graduate \in BOOLEAN, Grant(graduate)
       PROVE  /\ waiting = s_peek' + GraduatesLetIn' + SupervisorAt({"grant_graduate"})'
              /\ queue = s_empty' + GraduatesLetIn' + OthersLetIn'
                 + SupervisorAt({"pick", "grant_undergraduate", "grant_graduate"})'
              /\ others >= OthersLetIn' + SupervisorAt({"grant_undergraduate"})'
  <2>1. /\ supervisor = (IF graduate THEN "grant_graduate" ELSE "grant_undergraduate")
        /\ supervisor' \in {"home", "ready"}
        /\ s_empty' = s_empty /\ s_peek' = s_peek
    BY <1>12 DEF Grant
  <2>2. CASE graduate
    <3>1. GraduatesLetIn' = GraduatesLetIn + 1 /\ OthersLetIn' = OthersLetIn
      BY <1>12, <2>2, GrantMoves
    <3> QED
      BY <2>1, <2>2, <3>1
  <2>3. CASE ~graduate
    <3>1. GraduatesLetIn' = GraduatesLetIn /\ OthersLetIn' = OthersLetIn + 1
      BY <1>12, <2>3, GrantMoves
    <3> QED
      BY <2>1, <2>3, <3>1
  <2> QED
    BY <2>2, <2>3
<1> QED
  BY <1>8, <1>9, <1>10, <1>11, <1>12 DEF Supervisor

LEMMA LineStep == Types /\ LineTokens /\ [Next]_vars => LineTokens'
<1> SUFFICES ASSUME Types, Line, [Next]_vars PROVE Line'
  BY LineIs
<1>1. ASSUME Supplier \/ (\E c \in Cooks : Cook(c)) \/ UNCHANGED vars PROVE Line'
  <2>1. UNCHANGED <<s_empty, s_full, s_peek, student, supervisor>>
    BY <1>1, LineSame
  <2> QED
    BY <2>1, Zenon DEF Line, StudentsAt, SupervisorAt, GraduatesLetIn, OthersLetIn
<1> QED
  BY <1>1, LineStudent, LineSupervisor DEF Next, AllDone

-----------------------------------------------------------------------------
(* The plates. *)

PlatesSupplied ==
    k_peek = supply[0] + supply[1] + supply[2] + (IF supplier = "put" THEN 1 ELSE 0)
             + k_room[0] + k_room[1] + k_room[2]

PlatesOf(f) ==
    Deliver = supply[f] + SupplierAt(f, {"put"}) + k_room[f]
              + CooksAt(f, {"counter"}) + c_room[f]
              + (served - Outstanding)

LEMMA PlatesAre == PlatesConserved <=> PlatesSupplied /\ \A f \in Foods : PlatesOf(f)
  BY DEF PlatesConserved, PlatesSupplied, PlatesOf

LEMMA PlateNumbers ==
    ASSUME Types
    PROVE  /\ Outstanding \in Int
           /\ \A f \in Foods :
                 /\ CooksAt(f, {"counter"}) \in Int /\ SupplierAt(f, {"put"}) \in Int
                 /\ supply[f] \in Int /\ k_room[f] \in Int /\ c_room[f] \in Int
  BY Permits, CountsAreNat DEF SupplierAt, Types

LEMMA PlatesSupplier ==
    ASSUME Types, PlatesConserved, Supplier PROVE PlatesConserved'
<1>1. /\ UNCHANGED <<cook, food, c_room, served, k_peek>>
      /\ Outstanding' = Outstanding
  BY LineSame DEF Supplier, SupplierGo, SupplierPut, restOfSupplier, byCooks, counter
<1>2. \A f : CooksAt(f, {"counter"})' = CooksAt(f, {"counter"})
  BY <1>1 DEF CooksAt
<1> SUFFICES PlatesSupplied' /\ \A f \in Foods : PlatesOf(f)'
  BY DEF PlatesConserved, PlatesSupplied, PlatesOf
<1> USE FoodsAre, PlatesAre, PlateNumbers
        DEF PlatesSupplied, PlatesOf, SupplierAt, Post, Take, Types
<1>3. CASE SupplierGo
  BY <1>1, <1>2, <1>3 DEF SupplierGo
<1>4. CASE SupplierPut
  BY <1>1, <1>2, <1>4 DEF SupplierPut
<1> QED
  BY <1>3, <1>4 DEF Supplier

LEMMA PlatesCook ==
    ASSUME Types, PlatesConserved, NEW c \in Cooks, Cook(c) PROVE PlatesConserved'
<1>1. /\ UNCHANGED <<supplier, supply, carried, served>>
      /\ Outstanding' = Outstanding
  BY LineSame DEF Cook, CheckFinished, GoOn, Choose, ChooseNone, WaitKitchen, TakeSupply,
         GiveBack, PutCounter, restOfCooks, bySupplier
<1>2. \A f : SupplierAt(f, {"put"})' = SupplierAt(f, {"put"})
  BY <1>1 DEF SupplierAt
<1>6. \A f, labels : CooksAt(f, labels) \in Int
  BY CountsAreNat
<1> SUFFICES PlatesSupplied' /\ \A f \in Foods : PlatesOf(f)'
  BY DEF PlatesConserved, PlatesSupplied, PlatesOf
<1>3. CASE TakeSupply(c)
  <2>1. /\ CookGoto(c, "kitchen", "counter") /\ food' = food
        /\ food[c] \in Foods
        /\ k_room' = [k_room EXCEPT ![food[c]] = @ - 1]
        /\ k_peek' = k_peek - 1
        /\ c_room' = c_room
    BY <1>3 DEF TakeSupply, Take, counter, Types
  <2>2. \A f : CooksAt(f, {"counter"})' = CooksAt(f, {"counter"}) + One(food[c] = f)
    BY <2>1, CookMoved, CountsAreNat DEF CookLabels, One
  <2> QED
    BY <1>1, <1>2, <2>1, <2>2, FoodsAre, PlatesAre, PlateNumbers
       DEF PlatesSupplied, PlatesOf, Types, One
<1>4. CASE PutCounter(c)
  <2>1. /\ CookTurns(c, "counter", "check", 0)
        /\ food[c] \in Foods /\ 0 \in Foods
        /\ c_room' = [c_room EXCEPT ![food[c]] = @ + 1]
        /\ k_room' = k_room /\ k_peek' = k_peek
    BY <1>4, FoodsAre DEF PutCounter, Post, CookTurns, kitchen, Types
  <2>2. \A f : CooksAt(f, {"counter"})' = CooksAt(f, {"counter"}) - One(food[c] = f)
    BY <1>6, <2>1, CookMoves, FoodsAre DEF CookLabels, One, Types
  <2> QED
    BY <1>1, <1>2, <2>1, <2>2, FoodsAre, PlatesAre, PlateNumbers
       DEF PlatesSupplied, PlatesOf, Types, One
<1>5. CASE ~TakeSupply(c) /\ ~PutCounter(c)
  <2>1. UNCHANGED <<k_room, k_peek, c_room>>
    BY <1>5 DEF Cook, CheckFinished, GoOn, Choose, ChooseNone, WaitKitchen, GiveBack,
           kitchen, counter
  <2>2. \A f : CooksAt(f, {"counter"})' = CooksAt(f, {"counter"})
    <3>1. CASE Choose(c) \/ GiveBack(c)
      <4>1. NextFood \in Foods /\ 0 \in Foods
        BY FoodsAre DEF Types, NextFood, FOOD_KIND
      <4>2. \/ CookTurns(c, "choose", "wait_kitchen", NextFood)
            \/ CookTurns(c, "kitchen", "check", 0)
        BY <3>1 DEF Choose, GiveBack, CookTurns
      <4> QED
        BY <1>6, <4>1, <4>2, CookMoves, FoodsAre DEF CookLabels, One, Types
    <3>2. CASE CheckFinished(c) \/ GoOn(c) \/ ChooseNone(c) \/ WaitKitchen(c)
      <4>1. /\ food' = food
            /\ \/ \E from \in {"check", "choose"} : CookGoto(c, from, "home")
               \/ CookGoto(c, "check", "choose")
               \/ CookGoto(c, "wait_kitchen", "kitchen")
        BY <3>2 DEF CheckFinished, GoOn, ChooseNone, WaitKitchen, GoHome
      <4> QED
        BY <4>1, CookMoved, CountsAreNat DEF CookLabels, One
    <3> QED
      BY <1>5, <3>1, <3>2 DEF Cook
  <2> QED
    BY <1>1, <1>2, <2>1, <2>2, PlatesAre DEF PlatesSupplied, PlatesOf
<1> QED
  BY <1>3, <1>4, <1>5

LEMMA PlatesStep == Types /\ PlatesConserved /\ [Next]_vars => PlatesConserved'
<1> SUFFICES ASSUME Types, PlatesConserved, [Next]_vars PROVE PlatesConserved'
  OBVIOUS
<1>0. Types'
  BY TypesStep
<1>1. ASSUME Supervisor \/ (\E s \in Students : Student(s)) \/ UNCHANGED vars
      PROVE  PlatesConserved'
  <2>1. UNCHANGED <<supplier, supply, carried, k_room, k_peek, cook, food>>
    BY <1>1 DEF Supervisor, AwaitFood, AwaitStudent, PickUndergraduate, PickGraduate, Grant,
           Student, Arrive, JoinLine, Granted, TakeSet, restOfStudents, restOfSupervisor,
           vars, kitchen, bySupplier, byCooks
  <2>2. \A f : /\ SupplierAt(f, {"put"})' = SupplierAt(f, {"put"})
               /\ CooksAt(f, {"counter"})' = CooksAt(f, {"counter"})
    BY <2>1 DEF SupplierAt, CooksAt
  <2>3. \A f \in Foods : c_room'[f] + (served' - Outstanding') = c_room[f] + (served - Outstanding)
    <3>1. CASE UNCHANGED vars
      BY <3>1, LineSame DEF vars, counter
    <3>2. CASE Supervisor
      <4>1. c_room' = c_room
        BY <3>2 DEF Supervisor, AwaitFood, AwaitStudent, PickUndergraduate, PickGraduate,
               Grant, counter
      <4> QED
        BY <1>0, <3>2, <4>1, SupervisorMoves, PlateNumbers
    <3>3. ASSUME NEW s \in Students, Student(s)
          PROVE \A f \in Foods : c_room'[f] + (served' - Outstanding') = c_room[f] + (served - Outstanding)
      <4>1. served' = served /\ served \in Int
        BY <3>3 DEF Student, Arrive, JoinLine, Granted, TakeSet, restOfStudents, bySupervisor, Types
      <4>2. \A f \in Foods : c_room'[f] = c_room[f] - (IF TakeSet(s) THEN 1 ELSE 0)
        BY <3>3, PlateNumbers DEF Student, Arrive, JoinLine, Granted, TakeSet, counter
      <4> QED
        BY <1>0, <3>3, <4>1, <4>2, OutstandingMoves, PlateNumbers
    <3> QED
      BY <1>1, <3>1, <3>2, <3>3
  <2>4. Outstanding' \in Int /\ served' \in Int /\ \A f \in Foods : c_room'[f] \in Int
    <3>1. Outstanding' \in Int
      BY <1>0, <1>1, OutstandingMoves, SupervisorMoves, LineSame, PlateNumbers
    <3> QED
      BY <1>0, <3>1 DEF Types
  <2>5. \A f \in Foods : PlatesOf(f)'
    <3> SUFFICES ASSUME NEW f \in Foods PROVE PlatesOf(f)'
      OBVIOUS
    <3> DEFINE rest == supply[f] + SupplierAt(f, {"put"}) + k_room[f] + CooksAt(f, {"counter"})
    <3>1. rest' = rest /\ rest \in Int
      BY <2>1, <2>2, PlateNumbers
    <3>2. Deliver = rest + c_room[f] + (served - Outstanding)
      BY PlatesAre DEF PlatesOf
    <3>3. /\ c_room[f] \in Int /\ Outstanding \in Int /\ served \in Int
      BY PlateNumbers DEF Types
    <3> HIDE DEF rest
    <3>4. Deliver = rest + c_room'[f] + (served' - Outstanding')
      BY <2>3, <2>4, <3>1, <3>2, <3>3
    <3> QED
      BY <3>1, <3>4 DEF PlatesOf, rest
  <2>6. PlatesSupplied'
    BY <2>1, PlatesAre DEF PlatesSupplied
  <2> QED
    BY <2>5, <2>6 DEF PlatesConserved, PlatesSupplied, PlatesOf
<1> QED
  BY <1>1, PlatesSupplier, PlatesCook DEF Next, AllDone

-----------------------------------------------------------------------------
\* What the proofs below rest on.
Inv == Types /\ TokensHold /\ PlatesConserved

LEMMA InitInv == Init => Inv
<1> SUFFICES ASSUME Init PROVE Inv
  OBVIOUS
<1>1. Types
  BY InitTypes
<1>2. /\ \A f, labels : "check" \notin labels => CooksAt(f, labels) = 0
      /\ CooksHome = 0
      /\ \A group \in SUBSET Students : \A labels :
            "arrive" \notin labels => StudentsAt(group, labels) = 0
  <2>1. /\ \A c \in Cooks : cook[c] = "check"
        /\ \A s \in Students : student[s] = "arrive"
    BY DEF Init
  <2>2. Cardinality({}) = 0
    BY FS_EmptySet
  <2>3. \A f, labels : "check" \notin labels => {c \in Cooks : cook[c] \in labels /\ food[c] = f} = {}
    BY <2>1
  <2>4. {c \in Cooks : cook[c] = "home"} = {}
    BY <2>1
  <2>5. \A group \in SUBSET Students : \A labels :
           "arrive" \notin labels => {s \in group : student[s] \in labels} = {}
    BY <2>1
  <2> QED
    BY <2>2, <2>3, <2>4, <2>5 DEF CooksAt, CooksHome, StudentsAt
<1>3. GraduatesLetIn = 0 /\ OthersLetIn = 0
  BY DEF Init, GraduatesLetIn, OthersLetIn
<1>4. Graduates \in SUBSET Students /\ Undergraduates \in SUBSET Students /\ Students \in SUBSET Students
  BY DEF Students
<1>5. Outstanding = 0
  BY <1>1, <1>2, <1>3, <1>4, Permits
<1>6. KitchenTokens
  BY <1>2, Sizes, FoodsAre DEF Init, KitchenTokens, KitchenFree
<1>7. CounterTokens
  <2> SUFFICES ASSUME NEW f \in Foods
               PROVE  Share(f) = c_room[f] + c_empty[f] /\ c_room[f] = c_full[f] + Outstanding + Granting
    BY DEF CounterTokens
  <2>1. Share(f) \in Nat /\ c_room[f] = 0 /\ c_empty[f] = Share(f) /\ c_full[f] = 0 /\ Granting = 0
    BY Sizes DEF Init, Granting, SupervisorAt
  <2> QED
    BY <1>5, <2>1
<1>8. Line
  <2>1. supervisor = "ready" /\ s_peek = 0 /\ s_empty = 0
    BY DEF Init
  <2> QED
    BY <1>2, <1>3, <1>4, <2>1 DEF Line, SupervisorAt
<1>9. PlatesConserved
  BY <1>2, <1>5, Sizes, FoodsAre DEF Init, PlatesConserved, SupplierAt, FOOD_KIND
<1> QED
  BY <1>1, <1>6, <1>7, <1>8, <1>9, LineIs DEF Inv, TokensHold

LEMMA StepInv == Inv /\ [Next]_vars => Inv'
BY TypesStep, KitchenStep, CounterStep, LineStep, PlatesStep DEF Inv, TokensHold

LEMMA SlotsThere == Inv => SlotsFound /\ CounterServesAll
<1> SUFFICES ASSUME Inv PROVE SlotsFound /\ CounterServesAll
  OBVIOUS
<1>1. \A f \in Foods :
         /\ Share(f) \in Nat /\ Share(f) >= 1
         /\ c_room[f] \in Int /\ c_empty[f] \in Nat /\ c_full[f] \in Nat
         /\ Share(f) = c_room[f] + c_empty[f]
         /\ c_room[f] = c_full[f] + Outstanding + Granting
  BY Sizes DEF Inv, Types, TokensHold, CounterTokens
<1>2. CounterFree = c_empty[0] + c_empty[1] + c_empty[2]
  BY <1>1, Sizes, FoodsAre, SizesAssumption DEF CounterFree
<1>3. Outstanding \in Nat /\ Granting \in Nat
  BY Permits, CountsAreNat DEF Inv, Granting, SupervisorAt
<1>4. supplier = "put" => KitchenFree > 0
  BY DEF Inv, Types, TokensHold, KitchenTokens
<1>5. ASSUME NEW c \in Cooks, c_empty[food[c]] > 0 PROVE CounterFree > 0
  <2>1. food[c] \in {0, 1, 2}
    BY FoodsAre DEF Inv, Types
  <2> QED
    BY <1>1, <1>2, <1>5, <2>1, FoodsAre
<1>6. ASSUME NEW s \in Students, student[s] = "at_counter" PROVE \A f \in Foods : c_room[f] > 0
  <2>1. StudentsAt(Students, {"at_counter"}) # 0
    <3>1. {t \in Students : student[t] \in {"at_counter"}} # {}
      BY <1>6
    <3>2. IsFiniteSet({t \in Students : student[t] \in {"at_counter"}})
      BY StudentsAssumption, FS_Union, FS_Subset DEF Students
    <3> QED
      BY <3>1, <3>2, FS_EmptySet DEF StudentsAt
  <2>2. Outstanding >= 1
    BY <2>1, Permits, CountsAreNat DEF Inv
  <2> QED
    BY <1>1, <1>3, <2>2
<1>7. CounterServesAll
  BY <1>1, <1>2, FoodsAre DEF CounterServesAll
<1> QED
  BY <1>4, <1>5, <1>6, <1>7 DEF SlotsFound

\* In the kitchen, at the counter and in the line, what the semaphores promise
\* is there, for any number of cooks, students, rounds and places.
THEOREM TokensAlwaysHold == Spec => []TokensHold
<1>1. Inv => TokensHold
  BY DEF Inv
<1> QED
  BY <1>1, InitInv, StepInv, PTL DEF Spec

\* Whoever was let into a room finds the free slot or the plate there: next
\* never returns -1 and the assertion of get_food holds.
THEOREM SlotsAlwaysFound == Spec => []SlotsFound
<1>1. Inv => SlotsFound
  BY SlotsThere
<1> QED
  BY <1>1, InitInv, StepInv, PTL DEF Spec

\* A full counter has a plate of each kind, as long as it has three places.
THEOREM FullCounterServes == Spec => []CounterServesAll
<1>1. Inv => CounterServesAll
  BY SlotsThere
<1> QED
  BY <1>1, InitInv, StepInv, PTL DEF Spec

\* No plate is lost or doubled between the file and the students.
THEOREM NoPlateLost == Spec => []PlatesConserved
<1>1. Inv => PlatesConserved
  BY DEF Inv
<1> QED
  BY <1>1, InitInv, StepInv, PTL DEF Spec

-----------------------------------------------------------------------------
(* The kitchen of homework 4 hands over one delivery at a time, whatever   *)
(* the ingredients and however many rows there are.                        *)

\* What lies in the store at each point of a delivery.
Shelf ==
    /\ wholesaler = "post" => store = sem_index
    /\ wholesaler = "wait" /\ Announced => store = sem_index
    /\ ~finished => \A c \in Chefs : chef[c] = "recheck" => store = c
    /\ \A c \in Chefs : chef[c] = "prepare" => store = EMPTY
    /\ dessert > 0 => store = EMPTY

Phase == finished <=> wholesaler \in {"signal", "join", "done"}

GullacInv ==
    /\ GullacTypeOK /\ Phase /\ Shelf
    /\ OneDelivery /\ NothingLeft /\ TakesOwn

\* A pair within a pair is the pair.
LEMMA PairInPair ==
    ASSUME NEW c \in Chefs, NEW d \in Chefs, c \subseteq d
    PROVE  c = d
  BY DEF Chefs

LEMMA PairNotEmpty ==
    ASSUME NEW c \in Chefs
    PROVE  c # {} /\ c \subseteq Ingredients
  BY DEF Chefs

LEMMA OthersType ==
    ASSUME NEW i \in Ingredients
    PROVE  Others(i) \in Nat
  BY IngredientsAssumption, FS_Subset, FS_CardinalityType, Ingredients \ {i} \subseteq Ingredients
     DEF Others

\* The semaphores say that something is announced, or nothing, never both.
LEMMA AnnouncedNotEmpty ==
    ASSUME GullacTypeOK, Announced PROVE ~Empty
<1>1. PICK i \in Ingredients : i \in sem_index
  BY PairNotEmpty DEF GullacTypeOK
<1> QED
  BY <1>1 DEF Announced, Empty

LEMMA GullacInitially == GullacInit => GullacInv
<1> SUFFICES ASSUME GullacInit PROVE GullacInv
  OBVIOUS
<1>1. GullacTypeOK
  BY RowsAssumption DEF GullacInit, GullacTypeOK
<1>2. Empty /\ AtWork = {}
  BY DEF GullacInit, Empty, AtWork
<1> QED
  BY <1>1, <1>2 DEF GullacInit, GullacInv, Phase, OneDelivery, NothingLeft, TakesOwn, Shelf

\* A chef is let in by the announcement of its own pair only, and then uses it
\* up.
LEMMA LetIn ==
    ASSUME GullacInv, ~finished, NEW c \in Chefs, WaitIngredients(c)
    PROVE  /\ wholesaler = "wait" /\ Announced /\ c = sem_index
           /\ AtWork = {} /\ dessert = 0 /\ store = c
           /\ Empty'
<1>1. ~Empty
  <2>1. PICK i \in c : i \in Ingredients /\ sem_ingred[i] > 0
    BY PairNotEmpty DEF WaitIngredients
  <2> QED
    BY <2>1 DEF Empty
<1>2. wholesaler = "wait" /\ Announced /\ AtWork = {} /\ dessert = 0
  BY <1>1 DEF GullacInv, NothingLeft, OneDelivery
<1>3. c = sem_index
  <2>1. \A i \in c : i \in sem_index
    BY <1>2, PairNotEmpty DEF WaitIngredients, Announced
  <2> QED
    BY <2>1, PairInPair DEF GullacInv, GullacTypeOK
<1>4. Empty'
  BY <1>2, <1>3 DEF WaitIngredients, Announced, Empty
<1> QED
  BY <1>2, <1>3, <1>4 DEF GullacInv, Shelf

LEMMA GullacTypes == GullacTypeOK /\ [GullacNext]_gullacVars => GullacTypeOK'
<1> SUFFICES ASSUME GullacTypeOK, [GullacNext]_gullacVars PROVE GullacTypeOK'
  OBVIOUS
<1> USE DEF GullacTypeOK, file
<1>1. CASE UNCHANGED gullacVars
  BY <1>1 DEF gullacVars
<1>2. CASE NextSupply
  BY <1>2 DEF NextSupply, Readable, WholesalerGoto
<1>3. CASE DeliverSupply
  BY <1>3 DEF DeliverSupply, WholesalerGoto
<1>4. CASE PostIngredients
  BY <1>4 DEF PostIngredients, Posted, WholesalerGoto
<1>5. CASE WaitDessert
  BY <1>5 DEF WaitDessert, WholesalerGoto
<1>6. CASE Finish
  BY <1>6 DEF Finish, WholesalerGoto
<1>7. CASE SignalFinish
  BY <1>7 DEF SignalFinish, Posted, WholesalerGoto
<1>8. CASE Join
  BY <1>8 DEF Join, WholesalerGoto
<1>9. ASSUME NEW c \in Chefs, NEW label, ExitFrom(c, label) PROVE GullacTypeOK'
  BY <1>9, OthersType DEF ExitFrom, ChefGoto
<1>10. ASSUME NEW c \in Chefs, Check(c) PROVE GullacTypeOK'
  BY <1>10 DEF Check, ChefGoto
<1>11. ASSUME NEW c \in Chefs, WaitIngredients(c) PROVE GullacTypeOK'
  BY <1>11 DEF WaitIngredients, ChefGoto
<1>12. ASSUME NEW c \in Chefs, Recheck(c) PROVE GullacTypeOK'
  BY <1>12 DEF Recheck, ChefGoto
<1>13. ASSUME NEW c \in Chefs, TakeDelivery(c) PROVE GullacTypeOK'
  BY <1>13 DEF TakeDelivery, ChefGoto
<1>14. ASSUME NEW c \in Chefs, PrepareDessert(c) PROVE GullacTypeOK'
  BY <1>14 DEF PrepareDessert, ChefGoto
<1> QED
  BY <1>1, <1>2, <1>3, <1>4, <1>5, <1>6, <1>7, <1>8, <1>9, <1>10, <1>11, <1>12, <1>13, <1>14
     DEF GullacNext, Wholesaler, Chef, Exit

\* The dessert, the store and the announcement follow the wholesaler.
LEMMA WholesalerStep == GullacInv /\ GullacTypeOK' /\ Wholesaler => GullacInv'
<1> SUFFICES ASSUME GullacInv, GullacTypeOK', Wholesaler PROVE GullacInv'
  BY DEF GullacInv
<1> USE DEF GullacInv, Phase, OneDelivery, NothingLeft, TakesOwn, Shelf, WholesalerGoto, file
<1>0. (chef' = chef => AtWork' = AtWork) /\ (sem_ingred' = sem_ingred => (Empty' <=> Empty))
  BY DEF AtWork, Empty
<1>1. CASE NextSupply
  BY <1>0, <1>1 DEF NextSupply, GullacTypeOK
<1>2. CASE DeliverSupply
  <2>1. \A c \in Chefs : chef[c] \notin {"recheck", "take", "prepare"}
    BY <1>2 DEF DeliverSupply, AtWork
  <2> QED
    BY <1>0, <1>2, <2>1 DEF DeliverSupply, GullacTypeOK
<1>3. CASE PostIngredients
  <2>1. Announced'
    BY <1>3 DEF PostIngredients, Posted, Announced, Empty
  <2> QED
    BY <1>0, <1>3, <2>1 DEF PostIngredients, GullacTypeOK
<1>4. CASE WaitDessert
  <2>1. Empty /\ AtWork = {} /\ dessert = 1 /\ store = EMPTY
    BY <1>4 DEF WaitDessert
  <2> QED
    BY <1>0, <1>4, <2>1 DEF WaitDessert, GullacTypeOK
<1>5. CASE Finish
  <2>1. \A c \in Chefs : chef[c] \notin {"recheck", "take", "prepare"}
    BY <1>5 DEF Finish, AtWork
  <2> QED
    BY <1>5, <2>1 DEF Finish, GullacTypeOK
<1>6. CASE SignalFinish
  BY <1>6 DEF SignalFinish, GullacTypeOK
<1>7. CASE Join
  BY <1>7 DEF Join, GullacTypeOK
<1> QED
  BY <1>1, <1>2, <1>3, <1>4, <1>5, <1>6, <1>7 DEF Wholesaler

\* At most one chef is at work, and it is the one the delivery is for.
LEMMA ChefStep ==
    ASSUME GullacInv, GullacTypeOK', NEW c \in Chefs, Chef(c)
    PROVE  GullacInv'
<1> USE DEF GullacInv, Phase, OneDelivery, NothingLeft, TakesOwn, Shelf, ChefGoto, file
<1>0. sem_ingred' = sem_ingred /\ sem_index' = sem_index => (Empty' <=> Empty) /\ (Announced' <=> Announced)
  BY DEF Empty, Announced
<1>1. ASSUME NEW label, ExitFrom(c, label) PROVE GullacInv'
  BY <1>1 DEF ExitFrom, GullacTypeOK
<1>2. CASE Check(c)
  <2>1. AtWork' = AtWork
    BY <1>2 DEF Check, AtWork, GullacTypeOK
  <2> QED
    BY <1>0, <1>2, <2>1 DEF Check, GullacTypeOK
<1>3. CASE WaitIngredients(c)
  <2>1. CASE finished
    BY <1>3, <2>1 DEF WaitIngredients, GullacTypeOK
  <2>2. CASE ~finished
    <3>1. /\ wholesaler = "wait" /\ Announced /\ c = sem_index /\ AtWork = {}
          /\ dessert = 0 /\ store = c /\ Empty'
      BY <1>3, <2>2, LetIn
    <3>2. AtWork' = {c}
      BY <1>3, <3>1 DEF WaitIngredients, AtWork, GullacTypeOK
    <3>3. PICK i \in Ingredients : i \in sem_index
      BY <3>1, PairNotEmpty
    <3>4. sem_ingred'[i] = 0 /\ sem_index' = sem_index
      BY <1>3, <3>1 DEF WaitIngredients, Empty
    <3>5. ~Announced'
      BY <3>3, <3>4 DEF Announced
    <3> QED
      BY <1>3, <2>2, <3>1, <3>2, <3>5 DEF WaitIngredients, GullacTypeOK, AtWork
  <2> QED
    BY <2>1, <2>2
<1>4. ASSUME c \in AtWork, ~finished
      PROVE  wholesaler = "wait" /\ Empty /\ ~Announced /\ AtWork = {c} /\ c = sem_index /\ dessert = 0
  BY <1>4, AnnouncedNotEmpty
<1>5. CASE Recheck(c)
  <2>1. c \in AtWork /\ AtWork' = AtWork
    BY <1>5 DEF Recheck, AtWork, GullacTypeOK
  <2> QED
    BY <1>0, <1>4, <1>5, <2>1 DEF Recheck, GullacTypeOK
<1>6. CASE TakeDelivery(c)
  <2>1. c \in AtWork /\ AtWork' = AtWork
    BY <1>6 DEF TakeDelivery, AtWork, GullacTypeOK
  <2>2. ~finished
    BY <1>6 DEF TakeDelivery
  <2>3. \A d \in Chefs : d # c => chef[d] \notin {"recheck", "take", "prepare"}
    BY <1>4, <2>1, <2>2 DEF AtWork
  <2> QED
    BY <1>0, <1>4, <1>6, <2>1, <2>2, <2>3 DEF TakeDelivery, GullacTypeOK
<1>7. CASE PrepareDessert(c)
  <2>1. c \in AtWork /\ AtWork' = AtWork \ {c}
    BY <1>7 DEF PrepareDessert, AtWork, GullacTypeOK
  <2>2. ~finished
    BY <1>7 DEF PrepareDessert
  <2> QED
    BY <1>0, <1>4, <1>7, <2>1, <2>2 DEF PrepareDessert, GullacTypeOK
<1> QED
  BY <1>1, <1>2, <1>3, <1>5, <1>6, <1>7 DEF Chef, Exit

LEMMA GullacInvariance == GullacSpec => []GullacInv
<1>1. GullacInit => GullacInv
  BY GullacInitially
<1>2. GullacInv /\ [GullacNext]_gullacVars => GullacInv'
  <2> SUFFICES ASSUME GullacInv, [GullacNext]_gullacVars PROVE GullacInv'
    OBVIOUS
  <2>1. GullacTypeOK'
    BY GullacTypes DEF GullacInv
  <2>2. CASE UNCHANGED gullacVars
    BY <2>2 DEF gullacVars, file, GullacInv, GullacTypeOK, Phase, OneDelivery, NothingLeft, TakesOwn, Shelf,
                Announced, Empty, AtWork
  <2>3. CASE Wholesaler
    BY <2>1, <2>3, WholesalerStep DEF GullacInv
  <2>4. CASE \E c \in Chefs : Chef(c)
    BY <2>1, <2>4, ChefStep
  <2> QED
    BY <2>2, <2>3, <2>4 DEF GullacNext
<1> QED
  BY <1>1, <1>2, PTL DEF GullacSpec

\* A chef that goes to the store finds the pair it lacks.
THEOREM ChefTakesOwn == GullacSpec => []TakesOwn
<1>1. GullacInv => TakesOwn
  BY DEF GullacInv
<1> QED
  BY <1>1, GullacInvariance, PTL

\* A delivery that is waited for is announced, in the hands of the chef it is
\* for, or a dessert, and only one of these.
THEOREM DeliveryIsOne == GullacSpec => []OneDelivery
<1>1. GullacInv => OneDelivery
  BY DEF GullacInv
<1> QED
  BY <1>1, GullacInvariance, PTL

\* Nothing is left of a delivery that has been paid for with a dessert.
THEOREM NothingIsLeft == GullacSpec => []NothingLeft
<1>1. GullacInv => NothingLeft
  BY DEF GullacInv
<1> QED
  BY <1>1, GullacInvariance, PTL
=============================================================================
