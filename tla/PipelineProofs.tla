--------------------------- MODULE PipelineProofs ---------------------------
(***************************************************************************)
(* The two processes of homework-2 and their file, for any number of lines *)
(* of any length and any signals from outside: what the signals of P1 do   *)
(* to P2; that the file, a sequence of characters that both move a cursor  *)
(* over, is a queue of lines; that the reports come in the order of the    *)
(* lines; and that P2 does not sleep while a line waits for it.            *)
(***************************************************************************)
EXTENDS Pipeline, SequenceTheorems, FiniteSetTheorems, TLAPS

-----------------------------------------------------------------------------
(* Induction over the naturals, without an operator as its parameter.      *)

\* A set of naturals that is not empty has a least element.
LEMMA Least ==
    ASSUME NEW S \in SUBSET Nat, S # {}
    PROVE  \E m \in S : \A k \in S : m <= k
<1>1. PICK R : R = OpToRel(<, Nat)
  OBVIOUS
<1>2. R = {ss \in Nat \X Nat : ss[1] < ss[2]}
  BY <1>1, Zenon DEF OpToRel
<1>3. IsWellFoundedOn(R, Nat)
  BY <1>1, NatLessThanWellFounded, Zenon
<1>4. PICK m \in S : \A k \in S : ~ (<<k, m>> \in R)
  BY <1>3, WFMin
<1>5. ASSUME NEW k \in S, k < m PROVE FALSE
  <2>1. <<k, m>> \in R
    BY <1>2, <1>5
  <2> QED
    BY <1>4, <2>1
<1> QED
  BY <1>5

\* So that what holds for 0 and passes from n to n + 1 holds for all naturals.
LEMMA Induction ==
    ASSUME NEW Good, 0 \in Good, \A n \in Nat : n \in Good => n + 1 \in Good
    PROVE  \A n \in Nat : n \in Good
<1> DEFINE Bad == {n \in Nat : n \notin Good}
<1>1. CASE Bad # {}
  <2>1. PICK m \in Bad : \A k \in Bad : m <= k
    <3>1. Bad \in SUBSET Nat
      OBVIOUS
    <3> HIDE DEF Bad
    <3> QED
      BY <1>1, <3>1, Least
  <2>2. m \in Nat /\ m # 0 /\ m \notin Good
    BY <2>1
  <2>3. m - 1 \in Nat /\ m - 1 \notin Bad
    BY <2>1, <2>2
  <2> QED
    BY <2>2, <2>3
<1> QED
  BY <1>1

Ending1 == {"wait", "exited", "terminated", "killed"}
Done1 == line = Lines /\ p1 \in Ending1

\* Where SIGUSR1 and the signals from outside are.
SignalInv ==
    /\ pending \in [{"P1", "P2"} -> SUBSET {"INT", "TERM", "USR1", "USR2"}]
    /\ P1_finished \in BOOLEAN
    /\ "USR1" \in pending["P2"] => Done1
    /\ P1_finished => Done1
    /\ p2 \in {"finish", "exited"} => P1_finished
    /\ outside \subseteq Outside
    /\ \A s \in {"INT", "TERM"} : s \in pending["P2"] => <<"P2", s>> \in Outside \ outside
    /\ OnlyOutsideKills

LEMMA SignalInit == Init => SignalInv
<1> SUFFICES ASSUME Init PROVE SignalInv
  OBVIOUS
<1>1. ~P1_finished /\ P1_finished \in BOOLEAN
  BY Zenon DEF Init
<1>2. /\ pending = [p \in {"P1", "P2"} |-> {}]
      /\ p2 = "start" /\ outside = Outside
  BY DEF Init
<1> QED
  BY <1>1, <1>2 DEF SignalInv, OnlyOutsideKills

LEMMA SignalP1 == SignalInv /\ P1 => SignalInv'
<1> SUFFICES ASSUME SignalInv, P1 PROVE SignalInv'
  OBVIOUS
<1>1. UNCHANGED <<p2, P1_finished, outside>>
  BY DEF P1, Start1, read20bytes, Register, BlockInt, LineEquation, Unregister, write10points,
         Wake, Finish1, WaitChild, p2_vars, p2_data
<1>2. Done1 => p1 = "wait"
  BY DEF P1, Start1, read20bytes, Register, BlockInt, LineEquation, Unregister, write10points,
         Wake, Finish1, WaitChild, Goto1, Done1, Ending1
<1>3. CASE Finish1
  BY <1>1, <1>3 DEF Finish1, Goto1, Sent, SignalInv, Done1, Ending1, OnlyOutsideKills
<1>4. CASE Wake
  BY <1>1, <1>2, <1>4 DEF Wake, Goto1, Sent, SignalInv, Done1, Ending1, OnlyOutsideKills
<1>5. CASE LineEquation
  BY <1>1, <1>2, <1>5 DEF LineEquation, Goto1, SignalInv, Done1, Ending1, OnlyOutsideKills
<1>6. CASE WaitChild
  BY <1>1, <1>6 DEF WaitChild, Goto1, SignalInv, Done1, Ending1, OnlyOutsideKills
<1>7. CASE Start1 \/ read20bytes \/ Register \/ BlockInt \/ Unregister \/ write10points
  <2>1. ~Done1 /\ pending' = pending
    BY <1>2, <1>7 DEF Start1, read20bytes, Register, BlockInt, Unregister, write10points, Goto1
  <2> QED
    BY <1>1, <2>1 DEF SignalInv, OnlyOutsideKills
<1> QED
  BY <1>3, <1>4, <1>5, <1>6, <1>7 DEF P1

LEMMA SignalP2 == SignalInv /\ P2 => SignalInv'
<1> SUFFICES ASSUME SignalInv, P2 PROVE SignalInv'
  OBVIOUS
<1>1. UNCHANGED <<P1_finished, pending, p1, line, outside>>
  BY DEF P2, Start2, UnblockUsr1, ReadLine, RemoveLine, CheckFinished, Suspend, BlockInt2,
         Errors, write10points_errors, Finish2, p1_vars, p2_data
<1>2. p2' \in {"finish", "exited"} => P1_finished
  BY DEF P2, Start2, UnblockUsr1, ReadLine, RemoveLine, CheckFinished, Suspend, BlockInt2,
         Errors, write10points_errors, Finish2, Goto2, SignalInv
<1>3. p2' # "killed"
  BY DEF P2, Start2, UnblockUsr1, ReadLine, RemoveLine, CheckFinished, Suspend, BlockInt2,
         Errors, write10points_errors, Finish2, Goto2
<1> QED
  BY <1>1, <1>2, <1>3 DEF SignalInv, Done1, OnlyOutsideKills

LEMMA SignalHandlers == SignalInv /\ (Handlers \/ Arrivals) => SignalInv'
<1> SUFFICES ASSUME SignalInv, Handlers \/ Arrivals PROVE SignalInv'
  OBVIOUS
<1>1. ASSUME NEW s \in {"INT", "TERM"}, HandleSignal1(s) PROVE SignalInv'
  <2>1. UNCHANGED <<p2, P1_finished, line, outside>>
    BY <1>1 DEF HandleSignal1, p2_vars, p2_data
  <2>2. p1 \in Ending1 => p1' \in Ending1
    BY <1>1 DEF HandleSignal1, Ending1
  <2>3. pending' = [pending EXCEPT !["P1"] = @ \ {s}]
    BY <1>1 DEF HandleSignal1
  <2> QED
    BY <2>1, <2>2, <2>3 DEF SignalInv, Done1, OnlyOutsideKills
<1>2. ASSUME NEW s \in {"INT", "TERM", "USR1", "USR2"}, HandleSignal2(s) PROVE SignalInv'
  <2>1. /\ UNCHANGED <<p1, line, outside>>
        /\ s \in pending["P2"]
        /\ pending' = [pending EXCEPT !["P2"] = @ \ {s}]
    BY <1>2 DEF HandleSignal2, p1_vars
  <2>2. P1_finished' = (P1_finished \/ s = "USR1")
    BY <1>2 DEF HandleSignal2
  <2>3. p2' = p2 \/ p2' = "terminated" \/ (p2' = "killed" /\ s \in {"INT", "TERM"})
    BY <1>2 DEF HandleSignal2, Blocked2
  <2>4. p2 # "killed"
    BY <1>2 DEF HandleSignal2, P2Ended
  <2>5. /\ P1_finished' \in BOOLEAN
        /\ P1_finished' => Done1
        /\ P1_finished => P1_finished'
    BY <2>1, <2>2 DEF SignalInv
  <2> QED
    BY <2>1, <2>3, <2>4, <2>5 DEF SignalInv, Done1, OnlyOutsideKills
<1>3. ASSUME NEW signals \in SUBSET {"USR1", "USR2"}, WakeUp(signals) PROVE SignalInv'
  <2>1. /\ UNCHANGED <<p1, line, outside>>
        /\ signals \subseteq pending["P2"]
        /\ pending' = [pending EXCEPT !["P2"] = @ \ signals]
        /\ p2' = "read"
    BY <1>3 DEF WakeUp, p1_vars
  <2>2. P1_finished' = (P1_finished \/ "USR1" \in signals)
    BY <1>3 DEF WakeUp
  <2>3. P1_finished' \in BOOLEAN /\ (P1_finished' => Done1)
    BY <2>1, <2>2 DEF SignalInv
  <2> QED
    BY <2>1, <2>3 DEF SignalInv, Done1, OnlyOutsideKills
<1>4. ASSUME NEW p \in {"P1", "P2"}, NEW s \in {"INT", "TERM"}, FromOutside(p, s) PROVE SignalInv'
  BY <1>4 DEF FromOutside, Sent, SignalInv, Done1, OnlyOutsideKills, p1_vars, p2_vars, p2_data
<1> QED
  BY <1>1, <1>2, <1>3, <1>4 DEF Handlers, Arrivals

LEMMA SignalStep == SignalInv /\ [Next]_vars => SignalInv'
<1>1. SignalInv /\ UNCHANGED vars => SignalInv'
  BY DEF SignalInv, Done1, OnlyOutsideKills, vars, p1_vars, p2_vars, p2_data
<1> QED
  BY <1>1, SignalP1, SignalP2, SignalHandlers, Zenon DEF Next

\* However late P2 is scheduled after the fork, no signal of P1 kills it.
THEOREM P1NeverKills == Spec => []OnlyOutsideKills
<1>1. SignalInv => OnlyOutsideKills
  BY DEF SignalInv
<1> QED
  BY <1>1, SignalInit, SignalStep, PTL DEF Spec

\* P2 ends by itself only after P1 has written its last line.
THEOREM P2Outlasts == Spec => []EndsAfterP1
<1>1. SignalInv => EndsAfterP1
  BY DEF SignalInv, EndsAfterP1, Done1, Ending1
<1> QED
  BY <1>1, SignalInit, SignalStep, PTL DEF Spec


-----------------------------------------------------------------------------
(* Flattening a sequence of lines.                                         *)

\* Concatenation under a name of its own: kept folded, it is a function like
\* any other to the provers.
Joined(s, t) == s \o t

\* The function that FlattenSeq defines by recursion.
flat(ss) ==
    CHOOSE g : g = [i \in 1..Len(ss) |-> IF i = 1 THEN ss[i] ELSE Joined(g[i - 1], ss[i])]

\* The recursive function exists: it can be built one line after the other.
LEMMA FlatRec ==
    ASSUME NEW ss, Len(ss) \in Nat
    PROVE  flat(ss) = [i \in 1..Len(ss) |-> IF i = 1 THEN ss[i] ELSE Joined(flat(ss)[i - 1], ss[i])]
<1> DEFINE IsFlat(g, n) == g = [i \in 1..n |-> IF i = 1 THEN ss[i] ELSE Joined(g[i - 1], ss[i])]
           Good == {n \in Nat : \E g : IsFlat(g, n)}
<1>1. flat(ss) = CHOOSE g : IsFlat(g, Len(ss))
  BY DEF flat
<1>2. 0 \in Good
  <2>1. IsFlat([i \in 1..0 |-> <<>>], 0)
    OBVIOUS
  <2> HIDE DEF IsFlat
  <2> QED
    BY <2>1
<1>3. ASSUME NEW n \in Nat, n \in Good PROVE n + 1 \in Good
  <2>1. PICK g : IsFlat(g, n)
    BY <1>3
  <2> DEFINE l == [i \in 1..n + 1 |-> IF i = 1 THEN ss[i] ELSE Joined(g[i - 1], ss[i])]
  <2>2. \A i \in 1..n : l[i] = g[i]
    BY <1>3, <2>1
  <2>3. \A i \in 1..n + 1 : i # 1 => g[i - 1] = l[i - 1]
    <3>1. \A i \in 1..n + 1 : i # 1 => i - 1 \in 1..n
      BY <1>3
    <3> HIDE DEF l
    <3> QED
      BY <2>2, <3>1
  <2>4. IsFlat(l, n + 1)
    BY <2>3
  <2> HIDE DEF IsFlat, l
  <2> QED
    BY <1>3, <2>4
<1> HIDE DEF IsFlat
<1>4. \A n \in Nat : n \in Good
  <2> HIDE DEF Good
  <2> QED
    BY <1>2, <1>3, Induction
<1>5. IsFlat(flat(ss), Len(ss))
  BY <1>1, <1>4
<1> QED
  BY <1>5 DEF IsFlat

\* One more element comes to the end.
LEMMA FlatAppend ==
    ASSUME NEW n \in Nat, NEW ss, NEW tt, Len(ss) = n + 1, Len(tt) = n, n # 0,
           \A i \in 1..n : tt[i] = ss[i]
    PROVE  FlattenSeq(ss) = FlattenSeq(tt) \o ss[n + 1]
<1> DEFINE g == flat(ss)
           h == flat(tt)
           Good == {k \in Nat : k \in 1..n => g[k] = h[k]}
<1>1. /\ g = [i \in 1..n + 1 |-> IF i = 1 THEN ss[i] ELSE Joined(g[i - 1], ss[i])]
      /\ h = [i \in 1..n |-> IF i = 1 THEN tt[i] ELSE Joined(h[i - 1], tt[i])]
  <2>1. Len(ss) \in Nat /\ Len(tt) \in Nat
    OBVIOUS
  <2>2. /\ g = [i \in 1..Len(ss) |-> IF i = 1 THEN ss[i] ELSE Joined(g[i - 1], ss[i])]
        /\ h = [i \in 1..Len(tt) |-> IF i = 1 THEN tt[i] ELSE Joined(h[i - 1], tt[i])]
    BY <2>1, FlatRec
  <2> HIDE DEF g, h
  <2> QED
    BY <2>2
<1>2. FlattenSeq(ss) = g[n + 1] /\ FlattenSeq(tt) = h[n]
  <2>1. FlattenSeq(ss) = g[Len(ss)] /\ FlattenSeq(tt) = h[Len(tt)]
    BY DEF FlattenSeq, flat, Joined
  <2> HIDE DEF g, h
  <2> QED
    BY <2>1
<1> HIDE DEF g, h
<1>3. 0 \in Good
  OBVIOUS
<1>4. ASSUME NEW k \in Nat, k \in Good PROVE k + 1 \in Good
  <2>1. CASE k + 1 \in 1..n /\ k # 0
    <3>1. k \in 1..n /\ g[k] = h[k]
      BY <1>4, <2>1
    <3>2. g[k + 1] = Joined(g[k], ss[k + 1]) /\ h[k + 1] = Joined(h[k], tt[k + 1])
      BY <1>1, <1>4, <2>1
    <3> QED
      BY <1>4, <2>1, <3>1, <3>2
  <2>2. CASE k + 1 \in 1..n /\ k = 0
    <3>1. g[1] = ss[1] /\ h[1] = tt[1]
      BY <1>1, <2>2
    <3> QED
      BY <1>4, <2>2, <3>1
  <2>3. CASE k + 1 \notin 1..n
    BY <1>4, <2>3
  <2> QED
    BY <2>1, <2>2, <2>3
<1>5. n \in Good
  <2> HIDE DEF Good
  <2> QED
    BY <1>3, <1>4, Induction
<1>6. g[n] = h[n]
  BY <1>5
<1>7. g[n + 1] = Joined(g[n], ss[n + 1])
  BY <1>1
<1> QED
  BY <1>2, <1>6, <1>7 DEF Joined

LEMMA FlatOne ==
    ASSUME NEW ss, Len(ss) = 1
    PROVE  FlattenSeq(ss) = ss[1]
<1>1. flat(ss) = [i \in 1..1 |-> IF i = 1 THEN ss[i] ELSE Joined(flat(ss)[i - 1], ss[i])]
  <2>1. Len(ss) \in Nat
    OBVIOUS
  <2>2. flat(ss) = [i \in 1..Len(ss) |-> IF i = 1 THEN ss[i] ELSE Joined(flat(ss)[i - 1], ss[i])]
    BY <2>1, FlatRec
  <2> HIDE DEF flat
  <2> QED
    BY <2>2
<1>2. FlattenSeq(ss) = flat(ss)[Len(ss)]
  BY DEF FlattenSeq, flat, Joined
<1> QED
  BY <1>1, <1>2


-----------------------------------------------------------------------------
(* The lines from a to b, one after the other.                             *)

Chars == [of : 0..Lines, char : {"space", "newline", "digit"}]
Run(a, b) == FlattenSeq(Texts(a, b))

LEMMA TextIs ==
    ASSUME NEW i \in 1..Lines
    PROVE  /\ Text(i) \in Seq(Chars) /\ Len(Text(i)) = Length[i]
           /\ Length[i] \in Nat /\ Length[i] >= 2
           /\ Text(i)[1].char = "digit" /\ Text(i)[Length[i]].char = "newline"
           /\ \A j \in 1..Length[i] : /\ Text(i)[j].char = "newline" => j = Length[i]
                                      /\ Text(i)[j].char = "space" => j = 2 /\ j < Length[i]
<1> DEFINE L == Length[i]
<1>1. L \in Nat /\ L >= 2 /\ i \in 0..Lines
  BY LinesAssumption
<1>2. ASSUME NEW j \in 1..L
      PROVE  /\ Text(i)[j] \in Chars
             /\ Text(i)[j].char = "newline" <=> j = L
             /\ Text(i)[j].char = "space" <=> j = 2 /\ j < L
             /\ j # 2 /\ j # L => Text(i)[j].char = "digit"
  <2>1. CASE j = L
    <3>1. Text(i)[j] = [of |-> i, char |-> "newline"]
      BY <2>1 DEF Text
    <3> QED
      BY <1>1, <2>1, <3>1 DEF Chars
  <2>2. CASE j # L /\ j = 2
    <3>1. Text(i)[j] = [of |-> i, char |-> "space"]
      BY <1>1, <2>2 DEF Text
    <3> QED
      BY <1>1, <2>2, <3>1 DEF Chars
  <2>3. CASE j # L /\ j # 2
    <3>1. Text(i)[j] = [of |-> i, char |-> "digit"]
      BY <2>3 DEF Text
    <3> QED
      BY <1>1, <2>3, <3>1 DEF Chars
  <2> QED
    BY <2>1, <2>2, <2>3
<1>3. Text(i) = [j \in 1..L |-> Text(i)[j]]
  BY DEF Text
<1> HIDE DEF L
<1>4. Text(i) \in Seq(Chars) /\ Len(Text(i)) = L
  <2>1. Text(i) \in [1..L -> Chars]
    BY <1>2, <1>3
  <2> QED
    BY <1>1, <2>1
<1>5. 1 \in 1..L /\ L \in 1..L /\ 1 # L
  BY <1>1
<1> QED
  BY <1>1, <1>2, <1>4, <1>5 DEF L

LEMMA RunEmpty ==
    ASSUME NEW a \in Nat, NEW b \in Nat, a = b + 1
    PROVE  Run(a, b) = <<>>
<1>1. Texts(a, b) = <<>>
  BY DEF Texts
<1>2. Len(<<>>) = 0
  OBVIOUS
<1> QED
  BY <1>1, <1>2 DEF Run, FlattenSeq

LEMMA RunAppend ==
    ASSUME NEW a \in Nat \ {0}, NEW b \in Nat, a <= b + 1, b + 1 <= Lines
    PROVE  Run(a, b + 1) = Run(a, b) \o Text(b + 1)
<1> DEFINE n == b + 1 - a
<1>1. n \in Nat
  OBVIOUS
<1>2. /\ Len(Texts(a, b + 1)) = n + 1 /\ Len(Texts(a, b)) = n
      /\ Texts(a, b + 1)[n + 1] = Text(b + 1)
      /\ \A i \in 1..n : Texts(a, b)[i] = Texts(a, b + 1)[i]
  BY DEF Texts
<1>3. CASE n = 0
  <2>1. Run(a, b) = <<>>
    BY <1>3, RunEmpty
  <2>2. Run(a, b + 1) = Text(b + 1)
    <3>1. Len(Texts(a, b + 1)) = 1 /\ Texts(a, b + 1)[1] = Text(b + 1)
      <4> HIDE DEF n
      <4> QED
        BY <1>2, <1>3
    <3> QED
      BY <3>1, FlatOne DEF Run
  <2>3. Text(b + 1) \in Seq(Chars)
    BY LinesAssumption, TextIs
  <2> QED
    BY <2>1, <2>2, <2>3, ConcatEmptySeq
<1>4. CASE n # 0
  <2> HIDE DEF n
  <2> QED
    BY <1>1, <1>2, <1>4, FlatAppend DEF Run
<1> QED
  BY <1>3, <1>4

\* What the scans rely on: a line starts with a digit and ends with a newline,
\* and no two spaces follow each other.
Well(q) ==
    /\ q \in Seq(Chars)
    /\ q # <<>> => q[1].char = "digit" /\ q[Len(q)].char = "newline"
    /\ \A k \in 1..Len(q) :
         /\ q[k].char = "space" => k # Len(q) /\ q[k + 1].char # "space"
         /\ q[k].char = "newline" /\ k # Len(q) => q[k + 1].char # "space"

LEMMA WellAppend ==
    ASSUME NEW q, Well(q), NEW i \in 1..Lines
    PROVE  Well(q \o Text(i))
<1> DEFINE t == Text(i)
           r == q \o t
           L == Length[i]
<1>1. q \in Seq(Chars) /\ Len(q) \in Nat
  BY DEF Well
<1>0. t \in Seq(Chars)
  BY TextIs
<1>2. /\ Len(t) = L /\ L \in Nat /\ L >= 2
      /\ t[1].char = "digit" /\ t[L].char = "newline"
      /\ \A j \in 1..L : /\ t[j].char = "newline" => j = L
                         /\ t[j].char = "space" => j = 2 /\ j < L
  BY TextIs
<1> HIDE DEF t, L
<1>3. /\ r \in Seq(Chars) /\ Len(r) = Len(q) + L
      /\ \A k \in 1..Len(q) + L : r[k] = IF k <= Len(q) THEN q[k] ELSE t[k - Len(q)]
  <2>1. /\ r \in Seq(Chars) /\ Len(r) = Len(q) + Len(t)
        /\ \A k \in 1..Len(q) + Len(t) : r[k] = IF k <= Len(q) THEN q[k] ELSE t[k - Len(q)]
    BY ONLY <1>0, <1>1, ConcatProperties
  <2> QED
    BY <1>2, <2>1
<1> HIDE DEF r
<1>4. \A k \in 1..Len(q) : r[k] = q[k]
  BY <1>1, <1>2, <1>3
<1>5. \A j \in 1..L : r[Len(q) + j] = t[j]
  <2> TAKE j \in 1..L
  <2>1. Len(q) + j \in 1..Len(q) + L /\ ~(Len(q) + j <= Len(q)) /\ (Len(q) + j) - Len(q) = j
    BY <1>1, <1>2
  <2> QED
    BY <1>3, <2>1
<1>6. r[1].char = "digit" /\ r[Len(r)].char = "newline" /\ r # <<>>
  <2>1. r[Len(q) + L].char = "newline" /\ r[Len(q) + 1].char = "digit"
    BY <1>2, <1>5
  <2>2. CASE q = <<>>
    <3>1. Len(q) = 0
      BY <2>2
    <3> QED
      BY <1>2, <1>3, <2>1, <3>1
  <2>3. CASE q # <<>>
    <3>1. Len(q) >= 1 /\ q[1].char = "digit"
      BY <1>1, <2>3 DEF Well
    <3>2. r[1] = q[1]
      BY <1>1, <1>4, <3>1
    <3> QED
      BY <1>1, <1>2, <1>3, <2>1, <3>1, <3>2
  <2> QED
    BY <2>2, <2>3
<1>7. ASSUME NEW k \in 1..Len(r)
      PROVE  /\ r[k].char = "space" => k # Len(r) /\ r[k + 1].char # "space"
             /\ r[k].char = "newline" /\ k # Len(r) => r[k + 1].char # "space"
  <2>1. CASE k \in 1..Len(q) /\ k # Len(q)
    <3>1. k + 1 \in 1..Len(q) /\ k # Len(r)
      BY <1>1, <1>2, <1>3, <2>1
    <3>2. r[k] = q[k] /\ r[k + 1] = q[k + 1]
      BY <1>4, <2>1, <3>1
    <3> QED
      BY <2>1, <3>1, <3>2 DEF Well
  <2>2. CASE k = Len(q)
    <3>1. r[k + 1].char = "digit" /\ k # Len(r)
      BY <1>1, <1>2, <1>3, <1>5, <2>2
    <3> QED
      BY <3>1
  <2>3. CASE k > Len(q)
    <3>1. PICK j \in 1..L : k = Len(q) + j
      <4>1. k - Len(q) \in 1..L /\ k = Len(q) + (k - Len(q))
        BY <1>1, <1>2, <1>3, <2>3
      <4> QED
        BY <4>1
    <3>2. r[k] = t[j]
      BY <1>5, <3>1
    <3>3. CASE j = L
      BY <1>2, <1>3, <3>1, <3>2, <3>3
    <3>4. CASE j # L
      <4>1. j + 1 \in 1..L /\ k + 1 = Len(q) + (j + 1) /\ k # Len(r)
        BY <1>1, <1>2, <1>3, <3>1, <3>4
      <4>2. r[k + 1] = t[j + 1]
        BY <1>5, <4>1
      <4> QED
        BY <1>2, <3>2, <3>4, <4>1, <4>2
    <3> QED
      BY <3>3, <3>4
  <2> QED
    BY <1>1, <1>2, <1>3, <2>1, <2>2, <2>3
<1>8. Well(r)
  BY <1>3, <1>6, <1>7 DEF Well
<1> QED
  BY <1>8 DEF r, t

LEMMA RunWell ==
    ASSUME NEW a \in Nat \ {0}, NEW b \in Nat, a <= b + 1, b <= Lines
    PROVE  Well(Run(a, b))
<1> DEFINE Good == {n \in Nat : a - 1 + n <= Lines => Well(Run(a, a - 1 + n))}
<1>1. 0 \in Good
  <2>1. a - 1 \in Nat /\ a = (a - 1) + 1 /\ a - 1 + 0 = a - 1
    OBVIOUS
  <2>2. Run(a, a - 1) = <<>>
    BY <2>1, RunEmpty
  <2>3. Well(<<>>)
    BY DEF Well
  <2> QED
    BY <2>1, <2>2, <2>3
<1>2. ASSUME NEW n \in Nat, n \in Good PROVE n + 1 \in Good
  <2>1. CASE a - 1 + (n + 1) <= Lines
    <3> DEFINE c == a - 1 + n
    <3>1. c \in Nat /\ c + 1 = a - 1 + (n + 1) /\ c + 1 \in 1..Lines /\ a <= c + 1 /\ c <= Lines /\ c + 1 <= Lines
      BY <1>2, <2>1, LinesAssumption
    <3>2. Well(Run(a, c))
      BY <1>2, <3>1
    <3> HIDE DEF c
    <3>3. Run(a, c + 1) = Run(a, c) \o Text(c + 1)
      BY ONLY <3>1, RunAppend, a \in Nat \ {0}
    <3>4. Well(Run(a, c + 1))
      BY <3>1, <3>2, <3>3, WellAppend
    <3> QED
      BY <1>2, <3>1, <3>4
  <2>2. CASE ~(a - 1 + (n + 1) <= Lines)
    BY <1>2, <2>2
  <2> QED
    BY <2>1, <2>2
<1>3. \A n \in Nat : n \in Good
  <2> HIDE DEF Good
  <2> QED
    BY <1>1, <1>2, Induction
<1>4. b + 1 - a \in Nat /\ a - 1 + (b + 1 - a) = b
  OBVIOUS
<1> QED
  BY <1>3, <1>4

\* The first line comes off.
LEMMA RunHead ==
    ASSUME NEW a \in Nat \ {0}, NEW b \in Nat, a <= b, b <= Lines
    PROVE  Run(a, b) = Text(a) \o Run(a + 1, b)
<1> DEFINE Good == {n \in Nat : a + n <= Lines => Run(a, a + n) = Text(a) \o Run(a + 1, a + n)}
<1>1. Text(a) \in Seq(Chars)
  BY TextIs, LinesAssumption
<1>2. 0 \in Good
  <2>1. a - 1 \in Nat /\ a = (a - 1) + 1 /\ a + 0 = a /\ a + 1 \in Nat /\ a <= Lines
    BY LinesAssumption
  <2>2. Run(a, a - 1) = <<>> /\ Run(a + 1, a) = <<>>
    BY <2>1, RunEmpty
  <2>3. Run(a, (a - 1) + 1) = Run(a, a - 1) \o Text((a - 1) + 1)
    BY <2>1, RunAppend
  <2>4. <<>> \o Text(a) = Text(a) \o <<>>
    BY <1>1, ConcatEmptySeq
  <2> QED
    BY <2>1, <2>2, <2>3, <2>4
<1>3. ASSUME NEW n \in Nat, n \in Good PROVE n + 1 \in Good
  <2>1. CASE a + (n + 1) <= Lines
    <3> DEFINE c == a + n
    <3>1. /\ c \in Nat /\ c + 1 = a + (n + 1) /\ c + 1 \in 1..Lines /\ c + 1 <= Lines
          /\ a <= c + 1 /\ a + 1 <= c + 1 /\ a + 1 \in Nat \ {0} /\ c <= Lines
      BY <1>3, <2>1, LinesAssumption
    <3>2. Run(a, c) = Text(a) \o Run(a + 1, c)
      BY <1>3, <3>1
    <3> HIDE DEF c
    <3>3. Run(a, c + 1) = Run(a, c) \o Text(c + 1) /\ Run(a + 1, c + 1) = Run(a + 1, c) \o Text(c + 1)
      BY <3>1, RunAppend
    <3>4. Text(c + 1) \in Seq(Chars) /\ Run(a + 1, c) \in Seq(Chars)
      BY <3>1, TextIs, RunWell DEF Well
    <3>5. Run(a, c + 1) = Text(a) \o Run(a + 1, c + 1)
      <4>1. (Text(a) \o Run(a + 1, c)) \o Text(c + 1) = Text(a) \o (Run(a + 1, c) \o Text(c + 1))
        BY ONLY <1>1, <3>4, ConcatAssociative
      <4> QED
        BY <3>2, <3>3, <4>1
    <3>6. Run(a, a + (n + 1)) = Text(a) \o Run(a + 1, a + (n + 1))
      BY <3>1, <3>5
    <3> QED
      BY <1>3, <3>6
  <2>2. CASE ~(a + (n + 1) <= Lines)
    BY <1>3, <2>2
  <2> QED
    BY <2>1, <2>2
<1>4. \A n \in Nat : n \in Good
  <2> HIDE DEF Good
  <2> QED
    BY <1>2, <1>3, Induction
<1>5. b - a \in Nat /\ a + (b - a) = b
  OBVIOUS
<1> QED
  BY <1>4, <1>5


-----------------------------------------------------------------------------
(* The scans of the file.                                                  *)

Pads(n) == [j \in 1..n |-> Pad]

\* The file, when its lines are q.
Padded(q, n) == q \o Pads(n)

LEMMA PaddedIs ==
    ASSUME NEW q \in Seq(Chars), NEW n \in Nat
    PROVE  /\ Padded(q, n) \in Seq(Chars) /\ Pads(n) \in Seq(Chars) /\ Len(Pads(n)) = n
           /\ Len(q) \in Nat /\ Len(Padded(q, n)) = Len(q) + n
           /\ \A k \in 1..Len(q) : Padded(q, n)[k] = q[k]
           /\ \A k \in Len(q) + 1..Len(q) + n : Padded(q, n)[k] = Pad
<1>1. Pad \in Chars
  BY LinesAssumption DEF Pad, Chars
<1>2. Pads(n) \in Seq(Chars) /\ Len(Pads(n)) = n /\ \A k \in 1..n : Pads(n)[k] = Pad
  BY <1>1 DEF Pads
<1> DEFINE p == Pads(n)
           f == q \o p
<1>3. p \in Seq(Chars) /\ Len(p) = n /\ \A k \in 1..n : p[k] = Pad
  BY <1>2
<1> HIDE DEF p
<1>4. /\ f \in Seq(Chars) /\ Len(f) = Len(q) + Len(p) /\ Len(q) \in Nat
      /\ \A k \in 1..Len(q) + Len(p) : f[k] = IF k <= Len(q) THEN q[k] ELSE p[k - Len(q)]
  BY <1>3, ConcatProperties
<1> HIDE DEF f
<1>5. \A k \in 1..Len(q) : f[k] = q[k]
  BY <1>3, <1>4
<1>6. \A k \in Len(q) + 1..Len(q) + n : f[k] = Pad
  <2> TAKE k \in Len(q) + 1..Len(q) + n
  <2>1. k \in 1..Len(q) + Len(p) /\ ~(k <= Len(q)) /\ k - Len(q) \in 1..n
    BY <1>3, <1>4
  <2> QED
    BY <1>3, <1>4, <2>1
<1> QED
  BY <1>2, <1>3, <1>4, <1>5, <1>6 DEF Padded, p, f

LEMMA FirstIs ==
    ASSUME NEW S, NEW o \in S, S \subseteq Nat, \A p \in S : o <= p, NEW otherwise
    PROVE  FirstOf(S, otherwise) = o
<1> DEFINE c == CHOOSE m \in S : \A p \in S : m <= p
<1>1. c \in S /\ \A p \in S : c <= p
  OBVIOUS
<1>2. c = o
  <2> HIDE DEF c
  <2>1. c \in Nat /\ o \in Nat /\ c <= o /\ o <= c
    BY <1>1
  <2> QED
    BY <2>1
<1> QED
  BY <1>2 DEF FirstOf

LEMMA FirstNone ==
    ASSUME NEW otherwise
    PROVE  FirstOf({}, otherwise) = otherwise
  BY DEF FirstOf

\* The first place for a new line is the end of the last one.
LEMMA EmptyAt ==
    ASSUME NEW q, Well(q), NEW n \in Nat
    PROVE  next_empty(Padded(q, n)) = Len(q)
<1> DEFINE f == Padded(q, n)
           blank == {o \in Pairs(f) : IsSpace(f, o) /\ (IsSpace(f, o + 1) \/ o + 1 = Len(f))}
           ended == {o + 1 : o \in {p \in Pairs(f) : IsNewline(f, p) /\ IsSpace(f, p + 1)}}
           S == blank \cup ended
<1>1. /\ Len(q) \in Nat /\ Len(f) = Len(q) + n
      /\ \A k \in 1..Len(q) : f[k] = q[k]
      /\ \A k \in Len(q) + 1..Len(q) + n : f[k] = Pad
  BY PaddedIs DEF Well
<1>2. next_empty(f) = FirstOf(S, Len(f))
  BY DEF next_empty
<1> HIDE DEF f
<1>3. \A k \in 1..Len(q) :
         /\ q[k].char = "space" => k # Len(q) /\ q[k + 1].char # "space"
         /\ q[k].char = "newline" /\ k # Len(q) => q[k + 1].char # "space"
  BY DEF Well
<1>4. Pad.char = "space"
  BY DEF Pad
<1>5. ASSUME NEW o \in blank PROVE o \in Nat /\ Len(q) <= o /\ o < Len(f)
  <2>1. o \in Nat /\ o < Len(f) /\ f[o + 1].char = "space"
    BY <1>1, <1>5 DEF Pairs, IsSpace
  <2>2. CASE o < Len(q)
    <3>1. o + 1 \in 1..Len(q) /\ q[o + 1].char = "space"
      BY <1>1, <2>1, <2>2
    <3>2. o + 1 # Len(q) /\ q[o + 1 + 1].char # "space" /\ o + 1 + 1 \in 1..Len(q)
      BY <1>1, <1>3, <3>1
    <3>3. f[o + 1 + 1].char # "space" /\ o + 1 # Len(f)
      BY <1>1, <3>1, <3>2
    <3> QED
      BY <1>5, <3>3 DEF IsSpace
  <2> QED
    BY <1>1, <2>1, <2>2
<1>6. ASSUME NEW e \in ended PROVE e = Len(q) /\ e < Len(f)
  <2>1. PICK o \in Pairs(f) : e = o + 1 /\ IsNewline(f, o) /\ IsSpace(f, o + 1)
    BY <1>6
  <2>2. o \in Nat /\ o + 1 < Len(f) /\ f[o + 1].char = "newline" /\ f[o + 1 + 1].char = "space"
    BY <1>1, <2>1 DEF Pairs, IsNewline, IsSpace
  <2>3. o < Len(q)
    BY <1>1, <1>4, <2>2
  <2>4. o + 1 \in 1..Len(q) /\ q[o + 1].char = "newline"
    BY <1>1, <2>2, <2>3
  <2>5. CASE o + 1 # Len(q)
    <3>1. q[o + 1 + 1].char # "space" /\ o + 1 + 1 \in 1..Len(q)
      BY <1>1, <1>3, <2>4, <2>5
    <3> QED
      BY <1>1, <2>2, <3>1
  <2> QED
    BY <2>1, <2>2, <2>5
<1>7. CASE n = 0
  <2>1. S = {}
    BY <1>1, <1>5, <1>6, <1>7
  <2> HIDE DEF S
  <2> QED
    BY <1>1, <1>2, <1>7, <2>1, FirstNone DEF f
<1>8. CASE n # 0
  <2>1. Len(q) < Len(f) /\ Len(q) + 1 \in Len(q) + 1..Len(q) + n /\ Len(q) \in 0..Len(f)
    BY <1>1, <1>8
  <2>2. IsSpace(f, Len(q))
    BY <1>1, <1>4, <2>1 DEF IsSpace
  <2>3. Len(q) \in S
    <3>1. CASE Len(q) % 2 = 0
      <4>1. Len(q) \in Pairs(f)
        BY <2>1, <3>1 DEF Pairs
      <4>2. IsSpace(f, Len(q) + 1) \/ Len(q) + 1 = Len(f)
        <5>1. CASE Len(q) + 1 < Len(f)
          <6>1. Len(q) + 1 + 1 \in Len(q) + 1..Len(q) + n
            BY <1>1, <5>1
          <6> QED
            BY <1>1, <1>4, <5>1, <6>1 DEF IsSpace
        <5> QED
          BY <1>1, <2>1, <5>1
      <4> QED
        BY <2>2, <4>1, <4>2
    <3>2. CASE Len(q) % 2 # 0
      <4>1. Len(q) >= 1 /\ (Len(q) - 1) % 2 = 0
        BY <1>1, <3>2
      <4>2. PICK o \in Nat : o + 1 = Len(q) /\ o % 2 = 0
        <5>1. Len(q) - 1 \in Nat /\ (Len(q) - 1) + 1 = Len(q)
          BY <1>1, <4>1
        <5> QED
          BY <4>1, <5>1
      <4>3. q[o + 1].char = "newline"
        BY <4>1, <4>2 DEF Well
      <4>4. o \in Pairs(f) /\ IsNewline(f, o)
        BY <1>1, <2>1, <4>2, <4>3 DEF Pairs, IsNewline
      <4> QED
        BY <2>2, <4>2, <4>4
    <3> QED
      BY <3>1, <3>2
  <2>4. S \subseteq Nat /\ \A p \in S : Len(q) <= p
    BY <1>1, <1>5, <1>6
  <2> HIDE DEF S
  <2> QED
    BY <1>2, <2>3, <2>4, FirstIs DEF f
<1> QED
  BY <1>7, <1>8

\* The first character that is not a space is the first of the first line.
LEMMA AvailableAt ==
    ASSUME NEW q, Well(q), NEW n \in Nat
    PROVE  /\ q # <<>> => next_available(Padded(q, n)) = 0
           /\ q = <<>> => next_available(Padded(q, n)) = Len(Padded(q, n))
<1> DEFINE f == Padded(q, n)
           S == {o \in Pairs(f) : ~IsSpace(f, o)}
<1>1. /\ q \in Seq(Chars) /\ Len(q) \in Nat /\ Len(f) = Len(q) + n
      /\ \A k \in 1..Len(q) : f[k] = q[k]
      /\ \A k \in Len(q) + 1..Len(q) + n : f[k] = Pad
  BY PaddedIs DEF Well
<1>2. next_available(f) = FirstOf(S, Len(f))
  BY DEF next_available
<1> HIDE DEF f
<1>3. CASE q # <<>>
  <2>1. Len(q) >= 1 /\ q[1].char = "digit"
    BY <1>1, <1>3 DEF Well
  <2>2. 0 \in Pairs(f) /\ ~IsSpace(f, 0)
    BY <1>1, <2>1 DEF Pairs, IsSpace
  <2>3. 0 \in S /\ S \subseteq Nat /\ \A p \in S : 0 <= p
    BY <1>1, <2>2 DEF Pairs
  <2> HIDE DEF S
  <2> QED
    BY <1>2, <1>3, <2>3, FirstIs DEF f
<1>4. CASE q = <<>>
  <2>1. Len(q) = 0 /\ Pad.char = "space"
    BY <1>4 DEF Pad
  <2>2. \A o \in Pairs(f) : IsSpace(f, o)
    <3> TAKE o \in Pairs(f)
    <3>1. o \in Nat /\ o < Len(f)
      BY <1>1 DEF Pairs
    <3>2. f[o + 1] = Pad
      BY <1>1, <2>1, <3>1
    <3> QED
      BY <2>1, <3>1, <3>2 DEF IsSpace
  <2>3. S = {}
    BY <2>2
  <2> HIDE DEF S
  <2> QED
    BY <1>2, <1>4, <2>3, FirstNone DEF f
<1> QED
  BY <1>3, <1>4 DEF f


\* The first newline ends the first line.
BeginsWithLine(i, g, f) ==
    /\ f \in Seq(Chars) /\ Len(f) = Length[i] + Len(g) /\ Len(g) \in Nat
    /\ \A k \in 1..Length[i] : f[k] = Text(i)[k]
    /\ \A k \in 1..Len(g) : f[Length[i] + k] = g[k]
    /\ FirstOf({q \in 0..Len(f) : IsNewline(f, q)}, Len(f)) = Length[i] - 1

LEMMA LineEnds ==
    ASSUME NEW i \in 1..Lines, NEW g \in Seq(Chars), NEW f, f = Text(i) \o g
    PROVE  BeginsWithLine(i, g, f)
<1> DEFINE t == Text(i)
           L == Length[i]
           S == {q \in 0..Len(f) : IsNewline(f, q)}
<1>1. t \in Seq(Chars)
  BY TextIs
<1>2. /\ Len(t) = L /\ L \in Nat /\ L >= 2 /\ t[L].char = "newline"
      /\ \A j \in 1..L : t[j].char = "newline" => j = L
  BY TextIs
<1> HIDE DEF t, L
<1>3. /\ f \in Seq(Chars) /\ Len(f) = L + Len(g) /\ Len(g) \in Nat
      /\ \A k \in 1..L + Len(g) : f[k] = IF k <= L THEN t[k] ELSE g[k - L]
  <2>1. f = t \o g
    BY DEF t
  <2>2. /\ f \in Seq(Chars) /\ Len(f) = Len(t) + Len(g) /\ Len(g) \in Nat
        /\ \A k \in 1..Len(t) + Len(g) : f[k] = IF k <= Len(t) THEN t[k] ELSE g[k - Len(t)]
    BY ONLY <1>1, <2>1, ConcatProperties, LenProperties, g \in Seq(Chars)
  <2> QED
    BY <1>2, <2>2
<1>4. \A k \in 1..L : f[k] = t[k]
  BY <1>2, <1>3
<1>5. \A k \in 1..Len(g) : f[L + k] = g[k]
  <2> TAKE k \in 1..Len(g)
  <2>1. L + k \in 1..L + Len(g) /\ ~(L + k <= L) /\ (L + k) - L = k
    BY <1>2, <1>3
  <2> QED
    BY <1>3, <2>1
<1>6. L - 1 \in S
  <2>1. L - 1 \in 0..Len(f) /\ L - 1 < Len(f) /\ (L - 1) + 1 = L /\ L \in 1..L
    BY <1>2, <1>3
  <2> QED
    BY <1>2, <1>4, <2>1 DEF IsNewline
<1>7. ASSUME NEW q \in S PROVE L - 1 <= q
  <2>1. q \in Nat /\ f[q + 1].char = "newline"
    BY <1>3, <1>7 DEF IsNewline
  <2>2. CASE q < L - 1
    <3>1. q + 1 \in 1..L /\ q + 1 # L
      BY <1>2, <2>1, <2>2
    <3> QED
      BY <1>2, <1>4, <2>1, <3>1
  <2> QED
    BY <1>2, <2>1, <2>2
<1>8. FirstOf(S, Len(f)) = L - 1
  <2>1. S \subseteq Nat
    BY <1>3
  <2> HIDE DEF S
  <2> QED
    BY <1>6, <1>7, <2>1, FirstIs
<1> QED
  BY <1>3, <1>4, <1>5, <1>8 DEF BeginsWithLine, t, L

\* P2 reads the first line, and nothing when there is none.
LEMMA ReadsLine ==
    ASSUME NEW i \in 1..Lines, NEW g \in Seq(Chars)
    PROVE  read_line(Text(i) \o g, 0) = Text(i)
<1> DEFINE f == Text(i) \o g
           L == Length[i]
<1>1. /\ f \in Seq(Chars) /\ Len(f) = L + Len(g) /\ Len(g) \in Nat
      /\ \A k \in 1..L : f[k] = Text(i)[k]
      /\ FirstOf({q \in 0..Len(f) : IsNewline(f, q)}, Len(f)) = L - 1
  <2>1. BeginsWithLine(i, g, f)
    BY LineEnds
  <2> QED
    BY <2>1, Zenon DEF BeginsWithLine
<1>2. L \in Nat /\ L >= 2 /\ Text(i) \in Seq(Chars) /\ Len(Text(i)) = L
  BY TextIs
<1> HIDE DEF f, L
<1>3. read_line(f, 0) = SubSeq(f, 1, L)
  <2> DEFINE end == FirstOf({q \in 0..Len(f) : IsNewline(f, q)}, Len(f))
  <2>1. read_line(f, 0) = IF end < Len(f) THEN SubSeq(f, 0 + 1, end + 1) ELSE <<>>
    BY DEF read_line
  <2>2. end < Len(f) /\ end + 1 = L /\ 0 + 1 = 1
    BY <1>1, <1>2
  <2> HIDE DEF end
  <2> QED
    BY <2>1, <2>2
<1>4. SubSeq(f, 1, L) = Text(i)
  <2>1. \A k \in 1..L : f[k] \in Chars
    BY <1>1, <1>2
  <2>2. SubSeq(f, 1, L) \in Seq(Chars) /\ Len(SubSeq(f, 1, L)) = L
    BY <1>1, <1>2, <2>1
  <2>3. \A k \in 1..L : SubSeq(f, 1, L)[k] = Text(i)[k]
    BY <1>1, <1>2, <2>1
  <2> QED
    BY <1>2, <2>2, <2>3, SeqEqual
<1> QED
  BY <1>3, <1>4 DEF f

LEMMA ReadsNothing ==
    ASSUME NEW f \in Seq(Chars)
    PROVE  read_line(f, Len(f)) = <<>>
<1>1. Len(f) \in Nat
  OBVIOUS
<1>2. {q \in Len(f)..Len(f) : IsNewline(f, q)} = {}
  BY <1>1 DEF IsNewline
<1>3. FirstOf({q \in Len(f)..Len(f) : IsNewline(f, q)}, Len(f)) = Len(f)
  BY <1>2, FirstNone
<1> QED
  BY <1>1, <1>3 DEF read_line

\* The first line goes, the rest moves to the front, its place becomes spaces.
LEMMA RemovesLine ==
    ASSUME NEW i \in 1..Lines, NEW q \in Seq(Chars), NEW n \in Nat
    PROVE  \E m \in Nat : remove_line(Text(i) \o Padded(q, n)) = Padded(q, m)
<1> DEFINE g == Padded(q, n)
           f == Text(i) \o g
           L == Length[i]
<1>1. /\ g \in Seq(Chars) /\ Len(q) \in Nat /\ Len(g) = Len(q) + n
      /\ \A k \in 1..Len(q) : g[k] = q[k]
      /\ \A k \in Len(q) + 1..Len(q) + n : g[k] = Pad
  BY PaddedIs
<1> HIDE DEF g
<1>2. /\ f \in Seq(Chars) /\ Len(f) = L + Len(g)
      /\ \A k \in 1..Len(g) : f[L + k] = g[k]
      /\ FirstOf({p \in 0..Len(f) : IsNewline(f, p)}, Len(f)) = L - 1
  <2>1. BeginsWithLine(i, g, f)
    BY <1>1, LineEnds
  <2> QED
    BY <2>1, Zenon DEF BeginsWithLine
<1>3. L \in Nat /\ L >= 2
  BY TextIs
<1> HIDE DEF f, L
<1> DEFINE tail == SubSeq(f, L + 1, Len(f))
           r == tail \o Pads(L)
           m == n + L
<1>4. remove_line(f) = r
  <2> DEFINE first == FirstOf({p \in 0..Len(f) : IsNewline(f, p)}, Len(f))
  <2>1. remove_line(f) = SubSeq(f, first + 2, Len(f)) \o Pads(first + 1)
    BY DEF remove_line, Pads
  <2>2. first + 2 = L + 1 /\ first + 1 = L
    BY <1>2, <1>3
  <2> HIDE DEF first
  <2> QED
    BY <2>1, <2>2
<1>5. /\ tail \in Seq(Chars) /\ Len(tail) = Len(g)
      /\ \A k \in 1..Len(g) : tail[k] = g[k]
  <2>1. \A k \in L + 1..Len(f) : f[k] \in Chars
    BY <1>1, <1>2, <1>3
  <2>2. tail \in Seq(Chars) /\ Len(tail) = Len(g) /\ \A k \in 1..Len(g) : tail[k] = f[L + k]
    BY <1>1, <1>2, <1>3, <2>1, SubSeqProperties
  <2> QED
    BY <1>2, <2>2
<1> HIDE DEF tail
<1>6. Pads(L) \in Seq(Chars) /\ Len(Pads(L)) = L /\ \A k \in 1..L : Pads(L)[k] = Pad
  <2>1. Pads(L) \in Seq(Chars) /\ Len(Pads(L)) = L
    BY <1>3, PaddedIs
  <2> QED
    BY <2>1 DEF Pads
<1>7. /\ r \in Seq(Chars) /\ Len(r) = Len(g) + L
      /\ \A k \in 1..Len(g) + L : r[k] = IF k <= Len(g) THEN tail[k] ELSE Pads(L)[k - Len(g)]
  <2>1. /\ r \in Seq(Chars) /\ Len(r) = Len(tail) + Len(Pads(L))
        /\ \A k \in 1..Len(tail) + Len(Pads(L)) :
              r[k] = IF k <= Len(tail) THEN tail[k] ELSE Pads(L)[k - Len(tail)]
    BY <1>5, <1>6, ConcatProperties
  <2> QED
    BY <1>5, <1>6, <2>1
<1> HIDE DEF r
<1>8. m \in Nat /\ Len(r) = Len(q) + m
  BY <1>1, <1>3, <1>7
<1>9. /\ Padded(q, m) \in Seq(Chars) /\ Len(Padded(q, m)) = Len(q) + m
      /\ \A k \in 1..Len(q) : Padded(q, m)[k] = q[k]
      /\ \A k \in Len(q) + 1..Len(q) + m : Padded(q, m)[k] = Pad
  BY <1>8, PaddedIs
<1>10. \A k \in 1..Len(r) : r[k] = Padded(q, m)[k]
  <2> TAKE k \in 1..Len(r)
  <2>1. CASE k <= Len(q)
    <3>1. k \in 1..Len(q) /\ k \in 1..Len(g) + L /\ k <= Len(g) /\ k \in 1..Len(g)
      BY <1>1, <1>3, <1>7, <2>1
    <3> QED
      BY <1>1, <1>5, <1>7, <1>9, <3>1
  <2>2. CASE ~(k <= Len(q)) /\ k <= Len(g)
    <3>1. k \in Len(q) + 1..Len(q) + n /\ k \in Len(q) + 1..Len(q) + m /\ k \in 1..Len(g)
          /\ k \in 1..Len(g) + L
      BY <1>1, <1>3, <1>7, <2>2
    <3> QED
      BY <1>1, <1>5, <1>7, <1>9, <2>2, <3>1
  <2>3. CASE ~(k <= Len(g))
    <3>1. k \in Len(q) + 1..Len(q) + m /\ k \in 1..Len(g) + L /\ k - Len(g) \in 1..L
      BY <1>1, <1>3, <1>7, <2>3
    <3> QED
      BY <1>6, <1>7, <1>9, <2>3, <3>1
  <2> QED
    BY <1>1, <2>1, <2>2, <2>3
<1>11. r = Padded(q, m)
  BY <1>7, <1>8, <1>9, <1>10, SeqEqual
<1> QED
  BY <1>4, <1>8, <1>11 DEF f, g

\* A new line comes right behind the last one.
LEMMA WritesLine ==
    ASSUME NEW q, Well(q), NEW n \in Nat, NEW i \in 1..Lines
    PROVE  \E m \in Nat :
              WriteAt(Padded(q, n), next_empty(Padded(q, n)), Text(i)) = Padded(q \o Text(i), m)
<1> DEFINE f == Padded(q, n)
           t == Text(i)
           L == Length[i]
           w == WriteAt(f, Len(q), t)
           m == IF n > L THEN n - L ELSE 0
           s == q \o t
<1>1. next_empty(f) = Len(q)
  BY EmptyAt
<1>2. /\ q \in Seq(Chars) /\ Len(q) \in Nat /\ f \in Seq(Chars) /\ Len(f) = Len(q) + n
      /\ \A k \in 1..Len(q) : f[k] = q[k]
      /\ \A k \in Len(q) + 1..Len(q) + n : f[k] = Pad
  BY PaddedIs DEF Well
<1>3. t \in Seq(Chars) /\ Len(t) = L /\ L \in Nat /\ \A k \in 1..L : t[k] \in Chars
  BY TextIs
<1> HIDE DEF f, t, L
<1>4. w = [j \in 1..(IF Len(q) + L > Len(f) THEN Len(q) + L ELSE Len(f)) |->
              IF j \in (Len(q) + 1)..(Len(q) + L) THEN t[j - Len(q)] ELSE f[j]]
  BY <1>3 DEF WriteAt
<1>5. m \in Nat /\ (IF Len(q) + L > Len(f) THEN Len(q) + L ELSE Len(f)) = Len(q) + L + m
  <2>1. CASE n > L
    BY <1>2, <1>3, <2>1
  <2>2. CASE ~(n > L)
    BY <1>2, <1>3, <2>2
  <2> QED
    BY <2>1, <2>2
<1> HIDE DEF m
<1>6. w = [j \in 1..Len(q) + L + m |->
              IF j \in (Len(q) + 1)..(Len(q) + L) THEN t[j - Len(q)] ELSE f[j]]
  BY <1>4, <1>5
<1> HIDE DEF w
<1>7. /\ s \in Seq(Chars) /\ Len(s) = Len(q) + L
      /\ \A k \in 1..Len(q) + L : s[k] = IF k <= Len(q) THEN q[k] ELSE t[k - Len(q)]
  <2>1. /\ s \in Seq(Chars) /\ Len(s) = Len(q) + Len(t)
        /\ \A k \in 1..Len(q) + Len(t) : s[k] = IF k <= Len(q) THEN q[k] ELSE t[k - Len(q)]
    BY <1>2, <1>3, ConcatProperties
  <2> QED
    BY <1>3, <2>1
<1> HIDE DEF s
<1>8. /\ Padded(s, m) \in Seq(Chars) /\ Len(Padded(s, m)) = Len(s) + m
      /\ \A k \in 1..Len(s) : Padded(s, m)[k] = s[k]
      /\ \A k \in Len(s) + 1..Len(s) + m : Padded(s, m)[k] = Pad
  BY <1>5, <1>7, PaddedIs
<1>9. ASSUME NEW k \in 1..Len(q) + L + m
      PROVE  (IF k \in (Len(q) + 1)..(Len(q) + L) THEN t[k - Len(q)] ELSE f[k]) = Padded(s, m)[k]
  <2>1. CASE k <= Len(q)
    <3>1. k \in 1..Len(q) /\ k \in 1..Len(q) + L /\ k \notin (Len(q) + 1)..(Len(q) + L)
      BY <1>2, <1>3, <2>1
    <3> QED
      BY <1>2, <1>7, <1>8, <2>1, <3>1
  <2>2. CASE ~(k <= Len(q)) /\ k <= Len(q) + L
    <3>1. k \in 1..Len(q) + L /\ k \in (Len(q) + 1)..(Len(q) + L)
      BY <1>2, <1>3, <2>2
    <3> QED
      BY <1>7, <1>8, <2>2, <3>1
  <2>3. CASE ~(k <= Len(q) + L)
    <3>1. k \in Len(s) + 1..Len(s) + m /\ k \notin (Len(q) + 1)..(Len(q) + L)
      BY <1>2, <1>3, <1>5, <1>7, <2>3
    <3>2. k \in Len(q) + 1..Len(q) + n
      BY <1>2, <1>3, <2>3 DEF m
    <3> QED
      BY <1>2, <1>8, <3>1, <3>2
  <2> QED
    BY <1>2, <1>3, <2>1, <2>2, <2>3
<1>10. Padded(s, m) = [k \in 1..Len(q) + L + m |-> Padded(s, m)[k]]
  BY <1>7, <1>8
<1>11. w = Padded(s, m)
  BY <1>6, <1>9, <1>10
<1> QED
  BY <1>1, <1>5, <1>11 DEF w, f, t, s


-----------------------------------------------------------------------------
(* The file is a queue of lines, and P2 does not sleep while it has one.   *)

Before == {"register", "block", "fit", "unregister", "write"}
HasBuf == {"remove", "enter", "measure", "report"}

\* In the file: the lines after r up to w, then n spaces.
Queue(r, w, n) ==
    /\ r <= w /\ w <= Lines
    /\ file = Padded(Run(r + 1, w), n)
    /\ p1 \in Before => line = w + 1
    /\ p1 \notin Before => line = w \/ (P1Ended /\ line = w + 1)
    /\ ~P2Ended => r = Len(output) + Removed
    /\ r = Len(output) \/ r = Len(output) + 1
    /\ p2 = "remove" => r < w

Reports ==
    /\ Len(output) \in Nat /\ output = Texts(1, Len(output))
    /\ buf # <<>> => Len(output) < Lines /\ buf = Text(Len(output) + 1)
    /\ p2 \in HasBuf => buf # <<>>
    /\ stats = [idx |-> stats.idx, capacity |-> stats.capacity]
    /\ stats.idx \in Nat /\ stats.capacity \in Nat \ {0} /\ stats.idx <= stats.capacity
    /\ Len(output) + (IF p2 = "report" THEN 1 ELSE 0) <= stats.idx

QueueInv ==
    /\ line \in Nat /\ line <= Lines
    /\ \E r, w, n \in Nat : Queue(r, w, n)

FileInv == SignalInv /\ QueueInv /\ Reports /\ NoLostWakeup

\* The first of the lines in the file, and the file without it.
LEMMA FirstLine ==
    ASSUME NEW r \in Nat, NEW w \in Nat, NEW n \in Nat, r < w, w <= Lines
    PROVE  /\ Run(r + 1, w) # <<>>
           /\ Padded(Run(r + 1, w), n) = Text(r + 1) \o Padded(Run(r + 2, w), n)
           /\ r + 1 \in 1..Lines
           /\ Run(r + 2, w) \in Seq(Chars)
<1>1. r + 1 \in Nat \ {0} /\ r + 2 \in Nat \ {0} /\ r + 1 <= w /\ r + 2 <= w + 1
      /\ r + 1 \in 1..Lines /\ (r + 1) + 1 = r + 2
  BY LinesAssumption
<1>2. Run(r + 1, w) = Text(r + 1) \o Run(r + 2, w)
  <2>1. Run(r + 1, w) = Text(r + 1) \o Run((r + 1) + 1, w)
    BY ONLY <1>1, w \in Nat, w <= Lines, RunHead
  <2> QED
    BY <1>1, <2>1
<1>3. Text(r + 1) \in Seq(Chars) /\ Len(Text(r + 1)) >= 2 /\ Text(r + 1) # <<>>
  <2>1. Text(r + 1) \in Seq(Chars) /\ Len(Text(r + 1)) >= 2
    BY <1>1, TextIs
  <2> QED
    BY <2>1
<1>4. Run(r + 2, w) \in Seq(Chars)
  <2>1. Well(Run(r + 2, w))
    BY ONLY <1>1, w \in Nat, w <= Lines, RunWell
  <2> QED
    BY <2>1 DEF Well
<1>5. Pads(n) \in Seq(Chars)
  BY <1>4, PaddedIs, Zenon
<1>6. (Text(r + 1) \o Run(r + 2, w)) \o Pads(n) = Text(r + 1) \o (Run(r + 2, w) \o Pads(n))
  BY ONLY <1>3, <1>4, <1>5, ConcatAssociative, SMTT(30)
<1>7. Text(r + 1) \o Run(r + 2, w) # <<>>
  BY ONLY <1>3, <1>4, ConcatEqualIffEmpty
<1> QED
  BY <1>1, <1>2, <1>4, <1>6, <1>7 DEF Padded

\* What P2 finds.
LEMMA Finds ==
    ASSUME NEW r \in Nat, NEW w \in Nat, NEW n \in Nat, Queue(r, w, n)
    PROVE  /\ r < w => read_line(file, next_available(file)) = Text(r + 1) /\ Text(r + 1) # <<>>
           /\ r = w => read_line(file, next_available(file)) = <<>> /\ ~HasLine
<1>1. file = Padded(Run(r + 1, w), n) /\ r <= w /\ w <= Lines
  BY DEF Queue
<1>2. Well(Run(r + 1, w))
  <2>1. r + 1 \in Nat \ {0} /\ r + 1 <= w + 1
    BY <1>1
  <2> QED
    BY ONLY <1>1, <2>1, w \in Nat, RunWell
<1>3. CASE r < w
  <2>1. /\ Run(r + 1, w) # <<>> /\ r + 1 \in 1..Lines
        /\ file = Text(r + 1) \o Padded(Run(r + 2, w), n)
        /\ Padded(Run(r + 2, w), n) \in Seq(Chars)
    <3>1. /\ Run(r + 1, w) # <<>> /\ r + 1 \in 1..Lines
          /\ Padded(Run(r + 1, w), n) = Text(r + 1) \o Padded(Run(r + 2, w), n)
          /\ Run(r + 2, w) \in Seq(Chars)
      BY ONLY <1>1, <1>3, r \in Nat, w \in Nat, n \in Nat, FirstLine
    <3>2. Padded(Run(r + 2, w), n) \in Seq(Chars)
      BY ONLY <3>1, n \in Nat, PaddedIs
    <3> QED
      BY <1>1, <3>1, <3>2, Zenon
  <2>2. next_available(file) = 0
    BY <1>1, <1>2, <2>1, AvailableAt
  <2>3. read_line(file, 0) = Text(r + 1)
    BY <2>1, ReadsLine
  <2>4. Text(r + 1) # <<>>
    <3>1. Len(Text(r + 1)) >= 2
      BY <2>1, TextIs
    <3> QED
      BY <3>1
  <2> QED
    BY <1>3, <2>2, <2>3, <2>4
<1>4. CASE r = w
  <2>1. Run(r + 1, w) = <<>>
    BY <1>4, RunEmpty
  <2>2. next_available(file) = Len(file)
    BY <1>1, <1>2, <2>1, AvailableAt
  <2>3. file \in Seq(Chars) /\ Len(file) \in Nat
    BY <1>1, <1>2, PaddedIs DEF Well
  <2>4. read_line(file, Len(file)) = <<>>
    BY <2>3, ReadsNothing
  <2> QED
    BY <1>4, <2>2, <2>3, <2>4 DEF HasLine
<1> QED
  BY <1>1, <1>3, <1>4

LEMMA FileInit == Init => FileInv
<1> SUFFICES ASSUME Init PROVE FileInv
  OBVIOUS
<1>1. SignalInv
  BY SignalInit
<1>2. Queue(0, 0, 0)
  <2>1. Run(1, 0) = <<>>
    BY RunEmpty
  <2>2. Padded(<<>>, 0) = <<>>
    BY DEF Padded, Pads
  <2> QED
    BY <2>1, <2>2, LinesAssumption DEF Init, Queue, Before, P1Ended, P2Ended, Removed
<1>3. Reports
  <2>1. Texts(1, 0) = <<>>
    BY DEF Texts
  <2> QED
    BY <2>1, StatsAssumption DEF Init, Reports, HasBuf
<1>4. NoLostWakeup
  BY DEF Init, NoLostWakeup
<1> QED
  BY <1>1, <1>2, <1>3, <1>4, LinesAssumption DEF FileInv, QueueInv, Init

\* P1 writes its line behind the others, and is about to wake P2.
LEMMA WriteQueue ==
    ASSUME FileInv, write10points
    PROVE  QueueInv' /\ Reports' /\ NoLostWakeup'
<1>1. PICK r \in Nat, w \in Nat, n \in Nat : Queue(r, w, n)
  BY DEF FileInv, QueueInv
<1>2. /\ p1 = "write" /\ p1' = "wake" /\ file' = WriteAt(file, next_empty(file), Text(line))
      /\ UNCHANGED <<line, p2, buf, stats, output>>
  BY DEF write10points, Goto1, p2_vars, p2_data
<1>3. line = w + 1 /\ line \in 1..Lines /\ w + 1 <= Lines /\ r <= w
  BY <1>1, <1>2, LinesAssumption DEF Queue, Before, FileInv, QueueInv
<1>4. r + 1 \in Nat \ {0} /\ r + 1 <= w + 1 /\ w <= Lines
  BY <1>3, LinesAssumption
<1>5. Well(Run(r + 1, w)) /\ Run(r + 1, w + 1) = Run(r + 1, w) \o Text(w + 1)
  BY ONLY <1>3, <1>4, w \in Nat, RunWell, RunAppend
<1>6. PICK m \in Nat : file' = Padded(Run(r + 1, w) \o Text(line), m)
  <2>1. file = Padded(Run(r + 1, w), n)
    BY <1>1 DEF Queue
  <2> QED
    BY <1>2, <1>3, <1>5, <2>1, WritesLine
<1>7. Queue(r, w + 1, m)'
  <2>1. file' = Padded(Run(r + 1, w + 1), m)
    BY <1>3, <1>5, <1>6
  <2>2. /\ ~P2Ended' => r = Len(output)' + Removed'
        /\ r = Len(output)' \/ r = Len(output)' + 1
    BY <1>1, <1>2 DEF Queue, P2Ended, Removed
  <2>3. r <= w + 1 /\ r < w + 1
    BY <1>3
  <2> QED
    BY <1>2, <1>3, <2>1, <2>2, <2>3 DEF Queue, Before
<1>8. QueueInv'
  <2>1. w + 1 \in Nat
    OBVIOUS
  <2> HIDE DEF Queue
  <2> QED
    BY <1>2, <1>7, <2>1 DEF FileInv, QueueInv
<1>9. Reports'
  BY <1>2 DEF FileInv, Reports
<1> QED
  BY <1>2, <1>8, <1>9 DEF NoLostWakeup


LEMMA FileP1 ==
    ASSUME FileInv, P1
    PROVE  QueueInv' /\ Reports' /\ NoLostWakeup'
<1>1. CASE write10points
  BY <1>1, WriteQueue
<1>2. CASE P1 /\ ~write10points
  <2>1. PICK r \in Nat, w \in Nat, n \in Nat : Queue(r, w, n)
    BY DEF FileInv, QueueInv
  <2>2. UNCHANGED <<file, p2, buf, stats, output>>
    BY <1>2 DEF P1, Start1, read20bytes, Register, BlockInt, LineEquation, Unregister, Wake,
           Finish1, WaitChild, p2_vars, p2_data
  <2>3. /\ line' \in Nat /\ line' <= Lines
        /\ p1' \in Before => line' = w + 1
        /\ p1' \notin Before => line' = w
    <3>1. line \in Nat /\ line <= Lines /\ Lines \in Nat
      BY LinesAssumption DEF FileInv, QueueInv
    <3>2. CASE read20bytes
      BY <2>1, <3>1, <3>2 DEF read20bytes, Goto1, Queue, Before, P1Ended
    <3>3. CASE Start1 \/ Finish1 \/ WaitChild \/ Wake
      BY <2>1, <3>1, <3>3 DEF Start1, Finish1, WaitChild, Wake, Goto1, Queue, Before, P1Ended
    <3>4. CASE Register \/ BlockInt \/ LineEquation \/ Unregister
      BY <2>1, <3>1, <3>4 DEF Register, BlockInt, LineEquation, Unregister, Goto1, Queue, Before
    <3> QED
      BY <1>2, <3>2, <3>3, <3>4 DEF P1
  <2>4. Queue(r, w, n)'
    <3>1. Removed' = Removed /\ P2Ended' = P2Ended
      BY <2>2 DEF Removed, P2Ended
    <3> QED
      BY <2>1, <2>2, <2>3, <3>1 DEF Queue
  <2>5. QueueInv'
    <3> HIDE DEF Queue
    <3> QED
      BY <2>3, <2>4 DEF QueueInv
  <2>6. Reports'
    BY <2>2 DEF FileInv, Reports
  <2>7. NoLostWakeup'
    <3>1. HasLine' = HasLine
      BY <2>2 DEF HasLine, next_available, Pairs, IsSpace, FirstOf
    <3>2. "USR2" \in pending["P2"] => "USR2" \in pending'["P2"]
      BY <1>2 DEF P1, Start1, read20bytes, Register, BlockInt, LineEquation, Unregister, Wake,
           Finish1, WaitChild, Sent, FileInv, SignalInv
    <3>3. p1 = "wake" => "USR2" \in pending'["P2"]
      BY <1>2 DEF P1, Start1, read20bytes, Register, BlockInt, LineEquation, Unregister, Wake,
           Finish1, WaitChild, Sent, FileInv, SignalInv, Goto1
    <3>4. ~P1Ended
      BY <1>2 DEF P1, Start1, read20bytes, Register, BlockInt, LineEquation, Unregister, Wake,
           Finish1, WaitChild, Goto1, P1Ended
    <3> QED
      BY <2>2, <3>1, <3>2, <3>3, <3>4 DEF FileInv, NoLostWakeup
  <2> QED
    BY <2>5, <2>6, <2>7
<1> QED
  BY <1>1, <1>2

\* P2 reads: the first line is the one after those it has reported.
LEMMA ReadQueue ==
    ASSUME FileInv, ReadLine
    PROVE  QueueInv' /\ Reports' /\ NoLostWakeup'
<1>1. PICK r \in Nat, w \in Nat, n \in Nat : Queue(r, w, n)
  BY DEF FileInv, QueueInv
<1>2. /\ p2 = "read" /\ buf' = read_line(file, next_available(file))
      /\ p2' = IF buf' = <<>> THEN "check" ELSE "remove"
      /\ UNCHANGED <<file, line, p1, stats, output, pending>>
  BY DEF ReadLine, p1_vars
<1>3. r = Len(output) /\ r <= w /\ w <= Lines
  BY <1>1, <1>2 DEF Queue, P2Ended, Removed, FileInv, Reports
<1>4. /\ r < w => buf' = Text(r + 1) /\ buf' # <<>>
      /\ r = w => buf' = <<>> /\ ~HasLine
  BY <1>1, <1>2, Finds
<1>5. Queue(r, w, n)'
  <2>1. p2' = "remove" => r < w
    BY <1>2, <1>3, <1>4
  <2>2. ~P2Ended' /\ Removed' = 0 /\ (P1Ended' = P1Ended) /\ Len(output)' = Len(output)
    BY <1>2 DEF P2Ended, Removed, P1Ended
  <2> QED
    BY <1>1, <1>2, <1>3, <2>1, <2>2 DEF Queue
<1>6. QueueInv'
  <2> HIDE DEF Queue
  <2> QED
    BY <1>2, <1>5 DEF FileInv, QueueInv
<1>7. Reports'
  <2>1. Len(output) \in Nat /\ Lines \in Nat
    BY LinesAssumption DEF FileInv, Reports
  <2>2. buf' # <<>> => Len(output) < Lines /\ buf' = Text(Len(output) + 1)
    BY <1>3, <1>4, <2>1
  <2>3. p2' \in HasBuf => buf' # <<>>
    BY <1>2 DEF HasBuf
  <2> QED
    BY <1>2, <2>2, <2>3 DEF FileInv, Reports
<1>8. NoLostWakeup'
  <2>1. HasLine' = HasLine
    BY <1>2 DEF HasLine, next_available, Pairs, IsSpace, FirstOf
  <2>2. p2' \in {"check", "suspend", "suspended"} => ~HasLine
    BY <1>2, <1>3, <1>4
  <2> QED
    BY <2>1, <2>2 DEF NoLostWakeup
<1> QED
  BY <1>6, <1>7, <1>8

\* P2 removes the line it has read, whatever P1 has written in between.
LEMMA RemoveQueue ==
    ASSUME FileInv, RemoveLine
    PROVE  QueueInv' /\ Reports' /\ NoLostWakeup'
<1>1. PICK r \in Nat, w \in Nat, n \in Nat : Queue(r, w, n)
  BY DEF FileInv, QueueInv
<1>2. /\ p2 = "remove" /\ p2' = "enter" /\ file' = remove_line(file)
      /\ UNCHANGED <<line, p1, buf, stats, output, pending>>
  BY DEF RemoveLine, Goto2, p2_data, p1_vars
<1>3. r = Len(output) /\ r < w /\ w <= Lines
  BY <1>1, <1>2 DEF Queue, P2Ended, Removed, FileInv, Reports
<1>4. PICK m \in Nat : file' = Padded(Run((r + 1) + 1, w), m)
  <2>1. /\ file = Text(r + 1) \o Padded(Run(r + 2, w), n)
        /\ r + 1 \in 1..Lines /\ Run(r + 2, w) \in Seq(Chars)
    BY <1>1, <1>3, FirstLine DEF Queue
  <2>2. \E m \in Nat : file' = Padded(Run(r + 2, w), m)
    BY <1>2, <2>1, RemovesLine
  <2>3. (r + 1) + 1 = r + 2
    OBVIOUS
  <2> QED
    BY <2>2, <2>3
<1>5. Queue(r + 1, w, m)'
  <2>1. /\ ~P2Ended' /\ Removed' = 1 /\ (P1Ended' = P1Ended) /\ Len(output)' = Len(output)
        /\ r + 1 <= w
    BY <1>2, <1>3 DEF P2Ended, Removed, P1Ended
  <2>2. r + 1 = Len(output)' + Removed'
    BY <1>3, <2>1
  <2> QED
    BY <1>1, <1>2, <1>3, <1>4, <2>1, <2>2 DEF Queue
<1>6. QueueInv'
  <2>1. r + 1 \in Nat
    OBVIOUS
  <2> HIDE DEF Queue
  <2> QED
    BY <1>2, <1>5, <2>1 DEF FileInv, QueueInv
<1>7. Reports'
  BY <1>2 DEF FileInv, Reports, HasBuf
<1> QED
  BY <1>2, <1>6, <1>7 DEF NoLostWakeup

\* P2 writes its report.
LEMMA ReportQueue ==
    ASSUME FileInv, write10points_errors
    PROVE  QueueInv' /\ Reports' /\ NoLostWakeup'
<1>1. PICK r \in Nat, w \in Nat, n \in Nat : Queue(r, w, n)
  BY DEF FileInv, QueueInv
<1>2. /\ p2 = "report" /\ p2' = "read" /\ output' = Append(output, buf) /\ buf' = <<>>
      /\ UNCHANGED <<file, line, p1, stats, pending>>
  BY DEF write10points_errors, Goto2, p1_vars
<1> DEFINE k == Len(output)
<1>3. /\ k \in Nat /\ output = Texts(1, k) /\ buf = Text(k + 1) /\ k + 1 <= stats.idx
      /\ stats.idx \in Nat
  BY <1>2 DEF FileInv, Reports, HasBuf
<1>4. Len(output') = k + 1 /\ output' = Texts(1, k + 1)
  <2>1. output = [i \in 1..k |-> Text(1 + i - 1)]
    <3> HIDE DEF k
    <3>1. k + 1 - 1 = k
      BY <1>3
    <3> QED
      BY <1>3, <3>1 DEF Texts
  <2>2. Append(output, buf) = [i \in 1..k + 1 |-> IF i = k + 1 THEN buf ELSE output[i]]
    BY <1>3
  <2> HIDE DEF k
  <2>3. Texts(1, k + 1) = [i \in 1..k + 1 |-> Text(1 + i - 1)]
    <3>1. (k + 1) + 1 - 1 = k + 1
      BY <1>3
    <3> QED
      BY <3>1 DEF Texts
  <2>4. \A i \in 1..k + 1 : (IF i = k + 1 THEN buf ELSE output[i]) = Text(1 + i - 1)
    <3> TAKE i \in 1..k + 1
    <3>1. CASE i = k + 1
      <4>1. 1 + i - 1 = k + 1
        BY <1>3, <3>1
      <4> QED
        BY <1>3, <3>1, <4>1
    <3>2. CASE i # k + 1
      <4>1. i \in 1..k
        BY <1>3, <3>2
      <4> QED
        BY <2>1, <3>2, <4>1
    <3> QED
      BY <3>1, <3>2
  <2>5. Append(output, buf) = Texts(1, k + 1)
    BY <2>2, <2>3, <2>4
  <2>6. Len(Append(output, buf)) = k + 1
    BY <1>3, <2>2
  <2> QED
    BY <1>2, <2>5, <2>6
<1>5. Queue(r, w, n)'
  <2>1. r = k + 1
    BY <1>1, <1>2, <1>3 DEF Queue, P2Ended, Removed
  <2>2. ~P2Ended' /\ Removed' = 0 /\ P1Ended' = P1Ended
    BY <1>2 DEF P2Ended, Removed, P1Ended
  <2>3. r = Len(output)' + Removed' /\ r = Len(output)'
    BY <1>3, <1>4, <2>1, <2>2
  <2> QED
    BY <1>1, <1>2, <2>2, <2>3 DEF Queue
<1>6. QueueInv'
  <2> HIDE DEF Queue
  <2> QED
    BY <1>2, <1>5 DEF FileInv, QueueInv
<1>7. Reports'
  <2>1. Len(output') \in Nat /\ Len(output') <= stats.idx /\ p2' # "report" /\ p2' \notin HasBuf
    BY <1>2, <1>3, <1>4 DEF HasBuf
  <2> QED
    BY <1>2, <1>4, <2>1 DEF FileInv, Reports
<1> QED
  BY <1>2, <1>6, <1>7 DEF NoLostWakeup


LEMMA FileP2 ==
    ASSUME FileInv, P2
    PROVE  QueueInv' /\ Reports' /\ NoLostWakeup'
<1>1. CASE ReadLine
  BY <1>1, ReadQueue
<1>2. CASE RemoveLine
  BY <1>2, RemoveQueue
<1>3. CASE write10points_errors
  BY <1>3, ReportQueue
<1>4. CASE Start2 \/ UnblockUsr1 \/ CheckFinished \/ Suspend \/ BlockInt2 \/ Errors \/ Finish2
  <2>1. PICK r \in Nat, w \in Nat, n \in Nat : Queue(r, w, n)
    BY DEF FileInv, QueueInv
  <2>2. UNCHANGED <<file, line, p1, buf, output, pending>>
    BY <1>4 DEF Start2, UnblockUsr1, CheckFinished, Suspend, BlockInt2, Errors, Finish2,
           p1_vars, p2_data
  <2>3. /\ Removed' = Removed /\ ~P2Ended /\ p2' # "remove"
        /\ p2' \in HasBuf => p2 \in HasBuf
        /\ p2' = "report" <=> Errors
    BY <1>4 DEF Start2, UnblockUsr1, CheckFinished, Suspend, BlockInt2, Errors, Finish2,
           Goto2, Removed, P2Ended, HasBuf
  <2>4. Queue(r, w, n)'
    <3>1. P1Ended' = P1Ended
      BY <2>2 DEF P1Ended
    <3> QED
      BY <2>1, <2>2, <2>3, <3>1 DEF Queue
  <2>5. QueueInv'
    <3> HIDE DEF Queue
    <3> QED
      BY <2>2, <2>4 DEF FileInv, QueueInv
  <2>6. Reports'
    <3>1. CASE Errors
      <4> DEFINE i == stats.idx
                 c == stats.capacity
      <4>1. /\ i \in Nat /\ c \in Nat \ {0} /\ i <= c /\ Len(output) \in Nat /\ Len(output) <= i
        <5>1. p2 = "measure"
          BY <3>1 DEF Errors, Goto2
        <5> QED
          BY <5>1 DEF FileInv, Reports
      <4>2. stats' = [idx |-> i + 1, capacity |-> IF i = c THEN 2 * c ELSE c]
        BY <3>1 DEF Errors, update_stats
      <4> HIDE DEF i, c
      <4>3. /\ stats'.idx = i + 1 /\ stats'.capacity \in Nat \ {0} /\ i + 1 <= stats'.capacity
            /\ stats' = [idx |-> stats'.idx, capacity |-> stats'.capacity]
        <5>1. CASE i = c
          BY <4>1, <4>2, <5>1
        <5>2. CASE i # c
          BY <4>1, <4>2, <5>2
        <5> QED
          BY <5>1, <5>2
      <4>4. Len(output) + (IF p2' = "report" THEN 1 ELSE 0) <= stats'.idx /\ stats'.idx \in Nat
        BY <4>1, <4>3
      <4> QED
        BY <2>2, <2>3, <4>3, <4>4 DEF FileInv, Reports
    <3>2. CASE ~Errors
      <4>1. stats' = stats
        BY <1>4, <3>2 DEF Start2, UnblockUsr1, CheckFinished, Suspend, BlockInt2, Finish2, p2_data
      <4>2. Len(output) <= stats.idx
        BY DEF FileInv, Reports
      <4> QED
        BY <2>2, <2>3, <3>2, <4>1, <4>2 DEF FileInv, Reports
    <3> QED
      BY <3>1, <3>2
  <2>7. NoLostWakeup'
    <3>1. HasLine' = HasLine /\ P1Ended' = P1Ended
      BY <2>2 DEF HasLine, next_available, Pairs, IsSpace, FirstOf, P1Ended
    <3>2. p2' \in {"check", "suspend", "suspended"} => p2 \in {"check", "suspend", "suspended"}
      BY <1>4 DEF Start2, UnblockUsr1, CheckFinished, Suspend, BlockInt2, Errors, Finish2, Goto2
    <3> QED
      BY <2>2, <3>1, <3>2 DEF FileInv, NoLostWakeup
  <2> QED
    BY <2>5, <2>6, <2>7
<1> QED
  BY <1>1, <1>2, <1>3, <1>4 DEF P2

\* A signal changes neither the file nor the reports.
LEMMA FileSignal ==
    ASSUME FileInv, UNCHANGED <<file, line, buf, stats, output>>,
           p1' = p1 \/ (~P1Ended /\ p1' \in {"terminated", "killed"}),
           p2' = p2 \/ (~P2Ended /\ p2' \in {"terminated", "killed"}) \/ (p2 = "suspended" /\ p2' = "read"),
           p2' = p2 /\ p2 \in {"check", "suspend", "suspended"} =>
               ("USR2" \in pending["P2"] => "USR2" \in pending'["P2"])
    PROVE  QueueInv' /\ Reports' /\ NoLostWakeup'
<1>1. PICK r \in Nat, w \in Nat, n \in Nat : Queue(r, w, n)
  BY DEF FileInv, QueueInv
<1>2. Queue(r, w, n)'
  <2>1. P1Ended => P1Ended'
    BY DEF P1Ended
  <2>2. p1' # p1 => P1Ended'
    BY DEF P1Ended
  <2>3. /\ p1' \in Before => line' = w + 1
        /\ p1' \notin Before => line' = w \/ (P1Ended' /\ line' = w + 1)
    BY <1>1, <2>1, <2>2 DEF Queue, Before
  <2>4. ~P2Ended' => ~P2Ended /\ Removed' = Removed
    BY DEF P2Ended, Removed
  <2>5. p2' = "remove" => p2 = "remove"
    OBVIOUS
  <2> QED
    BY <1>1, <2>3, <2>4, <2>5 DEF Queue
<1>3. QueueInv'
  <2> HIDE DEF Queue
  <2> QED
    BY <1>2 DEF FileInv, QueueInv
<1>4. Reports'
  <2>1. p2' \in HasBuf => p2 \in HasBuf
    BY DEF HasBuf
  <2>2. p2' = "report" => p2 = "report"
    OBVIOUS
  <2>3. Len(output) <= stats.idx
    BY DEF FileInv, Reports
  <2> QED
    BY <2>1, <2>2, <2>3 DEF FileInv, Reports
<1>5. NoLostWakeup'
  <2>1. HasLine' = HasLine
    BY DEF HasLine, next_available, Pairs, IsSpace, FirstOf
  <2>2. p1 = "wake" \/ P1Ended => p1' = "wake" \/ P1Ended'
    BY DEF P1Ended
  <2> QED
    BY <2>1, <2>2 DEF FileInv, NoLostWakeup
<1> QED
  BY <1>3, <1>4, <1>5

LEMMA FileHandlers ==
    ASSUME FileInv, Handlers \/ Arrivals
    PROVE  QueueInv' /\ Reports' /\ NoLostWakeup'
<1>0. pending \in [{"P1", "P2"} -> SUBSET {"INT", "TERM", "USR1", "USR2"}]
  BY DEF FileInv, SignalInv
<1>1. ASSUME NEW s \in {"INT", "TERM"}, HandleSignal1(s) PROVE QueueInv' /\ Reports' /\ NoLostWakeup'
  <2>1. /\ UNCHANGED <<file, line, buf, stats, output, p2>>
        /\ p1' = p1 \/ (~P1Ended /\ p1' \in {"terminated", "killed"})
        /\ "USR2" \in pending["P2"] => "USR2" \in pending'["P2"]
    BY <1>0, <1>1 DEF HandleSignal1, p2_vars, p2_data
  <2> QED
    BY <2>1, FileSignal
<1>2. ASSUME NEW s \in {"INT", "TERM", "USR1", "USR2"}, HandleSignal2(s)
      PROVE  QueueInv' /\ Reports' /\ NoLostWakeup'
  <2>1. /\ UNCHANGED <<file, line, buf, stats, output, p1>>
        /\ p2' = p2 \/ (~P2Ended /\ p2' \in {"terminated", "killed"})
        /\ p2 # "suspended" /\ s \in pending["P2"] \ Blocked2
        /\ pending' = [pending EXCEPT !["P2"] = @ \ {s}]
    BY <1>2 DEF HandleSignal2, p1_vars
  <2>2. p2 \in {"check", "suspend"} => s # "USR2"
    BY <2>1 DEF Blocked2
  <2>3. p2' = p2 /\ p2 \in {"check", "suspend", "suspended"} =>
           ("USR2" \in pending["P2"] => "USR2" \in pending'["P2"])
    BY <1>0, <2>1, <2>2
  <2> QED
    BY <2>1, <2>3, FileSignal
<1>3. ASSUME NEW signals \in SUBSET {"USR1", "USR2"}, WakeUp(signals)
      PROVE  QueueInv' /\ Reports' /\ NoLostWakeup'
  <2>1. UNCHANGED <<file, line, buf, stats, output, p1>> /\ p2 = "suspended" /\ p2' = "read"
    BY <1>3 DEF WakeUp, p1_vars
  <2> QED
    BY <2>1, FileSignal
<1>4. ASSUME NEW p \in {"P1", "P2"}, NEW s \in {"INT", "TERM"}, FromOutside(p, s)
      PROVE  QueueInv' /\ Reports' /\ NoLostWakeup'
  <2>1. /\ UNCHANGED <<file, line, buf, stats, output, p1, p2>>
        /\ "USR2" \in pending["P2"] => "USR2" \in pending'["P2"]
    BY <1>0, <1>4 DEF FromOutside, Sent, p1_vars, p2_vars, p2_data
  <2> QED
    BY <2>1, FileSignal
<1> QED
  BY <1>1, <1>2, <1>3, <1>4 DEF Handlers, Arrivals

LEMMA FileStep == FileInv /\ [Next]_vars => FileInv'
<1> SUFFICES ASSUME FileInv, [Next]_vars PROVE FileInv'
  OBVIOUS
<1>1. SignalInv'
  BY SignalStep DEF FileInv
<1>2. CASE UNCHANGED vars
  BY <1>1, <1>2, FileSignal DEF FileInv, vars, p1_vars, p2_vars, p2_data
<1>3. CASE P1
  BY <1>1, <1>3, FileP1 DEF FileInv
<1>4. CASE P2
  BY <1>1, <1>4, FileP2 DEF FileInv
<1>5. CASE Handlers \/ Arrivals
  BY <1>1, <1>5, FileHandlers DEF FileInv
<1> QED
  BY <1>2, <1>3, <1>4, <1>5 DEF Next

LEMMA FileHolds == Spec => []FileInv
  BY FileInit, FileStep, PTL DEF Spec

\* Lines of any length, removals and writes in any order: the temporary file is
\* the lines that are not removed, one behind the other, then spaces.
THEOREM TheFileIsAQueue == Spec => []FileIsQueue
<1>1. FileInv => FileIsQueue
  <2> SUFFICES ASSUME FileInv PROVE FileIsQueue
    OBVIOUS
  <2>1. PICK r \in Nat, w \in Nat, n \in Nat : Queue(r, w, n)
    BY DEF FileInv, QueueInv
  <2>2. Len(output) \in Nat /\ line \in Nat
    BY DEF FileInv, QueueInv, Reports
  <2>3. w \in {line - 1, line} \cap Nat /\ r \in Len(output)..(Len(output) + 1)
    BY <2>1, <2>2 DEF Queue
  <2>4. n \in 0..Len(file)
    <3>1. file = Padded(Run(r + 1, w), n) /\ r + 1 <= w + 1 /\ r + 1 \in Nat \ {0} /\ w <= Lines
      BY <2>1 DEF Queue
    <3>2. Well(Run(r + 1, w))
      BY ONLY <3>1, w \in Nat, RunWell
    <3> QED
      BY <3>1, <3>2, PaddedIs DEF Well
  <2>5. file = FlattenSeq(Texts(r + 1, w)) \o [j \in 1..n |-> Pad]
    BY <2>1 DEF Queue, Padded, Pads, Run
  <2>6. ~P2Ended => r = Len(output) + Removed
    BY <2>1 DEF Queue
  <2> HIDE DEF Queue
  <2> QED
    BY <2>3, <2>4, <2>5, <2>6 DEF FileIsQueue
<1> QED
  BY <1>1, FileHolds, PTL

\* Every report is about the next line, whole and once, and has its metrics in
\* the room of the statistics.
THEOREM Reported == Spec => []ReportsInOrder
<1>1. FileInv => ReportsInOrder
  <2> SUFFICES ASSUME FileInv PROVE ReportsInOrder
    OBVIOUS
  <2>1. Len(output) <= stats.idx
    BY DEF FileInv, Reports
  <2> QED
    BY <2>1 DEF FileInv, Reports, ReportsInOrder
<1> QED
  BY <1>1, FileHolds, PTL

\* P2 is not left asleep with a line in the file: the signal is there, or P1 is
\* about to send it.
THEOREM Woken == Spec => []NoLostWakeup
<1>1. FileInv => NoLostWakeup
  BY DEF FileInv
<1> QED
  BY <1>1, FileHolds, PTL
=============================================================================
