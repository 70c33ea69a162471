----------------------------- MODULE RowsProofs -----------------------------
(***************************************************************************)
(* The rows of the two files, for any instances of the two programs, any   *)
(* input and any length of a row: until a buffer misleads an instance, the *)
(* files consist of whole rows, none is written over, and none leaves the  *)
(* file without a B that stands for it; and the row that is misplaced then *)
(* overwrites no more than the newline at the end.                         *)
(***************************************************************************)
EXTENDS Rows, SequenceTheorems, FiniteSetTheorems, WellFoundedInduction, TLAPS

-----------------------------------------------------------------------------
(* The places of rows. *)

\* Multiples of the size of a row.
LEMMA Product ==
    ASSUME NEW c \in Nat, NEW k \in Nat
    PROVE  /\ k * c \in Nat /\ (k + 1) * c = k * c + c
           /\ \A m \in Nat : k <= m => k * c <= m * c
<1>1. k * c \in Nat /\ (k + 1) * c = k * c + c
  OBVIOUS
<1>2. ASSUME NEW m \in Nat, k <= m PROVE k * c <= m * c
  <2>1. PICK d \in Nat : m = k + d
    <3>1. m - k \in Nat /\ m = k + (m - k)
      BY <1>2
    <3> QED
      BY <3>1
  <2>2. m * c = k * c + d * c /\ d * c \in Nat
    BY <2>1
  <2> QED
    BY <1>1, <2>2
<1> QED
  BY <1>1, <1>2

\* A row that comes before the m-th ends before it begins.
LEMMA Before ==
    ASSUME NEW c \in Nat, NEW k \in Nat, NEW m \in Nat, k < m
    PROVE  k * c + c <= m * c
<1>1. k + 1 \in Nat /\ k + 1 <= m
  OBVIOUS
<1>2. (k + 1) * c <= m * c
  BY ONLY <1>1, c \in Nat, m \in Nat, Product
<1> QED
  BY <1>2, Product

\* A place lies in one row only.
LEMMA OneRow ==
    ASSUME NEW c \in Nat, NEW k \in Nat, NEW l \in Nat, NEW i \in 1..c, NEW j \in 1..c,
           k * c + i = l * c + j
    PROVE  k = l /\ i = j
<1>0. k * c \in Nat /\ l * c \in Nat
  BY Product
<1>1. CASE k < l
  <2>1. k * c + c <= l * c
    BY <1>1, Before
  <2> QED
    BY <1>0, <2>1
<1>2. CASE l < k
  <2>1. l * c + c <= k * c
    BY <1>2, Before
  <2> QED
    BY <1>0, <2>1
<1>3. CASE k = l
  BY <1>0, <1>3
<1> QED
  BY <1>1, <1>2, <1>3

\* Division finds the row of a place.
LEMMA Divided ==
    ASSUME NEW c \in Nat \ {0}, NEW o \in Nat
    PROVE  /\ o \div c \in Nat
           /\ (o \div c) * c <= o /\ o < (o \div c) * c + c
<1>1. o \div c \in Nat
  BY Z3
<1>2. c * (o \div c) <= o
  BY Z3
<1>4. o < c * (o \div c) + c
  BY Z3
<1>3. c * (o \div c) = (o \div c) * c
  BY <1>1
<1> QED
  BY <1>1, <1>2, <1>3, <1>4

LEMMA Quotient ==
    ASSUME NEW c \in Nat \ {0}, NEW m \in Nat
    PROVE  (m * c) \div c = m /\ (m * c) % c = 0
<1>1. PICK o \in Nat : o = m * c
  BY Product
<1>2. o = c * m + 0
  BY <1>1
<1>3. o \div c = m /\ o % c = 0
  BY ONLY <1>2, c \in Nat \ {0}, m \in Nat, o \in Nat, Z3
<1> QED
  BY <1>1, <1>3

-----------------------------------------------------------------------------
(* Rows in a file. *)

Chars == [of : Nat, char : {"digit", "space", "newline"}]

\* How many rows a file has, what the k-th of them is, and that it has no others.
Count(f) == Len(f) \div COMPLEX_BYTE
Holds(f, k, r) == \A i \in 1..COMPLEX_BYTE : f[k * COMPLEX_BYTE + i] = r[i]
Whole(f) == f \in Seq(Chars) /\ Count(f) \in Nat /\ Len(f) = Count(f) * COMPLEX_BYTE
IsRows(f, w) ==
    /\ Whole(f)
    /\ \A k \in 0..Count(f) - 1 : Holds(f, k, EmptyRow) \/ \E n \in 0..w : Holds(f, k, Row(n))

\* A place for a row: an empty row, or the end of the file.
Slot(f, o) == \E k \in 0..Count(f) : o = k * COMPLEX_BYTE /\ (k = Count(f) \/ Holds(f, k, EmptyRow))

\* The last character, which a space behind it makes look like an empty row; and
\* all that _get_empty finds.
Edge(f, o) == f # <<>> /\ o = Len(f) - 1
Aim(f, o) == Slot(f, o) \/ Edge(f, o)

LEMMA RowText ==
    ASSUME NEW n \in Nat
    PROVE  /\ Row(n) \in Seq(Chars) /\ Len(Row(n)) = COMPLEX_BYTE
           /\ Row(n)[1].char = "digit"
           /\ \A i \in 1..COMPLEX_BYTE : /\ Row(n)[i].char = "newline" <=> i = COMPLEX_BYTE
                                         /\ Row(n)[i].of \in 0..n
<1>1. COMPLEX_BYTE \in Nat /\ COMPLEX_BYTE >= 3
  BY RowsAssumption
<1>2. /\ Digit(n).of = n /\ Digit(n).char = "digit" /\ Digit(n) \in Chars
      /\ Space.of = 0 /\ Space.char = "space" /\ Space \in Chars
      /\ Newline.of = 0 /\ Newline.char = "newline" /\ Newline \in Chars
  BY DEF Digit, Space, Newline, Chars
<1>3. \A i \in 1..COMPLEX_BYTE :
         /\ i = COMPLEX_BYTE => Row(n)[i] = Newline
         /\ i = COMPLEX_BYTE - 1 => Row(n)[i] = Space
         /\ i # COMPLEX_BYTE /\ i # COMPLEX_BYTE - 1 => Row(n)[i] = Digit(n)
  BY <1>1 DEF Row
<1>4. \A i \in 1..COMPLEX_BYTE : Row(n)[i] \in {Newline, Space, Digit(n)}
  BY <1>3
<1>5. Row(n) \in Seq(Chars) /\ Len(Row(n)) = COMPLEX_BYTE
  <2>1. DOMAIN Row(n) = 1..COMPLEX_BYTE /\ Row(n) = [i \in 1..COMPLEX_BYTE |-> Row(n)[i]]
    BY DEF Row
  <2>2. Row(n) \in [1..COMPLEX_BYTE -> Chars]
    BY <1>2, <1>4, <2>1
  <2> QED
    BY <1>1, <2>2
<1>6. 1 \in 1..COMPLEX_BYTE /\ 1 # COMPLEX_BYTE /\ 1 # COMPLEX_BYTE - 1
  BY <1>1
<1>7. Row(n)[1].char = "digit"
  BY <1>2, <1>3, <1>6
<1>8. ASSUME NEW i \in 1..COMPLEX_BYTE
      PROVE  (Row(n)[i].char = "newline" <=> i = COMPLEX_BYTE) /\ Row(n)[i].of \in 0..n
  BY <1>1, <1>2, <1>3
<1> QED
  BY <1>5, <1>7, <1>8

LEMMA EmptyText ==
    /\ EmptyRow \in Seq(Chars) /\ Len(EmptyRow) = COMPLEX_BYTE
    /\ EmptyRow[1].char = "newline"
    /\ \A i \in 1..COMPLEX_BYTE : /\ EmptyRow[i].char = "newline" <=> i = 1
                                  /\ EmptyRow[i].of = 0
<1>1. COMPLEX_BYTE \in Nat /\ 1 \in 1..COMPLEX_BYTE
  BY RowsAssumption
<1>2. /\ Space.of = 0 /\ Space.char = "space" /\ Space \in Chars
      /\ Newline.of = 0 /\ Newline.char = "newline" /\ Newline \in Chars
  BY DEF Space, Newline, Chars
<1>3. \A i \in 1..COMPLEX_BYTE : EmptyRow[i] = IF i = 1 THEN Newline ELSE Space
  BY DEF EmptyRow
<1>4. EmptyRow \in Seq(Chars) /\ Len(EmptyRow) = COMPLEX_BYTE
  <2>1. EmptyRow = [i \in 1..COMPLEX_BYTE |-> EmptyRow[i]]
    BY DEF EmptyRow
  <2>2. EmptyRow \in [1..COMPLEX_BYTE -> Chars]
    BY <1>2, <1>3, <2>1
  <2> QED
    BY <1>1, <2>2
<1> QED
  BY <1>1, <1>2, <1>3, <1>4

\* A row in a file, as the sequence of its characters.
LEMMA RowIs ==
    ASSUME NEW f, Whole(f), NEW k \in 0..Count(f) - 1,
           NEW r \in Seq(Chars), Len(r) = COMPLEX_BYTE
    PROVE  /\ RowAt(f, k) = r <=> Holds(f, k, r)
           /\ RowAt(f, k) \in Seq(Chars) /\ Len(RowAt(f, k)) = COMPLEX_BYTE
<1> DEFINE o == k * COMPLEX_BYTE
           s == SubSeq(f, o + 1, (k + 1) * COMPLEX_BYTE)
<1>1. COMPLEX_BYTE \in Nat /\ Count(f) \in Nat /\ k \in Nat /\ k < Count(f)
  BY RowsAssumption DEF Whole
<1>2. /\ o \in Nat /\ (k + 1) * COMPLEX_BYTE = o + COMPLEX_BYTE
      /\ o + COMPLEX_BYTE <= Len(f)
  BY <1>1, Product, Before DEF Whole
<1>3. f \in Seq(Chars)
  BY DEF Whole
<1> HIDE DEF o
<1>4. s = SubSeq(f, o + 1, o + COMPLEX_BYTE)
  BY <1>2
<1>5. \A i \in o + 1..o + COMPLEX_BYTE : f[i] \in Chars
  BY <1>1, <1>2, <1>3
<1>6. /\ s \in Seq(Chars) /\ Len(s) = COMPLEX_BYTE
      /\ \A i \in 1..COMPLEX_BYTE : s[i] = f[o + i]
  <2> HIDE DEF s
  <2>1. PICK a \in Int, b \in Int : a = o + 1 /\ b = o + COMPLEX_BYTE
    BY <1>1, <1>2
  <2>2. s = SubSeq(f, a, b) /\ \A i \in a..b : f[i] \in Chars
    BY <1>4, <1>5, <2>1
  <2>3. /\ s \in Seq(Chars)
        /\ Len(s) = IF a <= b THEN b - a + 1 ELSE 0
        /\ \A i \in 1..b - a + 1 : s[i] = f[a + i - 1]
    BY <2>2, SubSeqProperties
  <2>4. a <= b /\ b - a + 1 = COMPLEX_BYTE /\ \A i \in 1..COMPLEX_BYTE : a + i - 1 = o + i
    BY <1>1, <1>2, <2>1, RowsAssumption
  <2> QED
    BY <2>3, <2>4
<1>7. RowAt(f, k) = s
  BY DEF RowAt, o
<1> HIDE DEF s
<1>8. Holds(f, k, r) <=> \A i \in 1..COMPLEX_BYTE : s[i] = r[i]
  BY <1>6 DEF Holds, o
<1>9. s = r <=> \A i \in 1..COMPLEX_BYTE : s[i] = r[i]
  BY <1>6, SeqEqual
<1> QED
  BY <1>6, <1>7, <1>8, <1>9

\* The rows that are filled, by place.
LEMMA FilledIs ==
    ASSUME NEW f, Whole(f)
    PROVE  /\ Places(f) = 0..Count(f) - 1
           /\ Filled(f) = {k \in 0..Count(f) - 1 : ~Holds(f, k, EmptyRow)}
           /\ IsFiniteSet(Filled(f)) /\ Cardinality(Filled(f)) \in Nat
<1>1. Places(f) = 0..Count(f) - 1
  BY DEF Places, Count
<1>2. \A k \in 0..Count(f) - 1 : RowAt(f, k) = EmptyRow <=> Holds(f, k, EmptyRow)
  BY RowIs, EmptyText
<1>3. IsFiniteSet(0..Count(f) - 1)
  <2>1. 0 \in Int /\ Count(f) - 1 \in Int
    BY DEF Whole
  <2> QED
    BY <2>1, FS_Interval
<1>4. Filled(f) \subseteq 0..Count(f) - 1
  BY <1>1 DEF Filled
<1> QED
  BY <1>1, <1>2, <1>3, <1>4, FS_Subset, FS_CardinalityType DEF Filled

\* The row an offset lies in.
LEMMA InRow ==
    ASSUME NEW f, Whole(f), NEW o \in Offsets(f)
    PROVE  /\ o \in Nat /\ o < Len(f) /\ o \div COMPLEX_BYTE \in 0..Count(f) - 1
           /\ \E i \in 1..COMPLEX_BYTE : o + 1 = (o \div COMPLEX_BYTE) * COMPLEX_BYTE + i
<1>1. o \in Nat /\ o < Len(f) /\ COMPLEX_BYTE \in Nat \ {0} /\ Count(f) \in Nat
      /\ Len(f) = Count(f) * COMPLEX_BYTE
  BY RowsAssumption DEF Offsets, Whole
<1>2. PICK k : k = o \div COMPLEX_BYTE
  OBVIOUS
<1>3. k \in Nat /\ k * COMPLEX_BYTE <= o /\ o < k * COMPLEX_BYTE + COMPLEX_BYTE
  BY <1>1, <1>2, Divided
<1>4. k * COMPLEX_BYTE \in Nat
  BY <1>1, <1>3, Product
<1>5. k < Count(f)
  <2>1. ASSUME Count(f) <= k PROVE FALSE
    <3>1. Count(f) * COMPLEX_BYTE <= k * COMPLEX_BYTE
      BY ONLY <1>1, <1>3, <2>1, Product
    <3> QED
      BY <1>1, <1>3, <1>4, <3>1
  <2> QED
    BY <1>1, <1>3, <2>1
<1>6. \E i \in 1..COMPLEX_BYTE : o + 1 = k * COMPLEX_BYTE + i
  <2>1. PICK p \in Nat : p = k * COMPLEX_BYTE
    BY <1>4
  <2>2. p <= o /\ o < p + COMPLEX_BYTE
    BY <1>3, <2>1
  <2>3. PICK i \in 1..COMPLEX_BYTE : o + 1 = p + i
    <3>1. o + 1 - p \in 1..COMPLEX_BYTE /\ o + 1 = p + (o + 1 - p)
      BY ONLY <1>1, <2>2, p \in Nat
    <3> QED
      BY <3>1
  <2>4. o + 1 = k * COMPLEX_BYTE + i
    BY <2>1, <2>3, Zenon
  <2> QED
    BY <2>4, Zenon
<1>7. k \in 0..Count(f) - 1
  BY <1>1, <1>3, <1>5
<1> QED
  BY <1>1, <1>2, <1>6, <1>7, Zenon

\* A row written where a row is, or at the end: the others stay as they are.
LEMMA Overwritten ==
    ASSUME NEW f, Whole(f), NEW k \in 0..Count(f), NEW r \in Seq(Chars), Len(r) = COMPLEX_BYTE,
           NEW g, g = WriteAt(f, k * COMPLEX_BYTE, r)
    PROVE  /\ Whole(g)
           /\ Count(g) = IF k = Count(f) THEN Count(f) + 1 ELSE Count(f)
           /\ Holds(g, k, r)
           /\ \A l \in 0..Count(f) - 1 : l # k =>
                 \A i \in 1..COMPLEX_BYTE : g[l * COMPLEX_BYTE + i] = f[l * COMPLEX_BYTE + i]
<1>1. /\ COMPLEX_BYTE \in Nat \ {0} /\ Count(f) \in Nat /\ k \in Nat /\ k <= Count(f)
      /\ f \in Seq(Chars) /\ Len(f) = Count(f) * COMPLEX_BYTE
  BY RowsAssumption DEF Whole
<1>2. PICK o : o = k * COMPLEX_BYTE
  OBVIOUS
<1>3. PICK m : m = IF k = Count(f) THEN Count(f) + 1 ELSE Count(f)
  OBVIOUS
<1>4. o \in Nat /\ o <= Len(f) /\ Len(f) \in Nat /\ m \in Nat
  <2>1. k * COMPLEX_BYTE \in Nat /\ k * COMPLEX_BYTE <= Count(f) * COMPLEX_BYTE
    BY ONLY <1>1, Product
  <2> QED
    BY <1>1, <1>2, <1>3, <2>1
<1>5. /\ IF o + COMPLEX_BYTE > Len(f) THEN m * COMPLEX_BYTE = o + COMPLEX_BYTE
                                     ELSE m * COMPLEX_BYTE = Len(f)
  <2>1. CASE k = Count(f)
    <3>1. m = k + 1 /\ o = Len(f)
      BY <1>1, <1>2, <1>3, <2>1
    <3>2. m * COMPLEX_BYTE = o + COMPLEX_BYTE
      BY <1>1, <1>2, <3>1, Product
    <3> QED
      BY <1>1, <1>4, <3>1, <3>2
  <2>2. CASE k # Count(f)
    <3>1. k < Count(f) /\ m = Count(f)
      BY <1>1, <1>3, <2>2
    <3>2. o + COMPLEX_BYTE <= Len(f)
      BY <1>1, <1>2, <3>1, Before
    <3> QED
      BY <1>1, <1>4, <3>1, <3>2
  <2> QED
    BY <2>1, <2>2
<1>6. PICK size \in Nat : size = m * COMPLEX_BYTE /\ o + COMPLEX_BYTE <= size /\ Len(f) <= size
                          /\ (size = Len(f) \/ size = o + COMPLEX_BYTE)
  BY <1>1, <1>4, <1>5, Product
<1>7. g = [j \in 1..size |-> IF j \in (o + 1)..(o + COMPLEX_BYTE) THEN r[j - o] ELSE f[j]]
  <2>1. g = [j \in 1..(IF o + COMPLEX_BYTE > Len(f) THEN o + COMPLEX_BYTE ELSE Len(f)) |->
                IF j \in (o + 1)..(o + COMPLEX_BYTE) THEN r[j - o] ELSE f[j]]
    BY <1>2, Zenon DEF WriteAt
  <2>2. size = IF o + COMPLEX_BYTE > Len(f) THEN o + COMPLEX_BYTE ELSE Len(f)
    BY <1>5, <1>6
  <2> QED
    BY <2>1, <2>2, Zenon
<1>8. /\ \A j \in 1..size : j \in (o + 1)..(o + COMPLEX_BYTE) => g[j] = r[j - o] /\ r[j - o] \in Chars
      /\ \A j \in 1..size : j \notin (o + 1)..(o + COMPLEX_BYTE) => g[j] = f[j] /\ f[j] \in Chars
  <2>1. ASSUME NEW j \in 1..size, j \in (o + 1)..(o + COMPLEX_BYTE)
        PROVE  g[j] = r[j - o] /\ r[j - o] \in Chars
    <3>1. j - o \in 1..Len(r)
      BY <1>1, <1>4, <2>1
    <3> QED
      BY <1>7, <2>1, <3>1
  <2>2. ASSUME NEW j \in 1..size, j \notin (o + 1)..(o + COMPLEX_BYTE)
        PROVE  g[j] = f[j] /\ f[j] \in Chars
    <3>1. j \in 1..Len(f)
      BY <1>1, <1>4, <1>6, <2>2
    <3> QED
      BY <1>1, <1>7, <2>2, <3>1
  <2> QED
    BY <2>1, <2>2
<1>9. Whole(g) /\ Count(g) = m
  <2>1. g \in [1..size -> Chars]
    BY <1>7, <1>8
  <2>2. g \in Seq(Chars) /\ Len(g) = size
    BY <1>6, <2>1
  <2>3. Count(g) = m
    <3>1. (m * COMPLEX_BYTE) \div COMPLEX_BYTE = m
      BY ONLY <1>1, <1>4, Quotient
    <3>2. Len(g) = m * COMPLEX_BYTE
      BY <1>6, <2>2
    <3> QED
      BY <3>1, <3>2, Zenon DEF Count
  <2> QED
    BY <1>4, <1>6, <2>2, <2>3 DEF Whole
<1>10. Holds(g, k, r)
  <2>1. ASSUME NEW i \in 1..COMPLEX_BYTE PROVE g[o + i] = r[i]
    <3>1. o + i \in 1..size /\ o + i \in (o + 1)..(o + COMPLEX_BYTE) /\ (o + i) - o = i
      BY <1>1, <1>4, <1>6
    <3> QED
      BY <1>8, <3>1
  <2> QED
    BY <1>2, <2>1 DEF Holds
<1>11. ASSUME NEW l \in 0..Count(f) - 1, l # k, NEW i \in 1..COMPLEX_BYTE
       PROVE  g[l * COMPLEX_BYTE + i] = f[l * COMPLEX_BYTE + i]
  <2>1. PICK p : p = l * COMPLEX_BYTE
    OBVIOUS
  <2>2. p \in Nat /\ p + COMPLEX_BYTE <= Len(f)
    <3>1. l \in Nat /\ l < Count(f)
      BY <1>1
    <3>2. l * COMPLEX_BYTE \in Nat /\ l * COMPLEX_BYTE + COMPLEX_BYTE <= Count(f) * COMPLEX_BYTE
      BY ONLY <1>1, <3>1, Product, Before
    <3> QED
      BY <1>1, <2>1, <3>2
  <2>3. p + COMPLEX_BYTE <= o \/ o + COMPLEX_BYTE <= p
    <3>1. CASE l < k
      BY <1>1, <1>2, <2>1, <3>1, Before
    <3>2. CASE k < l
      BY <1>1, <1>2, <2>1, <3>2, Before
    <3> QED
      BY <1>1, <1>11, <3>1, <3>2
  <2>4. p + i \in 1..size /\ p + i \notin (o + 1)..(o + COMPLEX_BYTE)
    BY <1>1, <1>4, <1>6, <2>2, <2>3
  <2> QED
    BY <1>8, <2>1, <2>4
<1> QED
  BY <1>3, <1>9, <1>10, <1>11

-----------------------------------------------------------------------------
(* Scanning a file.                                                        *)

\* A set of naturals that is not empty has a least element.
LEMMA LeastElement ==
    ASSUME NEW S \in SUBSET Nat, S # {}
    PROVE  \E m \in S : \A k \in S : m <= k
<1>1. PICK R : R = OpToRel(<, Nat)
  OBVIOUS
<1>2. R = {ss \in Nat \X Nat : ss[1] < ss[2]}
  BY <1>1, Zenon DEF OpToRel
<1>3. IsWellFoundedOn(R, Nat)
  BY <1>1, NatLessThanWellFounded, Zenon
<1>4. PICK m \in S : \A k \in S : ~ (<<k, m>> \in R)
  BY <1>3, WFMin
<1>5. ASSUME NEW k \in S, k < m PROVE FALSE
  <2>1. <<k, m>> \in R
    BY <1>2, <1>5
  <2> QED
    BY <1>4, <2>1
<1> QED
  BY <1>5

\* The first of some offsets is one of them.
LEMMA FirstOfIs ==
    ASSUME NEW S \in SUBSET Nat, NEW e
    PROVE  (S = {} /\ FirstOf(S, e) = e) \/ FirstOf(S, e) \in S
<1>1. CASE S = {}
  BY <1>1 DEF FirstOf
<1>2. CASE S # {}
  <2>1. \E m \in S : \A k \in S : m <= k
    BY <1>2, LeastElement
  <2>2. FirstOf(S, e) = CHOOSE o \in S : \A p \in S : o <= p
    BY <1>2 DEF FirstOf
  <2> QED
    BY <2>1, <2>2, Zenon
<1> QED
  BY <1>1, <1>2

\* A row never begins with a space, and no character is of a row that was
\* not written.
LEMMA RowBegins ==
    ASSUME NEW w \in Nat, NEW f, IsRows(f, w), NEW k \in 0..Count(f) - 1
    PROVE  f[k * COMPLEX_BYTE + 1].char # "space"
<1>1. 1 \in 1..COMPLEX_BYTE
  BY RowsAssumption
<1>2. CASE Holds(f, k, EmptyRow)
  <2>1. f[k * COMPLEX_BYTE + 1] = EmptyRow[1]
    BY <1>1, <1>2, Zenon DEF Holds
  <2> QED
    BY <2>1, EmptyText
<1>3. ASSUME NEW n \in 0..w, Holds(f, k, Row(n)) PROVE f[k * COMPLEX_BYTE + 1].char # "space"
  <2>1. f[k * COMPLEX_BYTE + 1] = Row(n)[1]
    BY <1>1, <1>3, Zenon DEF Holds
  <2>2. Row(n)[1].char = "digit"
    BY RowText
  <2>3. Row(n)[1].char # "space"
    BY <2>2
  <2> QED
    BY <2>1, <2>3, Zenon
<1> QED
  BY <1>2, <1>3, Zenon DEF IsRows

LEMMA NumberOfRow ==
    ASSUME NEW w \in Nat, NEW f, IsRows(f, w), NEW o \in Offsets(f)
    PROVE  f[o + 1].of \in 0..w
<1>1. PICK k : k = o \div COMPLEX_BYTE
  OBVIOUS
<1>2. k \in 0..Count(f) - 1
  BY <1>1, InRow, Zenon DEF IsRows
<1>3. PICK i \in 1..COMPLEX_BYTE : o + 1 = k * COMPLEX_BYTE + i
  BY <1>1, InRow, Zenon DEF IsRows
<1>4. CASE Holds(f, k, EmptyRow)
  <2>1. f[o + 1] = EmptyRow[i]
    BY <1>3, <1>4, Zenon DEF Holds
  <2> QED
    BY <2>1, EmptyText
<1>5. ASSUME NEW n \in 0..w, Holds(f, k, Row(n)) PROVE f[o + 1].of \in 0..w
  <2>1. f[o + 1] = Row(n)[i]
    BY <1>3, <1>5, Zenon DEF Holds
  <2>2. f[o + 1].of \in 0..n
    BY <2>1, RowText
  <2> QED
    BY <2>2
<1> QED
  BY <1>2, <1>4, <1>5, Zenon DEF IsRows

\* _get_empty finds a place for a row, unless the buffer misleads it.
LEMMA GetEmpty ==
    ASSUME NEW w \in Nat, NEW f, IsRows(f, w), NEW stale, NEW o, o = get_empty(f, stale)
    PROVE  Aim(f, o)
<1>1. /\ COMPLEX_BYTE \in Nat \ {0} /\ Whole(f) /\ Count(f) \in Nat
      /\ f \in Seq(Chars) /\ Len(f) = Count(f) * COMPLEX_BYTE /\ Len(f) \in Nat
  BY RowsAssumption DEF IsRows, Whole
<1> DEFINE S == {q \in Offsets(f) : At(f, q, stale) = "newline" /\ At(f, q + 1, stale) = "space"}
<1>2. S \in SUBSET Nat /\ o = FirstOf(S, Len(f))
  BY <1>1 DEF get_empty, Offsets
<1>3. CASE o = Len(f)
  <2>1. Count(f) \in 0..Count(f)
    BY <1>1
  <2> QED
    BY <1>1, <1>3, <2>1, Zenon DEF Slot, Aim
<1>4. CASE o \in S
  <2>1. /\ o \in Offsets(f) /\ o \in Nat /\ o < Len(f)
        /\ f[o + 1].char = "newline" /\ At(f, o + 1, stale) = "space"
    BY <1>4 DEF Offsets, At
  <2>2. PICK k : k = o \div COMPLEX_BYTE
    OBVIOUS
  <2>3. k \in 0..Count(f) - 1
    BY <1>1, <2>1, <2>2, InRow, Zenon
  <2>4. PICK i \in 1..COMPLEX_BYTE : o + 1 = k * COMPLEX_BYTE + i
    BY <1>1, <2>1, <2>2, InRow, Zenon
  <2>5. PICK p : p = k * COMPLEX_BYTE
    OBVIOUS
  <2>6. p \in Nat /\ o + 1 = p + i /\ (k + 1) * COMPLEX_BYTE = p + COMPLEX_BYTE
    <3>1. k \in Nat
      BY <1>1, <2>3
    <3>2. k * COMPLEX_BYTE \in Nat /\ (k + 1) * COMPLEX_BYTE = k * COMPLEX_BYTE + COMPLEX_BYTE
      BY ONLY <1>1, <3>1, Product
    <3> QED
      BY <2>4, <2>5, <3>2, Zenon
  <2>7. CASE Holds(f, k, EmptyRow)
    <3>1. f[o + 1] = EmptyRow[i]
      BY <2>4, <2>7, Zenon DEF Holds
    <3>2. i = 1
      BY <2>1, <3>1, EmptyText
    <3>3. o = p
      BY <2>1, <2>6, <3>2
    <3>4. k \in 0..Count(f)
      BY <1>1, <2>3
    <3> QED
      BY <2>5, <2>7, <3>3, <3>4, Zenon DEF Slot, Aim
  <2>8. ASSUME NEW n \in 0..w, Holds(f, k, Row(n))
        PROVE  Edge(f, o)
    <3>1. f[o + 1] = Row(n)[i]
      BY <2>4, <2>8, Zenon DEF Holds
    <3>2. i = COMPLEX_BYTE
      BY <2>1, <3>1, RowText
    <3>3. CASE o + 1 < Len(f)
      <4>1. f[o + 2].char = "space"
        BY <2>1, <3>3 DEF At
      <4>2. k + 1 \in 0..Count(f) - 1
        <5>1. ASSUME k + 1 = Count(f) PROVE FALSE
          <6>1. Len(f) = p + COMPLEX_BYTE
            BY <1>1, <2>6, <5>1, Zenon
          <6> QED
            BY <1>1, <2>1, <2>6, <3>2, <3>3, <6>1
        <5> QED
          BY <1>1, <2>3, <5>1
      <4>3. f[(k + 1) * COMPLEX_BYTE + 1].char # "space"
        BY <4>2, RowBegins
      <4>4. (k + 1) * COMPLEX_BYTE + 1 = o + 2
        <5>1. (p + COMPLEX_BYTE) + 1 = o + 2
          BY <1>1, <2>1, <2>6, <3>2
        <5> QED
          BY <2>6, <5>1, Zenon
      <4> QED
        BY <4>1, <4>3, <4>4, Zenon
    <3>4. CASE o + 1 = Len(f)
      <4>1. o = Len(f) - 1 /\ Len(f) # 0
        BY <1>1, <2>1, <3>4
      <4> QED
        BY <4>1 DEF Edge
    <3> QED
      BY <1>1, <2>1, <3>3, <3>4
  <2> QED
    BY <2>3, <2>7, <2>8, Zenon DEF IsRows, Aim
<1> QED
  <2> HIDE DEF S
  <2>1. o = Len(f) \/ o \in S
    BY <1>2, FirstOfIs
  <2> QED
    BY <1>3, <1>4, <2>1

\* _get_nonempty finds an offset in the file, or none.
LEMMA GetNonempty ==
    ASSUME NEW f, Whole(f), NEW stale, NEW o, o = get_nonempty(f, stale)
    PROVE  o = -1 \/ o \in Offsets(f)
<1> DEFINE first == {q \in Offsets(f) : q = 0 /\ At(f, q, stale) = "digit"}
           ended == {q \in Offsets(f) : At(f, q, stale) = "newline" /\ At(f, q + 1, stale) # "space"}
           last  == {q \in Offsets(f) : /\ q = Len(f) - COMPLEX_BYTE
                                        /\ At(f, q, stale) # "newline"
                                        /\ q > 0 /\ At(f, q - 1, stale) = "space"}
<1>1. PICK S : S = first \cup ended \cup last
  OBVIOUS
<1>2. o = FirstOf(S, -1)
  BY <1>1 DEF get_nonempty
<1>3. S \subseteq Offsets(f)
  BY <1>1
<1>4. Offsets(f) \subseteq Nat
  BY DEF Offsets
<1> HIDE DEF first, ended, last
<1>5. S \in SUBSET Nat
  BY <1>3, <1>4
<1> QED
  BY <1>2, <1>3, <1>5, FirstOfIs

\* The numbers that buf2complex reads at an offset are those of a row that was
\* written, or it fails.
LEMMA NumbersAre ==
    ASSUME NEW w \in Nat, NEW f, IsRows(f, w), NEW o \in Offsets(f), NEW n,
           n \in Numbers(SubSeq(f, o + 1, Least(o + COMPLEX_BYTE, Len(f))))
    PROVE  n \in -1..w
<1>1. o \in Nat /\ o < Len(f) /\ Len(f) \in Nat /\ f \in Seq(Chars) /\ COMPLEX_BYTE \in Nat
  BY RowsAssumption DEF Offsets, IsRows, Whole
<1>2. PICK a \in Int, b \in Int : a = o + 1 /\ b = Least(o + COMPLEX_BYTE, Len(f))
  BY <1>1 DEF Least
<1>3. b <= Len(f)
  BY <1>1, <1>2 DEF Least
<1>4. PICK text : text = SubSeq(f, a, b)
  OBVIOUS
<1>5. /\ text \in Seq(Chars)
      /\ Len(text) = IF a <= b THEN b - a + 1 ELSE 0
      /\ \A i \in 1..b - a + 1 : text[i] = f[a + i - 1]
  <2>1. \A i \in a..b : f[i] \in Chars
    BY <1>1, <1>2, <1>3
  <2> QED
    BY <1>4, <2>1, SubSeqProperties
<1>6. ASSUME NEW i \in 1..Len(text) PROVE text[i].of \in 0..w
  <2>1. i \in 1..b - a + 1 /\ a + i - 1 = (a + i - 2) + 1 /\ a + i - 2 \in Offsets(f)
    BY <1>1, <1>2, <1>3, <1>5 DEF Offsets
  <2>2. f[(a + i - 2) + 1].of \in 0..w
    BY ONLY <2>1, NumberOfRow, w \in Nat, IsRows(f, w)
  <2>3. text[i] = f[(a + i - 2) + 1]
    BY <1>5, <2>1
  <2> QED
    BY <2>2, <2>3
<1> DEFINE digits == {i \in 1..Len(text) : text[i].char = "digit"}
<1>7. n \in Numbers(text)
  BY <1>2, <1>4
<1>8. CASE digits # {}
  <2>1. digits \in SUBSET Nat
    OBVIOUS
  <2>2. \E i \in digits : \A j \in digits : i <= j
    BY <1>8, <2>1, LeastElement
  <2>3. PICK i : i = CHOOSE k \in digits : \A j \in digits : k <= j
    OBVIOUS
  <2>4. i \in digits
    BY <2>2, <2>3, Zenon
  <2>5. n = text[i].of
    <3>1. Numbers(text) = {text[CHOOSE k \in digits : \A j \in digits : k <= j].of}
      BY <1>8, Zenon DEF Numbers
    <3>2. Numbers(text) = {text[i].of}
      BY <2>3, <3>1, Zenon
    <3> QED
      BY <1>7, <3>2, Zenon
  <2>6. n \in 0..w
    BY <1>6, <2>4, <2>5
  <2> QED
    BY <2>6
<1>9. CASE digits = {}
  <2>1. n \in {-1, 0}
    BY <1>7, <1>9 DEF Numbers
  <2> QED
    BY <2>1
<1> QED
  BY <1>8, <1>9

-----------------------------------------------------------------------------
(* What the filled rows become.                                            *)

\* A filled row is not an empty one.
LEMMA FilledRow ==
    ASSUME NEW f, NEW k, NEW n \in Nat, Holds(f, k, Row(n))
    PROVE  ~Holds(f, k, EmptyRow)
<1>1. 1 \in 1..COMPLEX_BYTE
  BY RowsAssumption
<1>2. f[k * COMPLEX_BYTE + 1] = Row(n)[1]
  BY <1>1, Zenon DEF Holds
<1>3. Holds(f, k, EmptyRow) => f[k * COMPLEX_BYTE + 1] = EmptyRow[1]
  BY <1>1, Zenon DEF Holds
<1>4. Row(n)[1].char # EmptyRow[1].char
  <2>1. Row(n)[1].char = "digit"
    BY RowText
  <2> QED
    BY <2>1, EmptyText
<1> QED
  BY <1>2, <1>3, <1>4, Zenon

\* A row that is the same in two files.
LEMMA SameRow ==
    ASSUME NEW f, NEW g, NEW k,
           \A i \in 1..COMPLEX_BYTE : g[k * COMPLEX_BYTE + i] = f[k * COMPLEX_BYTE + i]
    PROVE  /\ \A r : Holds(g, k, r) <=> Holds(f, k, r)
           /\ Whole(f) /\ Whole(g) /\ k \in 0..Count(f) - 1 /\ k \in 0..Count(g) - 1
              => RowAt(g, k) = RowAt(f, k)
<1>1. \A r : Holds(g, k, r) <=> Holds(f, k, r)
  BY Zenon DEF Holds
<1>2. ASSUME Whole(f), Whole(g), k \in 0..Count(f) - 1, k \in 0..Count(g) - 1
      PROVE  RowAt(g, k) = RowAt(f, k)
  <2>1. RowAt(f, k) \in Seq(Chars) /\ Len(RowAt(f, k)) = COMPLEX_BYTE
    BY <1>2, EmptyText, RowIs
  <2>2. Holds(f, k, RowAt(f, k))
    BY <1>2, <2>1, RowIs
  <2>3. Holds(g, k, RowAt(f, k))
    BY <1>1, <2>2
  <2> QED
    BY <1>2, <2>1, <2>3, RowIs
<1> QED
  BY <1>1, <1>2

\* A row is written at its place: one more is filled, and those that were
\* stay as they are.
LEMMA RowWritten ==
    ASSUME NEW w \in Nat, NEW v \in Nat, w <= v, NEW f, IsRows(f, w),
           NEW o, Slot(f, o), NEW n \in 0..v, NEW g, g = WriteAt(f, o, Row(n))
    PROVE  /\ IsRows(g, v) /\ Len(f) <= Len(g)
           /\ Cardinality(Filled(g)) = Cardinality(Filled(f)) + 1
           /\ \A k \in Filled(f) : RowAt(g, k) = RowAt(f, k)
<1>1. PICK k \in 0..Count(f) : o = k * COMPLEX_BYTE /\ (k = Count(f) \/ Holds(f, k, EmptyRow))
  BY Zenon DEF Slot
<1>2. Whole(f) /\ Count(f) \in Nat /\ k \in Nat /\ k <= Count(f) /\ n \in Nat
  BY <1>1 DEF IsRows, Whole
<1>3. Row(n) \in Seq(Chars) /\ Len(Row(n)) = COMPLEX_BYTE
  BY <1>2, RowText
<1>4. g = WriteAt(f, k * COMPLEX_BYTE, Row(n))
  BY <1>1, Zenon
<1>5. /\ Whole(g) /\ Count(g) = IF k = Count(f) THEN Count(f) + 1 ELSE Count(f)
      /\ Holds(g, k, Row(n))
      /\ \A l \in 0..Count(f) - 1 : l # k =>
            \A i \in 1..COMPLEX_BYTE : g[l * COMPLEX_BYTE + i] = f[l * COMPLEX_BYTE + i]
  BY ONLY <1>1, <1>2, <1>3, <1>4, Overwritten
<1>6. ~Holds(g, k, EmptyRow)
  BY <1>2, <1>5, FilledRow
<1>7. 0..Count(g) - 1 = (0..Count(f) - 1) \cup {k}
  BY <1>1, <1>2, <1>5
<1>8. ASSUME NEW l \in 0..Count(f) - 1, l # k
      PROVE  /\ \A r : Holds(g, l, r) <=> Holds(f, l, r)
             /\ RowAt(g, l) = RowAt(f, l)
  <2>1. \A i \in 1..COMPLEX_BYTE : g[l * COMPLEX_BYTE + i] = f[l * COMPLEX_BYTE + i]
    BY <1>5, <1>8, Zenon
  <2>2. l \in 0..Count(g) - 1
    BY <1>7
  <2> QED
    BY <1>2, <1>5, <2>1, <2>2, SameRow
<1>9. IsRows(g, v)
  <2>1. ASSUME NEW l \in 0..Count(g) - 1
        PROVE  Holds(g, l, EmptyRow) \/ \E m \in 0..v : Holds(g, l, Row(m))
    <3>1. CASE l = k
      BY <1>5, <3>1
    <3>2. CASE l # k
      <4>1. l \in 0..Count(f) - 1
        BY <1>7, <3>2
      <4>2. Holds(f, l, EmptyRow) \/ \E m \in 0..w : Holds(f, l, Row(m))
        BY <4>1, Zenon DEF IsRows
      <4>3. 0..w \subseteq 0..v
        OBVIOUS
      <4> QED
        BY <1>8, <3>2, <4>1, <4>2, <4>3, Zenon
    <3> QED
      BY <3>1, <3>2
  <2> QED
    BY <1>5, <2>1, Zenon DEF IsRows
<1>10. Filled(g) = Filled(f) \cup {k} /\ k \notin Filled(f)
  <2>1. /\ Filled(f) = {l \in 0..Count(f) - 1 : ~Holds(f, l, EmptyRow)}
        /\ Filled(g) = {l \in 0..Count(g) - 1 : ~Holds(g, l, EmptyRow)}
    BY <1>2, <1>5, FilledIs
  <2>2. k \notin Filled(f)
    BY <1>1, <1>2, <2>1
  <2>3. \A l : l \in Filled(g) <=> l \in Filled(f) \/ l = k
    <3>1. \A l : l \in 0..Count(g) - 1 <=> l \in 0..Count(f) - 1 \/ l = k
      BY <1>7
    <3> QED
      BY <1>6, <1>8, <2>1, <3>1, Zenon
  <2> QED
    BY <2>2, <2>3
<1>11. Cardinality(Filled(g)) = Cardinality(Filled(f)) + 1
  BY <1>2, <1>10, FilledIs, FS_AddElement
<1>12. \A l \in Filled(f) : RowAt(g, l) = RowAt(f, l)
  <2>1. \A l \in Filled(f) : l \in 0..Count(f) - 1
    BY <1>2, FilledIs
  <2> QED
    BY <1>8, <1>10, <2>1
<1>13. Len(f) <= Len(g)
  <2>1. Count(g) \in Nat /\ Count(f) <= Count(g) /\ COMPLEX_BYTE \in Nat
    BY <1>2, <1>5, RowsAssumption
  <2>2. Count(f) * COMPLEX_BYTE <= Count(g) * COMPLEX_BYTE
    BY ONLY <1>2, <2>1, Product
  <2> QED
    BY <1>2, <1>5, <2>2 DEF Whole
<1> QED
  BY <1>9, <1>11, <1>12, <1>13

\* The last character is not where a row begins.
LEMMA EdgeOff ==
    ASSUME NEW f, Whole(f), NEW o, Edge(f, o)
    PROVE  o % COMPLEX_BYTE # 0
<1>1. PICK c, n : c = COMPLEX_BYTE /\ n = Count(f)
  OBVIOUS
<1>2. /\ c \in Nat /\ c >= 3 /\ n \in Nat /\ Len(f) = n * c /\ o = n * c - 1
      /\ f \in Seq(Chars) /\ f # <<>>
  BY <1>1, RowsAssumption DEF Whole, Edge
<1>3. n # 0
  <2>1. ASSUME n = 0 PROVE FALSE
    <3>1. Len(f) = 0
      BY <1>2, <2>1
    <3> QED
      BY <1>2, <3>1
  <2> QED
    BY <2>1
<1>4. ASSUME o % c = 0 PROVE FALSE
  <2>1. n * c \in Nat /\ n * c >= c
    <3>1. 1 * c <= n * c
      BY ONLY <1>2, <1>3, 1 \in Nat, 1 <= n, Product
    <3> QED
      BY <1>2, <1>3, <3>1, Product
  <2>2. o \in Nat /\ c \in Nat \ {0}
    BY <1>2, <2>1
  <2>3. PICK d : d = o \div c
    OBVIOUS
  <2>4. d \in Nat /\ d * c <= o /\ o < d * c + c
    BY <2>2, <2>3, Divided
  <2>5. o % c = o - c * (o \div c)
    BY ONLY <2>2, Z3
  <2>6. o = d * c
    <3>1. c * d = d * c /\ d * c \in Nat
      BY ONLY <2>2, <2>4, Product
    <3>2. o - c * d = 0
      BY <1>4, <2>3, <2>5, Zenon
    <3>3. o - d * c = 0
      BY <3>1, <3>2, Zenon
    <3> QED
      BY ONLY <2>2, <3>1, <3>3
  <2>7. CASE d < n
    <3>1. d * c + c <= n * c
      BY ONLY <1>2, <2>4, <2>7, Before
    <3> QED
      BY <1>2, <2>1, <2>6, <3>1
  <2>8. CASE n <= d
    <3>1. n * c <= d * c
      BY ONLY <1>2, <2>4, <2>8, Product
    <3> QED
      BY <1>2, <2>1, <2>6, <3>1
  <2> QED
    BY <1>2, <2>4, <2>7, <2>8
<1> QED
  BY <1>1, <1>4

\* A row is written over the last character: the others stay as they are.
LEMMA EdgeWritten ==
    ASSUME NEW f, Whole(f), NEW o, Edge(f, o), NEW r \in Seq(Chars), NEW g, g = WriteAt(f, o, r),
           NEW k \in Filled(f), NEW i \in 1..COMPLEX_BYTE, k * COMPLEX_BYTE + i # Len(f)
    PROVE  RowAt(g, k)[i] = RowAt(f, k)[i]
<1>1. /\ f \in Seq(Chars) /\ COMPLEX_BYTE \in Nat /\ Count(f) \in Nat
      /\ Len(f) = Count(f) * COMPLEX_BYTE /\ Len(f) \in Nat
      /\ o = Len(f) - 1 /\ f # <<>>
      /\ k \in Nat /\ k < Count(f)
  BY FilledIs, RowsAssumption DEF Whole, Edge
<1>2. PICK p \in Nat, q \in Nat, n \in Nat, t \in Nat :
        /\ p = k * COMPLEX_BYTE /\ q = p + COMPLEX_BYTE /\ q = (k + 1) * COMPLEX_BYTE
        /\ n = Len(f) /\ t = Len(r)
  <2>1. k * COMPLEX_BYTE \in Nat /\ (k + 1) * COMPLEX_BYTE = k * COMPLEX_BYTE + COMPLEX_BYTE
    BY ONLY <1>1, Product
  <2>2. k * COMPLEX_BYTE + COMPLEX_BYTE \in Nat /\ Len(r) \in Nat
    BY <1>1, <2>1
  <2> QED
    BY <1>1, <2>1, <2>2, Zenon
<1>3. q <= n
  BY <1>1, <1>2, Before
<1>4. Len(f) # 0
  BY <1>1
<1>5. o \in Nat /\ o + 1 = n
  BY <1>1, <1>2, <1>4
<1>6. PICK m \in Nat : m = IF o + t > n THEN o + t ELSE n
  BY <1>2, <1>5
<1>7. g = [j \in 1..m |-> IF j \in (o + 1)..(o + t) THEN r[j - o] ELSE f[j]]
  BY <1>2, <1>6, Zenon DEF WriteAt
<1>8. n <= m /\ \A j \in 1..m : g[j] \in Chars /\ (j < n => g[j] = f[j])
  <2>1. n <= m
    BY <1>2, <1>5, <1>6
  <2>2. ASSUME NEW j \in 1..m, j \in (o + 1)..(o + t) PROVE g[j] = r[j - o] /\ r[j - o] \in Chars
    <3>1. j - o \in 1..Len(r)
      BY <1>2, <1>5, <2>2
    <3> QED
      BY <1>7, <2>2, <3>1
  <2>3. ASSUME NEW j \in 1..m, j \notin (o + 1)..(o + t) PROVE g[j] = f[j] /\ f[j] \in Chars
    <3>1. j \in 1..Len(f)
      BY <1>2, <1>5, <1>6, <2>3
    <3> QED
      BY <1>1, <1>7, <2>3, <3>1
  <2>4. \A j \in 1..m : j < n => j \notin (o + 1)..(o + t)
    BY <1>5
  <2> QED
    BY <2>1, <2>2, <2>3, <2>4
<1>9. ASSUME NEW h, \A j \in p + 1..q : h[j] \in Chars
      PROVE  SubSeq(h, p + 1, q)[i] = h[p + i]
  <2>1. PICK x \in Int : x = p + 1
    OBVIOUS
  <2>2. \A j \in x..q : h[j] \in Chars
    BY <1>9, <2>1
  <2>3. \A j \in 1..q - x + 1 : SubSeq(h, x, q)[j] = h[x + j - 1]
    BY <2>2, SubSeqProperties
  <2>4. i \in 1..q - x + 1 /\ x + i - 1 = p + i
    BY <1>1, <1>2, <2>1
  <2> QED
    BY <2>1, <2>3, <2>4
<1>10. RowAt(g, k) = SubSeq(g, p + 1, q) /\ RowAt(f, k) = SubSeq(f, p + 1, q)
  BY <1>2 DEF RowAt
<1>11. \A j \in p + 1..q : j \in 1..m /\ j \in 1..Len(f)
  BY <1>2, <1>3, <1>8
<1>12. RowAt(g, k)[i] = g[p + i] /\ RowAt(f, k)[i] = f[p + i]
  <2>1. \A j \in p + 1..q : g[j] \in Chars /\ f[j] \in Chars
    BY <1>1, <1>8, <1>11
  <2> QED
    BY <1>9, <1>10, <2>1, Zenon
<1>13. p + i \in 1..m /\ p + i < n
  <2>1. p + i # n
    BY <1>2, Zenon
  <2>2. n <= m /\ q = p + COMPLEX_BYTE /\ COMPLEX_BYTE \in Nat
    BY <1>1, <1>2, <1>8
  <2> QED
    BY ONLY <1>3, <2>1, <2>2, i \in 1..COMPLEX_BYTE, m \in Nat, p \in Nat, q \in Nat, n \in Nat
<1> QED
  BY <1>8, <1>12, <1>13

\* A row is emptied: at most one less is filled.
LEMMA RowEmptied ==
    ASSUME NEW w \in Nat, NEW f, IsRows(f, w), NEW k \in 0..Count(f) - 1,
           NEW g, g = delete_line(f, k)
    PROVE  /\ IsRows(g, w) /\ Len(g) = Len(f)
           /\ Cardinality(Filled(f)) <= Cardinality(Filled(g)) + 1
<1>1. Whole(f) /\ Count(f) \in Nat /\ k \in Nat /\ k < Count(f) /\ k \in 0..Count(f)
  BY DEF IsRows, Whole
<1>2. /\ Whole(g) /\ Count(g) = Count(f) /\ Holds(g, k, EmptyRow)
      /\ \A l \in 0..Count(f) - 1 : l # k =>
            \A i \in 1..COMPLEX_BYTE : g[l * COMPLEX_BYTE + i] = f[l * COMPLEX_BYTE + i]
  <2>1. g = WriteAt(f, k * COMPLEX_BYTE, EmptyRow)
    BY Zenon DEF delete_line
  <2>2. EmptyRow \in Seq(Chars) /\ Len(EmptyRow) = COMPLEX_BYTE
    BY EmptyText
  <2>3. k # Count(f)
    BY <1>1
  <2> QED
    BY ONLY <1>1, <2>1, <2>2, <2>3, Overwritten
<1>3. ASSUME NEW l \in 0..Count(f) - 1, l # k
      PROVE  \A r : Holds(g, l, r) <=> Holds(f, l, r)
  <2>1. \A i \in 1..COMPLEX_BYTE : g[l * COMPLEX_BYTE + i] = f[l * COMPLEX_BYTE + i]
    BY <1>2, <1>3, Zenon
  <2> QED
    BY <2>1, SameRow
<1>4. IsRows(g, w)
  <2>1. ASSUME NEW l \in 0..Count(g) - 1
        PROVE  Holds(g, l, EmptyRow) \/ \E m \in 0..w : Holds(g, l, Row(m))
    <3>1. l \in 0..Count(f) - 1
      BY <1>2
    <3>2. Holds(f, l, EmptyRow) \/ \E m \in 0..w : Holds(f, l, Row(m))
      BY <3>1, Zenon DEF IsRows
    <3> QED
      BY <1>2, <1>3, <3>1, <3>2, Zenon
  <2> QED
    BY <1>2, <2>1, Zenon DEF IsRows
<1>5. Len(g) = Len(f)
  BY <1>1, <1>2, Zenon DEF Whole
<1>6. Filled(f) \subseteq Filled(g) \cup {k} /\ k \notin Filled(g)
  <2>1. /\ Filled(f) = {l \in 0..Count(f) - 1 : ~Holds(f, l, EmptyRow)}
        /\ Filled(g) = {l \in 0..Count(g) - 1 : ~Holds(g, l, EmptyRow)}
    BY <1>1, <1>2, FilledIs
  <2>2. ASSUME NEW l \in Filled(f), l # k PROVE l \in Filled(g)
    <3>1. l \in 0..Count(f) - 1 /\ ~Holds(f, l, EmptyRow)
      BY <2>1
    <3>2. ~Holds(g, l, EmptyRow)
      BY <1>3, <2>2, <3>1, Zenon
    <3> QED
      BY <1>2, <2>1, <3>1, <3>2
  <2>3. k \notin Filled(g)
    BY <1>2, <2>1
  <2> QED
    BY <2>2, <2>3
<1>7. Cardinality(Filled(f)) <= Cardinality(Filled(g)) + 1
  <2>1. IsFiniteSet(Filled(g)) /\ Cardinality(Filled(g)) \in Nat
    BY <1>2, FilledIs
  <2>2. IsFiniteSet(Filled(g) \cup {k}) /\ Cardinality(Filled(g) \cup {k}) = Cardinality(Filled(g)) + 1
    BY <1>6, <2>1, FS_AddElement
  <2> QED
    BY <1>6, <2>2, FS_Subset
<1> QED
  BY <1>4, <1>5, <1>7

-----------------------------------------------------------------------------
(* The invariant.                                                          *)

Instances == As \cup Bs

\* A lock for writing is held alone, and so is the lock of the results.
Locks ==
    /\ \A p, q \in Writing : p = q
    /\ Writing # {} => Reading = {}
    /\ \A p, q \in OutWriting : p = q

\* The Bs that hold a row they have taken, or lost it.
Pending == {b \in Bs : pc[b] \in {"wait", "append", "aborted"}}

Domains ==
    /\ misled \in BOOLEAN /\ written \in Nat
    /\ DOMAIN pc = Instances /\ DOMAIN line = Instances /\ DOMAIN number = Instances

\* Who is about to write a row has a place for it; who is about to read one
\* is in the file; a number that was read is that of a row.
Aimed ==
    /\ \A a \in Writing : Aim(file, line[a])
    /\ \A b \in OutWriting : Aim(outfile, line[b])
    /\ \A b \in Reading : line[b] \in Offsets(file)
    /\ \A b \in Bs : number[b] \in -1..written /\ (pc[b] \in {"wait", "append"} => number[b] # -1)

Counted == written <= Cardinality(Filled(file)) + Cardinality(Filled(outfile)) + Cardinality(Pending)

Placed ==
    /\ IsRows(file, written) /\ IsRows(outfile, written)
    /\ Aimed
    /\ Counted

RowsInv == Domains /\ Locks /\ (~misled => Placed)

\* The next operation of one instance changes.
LEMMA Moved ==
    ASSUME NEW s, DOMAIN s = Instances, NEW p \in Instances, NEW v, NEW t, t = [s EXCEPT ![p] = v]
    PROVE  DOMAIN t = Instances /\ t[p] = v /\ \A q \in Instances : q # p => t[q] = s[q]
OBVIOUS

\* One more B that holds a row, or one less.
LEMMA PendingChanges ==
    ASSUME NEW P, NEW Q, NEW b, P \subseteq Bs, Q \subseteq Bs
    PROVE  /\ Cardinality(P) \in Nat
           /\ b \notin P /\ Q = P \cup {b} => Cardinality(Q) = Cardinality(P) + 1
           /\ b \in P /\ Q = P \ {b} => Cardinality(Q) = Cardinality(P) - 1
<1>1. IsFiniteSet(Bs)
  BY InstancesAssumption
<1>2. IsFiniteSet(P) /\ Cardinality(P) \in Nat
  BY <1>1, FS_Subset, FS_CardinalityType
<1> QED
  BY <1>2, FS_AddElement, FS_RemoveElement

LEMMA RowsGrow ==
    ASSUME NEW w \in Nat, NEW v \in Nat, w <= v, NEW f, IsRows(f, w)
    PROVE  IsRows(f, v)
<1>1. 0..w \subseteq 0..v
  OBVIOUS
<1> QED
  BY <1>1, Zenon DEF IsRows

\* Where the instances are, before and after a step.
LEMMA LocksStep ==
    ASSUME Domains, Locks, [Next]_vars
    PROVE  Domains' /\ Locks'
<1> USE DEF Domains, Locks, Reading, Writing, OutWriting
<1>0. As \subseteq Instances /\ Bs \subseteq Instances /\ As \cap Bs = {}
  BY InstancesAssumption DEF Instances
<1>1. ASSUME NEW a \in As, read_32byte(a) PROVE Domains' /\ Locks'
  <2>1. PICK v \in {"exited", "lock"} : pc' = [pc EXCEPT ![a] = v]
    BY <1>1 DEF read_32byte
  <2>2. /\ DOMAIN pc' = Instances /\ pc'[a] = v /\ \A q \in Instances : q # a => pc'[q] = pc[q]
    BY <1>0, <2>1, Moved
  <2> QED
    BY <1>0, <1>1, <2>2 DEF read_32byte
<1>2. ASSUME NEW a \in As, FindEmptyRow(a) PROVE Domains' /\ Locks'
  <2>1. /\ DOMAIN pc' = Instances /\ pc'[a] = "write" /\ \A q \in Instances : q # a => pc'[q] = pc[q]
    BY <1>0, <1>2, Moved DEF FindEmptyRow, Goto
  <2>2. misled' \in BOOLEAN /\ written' = written /\ DOMAIN line' = DOMAIN line /\ number' = number
    BY <1>2 DEF FindEmptyRow, FindPlace
  <2> QED
    BY <1>0, <1>2, <2>1, <2>2 DEF FindEmptyRow, WriteLock
<1>3. ASSUME NEW a \in As, write_16numbers(a) PROVE Domains' /\ Locks'
  <2>1. /\ DOMAIN pc' = Instances /\ pc'[a] = "read" /\ \A q \in Instances : q # a => pc'[q] = pc[q]
    BY <1>0, <1>3, Moved DEF write_16numbers, Goto
  <2>2. misled' \in BOOLEAN
    BY <1>3, Zenon DEF write_16numbers
  <2> QED
    BY <1>0, <1>3, <2>1, <2>2 DEF write_16numbers
<1>4. ASSUME NEW b \in Bs, FindRow(b) PROVE Domains' /\ Locks'
  <2>1. PICK v \in {"exited", "fetch"} : pc' = [pc EXCEPT ![b] = v]
    BY <1>4 DEF FindRow
  <2>2. /\ DOMAIN pc' = Instances /\ pc'[b] = v /\ \A q \in Instances : q # b => pc'[q] = pc[q]
    BY <1>0, <2>1, Moved
  <2>3. misled' = misled /\ written' = written /\ DOMAIN line' = DOMAIN line /\ number' = number
    BY <1>4 DEF FindRow
  <2> QED
    BY <1>0, <1>4, <2>2, <2>3 DEF FindRow, ReadLock
<1>5. ASSUME NEW b \in Bs, read_16complex(b) PROVE Domains' /\ Locks'
  <2>1. /\ DOMAIN pc' = Instances /\ pc'[b] = "take" /\ \A q \in Instances : q # b => pc'[q] = pc[q]
    BY <1>0, <1>5, Moved DEF read_16complex, Goto
  <2>2. misled' = misled /\ written' = written /\ line' = line /\ DOMAIN number' = DOMAIN number
    BY <1>5 DEF read_16complex
  <2>3. pc[b] = "fetch"
    BY <1>5 DEF read_16complex, Goto
  <2> QED
    BY <1>0, <2>1, <2>2, <2>3
<1>6. ASSUME NEW b \in Bs, TakeRow(b) PROVE Domains' /\ Locks'
  <2>1. PICK v \in {"aborted", "wait"} : pc' = [pc EXCEPT ![b] = v]
    BY <1>6 DEF TakeRow
  <2>2. /\ DOMAIN pc' = Instances /\ pc'[b] = v /\ \A q \in Instances : q # b => pc'[q] = pc[q]
    BY <1>0, <2>1, Moved
  <2> QED
    BY <1>0, <1>6, <2>2 DEF TakeRow
<1>7. ASSUME NEW b \in Bs, FindResultRow(b) PROVE Domains' /\ Locks'
  <2>1. /\ DOMAIN pc' = Instances /\ pc'[b] = "append" /\ \A q \in Instances : q # b => pc'[q] = pc[q]
    BY <1>0, <1>7, Moved DEF FindResultRow, Goto
  <2>2. misled' \in BOOLEAN /\ written' = written /\ DOMAIN line' = DOMAIN line /\ number' = number
    BY <1>7 DEF FindResultRow, FindPlace
  <2> QED
    BY <1>0, <1>7, <2>1, <2>2 DEF FindResultRow, OutLock
<1>8. ASSUME NEW b \in Bs, _write(b) PROVE Domains' /\ Locks'
  <2>1. /\ DOMAIN pc' = Instances /\ pc'[b] = "lock" /\ \A q \in Instances : q # b => pc'[q] = pc[q]
    BY <1>0, <1>8, Moved DEF _write, Goto
  <2>2. misled' \in BOOLEAN
    BY <1>8, Zenon DEF _write
  <2> QED
    BY <1>0, <1>8, <2>1, <2>2 DEF _write
<1>9. CASE UNCHANGED vars
  BY <1>9 DEF vars
<1> QED
  BY <1>1, <1>2, <1>3, <1>4, <1>5, <1>6, <1>7, <1>8, <1>9 DEF Next, A, B

-----------------------------------------------------------------------------
(* The steps.                                                              *)

\* A place was found: it is one for a row, or the newline at the end.
LEMMA PlaceFound ==
    ASSUME Domains, Placed, NEW p \in Instances,
           NEW f, f = file \/ f = outfile, FindPlace(p, f)
    PROVE  /\ DOMAIN line' = Instances /\ Aim(f, line'[p])
           /\ \A q \in Instances : q # p => line'[q] = line[q]
           /\ file' = file /\ outfile' = outfile /\ number' = number /\ written' = written
<1>1. PICK stale \in Stale : line' = [line EXCEPT ![p] = get_empty(f, stale)]
  BY DEF FindPlace
<1>3. IsRows(f, written) /\ written \in Nat
  BY DEF Placed, Domains
<1>4. PICK o : o = get_empty(f, stale)
  OBVIOUS
<1>5. line' = [line EXCEPT ![p] = o] /\ DOMAIN line = Instances
  BY <1>1, <1>4, Zenon DEF Domains
<1>6. DOMAIN line' = Instances /\ line'[p] = o /\ \A q \in Instances : q # p => line'[q] = line[q]
  BY <1>5
<1>7. Aim(f, o)
  <2>1. PICK w : w = written
    OBVIOUS
  <2> QED
    BY ONLY <1>3, <1>4, <2>1, GetEmpty
<1>8. file' = file /\ outfile' = outfile /\ number' = number /\ written' = written
  BY DEF FindPlace
<1> QED
  BY <1>6, <1>7, <1>8, Zenon

LEMMA FindEmptyRowStep ==
    ASSUME RowsInv, NEW a \in As, FindEmptyRow(a), Domains', Locks', ~misled'
    PROVE  Placed'
<1>1. a \in Instances /\ a \notin Bs /\ FindPlace(a, file)
  BY InstancesAssumption DEF Instances, FindEmptyRow
<1>0. ~misled /\ Placed /\ Domains
  BY DEF FindEmptyRow, FindPlace, RowsInv
<1>2. /\ Aim(file, line'[a])
      /\ \A q \in Instances : q # a => line'[q] = line[q]
      /\ file' = file /\ outfile' = outfile /\ number' = number /\ written' = written
  <2>1. PICK f : f = file
    OBVIOUS
  <2>2. FindPlace(a, f)
    BY <1>1, <2>1
  <2> QED
    BY <1>0, <1>1, <2>1, <2>2, PlaceFound
<1>3. Placed
  BY <1>0
<1>4. pc'[a] = "write" /\ \A q \in Instances : q # a => pc'[q] = pc[q]
  BY <1>1, Moved DEF RowsInv, Domains, FindEmptyRow, Goto
<1>5. Reading = {} /\ Writing = {}
  BY DEF FindEmptyRow, WriteLock
<1>6. \A b \in Bs : pc'[b] = pc[b] /\ line'[b] = line[b]
  BY <1>1, <1>2, <1>4 DEF Instances
<1>7. Pending' = Pending /\ OutWriting' = OutWriting /\ Reading' = {} /\ Writing' \subseteq {a}
  BY <1>4, <1>5, <1>6 DEF Pending, OutWriting, Reading, Writing, Instances
<1>8. Aimed'
  <2>1. Aimed
    BY <1>3 DEF Placed
  <2>2. \A b \in OutWriting : line'[b] = line[b]
    BY <1>6 DEF OutWriting
  <2> QED
    BY <1>2, <1>6, <1>7, <2>1, <2>2 DEF Aimed
<1> QED
  BY <1>2, <1>3, <1>7, <1>8 DEF Placed, Counted

\* What an A adds to the file: its row, in a place for a row.
LEMMA WriteStep ==
    ASSUME RowsInv, NEW a \in As, write_16numbers(a), Domains', Locks', ~misled'
    PROVE  /\ Placed'
           /\ \A k \in Filled(file) : RowAt(file', k) = RowAt(file, k)
<1>1. /\ a \in Instances /\ a \notin Bs /\ ~misled /\ Placed /\ written \in Nat
      /\ line[a] % COMPLEX_BYTE = 0
  BY InstancesAssumption DEF Instances, RowsInv, Domains, write_16numbers, Misplaced
<1>2. /\ file' = WriteAt(file, line[a], Row(written + 1)) /\ written' = written + 1
      /\ outfile' = outfile /\ number' = number
  BY DEF write_16numbers
<1>3. PICK f, o, w : f = file /\ o = line[a] /\ w = written
  OBVIOUS
<1>4. a \in Writing
  BY DEF Writing, write_16numbers, Goto
<1>5. IsRows(f, w) /\ Slot(f, o) /\ IsRows(outfile, w)
  <2>1. IsRows(f, w) /\ Aim(f, o) /\ IsRows(outfile, w) /\ o % COMPLEX_BYTE = 0
    BY <1>1, <1>3, <1>4 DEF Placed, Aimed
  <2> QED
    BY <2>1, EdgeOff DEF Aim, IsRows
<1>6. PICK g : g = file'
  OBVIOUS
<1>7. /\ IsRows(g, w + 1) /\ Len(f) <= Len(g)
      /\ Cardinality(Filled(g)) = Cardinality(Filled(f)) + 1
      /\ \A k \in Filled(f) : RowAt(g, k) = RowAt(f, k)
  <2>1. w \in Nat /\ w + 1 \in Nat /\ w <= w + 1 /\ w + 1 \in 0..w + 1
    BY <1>1, <1>3
  <2>2. g = WriteAt(f, o, Row(w + 1))
    BY <1>2, <1>3, <1>6, Zenon
  <2>3. PICK v : v = w + 1
    OBVIOUS
  <2>4. v \in Nat /\ w <= v /\ v \in 0..v /\ g = WriteAt(f, o, Row(v))
    BY <2>1, <2>2, <2>3
  <2>5. /\ IsRows(g, v) /\ Len(f) <= Len(g)
        /\ Cardinality(Filled(g)) = Cardinality(Filled(f)) + 1
        /\ \A k \in Filled(f) : RowAt(g, k) = RowAt(f, k)
    BY ONLY <1>5, <2>1, <2>4, RowWritten
  <2> QED
    BY <2>3, <2>5
<1>8. IsRows(outfile, w + 1)
  BY ONLY <1>1, <1>3, <1>5, RowsGrow, w + 1 \in Nat, w <= w + 1
<1>9. /\ pc'[a] = "read" /\ \A q \in Instances : q # a => pc'[q] = pc[q]
      /\ \A q \in Instances : q # a => line'[q] = line[q]
  BY <1>1, Moved DEF RowsInv, Domains, write_16numbers, Goto
<1>10. \A b \in Bs : pc'[b] = pc[b] /\ line'[b] = line[b]
  BY <1>1, <1>9 DEF Instances
<1>11. Pending' = Pending /\ OutWriting' = OutWriting /\ Reading' = {} /\ Writing' = {}
  <2>1. Reading = {} /\ Writing = {a}
    BY <1>4 DEF RowsInv, Locks
  <2> QED
    BY <1>9, <1>10, <2>1 DEF Pending, OutWriting, Reading, Writing, Instances
<1>12. Aimed'
  <2>1. Aimed
    BY <1>1 DEF Placed
  <2>2. \A b \in OutWriting : line'[b] = line[b]
    BY <1>10 DEF OutWriting
  <2>3. \A b \in Bs : number'[b] \in -1..written' /\ (pc'[b] \in {"wait", "append"} => number'[b] # -1)
    BY <1>1, <1>2, <1>10, <2>1 DEF Aimed
  <2> QED
    BY <1>2, <1>11, <2>1, <2>2, <2>3 DEF Aimed
<1>13. Counted'
  <2>1. PICK p, q : p = Cardinality(Filled(outfile)) /\ q = Cardinality(Pending)
    OBVIOUS
  <2>2. p \in Nat /\ q \in Nat /\ Cardinality(Filled(f)) \in Nat
    <3>1. Whole(f) /\ Whole(outfile)
      BY <1>5 DEF IsRows
    <3>2. Pending \subseteq Bs
      BY DEF Pending
    <3> QED
      BY <2>1, <3>1, <3>2, FilledIs, PendingChanges
  <2>3. w <= Cardinality(Filled(f)) + p + q
    BY <1>1, <1>3, <2>1 DEF Placed, Counted
  <2>4. w + 1 <= Cardinality(Filled(g)) + p + q
    BY <1>1, <1>3, <1>7, <2>2, <2>3
  <2> QED
    BY <1>2, <1>3, <1>6, <1>11, <2>1, <2>4 DEF Counted
<1>14. IsRows(file, written)' /\ IsRows(outfile, written)'
  BY <1>2, <1>3, <1>6, <1>7, <1>8
<1> QED
  BY <1>3, <1>6, <1>7, <1>12, <1>13, <1>14 DEF Placed

LEMMA FindRowStep ==
    ASSUME RowsInv, NEW b \in Bs, FindRow(b), Domains', ~misled'
    PROVE  Placed'
<1>1. b \in Instances /\ b \notin As /\ ~misled /\ Placed
  BY InstancesAssumption DEF Instances, RowsInv, FindRow
<1>2. PICK stale \in Stale : line' = [line EXCEPT ![b] = get_nonempty(file, stale)]
  BY DEF FindRow
<1>3. line'[b] = -1 \/ line'[b] \in Offsets(file)
  <2>1. PICK f, o : f = file /\ o = get_nonempty(f, stale)
    OBVIOUS
  <2>2. Whole(f)
    BY <1>1, <2>1 DEF Placed, IsRows
  <2>3. o = -1 \/ o \in Offsets(f)
    BY ONLY <2>1, <2>2, GetNonempty
  <2>4. line'[b] = o
    <3>1. line' = [line EXCEPT ![b] = o]
      BY <1>2, <2>1, Zenon
    <3> QED
      BY <1>1, <3>1 DEF RowsInv, Domains
  <2> QED
    BY <2>1, <2>3, <2>4
<1>4. PICK v : v = (IF line'[b] = -1 THEN "exited" ELSE "fetch") /\ pc' = [pc EXCEPT ![b] = v]
  BY DEF FindRow
<1>5. pc'[b] = v /\ \A q \in Instances : q # b => pc'[q] = pc[q] /\ line'[q] = line[q]
  <2>1. \A q \in Instances : q # b => line'[q] = line[q]
    BY <1>1, <1>2 DEF RowsInv, Domains
  <2> QED
    BY <1>1, <1>4, <2>1, Moved DEF RowsInv, Domains
<1>6. pc[b] = "lock" /\ file' = file /\ outfile' = outfile /\ number' = number /\ written' = written
  BY DEF FindRow
<1>7. Pending' = Pending /\ OutWriting' = OutWriting /\ Writing' = Writing
  BY <1>1, <1>4, <1>5, <1>6 DEF Pending, OutWriting, Writing, Instances
<1>8. \A q \in Bs : pc'[q] \in {"fetch", "take", "wait", "append"} => (q = b /\ pc'[q] = "fetch") \/ pc'[q] = pc[q]
  BY <1>1, <1>4, <1>5 DEF Instances
<1>9. Aimed'
  <2>1. Aimed
    BY <1>1 DEF Placed
  <2>2. /\ \A a \in Writing : line'[a] = line[a]
        /\ \A q \in OutWriting : line'[q] = line[q]
    BY <1>1, <1>5, <1>6 DEF Writing, OutWriting, Instances
  <2>3. \A q \in Reading' : line'[q] \in Offsets(file)
    BY <1>1, <1>3, <1>4, <1>5, <2>1 DEF Reading, Aimed, Instances
  <2>4. \A q \in Bs : number'[q] \in -1..written' /\ (pc'[q] \in {"wait", "append"} => number'[q] # -1)
    BY <1>6, <1>8, <2>1 DEF Aimed
  <2> QED
    BY <1>6, <1>7, <2>1, <2>2, <2>3, <2>4 DEF Aimed
<1> QED
  BY <1>1, <1>6, <1>7, <1>9 DEF Placed, Counted

LEMMA ReadComplexStep ==
    ASSUME RowsInv, NEW b \in Bs, read_16complex(b), Domains', ~misled'
    PROVE  Placed'
<1>1. b \in Instances /\ b \notin As /\ ~misled /\ Placed /\ written \in Nat
  BY InstancesAssumption DEF Instances, RowsInv, Domains, read_16complex
<1>2. PICK n \in Numbers(SubSeq(file, line[b] + 1, Least(line[b] + COMPLEX_BYTE, Len(file)))) :
         number' = [number EXCEPT ![b] = n]
  BY DEF read_16complex
<1>3. n \in -1..written
  <2>1. PICK f, o, w : f = file /\ o = line[b] /\ w = written
    OBVIOUS
  <2>2. IsRows(f, w) /\ w \in Nat /\ o \in Offsets(f)
    BY <1>1, <2>1 DEF Placed, Aimed, Reading, read_16complex, Goto
  <2>3. n \in Numbers(SubSeq(f, o + 1, Least(o + COMPLEX_BYTE, Len(f))))
    BY <1>2, <2>1
  <2>4. n \in -1..w
    BY ONLY <2>2, <2>3, NumbersAre
  <2> QED
    BY <2>1, <2>4
<1>4. pc[b] = "fetch" /\ pc'[b] = "take" /\ \A q \in Instances : q # b => pc'[q] = pc[q]
  BY <1>1, Moved DEF RowsInv, Domains, read_16complex, Goto
<1>5. number'[b] = n /\ \A q \in Instances : q # b => number'[q] = number[q]
  BY <1>1, <1>2 DEF RowsInv, Domains
<1>6. file' = file /\ outfile' = outfile /\ line' = line /\ written' = written
  BY DEF read_16complex
<1>7. /\ Pending' = Pending /\ OutWriting' = OutWriting /\ Writing' = Writing
      /\ Reading' = Reading
  BY <1>1, <1>4 DEF Pending, OutWriting, Writing, Reading, Instances
<1>8. Aimed'
  <2>1. Aimed
    BY <1>1 DEF Placed
  <2>2. ASSUME NEW q \in Bs
        PROVE  number'[q] \in -1..written' /\ (pc'[q] \in {"wait", "append"} => number'[q] # -1)
    <3>1. CASE q = b
      BY <1>3, <1>4, <1>5, <1>6, <3>1
    <3>2. CASE q # b
      BY <1>4, <1>5, <1>6, <2>1, <3>2 DEF Aimed, Instances
    <3> QED
      BY <3>1, <3>2
  <2> QED
    BY <1>6, <1>7, <2>1, <2>2 DEF Aimed
<1> QED
  BY <1>1, <1>6, <1>7, <1>8 DEF Placed, Counted

\* What a B takes out of the file it holds from then on.
LEMMA TakeStep ==
    ASSUME RowsInv, NEW b \in Bs, TakeRow(b), Domains', ~misled'
    PROVE  Placed'
<1>1. b \in Instances /\ b \notin As /\ ~misled /\ Placed /\ written \in Nat
  BY InstancesAssumption DEF Instances, RowsInv, Domains, TakeRow
<1>2. b \in Reading /\ b \notin Pending
  BY DEF Reading, Pending, TakeRow
<1>3. PICK f, o, w : f = file /\ o = line[b] /\ w = written
  OBVIOUS
<1>4. PICK k : k = o \div COMPLEX_BYTE
  OBVIOUS
<1>5. IsRows(f, w) /\ o \in Offsets(f) /\ Whole(f) /\ IsRows(outfile, w)
  BY <1>1, <1>2, <1>3 DEF Placed, Aimed, IsRows
<1>6. k \in 0..Count(f) - 1
  BY <1>4, <1>5, InRow, Zenon
<1>7. PICK g : g = file'
  OBVIOUS
<1>8. /\ IsRows(g, w) /\ Len(g) = Len(f)
      /\ Cardinality(Filled(f)) <= Cardinality(Filled(g)) + 1
  <2>1. g = delete_line(f, k)
    BY <1>3, <1>4, <1>7, Zenon DEF TakeRow
  <2>2. w \in Nat
    BY <1>1, <1>3
  <2> QED
    BY ONLY <1>5, <1>6, <2>1, <2>2, RowEmptied
<1>9. outfile' = outfile /\ number' = number /\ written' = written
  BY DEF TakeRow
<1>10. PICK v : v = (IF number[b] = -1 THEN "aborted" ELSE "wait") /\ pc' = [pc EXCEPT ![b] = v]
  BY DEF TakeRow
<1>11. /\ pc'[b] = v /\ \A q \in Instances : q # b => pc'[q] = pc[q]
       /\ \A q \in Instances : q # b => line'[q] = line[q]
  BY <1>1, <1>10, Moved DEF RowsInv, Domains, TakeRow
<1>12. /\ Pending' = Pending \cup {b} /\ OutWriting' = OutWriting
       /\ Writing' = {} /\ Reading' = Reading \ {b}
  <2>1. Writing = {}
    BY <1>2 DEF RowsInv, Locks
  <2> QED
    BY <1>1, <1>2, <1>10, <1>11, <2>1 DEF Pending, OutWriting, Writing, Reading, Instances
<1>13. Aimed'
  <2>1. Aimed
    BY <1>1 DEF Placed
  <2>2. \A q \in OutWriting : line'[q] = line[q]
    BY <1>1, <1>2, <1>11 DEF OutWriting, Instances, Pending
  <2>3. \A q \in Reading' : line'[q] \in Offsets(file')
    <3>1. \A q \in Reading' : line'[q] = line[q] /\ line[q] \in Offsets(f)
      BY <1>3, <1>11, <1>12, <2>1 DEF Aimed, Instances, Reading
    <3>2. Offsets(g) = Offsets(f)
      BY <1>8, Zenon DEF Offsets
    <3> QED
      BY <1>7, <3>1, <3>2
  <2>4. ASSUME NEW q \in Bs
        PROVE  number'[q] \in -1..written' /\ (pc'[q] \in {"wait", "append"} => number'[q] # -1)
    <3>1. CASE q = b
      BY <1>9, <1>10, <1>11, <2>1, <3>1 DEF Aimed
    <3>2. CASE q # b
      BY <1>9, <1>11, <2>1, <3>2 DEF Aimed, Instances
    <3> QED
      BY <3>1, <3>2
  <2> QED
    BY <1>9, <1>12, <2>1, <2>2, <2>3, <2>4 DEF Aimed
<1>14. Counted'
  <2>1. PICK p, q, r : p = Cardinality(Filled(outfile)) /\ q = Cardinality(Pending) /\ r = Cardinality(Pending')
    OBVIOUS
  <2>2. /\ p \in Nat /\ q \in Nat /\ r = q + 1
        /\ Cardinality(Filled(f)) \in Nat /\ Cardinality(Filled(g)) \in Nat
    <3>1. Whole(f) /\ Whole(g) /\ Whole(outfile)
      BY <1>5, <1>8 DEF IsRows
    <3>2. Pending \subseteq Bs /\ Pending \cup {b} \subseteq Bs
      BY DEF Pending
    <3>3. PICK P, Q : P = Pending /\ Q = Pending'
      OBVIOUS
    <3>4. Cardinality(P) \in Nat /\ Cardinality(Q) = Cardinality(P) + 1
      BY <1>2, <1>12, <3>2, <3>3, PendingChanges
    <3> QED
      BY <2>1, <3>1, <3>3, <3>4, FilledIs
  <2>3. w <= Cardinality(Filled(f)) + p + q
    BY <1>1, <1>3, <2>1 DEF Placed, Counted
  <2>4. w <= Cardinality(Filled(g)) + p + r
    BY <1>1, <1>3, <1>8, <2>2, <2>3
  <2> QED
    BY <1>3, <1>7, <1>9, <2>1, <2>4 DEF Counted
<1>15. IsRows(file, written)' /\ IsRows(outfile, written)'
  BY <1>3, <1>5, <1>7, <1>8, <1>9
<1> QED
  BY <1>13, <1>14, <1>15 DEF Placed

LEMMA FindResultRowStep ==
    ASSUME RowsInv, NEW b \in Bs, FindResultRow(b), Domains', ~misled'
    PROVE  Placed'
<1>1. b \in Instances /\ b \notin As /\ FindPlace(b, outfile)
  BY InstancesAssumption DEF Instances, FindResultRow
<1>0. ~misled /\ Placed /\ Domains
  BY DEF FindResultRow, FindPlace, RowsInv
<1>2. /\ Aim(outfile, line'[b])
      /\ \A q \in Instances : q # b => line'[q] = line[q]
      /\ file' = file /\ outfile' = outfile /\ number' = number /\ written' = written
  <2>1. PICK f : f = outfile
    OBVIOUS
  <2>2. FindPlace(b, f)
    BY <1>1, <2>1
  <2> QED
    BY <1>0, <1>1, <2>1, <2>2, PlaceFound
<1>3. Placed
  BY <1>0
<1>4. pc[b] = "wait" /\ pc'[b] = "append" /\ \A q \in Instances : q # b => pc'[q] = pc[q]
  BY <1>1, Moved DEF RowsInv, Domains, FindResultRow, Goto
<1>5. OutWriting = {}
  BY DEF FindResultRow, OutLock
<1>6. Pending' = Pending /\ OutWriting' = {b} /\ Reading' = Reading /\ Writing' = Writing
  BY <1>1, <1>4, <1>5 DEF Pending, OutWriting, Reading, Writing, Instances
<1>7. Aimed'
  <2>1. Aimed
    BY <1>3 DEF Placed
  <2>2. /\ \A a \in Writing : line'[a] = line[a]
        /\ \A q \in Reading : line'[q] = line[q]
    BY <1>1, <1>2, <1>4 DEF Reading, Writing, Instances
  <2>3. ASSUME NEW q \in Bs
        PROVE  number'[q] \in -1..written' /\ (pc'[q] \in {"wait", "append"} => number'[q] # -1)
    BY <1>1, <1>2, <1>4, <2>1 DEF Aimed, Instances
  <2> QED
    BY <1>2, <1>6, <2>1, <2>2, <2>3 DEF Aimed
<1> QED
  BY <1>2, <1>3, <1>6, <1>7 DEF Placed, Counted

\* What a B holds becomes a row of the results.
LEMMA ResultStep ==
    ASSUME RowsInv, NEW b \in Bs, _write(b), Domains', ~misled'
    PROVE  /\ Placed'
           /\ \A k \in Filled(outfile) : RowAt(outfile', k) = RowAt(outfile, k)
<1>1. /\ b \in Instances /\ b \notin As /\ ~misled /\ Placed /\ written \in Nat
      /\ line[b] % COMPLEX_BYTE = 0
  BY InstancesAssumption DEF Instances, RowsInv, Domains, _write, Misplaced
<1>2. /\ outfile' = WriteAt(outfile, line[b], Row(number[b])) /\ written' = written /\ file' = file
      /\ number' = [number EXCEPT ![b] = 0] /\ pc[b] = "append"
  BY DEF _write, Goto
<1>3. PICK f, o, w, n : f = outfile /\ o = line[b] /\ w = written /\ n = number[b]
  OBVIOUS
<1>4. b \in OutWriting /\ b \in Pending
  BY <1>2 DEF OutWriting, Pending
<1>5. IsRows(f, w) /\ Slot(f, o) /\ IsRows(file, w) /\ n \in 0..w
  <2>1. /\ IsRows(f, w) /\ Aim(f, o) /\ IsRows(file, w) /\ n \in 0..w
        /\ o % COMPLEX_BYTE = 0
    BY <1>1, <1>2, <1>3, <1>4 DEF Placed, Aimed
  <2> QED
    BY <2>1, EdgeOff DEF Aim, IsRows
<1>6. PICK g : g = outfile'
  OBVIOUS
<1>7. /\ IsRows(g, w)
      /\ Cardinality(Filled(g)) = Cardinality(Filled(f)) + 1
      /\ \A k \in Filled(f) : RowAt(g, k) = RowAt(f, k)
  <2>1. w \in Nat /\ w <= w
    BY <1>1, <1>3
  <2>2. g = WriteAt(f, o, Row(n))
    BY <1>2, <1>3, <1>6, Zenon
  <2> QED
    BY ONLY <1>5, <2>1, <2>2, RowWritten
<1>8. pc'[b] = "lock" /\ \A q \in Instances : q # b => pc'[q] = pc[q]
  BY <1>1, Moved DEF RowsInv, Domains, _write, Goto
<1>9. /\ number'[b] = 0
      /\ \A q \in Instances : q # b => number'[q] = number[q] /\ line'[q] = line[q]
  BY <1>1 DEF RowsInv, Domains, _write
<1>10. /\ Pending' = Pending \ {b} /\ OutWriting' = {} /\ Reading' = Reading
       /\ Writing' = Writing
  <2>1. OutWriting = {b}
    BY <1>4 DEF RowsInv, Locks
  <2> QED
    BY <1>1, <1>2, <1>8, <2>1 DEF Pending, OutWriting, Reading, Writing, Instances
<1>11. Aimed'
  <2>1. Aimed
    BY <1>1 DEF Placed
  <2>2. /\ \A a \in Writing : line'[a] = line[a]
        /\ \A q \in Reading : line'[q] = line[q]
    BY <1>1, <1>2, <1>9 DEF Reading, Writing, Instances
  <2>3. ASSUME NEW q \in Bs
        PROVE  number'[q] \in -1..written' /\ (pc'[q] \in {"wait", "append"} => number'[q] # -1)
    <3>1. CASE q = b
      BY <1>1, <1>2, <1>8, <1>9, <3>1
    <3>2. CASE q # b
      BY <1>2, <1>8, <1>9, <2>1, <3>2 DEF Aimed, Instances
    <3> QED
      BY <3>1, <3>2
  <2> QED
    BY <1>2, <1>10, <2>1, <2>2, <2>3 DEF Aimed
<1>12. Counted'
  <2>1. PICK p, q, r : p = Cardinality(Filled(file)) /\ q = Cardinality(Pending) /\ r = Cardinality(Pending')
    OBVIOUS
  <2>2. /\ p \in Nat /\ q \in Nat /\ r = q - 1
        /\ Cardinality(Filled(f)) \in Nat /\ Cardinality(Filled(g)) \in Nat
    <3>1. Whole(f) /\ Whole(g) /\ Whole(file)
      BY <1>5, <1>7 DEF IsRows
    <3>2. Pending \subseteq Bs /\ Pending \ {b} \subseteq Bs
      BY DEF Pending
    <3>3. PICK P, Q : P = Pending /\ Q = Pending'
      OBVIOUS
    <3>4. Cardinality(P) \in Nat /\ Cardinality(Q) = Cardinality(P) - 1
      BY <1>4, <1>10, <3>2, <3>3, PendingChanges
    <3> QED
      BY <2>1, <3>1, <3>3, <3>4, FilledIs
  <2>3. w <= p + Cardinality(Filled(f)) + q
    BY <1>1, <1>3, <2>1 DEF Placed, Counted
  <2>4. w <= p + Cardinality(Filled(g)) + r
    BY <1>1, <1>3, <1>7, <2>2, <2>3
  <2> QED
    BY <1>2, <1>3, <1>6, <2>1, <2>4 DEF Counted
<1>13. IsRows(file, written)' /\ IsRows(outfile, written)'
  BY <1>2, <1>3, <1>5, <1>6, <1>7
<1> QED
  BY <1>3, <1>6, <1>7, <1>11, <1>12, <1>13 DEF Placed

LEMMA ReadStep ==
    ASSUME RowsInv, NEW a \in As, read_32byte(a), Domains', ~misled'
    PROVE  Placed'
<1>1. a \in Instances /\ a \notin Bs /\ ~misled /\ Placed
  BY InstancesAssumption DEF Instances, RowsInv, read_32byte
<1>2. PICK v \in {"exited", "lock"} : pc' = [pc EXCEPT ![a] = v]
  BY DEF read_32byte
<1>3. pc[a] = "read" /\ pc'[a] = v /\ \A q \in Instances : q # a => pc'[q] = pc[q]
  BY <1>1, <1>2, Moved DEF RowsInv, Domains, read_32byte
<1>4. /\ file' = file /\ outfile' = outfile /\ number' = number /\ line' = line
      /\ written' = written
  BY DEF read_32byte
<1>5. /\ Pending' = Pending /\ OutWriting' = OutWriting /\ Reading' = Reading
      /\ Writing' = Writing /\ \A q \in Bs : pc'[q] = pc[q]
  BY <1>1, <1>3 DEF Pending, OutWriting, Reading, Writing, Instances
<1>6. Aimed'
  BY <1>1, <1>4, <1>5 DEF Placed, Aimed
<1> QED
  BY <1>1, <1>4, <1>5, <1>6 DEF Placed, Counted

-----------------------------------------------------------------------------
(* The theorems.                                                           *)

LEMMA RowsInit == Init => RowsInv
<1> SUFFICES ASSUME Init PROVE RowsInv
  OBVIOUS
<1>1. \A p \in Instances : pc[p] \in {"read", "lock"}
  BY DEF Init, Instances
<1>2. Reading = {} /\ Writing = {} /\ OutWriting = {} /\ Pending = {}
  BY <1>1 DEF Reading, Writing, OutWriting, Pending, Instances
<1>3. Domains /\ Locks
  BY <1>2 DEF Init, Domains, Locks, Instances
<1>4. PICK f : f = <<>>
  OBVIOUS
<1>5. IsRows(f, 0) /\ Filled(f) = {}
  <2>1. COMPLEX_BYTE \in Nat \ {0} /\ f \in Seq(Chars) /\ Len(f) = 0
    BY <1>4, RowsAssumption
  <2>2. Count(f) = 0
    <3>1. 0 \div COMPLEX_BYTE = 0
      BY ONLY <2>1, Z3
    <3> QED
      BY <2>1, <3>1 DEF Count
  <2>3. Whole(f)
    BY <2>1, <2>2 DEF Whole
  <2>4. Filled(f) = {}
    BY <2>2, <2>3, FilledIs
  <2> QED
    BY <2>2, <2>3, <2>4 DEF IsRows
<1>6. Aimed
  BY <1>1, <1>2 DEF Aimed, Init, Instances
<1>7. Counted
  <2>1. Cardinality({}) = 0
    BY FS_EmptySet
  <2>2. Filled(file) = {} /\ Filled(outfile) = {} /\ written = 0
    BY <1>4, <1>5 DEF Init
  <2> QED
    BY <1>2, <2>1, <2>2 DEF Counted
<1> QED
  BY <1>3, <1>4, <1>5, <1>6, <1>7 DEF RowsInv, Placed, Init

LEMMA RowsStep == RowsInv /\ [Next]_vars => RowsInv'
<1> SUFFICES ASSUME RowsInv, [Next]_vars PROVE RowsInv'
  OBVIOUS
<1>1. Domains' /\ Locks'
  BY LocksStep DEF RowsInv
<1>2. ASSUME ~misled' PROVE Placed'
  <2>1. ASSUME NEW a \in As, A(a) PROVE Placed'
    BY <1>1, <1>2, <2>1, ReadStep, FindEmptyRowStep, WriteStep DEF A
  <2>2. ASSUME NEW b \in Bs, B(b) PROVE Placed'
    BY <1>1, <1>2, <2>2, FindRowStep, ReadComplexStep, TakeStep, FindResultRowStep, ResultStep DEF B
  <2>3. CASE UNCHANGED vars
    BY <1>2, <2>3 DEF vars, RowsInv, Placed, Aimed, Counted, Reading, Writing, OutWriting, Pending
  <2> QED
    BY <2>1, <2>2, <2>3 DEF Next
<1> QED
  BY <1>1, <1>2 DEF RowsInv

LEMMA RowsInductive == Spec => []RowsInv
  BY RowsInit, RowsStep, PTL DEF Spec

\* Until a buffer misleads an instance, the files consist of whole rows,
\* filled or emptied, whatever two Bs do to them at once under a lock that they
\* share.
THEOREM FilesOfWholeRows == Spec => []WholeRows
<1>1. RowsInv => WholeRows
  <2> SUFFICES ASSUME RowsInv, ~misled, NEW f \in {file, outfile}
               PROVE  /\ Len(f) % COMPLEX_BYTE = 0
                      /\ \A k \in Places(f) : \E n \in 0..written : RowAt(f, k) \in {EmptyRow, Row(n)}
    BY DEF WholeRows
  <2>1. PICK g, w : g = f /\ w = written
    OBVIOUS
  <2>2. IsRows(g, w) /\ Whole(g) /\ w \in Nat
    BY <2>1 DEF RowsInv, Placed, Domains, IsRows
  <2>3. Len(g) % COMPLEX_BYTE = 0
    <3>1. COMPLEX_BYTE \in Nat \ {0}
      BY RowsAssumption
    <3>2. (Count(g) * COMPLEX_BYTE) % COMPLEX_BYTE = 0
      BY <2>2, <3>1, Quotient DEF Whole
    <3> QED
      BY <2>2, <3>2, Zenon DEF Whole
  <2>4. ASSUME NEW k \in Places(g)
        PROVE  \E n \in 0..w : RowAt(g, k) \in {EmptyRow, Row(n)}
    <3>1. k \in 0..Count(g) - 1
      BY <2>2, FilledIs
    <3>2. CASE Holds(g, k, EmptyRow)
      <4>1. RowAt(g, k) = EmptyRow
        BY <2>2, <3>1, <3>2, RowIs, EmptyText
      <4>2. 0 \in 0..w
        BY <2>2
      <4> QED
        BY <4>1, <4>2
    <3>3. ASSUME NEW n \in 0..w, Holds(g, k, Row(n)) PROVE RowAt(g, k) = Row(n)
      <4>1. Row(n) \in Seq(Chars) /\ Len(Row(n)) = COMPLEX_BYTE
        BY RowText
      <4> QED
        BY <2>2, <3>1, <3>3, <4>1, RowIs
    <3> QED
      BY <2>2, <3>1, <3>2, <3>3 DEF IsRows
  <2> QED
    BY <2>1, <2>3, <2>4
<1> QED
  BY <1>1, RowsInductive, PTL

\* No row leaves the file without a B that writes a result for it, writes one
\* soon, or fails, until a row is misplaced.
THEOREM NoRowIsLost == Spec => []RowsBecomeResults
<1>1. RowsInv => RowsBecomeResults
  BY DEF RowsInv, Placed, Counted, Pending, RowsBecomeResults
<1> QED
  BY <1>1, RowsInductive, PTL

\* What a row overwrites, wherever it was aimed.
LEMMA Keeps ==
    ASSUME NEW f, NEW w \in Nat, IsRows(f, w), NEW o, Aim(f, o), NEW n \in 0..w + 1,
           NEW g, g = WriteAt(f, o, Row(n)), misled' <=> o % COMPLEX_BYTE # 0
    PROVE  Kept(f, g)
<1>1. Row(n) \in Seq(Chars) /\ Whole(f)
  BY RowText DEF IsRows
<1>2. CASE Slot(f, o)
  <2>1. PICK v \in Nat : v = w + 1
    OBVIOUS
  <2>2. w <= v /\ n \in 0..v
    BY <2>1
  <2>3. \A k \in Filled(f) : RowAt(g, k) = RowAt(f, k)
    BY ONLY w \in Nat, IsRows(f, w), g = WriteAt(f, o, Row(n)), <1>2, <2>2, RowWritten
  <2> QED
    BY <2>3 DEF Kept
<1>3. CASE Edge(f, o)
  <2>1. misled'
    BY <1>1, <1>3, EdgeOff
  <2>2. ASSUME NEW k \in Filled(f), NEW i \in 1..COMPLEX_BYTE, k * COMPLEX_BYTE + i # Len(f)
        PROVE  RowAt(g, k)[i] = RowAt(f, k)[i]
    BY <1>1, <1>3, <2>2, EdgeWritten
  <2> QED
    BY <2>1, <2>2 DEF Kept
<1> QED
  BY <1>2, <1>3 DEF Aim

LEMMA KeepsItself ==
    ASSUME NEW f
    PROVE  Kept(f, f)
BY DEF Kept

\* An A keeps the rows of the file that are filled, and a B those of the results,
\* up to and with the first row that a space behind the data misplaces (234):
\* that one overwrites the newline of the last row, and nothing else.
THEOREM RowsAreKept == Spec => NothingOverwritten
<1>1. ASSUME RowsInv, [Next]_vars, ~misled
      PROVE  (written' # written => Kept(file, file')) /\ Kept(outfile, outfile')
  <2>0. Placed /\ written \in Nat /\ As \cap Bs = {}
    BY <1>1, InstancesAssumption DEF RowsInv, Domains
  <2>1. ASSUME NEW a \in As, A(a)
        PROVE  (written' # written => Kept(file, file')) /\ Kept(outfile, outfile')
    <3>1. outfile' = outfile /\ Kept(outfile, outfile')
      BY <2>1, KeepsItself DEF A, read_32byte, FindEmptyRow, FindPlace, write_16numbers
    <3>2. CASE write_16numbers(a)
      <4>1. PICK f, o, w, g : f = file /\ o = line[a] /\ w = written /\ g = file'
        OBVIOUS
      <4>2. a \in Writing
        BY <3>2 DEF Writing, write_16numbers, Goto
      <4>3. IsRows(f, w) /\ Aim(f, o) /\ w \in Nat
        BY <2>0, <4>1, <4>2 DEF Placed, Aimed
      <4>4. g = WriteAt(f, o, Row(w + 1)) /\ (misled' <=> o % COMPLEX_BYTE # 0)
        BY <1>1, <3>2, <4>1, Zenon DEF write_16numbers, Misplaced
      <4>5. PICK n : n = w + 1
        OBVIOUS
      <4>6. n \in 0..w + 1 /\ g = WriteAt(f, o, Row(n))
        BY <4>3, <4>4, <4>5
      <4>7. Kept(f, g)
        BY ONLY <4>3, <4>4, <4>6, Keeps
      <4> QED
        BY <3>1, <4>1, <4>7
    <3>3. CASE read_32byte(a) \/ FindEmptyRow(a)
      BY <3>1, <3>3 DEF read_32byte, FindEmptyRow, FindPlace
    <3> QED
      BY <2>1, <3>2, <3>3 DEF A
  <2>2. ASSUME NEW b \in Bs, B(b)
        PROVE  written' = written /\ Kept(outfile, outfile')
    <3>1. CASE _write(b)
      <4>1. PICK f, o, w, g, n : f = outfile /\ o = line[b] /\ w = written /\ g = outfile' /\ n = number[b]
        OBVIOUS
      <4>2. b \in OutWriting /\ pc[b] = "append"
        BY <3>1 DEF OutWriting, _write, Goto
      <4>3. IsRows(f, w) /\ Aim(f, o) /\ w \in Nat /\ n \in -1..w /\ n # -1
        BY <2>0, <4>1, <4>2 DEF Placed, Aimed
      <4>4. g = WriteAt(f, o, Row(n)) /\ (misled' <=> o % COMPLEX_BYTE # 0) /\ written' = written
        BY <1>1, <3>1, <4>1, Zenon DEF _write, Misplaced
      <4>5. n \in 0..w + 1
        BY <4>3
      <4>6. Kept(f, g)
        BY ONLY <4>3, <4>4, <4>5, Keeps
      <4> QED
        BY <4>1, <4>4, <4>6
    <3>2. CASE FindRow(b) \/ read_16complex(b) \/ TakeRow(b) \/ FindResultRow(b)
      BY <3>2, KeepsItself DEF FindRow, read_16complex, TakeRow, FindResultRow, FindPlace
    <3> QED
      BY <2>2, <3>1, <3>2 DEF B
  <2>3. CASE UNCHANGED vars
    BY <2>3, KeepsItself DEF vars
  <2> QED
    BY <1>1, <2>1, <2>2, <2>3 DEF Next
<1> QED
  BY <1>1, RowsInductive, PTL DEF Spec, NothingOverwritten
=============================================================================
