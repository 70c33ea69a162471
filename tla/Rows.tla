-------------------------------- MODULE Rows --------------------------------
(***************************************************************************)
(* homework-1: instances of program A fill the rows of a file, instances   *)
(* of program B take rows out of it, and write theirs to another file.     *)
(* A row has COMPLEX_BYTE characters and ends with a newline; an emptied   *)
(* row is a newline followed by spaces.  All of them find their rows by    *)
(* scanning the file for newlines, looking at the character that follows,  *)
(* which at the end of the file is whatever the buffer holds there.        *)
(* Every file is read in one piece (less than 1024 characters).            *)
(***************************************************************************)
EXTENDS Integers, Sequences, SequencesExt, FiniteSets

CONSTANTS
    As, Bs,         \* the instances of the two programs
    Chunks,         \* how many times 32 bytes the input file of each A has
    COMPLEX_BYTE,   \* the characters of a row, 144 in the program
    Stale           \* what may follow the data in a buffer

ASSUME InstancesAssumption == IsFiniteSet(As) /\ IsFiniteSet(Bs) /\ As \cap Bs = {}
ASSUME RowsAssumption == Chunks \in [As -> Nat] /\ COMPLEX_BYTE \in Nat /\ COMPLEX_BYTE >= 3
ASSUME StaleAssumption == Stale \subseteq {"space", "digit"}

VARIABLES
    file,           \* the file between the As and the Bs
    outfile,        \* the file the Bs write
    chunks,         \* what each A has still to read
    pc,             \* the next operation of each instance
    number,         \* what an A has read and a B holds: the number of a row
    line,           \* where an instance has found its row in a file
    written,        \* how many rows the As have written
    misled          \* whether a row was written where a space behind the data made
                    \* the newline at the end look like an empty row

vars == <<file, outfile, chunks, pc, number, line, written, misled>>

-----------------------------------------------------------------------------
\* Characters and rows.  A row is known by its number, which no other has; 0
\* stands for numbers that no A has written.
Digit(n) == [of |-> n, char |-> "digit"]
Space == [of |-> 0, char |-> "space"]
Newline == [of |-> 0, char |-> "newline"]

Row(n) ==
    [i \in 1..COMPLEX_BYTE |-> CASE i = COMPLEX_BYTE -> Newline
                                 [] i = COMPLEX_BYTE - 1 -> Space
                                 [] OTHER -> Digit(n)]
EmptyRow == [i \in 1..COMPLEX_BYTE |-> IF i = 1 THEN Newline ELSE Space]

Least(m, n) == IF m < n THEN m ELSE n
Offsets(f) == {o \in 0..Len(f) : o < Len(f)}
At(f, o, stale) == IF o < Len(f) THEN f[o + 1].char ELSE stale
FirstOf(offsets, otherwise) ==
    IF offsets = {} THEN otherwise ELSE CHOOSE o \in offsets : \A p \in offsets : o <= p

WriteAt(f, o, text) ==
    [j \in 1..(IF o + Len(text) > Len(f) THEN o + Len(text) ELSE Len(f)) |->
        IF j \in (o + 1)..(o + Len(text)) THEN text[j - o] ELSE f[j]]

\* A newline before a space, else the end of the file.
get_empty(f, stale) ==
    FirstOf({o \in Offsets(f) : At(f, o, stale) = "newline" /\ At(f, o + 1, stale) = "space"}, Len(f))

\* Where a row starts the file, a newline before something else than a space,
\* or a last row after an empty one; -1 when there is none.
get_nonempty(f, stale) ==
    LET first == {o \in Offsets(f) : o = 0 /\ At(f, o, stale) = "digit"}
        ended == {o \in Offsets(f) : At(f, o, stale) = "newline" /\ At(f, o + 1, stale) # "space"}
        last  == {o \in Offsets(f) : /\ o = Len(f) - COMPLEX_BYTE
                                     /\ At(f, o, stale) # "newline"
                                     /\ o > 0 /\ At(f, o - 1, stale) = "space"}
    IN FirstOf(first \cup ended \cup last, -1)

\* Faulty variant: one character too far.
delete_line_Off(f, n) == WriteAt(f, n * COMPLEX_BYTE + 1, EmptyRow)

delete_line(f, n) == WriteAt(f, n * COMPLEX_BYTE, EmptyRow)

\* The rows that are filled, when every row is where it belongs.
RowAt(f, k) == SubSeq(f, k * COMPLEX_BYTE + 1, (k + 1) * COMPLEX_BYTE)
Places(f) == 0..(Len(f) \div COMPLEX_BYTE - 1)
Filled(f) == {k \in Places(f) : RowAt(f, k) # EmptyRow}

-----------------------------------------------------------------------------
Init ==
    /\ file = <<>>
    /\ outfile = <<>>
    /\ chunks = Chunks
    /\ pc = [p \in As \cup Bs |-> IF p \in As THEN "read" ELSE "lock"]
    /\ number = [p \in As \cup Bs |-> 0]
    /\ line = [p \in As \cup Bs |-> -1]
    /\ written = 0
    /\ misled = FALSE

Goto(p, from, to) == pc[p] = from /\ pc' = [pc EXCEPT ![p] = to]

\* A lock is taken and given back with the first and the last step that it
\* covers.  fcntl: the Bs lock the file for reading, the As for writing,
\* and the Bs the results for writing.
Reading == {b \in Bs : pc[b] \in {"fetch", "take"}}
Writing == {a \in As : pc[a] = "write"}
OutWriting == {b \in Bs : pc[b] = "append"}

\* Faulty variant: a lock for reading.
WriteLock_Shared == TRUE

WriteLock == Reading = {} /\ Writing = {}
ReadLock == Writing = {}

\* _get_empty, which A and B use for the file that they write.
FindPlace(p, f) ==
    /\ \E stale \in Stale : line' = [line EXCEPT ![p] = get_empty(f, stale)]
    /\ UNCHANGED <<file, outfile, chunks, number, written, misled>>

\* Not where a row begins: at the newline that ends the file.
Misplaced(p) == line[p] % COMPLEX_BYTE # 0

-----------------------------------------------------------------------------
\* Program A.
read_32byte(a) ==
    /\ pc[a] = "read"
    /\ IF chunks[a] = 0
          THEN pc' = [pc EXCEPT ![a] = "exited"] /\ UNCHANGED chunks
          ELSE pc' = [pc EXCEPT ![a] = "lock"] /\ chunks' = [chunks EXCEPT ![a] = @ - 1]
    /\ UNCHANGED <<file, outfile, number, line, written, misled>>

FindEmptyRow(a) == Goto(a, "lock", "write") /\ WriteLock /\ FindPlace(a, file)

write_16numbers(a) ==
    /\ Goto(a, "write", "read")
    /\ file' = WriteAt(file, line[a], Row(written + 1))
    /\ line' = [line EXCEPT ![a] = -1]
    /\ written' = written + 1
    /\ misled' = (misled \/ Misplaced(a))
    /\ UNCHANGED <<outfile, chunks, number>>

A(a) == read_32byte(a) \/ FindEmptyRow(a) \/ write_16numbers(a)

-----------------------------------------------------------------------------
\* Program B.
\* buf2complex fails an assertion unless a number follows; behind a last
\* newline the buffer still holds what it held before.
Numbers(text) ==
    LET digits == {i \in 1..Len(text) : text[i].char = "digit"}
    IN IF digits # {} THEN {text[CHOOSE i \in digits : \A j \in digits : i <= j].of}
       ELSE IF Len(text) < COMPLEX_BYTE THEN {-1, 0} ELSE {-1}

\* _read finds a row, or stops; reads it; and deletes it before the text is
\* looked at.
FindRow(b) ==
    /\ pc[b] = "lock" /\ ReadLock
    /\ \E stale \in Stale : line' = [line EXCEPT ![b] = get_nonempty(file, stale)]
    /\ pc' = [pc EXCEPT ![b] = IF line'[b] = -1 THEN "exited" ELSE "fetch"]
    /\ UNCHANGED <<file, outfile, chunks, number, written, misled>>

read_16complex(b) ==
    /\ Goto(b, "fetch", "take")
    /\ \E n \in Numbers(SubSeq(file, line[b] + 1, Least(line[b] + COMPLEX_BYTE, Len(file)))) :
          number' = [number EXCEPT ![b] = n]
    /\ UNCHANGED <<file, outfile, chunks, line, written, misled>>

\* Faulty variant: the row is deleted under a lock for writing.
TakeRow_Upgrade(b) ==
    /\ pc[b] = "take" /\ Reading = {b}
    /\ file' = delete_line(file, line[b] \div COMPLEX_BYTE)
    /\ pc' = [pc EXCEPT ![b] = IF number[b] = -1 THEN "aborted" ELSE "wait"]
    /\ line' = [line EXCEPT ![b] = -1]
    /\ UNCHANGED <<outfile, chunks, number, written, misled>>

TakeRow(b) ==
    /\ pc[b] = "take"
    /\ file' = delete_line(file, line[b] \div COMPLEX_BYTE)
    /\ pc' = [pc EXCEPT ![b] = IF number[b] = -1 THEN "aborted" ELSE "wait"]
    /\ line' = [line EXCEPT ![b] = -1]
    /\ UNCHANGED <<outfile, chunks, number, written, misled>>

\* Faulty variant: the lock of the results is taken for reading.
OutLock_Shared == TRUE

OutLock == OutWriting = {}

FindResultRow(b) == Goto(b, "wait", "append") /\ OutLock /\ FindPlace(b, outfile)

_write(b) ==
    /\ Goto(b, "append", "lock")
    /\ outfile' = WriteAt(outfile, line[b], Row(number[b]))
    /\ line' = [line EXCEPT ![b] = -1]
    /\ number' = [number EXCEPT ![b] = 0]
    /\ misled' = (misled \/ Misplaced(b))
    /\ UNCHANGED <<file, chunks, written>>

B(b) == FindRow(b) \/ read_16complex(b) \/ TakeRow(b) \/ FindResultRow(b) \/ _write(b)

Next == (\E a \in As : A(a)) \/ (\E b \in Bs : B(b))

Spec == Init /\ [][Next]_vars

\* While an instance can go on, one does.
FairSpec == Spec /\ WF_vars(Next)

-----------------------------------------------------------------------------
\* The properties.
Ended == {p \in As \cup Bs : pc[p] \in {"exited", "aborted"}}

\* Until a space behind the data misleads an instance, the files consist of
\* whole rows, filled or emptied, whatever two Bs do to them at once under a
\* lock that they share.
WholeRows ==
    ~misled => \A f \in {file, outfile} :
                  /\ Len(f) % COMPLEX_BYTE = 0
                  /\ \A k \in Places(f) : \E n \in 0..written : RowAt(f, k) \in {EmptyRow, Row(n)}

\* What was filled in f is there in g, but for the newline at the end of f when
\* the step is the first one that was misled.
Kept(f, g) ==
    \A k \in Filled(f), i \in 1..COMPLEX_BYTE :
        RowAt(g, k)[i] = RowAt(f, k)[i] \/ (misled' /\ k * COMPLEX_BYTE + i = Len(f))

\* An A keeps the rows of the file that are filled, and a B those of the results,
\* up to and with the first row that a space behind the data misplaces: that one
\* overwrites the newline of the last row, and nothing else.
NothingOverwritten ==
    [][~misled => (written' # written => Kept(file, file')) /\ Kept(outfile, outfile')]_vars

\* No row leaves the file without a B that writes a result for it, writes one
\* soon, or fails, until a row is misplaced; only the numbers of the result may
\* be those of another row.
RowsBecomeResults ==
    ~misled =>
        written <= Cardinality(Filled(file)) + Cardinality(Filled(outfile))
                   + Cardinality({b \in Bs : pc[b] \in {"wait", "append", "aborted"}})

\* All instances end.
AllEnd == <>(Ended = As \cup Bs)

\* False: with three rows in the file the first is read, then the newline of
\* the second is found: the third is read and the second deleted.
NumbersIn(f) == {f[i].of : i \in 1..Len(f)} \ {0}
EveryRowRead ==
    Ended = As \cup Bs /\ ~misled => 1..written \subseteq NumbersIn(file) \cup NumbersIn(outfile)
=============================================================================
