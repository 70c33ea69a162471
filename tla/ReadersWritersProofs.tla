------------------------ MODULE ReadersWritersProofs ------------------------
(***************************************************************************)
(* The readers/writers protocol of read_database and write_database is     *)
(* correct for any finite set of threads and any graph.                    *)
(***************************************************************************)
EXTENDS ReadersWriters, FiniteSetTheorems, TLAPS

\* Adding one thread to, or removing one from, a counted set moves its count
\* by one.
LEMMA CountMoves ==
    ASSUME NEW S, NEW h, S \subseteq Handlers, h \in Handlers
    PROVE  /\ Cardinality(S) \in Nat
           /\ (Cardinality(S) = 0) <=> (S = {})
           /\ h \notin S => Cardinality(S \cup {h}) = Cardinality(S) + 1
           /\ h \in S => Cardinality(S \ {h}) = Cardinality(S) - 1
<1>1. IsFiniteSet(S)
  BY HandlersAssumption, FS_Subset
<1> QED
  BY <1>1, FS_CardinalityType, FS_EmptySet, FS_AddElement, FS_RemoveElement

\* Every request's list exists.
LEMMA RequestInNodes ==
    ASSUME TypeOK, NEW h \in Handlers
    PROVE  request[h][1] \in Nodes /\ request[h][2] \in Nodes
BY RequestsAssumption DEF TypeOK

THEOREM InitInv == Init => Inv
<1> SUFFICES ASSUME Init PROVE Inv
  OBVIOUS
<1>1. TypeOK
  BY DEF Init, TypeOK, Labels
<1>2. \A L : "idle" \notin L => At(L) = {}
  BY DEF Init, At
<1>3. /\ CountedReaders = {} /\ CountedWriters = {}
      /\ InReadMutex = {} /\ InWriteMutex = {}
      /\ TryReaders = {} /\ TryWriters = {}
      /\ RoomReaders = {} /\ RoomWriters = {}
      /\ At({"lock_room"}) = {} /\ At({"free_room"}) = {}
      /\ At({"close_try"}) = {} /\ At({"open_try"}) = {}
  BY <1>2 DEF CountedReaders, CountedWriters, InReadMutex, InWriteMutex,
              TryReaders, TryWriters, RoomReaders, RoomWriters
<1>4. Cardinality({}) = 0
  BY FS_EmptySet
<1> QED
  BY <1>1, <1>3, <1>4
     DEF Init, Inv, CountsOK, MutexesOK, TryOK, RoomOK, FirstAndLastOK, AtMostOne

\* A counter tells whether its set is empty, and whether a member is alone.
LEMMA Alone ==
    ASSUME Inv
    PROVE  /\ read_count = 0 <=> CountedReaders = {}
           /\ write_count = 0 <=> CountedWriters = {}
           /\ \A h \in CountedReaders : read_count = 1 <=> CountedReaders = {h}
           /\ \A h \in CountedWriters : write_count = 1 <=> CountedWriters = {h}
<1>1. CountedReaders \subseteq Handlers /\ CountedWriters \subseteq Handlers
  BY DEF CountedReaders, CountedWriters, At
<1>2. \A S \in SUBSET Handlers : \A h \in S : Cardinality(S) = 1 <=> S = {h}
  <2> TAKE S \in SUBSET Handlers
  <2> TAKE h \in S
  <2>1. Cardinality(S) - 1 = Cardinality(S \ {h}) /\ Cardinality(S) \in Nat
    BY CountMoves
  <2>2. Cardinality(S \ {h}) = 0 <=> S \ {h} = {}
    BY CountMoves
  <2> QED
    BY <2>1, <2>2
<1>3. \A S \in SUBSET Handlers : Cardinality(S) = 0 <=> S = {}
  BY CountMoves, HandlersAssumption
<1>4. CountsOK
  BY DEF Inv
<1> HIDE DEF CountedReaders, CountedWriters
<1> QED
  BY <1>1, <1>2, <1>3, <1>4 DEF CountsOK

\* What a thread at each label knows of the semaphores and the counters.
LEMMA Holding ==
    ASSUME Inv, NEW h \in Handlers
    PROVE  /\ h \in InReadMutex => read_mutex = 0
           /\ h \in InWriteMutex => write_mutex = 0
           /\ h \in TryReaders \cup TryWriters => read_try = 0
           /\ h \in RoomReaders \cup RoomWriters => cache_mutex = 0
           /\ h \in CountedReaders => read_count # 0
           /\ h \in CountedWriters => write_count # 0
<1>1. CountedReaders \subseteq Handlers /\ CountedWriters \subseteq Handlers
  BY DEF CountedReaders, CountedWriters, At
<1>2. /\ h \in CountedReaders => read_count # 0
      /\ h \in CountedWriters => write_count # 0
  BY <1>1, CountMoves DEF Inv, CountsOK
<1> QED
  BY <1>2 DEF Inv, TypeOK, MutexesOK, TryOK, RoomOK

\* Every step keeps the types; no semaphore is posted past 1.
LEMMA TypeStep ==
    ASSUME Inv, Next
    PROVE  TypeOK'
<1> USE DEF cntVars, dataVars, semVars
<1>1. PICK h \in Handlers : Request(h) \/ ReadDatabase(h) \/ WriteDatabase(h)
  BY DEF Next
<1>2. TypeOK
  BY DEF Inv
<1> USE <1>2 DEF Goto, Wait, Post, TypeOK, Labels, ReaderLabels, WriterLabels, InReadMutex,
        InWriteMutex, TryReaders, TryWriters, RoomReaders, RoomWriters, CountedReaders,
        CountedWriters, At
<1>3. CASE Request(h)
  BY <1>3, Holding DEF Request
<1>4. CASE WaitReadTry(h)
  BY <1>4, Holding DEF WaitReadTry
<1>5. CASE ReaderCountIn(h)
  BY <1>5, Holding DEF ReaderCountIn
<1>6. CASE FirstReaderLocks(h)
  BY <1>6, Holding DEF FirstReaderLocks
<1>7. CASE ReaderCountedIn(h)
  BY <1>7, Holding DEF ReaderCountedIn
<1>8. CASE LetOthersTry(h)
  BY <1>8, Holding DEF LetOthersTry
<1>9. CASE ScanStart(h)
  BY <1>9, RequestInNodes DEF ScanStart
<1>10. CASE ScanNext(h)
  BY <1>10, Holding DEF ScanNext
<1>11. CASE ScanEnd(h)
  BY <1>11, Holding DEF ScanEnd
<1>12. CASE ReaderCountOut(h)
  BY <1>12, Holding DEF ReaderCountOut
<1>13. CASE LastReaderFrees(h)
  BY <1>13, Holding DEF LastReaderFrees
<1>14. CASE ReaderCountedOut(h)
  BY <1>14, Holding DEF ReaderCountedOut
<1>15. CASE WriterCountIn(h)
  BY <1>15, Holding DEF WriterCountIn
<1>16. CASE FirstWriterCloses(h)
  BY <1>16, Holding DEF FirstWriterCloses
<1>17. CASE WriterCountedIn(h)
  BY <1>17, Holding DEF WriterCountedIn
<1>18. CASE WriterLocks(h)
  BY <1>18, Holding DEF WriterLocks
<1>19. CASE Link(h)
  BY <1>19, RequestInNodes, Holding DEF Link
<1>20. CASE Publish(h)
  BY <1>20, RequestInNodes, Holding DEF Publish
<1>21. CASE WriterUnlocks(h)
  BY <1>21, Holding DEF WriterUnlocks
<1>22. CASE WriterCountOut(h)
  BY <1>22, Holding DEF WriterCountOut
<1>23. CASE LastWriterOpens(h)
  BY <1>23, Holding DEF LastWriterOpens
<1>24. CASE WriterCountedOut(h)
  BY <1>24, Holding DEF WriterCountedOut
<1> QED
  BY <1>1, <1>3, <1>4, <1>5, <1>6, <1>7, <1>8, <1>9, <1>10, <1>11, <1>12, <1>13, <1>14,
     <1>15, <1>16, <1>17, <1>18, <1>19, <1>20, <1>21, <1>22, <1>23, <1>24
     DEF ReadDatabase, WriteDatabase

\* read_mutex and write_mutex stay mutexes.
LEMMA MutexesStep ==
    ASSUME Inv, Next
    PROVE  MutexesOK'
<1> USE DEF cntVars, dataVars, semVars
<1>1. PICK h \in Handlers : Request(h) \/ ReadDatabase(h) \/ WriteDatabase(h)
  BY DEF Next
<1>2. TypeOK /\ MutexesOK /\ TryOK /\ RoomOK /\ CountsOK /\ FirstAndLastOK
  BY DEF Inv
<1> USE <1>2 DEF Goto, Wait, Post, TypeOK, MutexesOK, AtMostOne, At, InReadMutex,
        InWriteMutex
<1>3. CASE Request(h)
  BY <1>3 DEF Request
<1>4. CASE WaitReadTry(h)
  BY <1>4 DEF WaitReadTry
<1>5. CASE ReaderCountIn(h)
  BY <1>5 DEF ReaderCountIn
<1>6. CASE FirstReaderLocks(h)
  BY <1>6 DEF FirstReaderLocks
<1>7. CASE ReaderCountedIn(h)
  BY <1>7 DEF ReaderCountedIn
<1>8. CASE LetOthersTry(h)
  BY <1>8 DEF LetOthersTry
<1>9. CASE ScanStart(h)
  BY <1>9 DEF ScanStart
<1>10. CASE ScanNext(h)
  BY <1>10 DEF ScanNext
<1>11. CASE ScanEnd(h)
  BY <1>11 DEF ScanEnd
<1>12. CASE ReaderCountOut(h)
  BY <1>12 DEF ReaderCountOut
<1>13. CASE LastReaderFrees(h)
  BY <1>13 DEF LastReaderFrees
<1>14. CASE ReaderCountedOut(h)
  BY <1>14 DEF ReaderCountedOut
<1>15. CASE WriterCountIn(h)
  BY <1>15 DEF WriterCountIn
<1>16. CASE FirstWriterCloses(h)
  BY <1>16 DEF FirstWriterCloses
<1>17. CASE WriterCountedIn(h)
  BY <1>17 DEF WriterCountedIn
<1>18. CASE WriterLocks(h)
  BY <1>18 DEF WriterLocks
<1>19. CASE Link(h)
  BY <1>19 DEF Link
<1>20. CASE Publish(h)
  BY <1>20 DEF Publish
<1>21. CASE WriterUnlocks(h)
  BY <1>21 DEF WriterUnlocks
<1>22. CASE WriterCountOut(h)
  BY <1>22 DEF WriterCountOut
<1>23. CASE LastWriterOpens(h)
  BY <1>23 DEF LastWriterOpens
<1>24. CASE WriterCountedOut(h)
  BY <1>24 DEF WriterCountedOut
<1> QED
  BY <1>1, <1>3, <1>4, <1>5, <1>6, <1>7, <1>8, <1>9, <1>10, <1>11, <1>12, <1>13, <1>14,
     <1>15, <1>16, <1>17, <1>18, <1>19, <1>20, <1>21, <1>22, <1>23, <1>24
     DEF ReadDatabase, WriteDatabase

\* read_try stays with one reader or with the writers.
LEMMA TryStep ==
    ASSUME Inv, Next
    PROVE  TryOK'
<1> USE DEF cntVars, dataVars, semVars
<1>1. PICK h \in Handlers : Request(h) \/ ReadDatabase(h) \/ WriteDatabase(h)
  BY DEF Next
<1>2. TypeOK /\ MutexesOK /\ TryOK /\ RoomOK /\ CountsOK /\ FirstAndLastOK
  BY DEF Inv
<1> USE <1>2 DEF Goto, Wait, Post, TypeOK, MutexesOK, TryOK, FirstAndLastOK, AtMostOne, At,
        TryReaders, TryWriters, InWriteMutex
<1>3. CASE Request(h)
  BY <1>3 DEF Request
<1>4. CASE WaitReadTry(h)
  BY <1>4 DEF WaitReadTry
<1>5. CASE ReaderCountIn(h)
  BY <1>5 DEF ReaderCountIn
<1>6. CASE FirstReaderLocks(h)
  BY <1>6 DEF FirstReaderLocks
<1>7. CASE ReaderCountedIn(h)
  BY <1>7 DEF ReaderCountedIn
<1>8. CASE LetOthersTry(h)
  BY <1>8 DEF LetOthersTry
<1>9. CASE ScanStart(h)
  BY <1>9 DEF ScanStart
<1>10. CASE ScanNext(h)
  BY <1>10 DEF ScanNext
<1>11. CASE ScanEnd(h)
  BY <1>11 DEF ScanEnd
<1>12. CASE ReaderCountOut(h)
  BY <1>12 DEF ReaderCountOut
<1>13. CASE LastReaderFrees(h)
  BY <1>13 DEF LastReaderFrees
<1>14. CASE ReaderCountedOut(h)
  BY <1>14 DEF ReaderCountedOut
<1>15. CASE WriterCountIn(h)
  <2>1. write_count = 0 \/ TryWriters # {}
    BY <1>2, <1>15, Alone
       DEF WriterCountIn, Goto, Wait, TypeOK, MutexesOK, CountedWriters, TryWriters, InWriteMutex, At
  <2>2. write_count \in Nat
    BY <1>2 DEF TypeOK
  <2> QED
    BY <1>2, <1>15, <2>1, <2>2
       DEF WriterCountIn, Goto, TypeOK, TryOK, AtMostOne, At, TryReaders, TryWriters
<1>16. CASE FirstWriterCloses(h)
  BY <1>16 DEF FirstWriterCloses
<1>17. CASE WriterCountedIn(h)
  BY <1>17 DEF WriterCountedIn
<1>18. CASE WriterLocks(h)
  BY <1>18 DEF WriterLocks
<1>19. CASE Link(h)
  BY <1>19 DEF Link
<1>20. CASE Publish(h)
  BY <1>20 DEF Publish
<1>21. CASE WriterUnlocks(h)
  BY <1>21 DEF WriterUnlocks
<1>22. CASE WriterCountOut(h)
  <2>1. h \in TryWriters /\ h \in CountedWriters
    BY <1>2, <1>22 DEF WriterCountOut, Goto, TypeOK, TryWriters, CountedWriters, At
  <2>2. write_count = 1 \/ \E g \in TryWriters : g # h
    BY <1>2, <1>22, <2>1, Alone
       DEF WriterCountOut, Goto, Wait, TypeOK, MutexesOK, CountedWriters, TryWriters, InWriteMutex, At
  <2>3. write_count \in Nat
    BY <1>2 DEF TypeOK
  <2>4. TryReaders' = TryReaders /\ TryReaders = {} /\ read_try = 0 /\ read_try' = 0
    BY <1>2, <1>22, <2>1 DEF WriterCountOut, Goto, TypeOK, TryOK, TryReaders, At
  <2>5. TryWriters' # {}
    BY <1>2, <1>22, <2>1, <2>2, <2>3 DEF WriterCountOut, Goto, TypeOK, TryWriters, At
  <2> QED
    BY <2>4, <2>5 DEF TryOK, AtMostOne
<1>23. CASE LastWriterOpens(h)
  <2>1. CountedWriters = {}
    BY <1>2, <1>23, Alone DEF LastWriterOpens, Goto, FirstAndLastOK, At
  <2>2. TryWriters = {h}
    BY <1>2, <1>23, <2>1
       DEF LastWriterOpens, Goto, TypeOK, MutexesOK, AtMostOne, InWriteMutex, CountedWriters, TryWriters, At
  <2>3. TryWriters' = {} /\ TryReaders' = TryReaders
    BY <1>2, <1>23, <2>2 DEF LastWriterOpens, Goto, TypeOK, TryWriters, TryReaders, At
  <2> QED
    BY <1>2, <1>23, <2>2, <2>3 DEF LastWriterOpens, Post, TypeOK, TryOK, AtMostOne
<1>24. CASE WriterCountedOut(h)
  BY <1>24 DEF WriterCountedOut
<1> QED
  BY <1>1, <1>3, <1>4, <1>5, <1>6, <1>7, <1>8, <1>9, <1>10, <1>11, <1>12, <1>13, <1>14,
     <1>15, <1>16, <1>17, <1>18, <1>19, <1>20, <1>21, <1>22, <1>23, <1>24
     DEF ReadDatabase, WriteDatabase

\* cache_mutex stays with one writer or with the readers.
LEMMA RoomStep ==
    ASSUME Inv, Next
    PROVE  RoomOK'
<1> USE DEF cntVars, dataVars, semVars
<1>1. PICK h \in Handlers : Request(h) \/ ReadDatabase(h) \/ WriteDatabase(h)
  BY DEF Next
<1>2. TypeOK /\ MutexesOK /\ TryOK /\ RoomOK /\ CountsOK /\ FirstAndLastOK
  BY DEF Inv
<1> USE <1>2 DEF Goto, Wait, Post, TypeOK, MutexesOK, RoomOK, FirstAndLastOK, AtMostOne, At,
        RoomReaders, RoomWriters, InReadMutex
<1>3. CASE Request(h)
  BY <1>3 DEF Request
<1>4. CASE WaitReadTry(h)
  BY <1>4 DEF WaitReadTry
<1>5. CASE ReaderCountIn(h)
  <2>1. read_count = 0 \/ RoomReaders # {}
    BY <1>2, <1>5, Alone
       DEF ReaderCountIn, Goto, Wait, TypeOK, MutexesOK, CountedReaders, RoomReaders, InReadMutex, At
  <2>2. read_count \in Nat
    BY <1>2 DEF TypeOK
  <2> QED
    BY <1>2, <1>5, <2>1, <2>2
       DEF ReaderCountIn, Goto, TypeOK, RoomOK, AtMostOne, At, RoomWriters, RoomReaders
<1>6. CASE FirstReaderLocks(h)
  BY <1>6 DEF FirstReaderLocks
<1>7. CASE ReaderCountedIn(h)
  BY <1>7 DEF ReaderCountedIn
<1>8. CASE LetOthersTry(h)
  BY <1>8 DEF LetOthersTry
<1>9. CASE ScanStart(h)
  BY <1>9 DEF ScanStart
<1>10. CASE ScanNext(h)
  BY <1>10 DEF ScanNext
<1>11. CASE ScanEnd(h)
  BY <1>11 DEF ScanEnd
<1>12. CASE ReaderCountOut(h)
  <2>1. h \in RoomReaders /\ h \in CountedReaders
    BY <1>2, <1>12 DEF ReaderCountOut, Goto, TypeOK, RoomReaders, CountedReaders, At
  <2>2. read_count = 1 \/ \E g \in RoomReaders : g # h
    <3>1. CountedReaders \subseteq RoomReaders
      BY <1>2, <1>12
         DEF ReaderCountOut, Wait, TypeOK, MutexesOK, CountedReaders, RoomReaders, InReadMutex, At
    <3>2. read_count = 1 \/ \E g \in CountedReaders : g # h
      BY <2>1, Alone
    <3> QED
      BY <3>1, <3>2
  <2>3. read_count \in Nat
    BY <1>2 DEF TypeOK
  <2>4. RoomWriters' = RoomWriters /\ RoomWriters = {} /\ cache_mutex = 0 /\ cache_mutex' = 0
    BY <1>2, <1>12, <2>1 DEF ReaderCountOut, Goto, TypeOK, RoomOK, RoomWriters, At
  <2>5. RoomReaders' # {}
    BY <1>2, <1>12, <2>1, <2>2, <2>3 DEF ReaderCountOut, Goto, TypeOK, RoomReaders, At
  <2> QED
    BY <2>4, <2>5 DEF RoomOK, AtMostOne
<1>13. CASE LastReaderFrees(h)
  <2>1. CountedReaders = {}
    BY <1>2, <1>13, Alone DEF LastReaderFrees, Goto, FirstAndLastOK, At
  <2>2. RoomReaders = {h}
    BY <1>2, <1>13, <2>1
       DEF LastReaderFrees, Goto, TypeOK, MutexesOK, AtMostOne, InReadMutex, CountedReaders, RoomReaders, At
  <2>3. RoomReaders' = {} /\ RoomWriters' = RoomWriters
    BY <1>2, <1>13, <2>2 DEF LastReaderFrees, Goto, TypeOK, RoomReaders, RoomWriters, At
  <2> QED
    BY <1>2, <1>13, <2>2, <2>3 DEF LastReaderFrees, Post, TypeOK, RoomOK, AtMostOne
<1>14. CASE ReaderCountedOut(h)
  BY <1>14 DEF ReaderCountedOut
<1>15. CASE WriterCountIn(h)
  BY <1>15 DEF WriterCountIn
<1>16. CASE FirstWriterCloses(h)
  BY <1>16 DEF FirstWriterCloses
<1>17. CASE WriterCountedIn(h)
  BY <1>17 DEF WriterCountedIn
<1>18. CASE WriterLocks(h)
  BY <1>18 DEF WriterLocks
<1>19. CASE Link(h)
  BY <1>19 DEF Link
<1>20. CASE Publish(h)
  BY <1>20 DEF Publish
<1>21. CASE WriterUnlocks(h)
  BY <1>21 DEF WriterUnlocks
<1>22. CASE WriterCountOut(h)
  BY <1>22 DEF WriterCountOut
<1>23. CASE LastWriterOpens(h)
  BY <1>23 DEF LastWriterOpens
<1>24. CASE WriterCountedOut(h)
  BY <1>24 DEF WriterCountedOut
<1> QED
  BY <1>1, <1>3, <1>4, <1>5, <1>6, <1>7, <1>8, <1>9, <1>10, <1>11, <1>12, <1>13, <1>14,
     <1>15, <1>16, <1>17, <1>18, <1>19, <1>20, <1>21, <1>22, <1>23, <1>24
     DEF ReadDatabase, WriteDatabase

\* The counters count.
LEMMA CountsStep ==
    ASSUME Inv, Next
    PROVE  CountsOK'
<1> USE DEF cntVars, dataVars, semVars
<1>1. PICK h \in Handlers : Request(h) \/ ReadDatabase(h) \/ WriteDatabase(h)
  BY DEF Next
<1>2. TypeOK /\ MutexesOK /\ TryOK /\ RoomOK /\ CountsOK /\ FirstAndLastOK
  BY DEF Inv
<1> USE <1>2 DEF Goto, Wait, Post, TypeOK, CountsOK, At, CountedReaders, CountedWriters
<1>3. CASE Request(h)
  BY <1>3, CountMoves DEF Request
<1>4. CASE WaitReadTry(h)
  BY <1>4, CountMoves DEF WaitReadTry
<1>5. CASE ReaderCountIn(h)
  <2>1. /\ CountedReaders' = CountedReaders \cup {h}
        /\ CountedWriters' = CountedWriters
        /\ h \notin CountedReaders
        /\ CountedReaders \subseteq Handlers
    BY <1>2, <1>5 DEF ReaderCountIn, Goto, TypeOK, CountedReaders, CountedWriters, At
  <2> HIDE DEF CountedReaders, CountedWriters
  <2>2. Cardinality(CountedReaders') = Cardinality(CountedReaders) + 1
    BY <2>1, CountMoves
  <2> QED
    BY <1>5, <2>1, <2>2 DEF ReaderCountIn
<1>6. CASE FirstReaderLocks(h)
  BY <1>6, CountMoves DEF FirstReaderLocks
<1>7. CASE ReaderCountedIn(h)
  BY <1>7, CountMoves DEF ReaderCountedIn
<1>8. CASE LetOthersTry(h)
  BY <1>8, CountMoves DEF LetOthersTry
<1>9. CASE ScanStart(h)
  BY <1>9, CountMoves DEF ScanStart
<1>10. CASE ScanNext(h)
  BY <1>10, CountMoves DEF ScanNext
<1>11. CASE ScanEnd(h)
  BY <1>11, CountMoves DEF ScanEnd
<1>12. CASE ReaderCountOut(h)
  <2>1. /\ CountedReaders' = CountedReaders \ {h}
        /\ CountedWriters' = CountedWriters
        /\ h \in CountedReaders
        /\ CountedReaders \subseteq Handlers
    BY <1>2, <1>12 DEF ReaderCountOut, Goto, TypeOK, CountedReaders, CountedWriters, At
  <2> HIDE DEF CountedReaders, CountedWriters
  <2>2. Cardinality(CountedReaders') = Cardinality(CountedReaders) - 1
    BY <2>1, CountMoves
  <2> QED
    BY <1>12, <2>1, <2>2 DEF ReaderCountOut
<1>13. CASE LastReaderFrees(h)
  BY <1>13, CountMoves DEF LastReaderFrees
<1>14. CASE ReaderCountedOut(h)
  BY <1>14, CountMoves DEF ReaderCountedOut
<1>15. CASE WriterCountIn(h)
  <2>1. /\ CountedWriters' = CountedWriters \cup {h}
        /\ CountedReaders' = CountedReaders
        /\ h \notin CountedWriters
        /\ CountedWriters \subseteq Handlers
    BY <1>2, <1>15 DEF WriterCountIn, Goto, TypeOK, CountedReaders, CountedWriters, At
  <2> HIDE DEF CountedReaders, CountedWriters
  <2>2. Cardinality(CountedWriters') = Cardinality(CountedWriters) + 1
    BY <2>1, CountMoves
  <2> QED
    BY <1>15, <2>1, <2>2 DEF WriterCountIn
<1>16. CASE FirstWriterCloses(h)
  BY <1>16, CountMoves DEF FirstWriterCloses
<1>17. CASE WriterCountedIn(h)
  BY <1>17, CountMoves DEF WriterCountedIn
<1>18. CASE WriterLocks(h)
  BY <1>18, CountMoves DEF WriterLocks
<1>19. CASE Link(h)
  BY <1>19, CountMoves DEF Link
<1>20. CASE Publish(h)
  BY <1>20, CountMoves DEF Publish
<1>21. CASE WriterUnlocks(h)
  BY <1>21, CountMoves DEF WriterUnlocks
<1>22. CASE WriterCountOut(h)
  <2>1. /\ CountedWriters' = CountedWriters \ {h}
        /\ CountedReaders' = CountedReaders
        /\ h \in CountedWriters
        /\ CountedWriters \subseteq Handlers
    BY <1>2, <1>22 DEF WriterCountOut, Goto, TypeOK, CountedReaders, CountedWriters, At
  <2> HIDE DEF CountedReaders, CountedWriters
  <2>2. Cardinality(CountedWriters') = Cardinality(CountedWriters) - 1
    BY <2>1, CountMoves
  <2> QED
    BY <1>22, <2>1, <2>2 DEF WriterCountOut
<1>23. CASE LastWriterOpens(h)
  BY <1>23, CountMoves DEF LastWriterOpens
<1>24. CASE WriterCountedOut(h)
  BY <1>24, CountMoves DEF WriterCountedOut
<1> QED
  BY <1>1, <1>3, <1>4, <1>5, <1>6, <1>7, <1>8, <1>9, <1>10, <1>11, <1>12, <1>13, <1>14,
     <1>15, <1>16, <1>17, <1>18, <1>19, <1>20, <1>21, <1>22, <1>23, <1>24
     DEF ReadDatabase, WriteDatabase

\* The first one in and the last one out are alone in doing so.
LEMMA FirstAndLastStep ==
    ASSUME Inv, Next
    PROVE  FirstAndLastOK'
<1> USE DEF cntVars, dataVars, semVars
<1>1. PICK h \in Handlers : Request(h) \/ ReadDatabase(h) \/ WriteDatabase(h)
  BY DEF Next
<1>2. TypeOK /\ MutexesOK /\ TryOK /\ RoomOK /\ CountsOK /\ FirstAndLastOK
  BY DEF Inv
<1> USE <1>2 DEF Goto, Wait, Post, TypeOK, MutexesOK, FirstAndLastOK, AtMostOne, At,
        InReadMutex, InWriteMutex
<1>3. CASE Request(h)
  BY <1>3 DEF Request
<1>4. CASE WaitReadTry(h)
  BY <1>4 DEF WaitReadTry
<1>5. CASE ReaderCountIn(h)
  BY <1>5 DEF ReaderCountIn
<1>6. CASE FirstReaderLocks(h)
  BY <1>6 DEF FirstReaderLocks
<1>7. CASE ReaderCountedIn(h)
  BY <1>7 DEF ReaderCountedIn
<1>8. CASE LetOthersTry(h)
  BY <1>8 DEF LetOthersTry
<1>9. CASE ScanStart(h)
  BY <1>9 DEF ScanStart
<1>10. CASE ScanNext(h)
  BY <1>10 DEF ScanNext
<1>11. CASE ScanEnd(h)
  BY <1>11 DEF ScanEnd
<1>12. CASE ReaderCountOut(h)
  BY <1>12 DEF ReaderCountOut
<1>13. CASE LastReaderFrees(h)
  BY <1>13 DEF LastReaderFrees
<1>14. CASE ReaderCountedOut(h)
  BY <1>14 DEF ReaderCountedOut
<1>15. CASE WriterCountIn(h)
  BY <1>15 DEF WriterCountIn
<1>16. CASE FirstWriterCloses(h)
  BY <1>16 DEF FirstWriterCloses
<1>17. CASE WriterCountedIn(h)
  BY <1>17 DEF WriterCountedIn
<1>18. CASE WriterLocks(h)
  BY <1>18 DEF WriterLocks
<1>19. CASE Link(h)
  BY <1>19 DEF Link
<1>20. CASE Publish(h)
  BY <1>20 DEF Publish
<1>21. CASE WriterUnlocks(h)
  BY <1>21 DEF WriterUnlocks
<1>22. CASE WriterCountOut(h)
  BY <1>22 DEF WriterCountOut
<1>23. CASE LastWriterOpens(h)
  BY <1>23 DEF LastWriterOpens
<1>24. CASE WriterCountedOut(h)
  BY <1>24 DEF WriterCountedOut
<1> QED
  BY <1>1, <1>3, <1>4, <1>5, <1>6, <1>7, <1>8, <1>9, <1>10, <1>11, <1>12, <1>13, <1>14,
     <1>15, <1>16, <1>17, <1>18, <1>19, <1>20, <1>21, <1>22, <1>23, <1>24
     DEF ReadDatabase, WriteDatabase

THEOREM NextInv == Inv /\ [Next]_vars => Inv'
<1> SUFFICES ASSUME Inv, [Next]_vars PROVE Inv'
  OBVIOUS
<1>1. CASE Next
  BY <1>1, TypeStep, MutexesStep, TryStep, RoomStep, CountsStep, FirstAndLastStep DEF Inv
<1>2. CASE UNCHANGED vars
  BY <1>2
     DEF vars, semVars, cntVars, dataVars, Inv, TypeOK, CountsOK, MutexesOK, TryOK, RoomOK,
         FirstAndLastOK, At, CountedReaders, CountedWriters, InReadMutex, InWriteMutex,
         TryReaders, TryWriters, RoomReaders, RoomWriters
<1> QED
  BY <1>1, <1>2

\* The invariant holds of every run of the protocol, whatever the threads,
\* the graph and the requests.
THEOREM Invariance == Spec => []Inv
<1> QED
  BY InitInv, NextInv, PTL DEF Spec

-----------------------------------------------------------------------------
\* No get_cache or to_cache of one thread overlaps a to_cache of another.
THEOREM Exclusion == Spec => []MutualExclusion
<1>1. Inv => MutualExclusion
  BY DEF Inv, RoomOK, AtMostOne, MutualExclusion, Reading, Writing, RoomReaders, RoomWriters, At
<1> QED
  BY <1>1, Invariance, PTL

\* The first reader never waits for cache_mutex while it holds read_try and
\* read_mutex: the nesting of lines 430-436 cannot be half of a deadlock.
THEOREM NoNestedWait == Spec => []FirstReaderNeverBlocks
<1> SUFFICES Inv => FirstReaderNeverBlocks
  BY Invariance, PTL
<1> SUFFICES ASSUME Inv, NEW h \in Handlers, pc[h] = "lock_room" PROVE cache_mutex = 1
  BY DEF FirstReaderNeverBlocks
<1>1. CountedReaders = {h}
  BY Alone DEF Inv, FirstAndLastOK, CountedReaders, At
<1>2. RoomReaders = {}
  BY <1>1 DEF Inv, MutexesOK, AtMostOne, InReadMutex, CountedReaders, RoomReaders, At
<1>3. RoomWriters = {}
  BY DEF Inv, TryOK, TryReaders, TryWriters, RoomWriters, At
<1> QED
  BY <1>2, <1>3 DEF Inv, RoomOK

\* While writers are in, or wait with read_try closed, no reader gets in.
THEOREM WritersFirst == Spec => WriterPriority
<1>1. Inv /\ [Next]_vars =>
        [CountedWriters \ At({"close_try"}) # {} => CountedReaders' \subseteq CountedReaders]_vars
  <2> SUFFICES ASSUME Inv, Next, CountedWriters \ At({"close_try"}) # {}
               PROVE  CountedReaders' \subseteq CountedReaders
    OBVIOUS
  <2>1. \A h \in Handlers : pc[h] # "count_in"
    BY DEF Inv, TryOK, TryReaders, TryWriters, CountedWriters, At
  <2>2. PICK h \in Handlers : Request(h) \/ ReadDatabase(h) \/ WriteDatabase(h)
    BY DEF Next
  <2> QED
    BY <2>1, <2>2
       DEF Inv, TypeOK, ReadDatabase, WriteDatabase, CountedReaders, At, Goto, Request,
           WaitReadTry, ReaderCountIn, FirstReaderLocks, ReaderCountedIn, LetOthersTry,
           ScanStart, ScanNext, ScanEnd, ReaderCountOut, LastReaderFrees, ReaderCountedOut,
           WriterCountIn, FirstWriterCloses, WriterCountedIn, WriterLocks, Link, Publish,
           WriterUnlocks, WriterCountOut, LastWriterOpens, WriterCountedOut
<1> QED
  BY <1>1, Invariance, PTL DEF Spec, WriterPriority

-----------------------------------------------------------------------------
(* read_database and write_database implement the atomic database.         *)

Contains(s, v) == \E n \in 1..Len(s) : s[n] = v

\* What the locals of a thread say of the shared list: a reader in its list has
\* not passed the node it looks for, and a writer's new node leads to the list.
LocalsOK ==
    \A h \in Handlers :
        /\ pc[h] = "scan" =>
             (Contains(rest[h], request[h][2]) <=> Contains(cache[request[h][1]], request[h][2]))
        /\ pc[h] = "publish" => rest[h] = cache[request[h][1]]

DbInv == Inv /\ LocalsOK

\* A node at the head of a list is the one looked for, or it is further on.
LEMMA HeadOrTail ==
    ASSUME NEW s \in Seq(Nodes), s # <<>>, NEW v
    PROVE  Contains(s, v) <=> Head(s) = v \/ Contains(Tail(s), v)
<1>1. /\ Len(s) \in Nat /\ Len(s) # 0 /\ Head(s) = s[1] /\ Len(Tail(s)) = Len(s) - 1
      /\ \A n \in 1..Len(s) - 1 : Tail(s)[n] = s[n + 1]
  OBVIOUS
<1>2. ASSUME Contains(s, v) PROVE Head(s) = v \/ Contains(Tail(s), v)
  <2>1. PICK n \in 1..Len(s) : s[n] = v
    BY <1>2 DEF Contains
  <2>2. CASE n = 1
    BY <1>1, <2>1, <2>2
  <2>3. CASE n # 1
    <3>1. n - 1 \in 1..Len(Tail(s)) /\ Tail(s)[n - 1] = v
      BY <1>1, <2>1, <2>3
    <3> QED
      BY <3>1 DEF Contains
  <2> QED
    BY <2>2, <2>3
<1>3. ASSUME Head(s) = v \/ Contains(Tail(s), v) PROVE Contains(s, v)
  <2>1. CASE Head(s) = v
    BY <1>1, <2>1 DEF Contains
  <2>2. CASE Contains(Tail(s), v)
    <3>1. PICK n \in 1..Len(Tail(s)) : Tail(s)[n] = v
      BY <2>2 DEF Contains
    <3>2. n + 1 \in 1..Len(s) /\ s[n + 1] = v
      BY <1>1, <3>1
    <3> QED
      BY <3>2 DEF Contains
  <2> QED
    BY <1>3, <2>1, <2>2
<1> QED
  BY <1>2, <1>3

\* A new head adds its vertex to the list and nothing else.
LEMMA NewHead ==
    ASSUME NEW s \in Seq(Nodes), NEW u \in Nodes, NEW v
    PROVE  Contains(<<u>> \o s, v) <=> u = v \/ Contains(s, v)
<1> DEFINE t == <<u>> \o s
<1>1. t \in Seq(Nodes) /\ t # <<>> /\ Head(t) = u /\ Tail(t) = s
  OBVIOUS
<1> HIDE DEF t
<1>2. Contains(t, v) <=> u = v \/ Contains(s, v)
  BY <1>1, HeadOrTail
<1> QED
  BY <1>2 DEF t

LEMMA LocalsInit == Init => LocalsOK
  BY DEF Init, LocalsOK

LEMMA LocalsStep ==
    ASSUME DbInv, Next
    PROVE  LocalsOK'
<1> USE DEF cntVars, dataVars, semVars
<1>1. PICK h \in Handlers : Request(h) \/ ReadDatabase(h) \/ WriteDatabase(h)
  BY DEF Next
<1>2. TypeOK /\ LocalsOK
  BY DEF DbInv, Inv
<1>3. request[h][1] \in Nodes /\ request[h][2] \in Nodes
  BY <1>2, RequestInNodes
<1>4. CASE ScanStart(h)
  BY <1>2, <1>4 DEF ScanStart, Goto, LocalsOK, TypeOK
<1>5. CASE ScanNext(h)
  <2>1. Contains(rest[h], request[h][2]) <=> Contains(Tail(rest[h]), request[h][2])
    BY <1>2, <1>5, HeadOrTail DEF ScanNext, TypeOK
  <2> HIDE DEF Contains
  <2> QED
    BY <1>2, <1>5, <2>1 DEF ScanNext, Goto, LocalsOK, TypeOK
<1>6. CASE Link(h)
  BY <1>2, <1>6 DEF Link, Goto, LocalsOK, TypeOK
<1>7. CASE Publish(h)
  <2>1. \A g \in Handlers \ {h} : pc[g] \notin {"scan", "publish"}
    BY <1>7 DEF Publish, Goto, DbInv, Inv, RoomOK, AtMostOne, RoomReaders, RoomWriters, At
  <2>2. \A g \in Handlers : pc'[g] \notin {"scan", "publish"}
    BY <1>2, <1>7, <2>1 DEF Publish, Goto, TypeOK
  <2> QED
    BY <2>2 DEF LocalsOK
<1>8. CASE Request(h)
  BY <1>2, <1>8 DEF Request, Goto, LocalsOK, TypeOK
<1>9. CASE ScanEnd(h)
  BY <1>2, <1>9 DEF ScanEnd, Goto, LocalsOK, TypeOK
<1>10. CASE \/ WaitReadTry(h) \/ ReaderCountIn(h) \/ FirstReaderLocks(h)
            \/ ReaderCountedIn(h) \/ LetOthersTry(h)
            \/ ReaderCountOut(h) \/ LastReaderFrees(h) \/ ReaderCountedOut(h)
            \/ WriterCountIn(h) \/ FirstWriterCloses(h) \/ WriterCountedIn(h)
            \/ WriterLocks(h) \/ WriterUnlocks(h)
            \/ WriterCountOut(h) \/ LastWriterOpens(h) \/ WriterCountedOut(h)
  <2>1. request' = request /\ cache' = cache /\ rest' = rest
    BY <1>10 DEF WaitReadTry, ReaderCountIn, FirstReaderLocks, ReaderCountedIn, LetOthersTry,
          ReaderCountOut, LastReaderFrees, ReaderCountedOut, WriterCountIn, FirstWriterCloses,
          WriterCountedIn, WriterLocks, WriterUnlocks, WriterCountOut, LastWriterOpens,
          WriterCountedOut
  <2>2. \A g \in Handlers : pc'[g] \in {"scan", "publish"} => pc'[g] = pc[g]
    BY <1>2, <1>10 DEF WaitReadTry, ReaderCountIn, FirstReaderLocks, ReaderCountedIn,
          LetOthersTry, ReaderCountOut, LastReaderFrees, ReaderCountedOut, WriterCountIn,
          FirstWriterCloses, WriterCountedIn, WriterLocks, WriterUnlocks, WriterCountOut,
          LastWriterOpens, WriterCountedOut, Goto, TypeOK
  <2> QED
    BY <1>2, <2>1, <2>2 DEF LocalsOK
<1> QED
  BY <1>1, <1>4, <1>5, <1>6, <1>7, <1>8, <1>9, <1>10 DEF ReadDatabase, WriteDatabase

LEMMA DbInvariance == Spec => []DbInv
<1>1. Init => DbInv
  BY InitInv, LocalsInit DEF DbInv
<1>2. DbInv /\ [Next]_vars => DbInv'
  <2> SUFFICES ASSUME DbInv, [Next]_vars PROVE LocalsOK'
    BY NextInv DEF DbInv
  <2>1. CASE UNCHANGED vars
    BY <2>1 DEF vars, dataVars, DbInv, LocalsOK
  <2> QED
    BY <2>1, LocalsStep
<1> QED
  BY <1>1, <1>2, PTL DEF Spec

phases == [h \in Handlers |-> phaseBar(h)]

\* The phase a label stands for.
LEMMA PhaseOf ==
    ASSUME NEW h \in Handlers
    PROVE  /\ pc[h] = "idle" => phaseBar(h) = "idle"
           /\ pc[h] \in ReaderLabels \ Looked => phaseBar(h) = "asked"
           /\ pc[h] \in Looked => phaseBar(h) = (IF found[h] THEN "answered" ELSE "missed")
           /\ pc[h] \in Missed => phaseBar(h) = "missed"
           /\ pc[h] \in WriterLabels \ Missed => phaseBar(h) = "answered"
  BY DEF phaseBar, ReaderLabels, WriterLabels, Looked, Missed

LEMMA PhaseOfNext ==
    ASSUME NEW h \in Handlers
    PROVE  /\ pc'[h] = "idle" => phaseBar(h)' = "idle"
           /\ pc'[h] \in ReaderLabels \ Looked => phaseBar(h)' = "asked"
           /\ pc'[h] \in Looked => phaseBar(h)' = (IF found'[h] THEN "answered" ELSE "missed")
           /\ pc'[h] \in Missed => phaseBar(h)' = "missed"
           /\ pc'[h] \in WriterLabels \ Missed => phaseBar(h)' = "answered"
  BY DEF phaseBar, ReaderLabels, WriterLabels, Looked, Missed

\* A step of one thread moves no other thread's phase.
LEMMA PhaseMoves ==
    ASSUME NEW h \in Handlers,
           \A g \in Handlers \ {h} : pc'[g] = pc[g] /\ found'[g] = found[g]
    PROVE  phases' = [phases EXCEPT ![h] = phaseBar(h)']
<1>1. ASSUME NEW g \in Handlers, g # h PROVE phaseBar(g)' = phaseBar(g)
  BY <1>1 DEF phaseBar
<1> HIDE DEF phaseBar
<1> QED
  BY <1>1 DEF phases

\* The steps that the atomic database does not see.
LEMMA Unseen ==
    ASSUME DbInv, NEW h \in Handlers,
           \/ WaitReadTry(h) \/ ReaderCountIn(h) \/ FirstReaderLocks(h)
           \/ ReaderCountedIn(h) \/ LetOthersTry(h) \/ ScanStart(h) \/ ScanNext(h)
           \/ ReaderCountOut(h) \/ LastReaderFrees(h) \/ (ReaderCountedOut(h) /\ ~found[h])
           \/ WriterCountIn(h) \/ FirstWriterCloses(h) \/ WriterCountedIn(h)
           \/ WriterLocks(h) \/ Link(h) \/ WriterUnlocks(h)
           \/ WriterCountOut(h) \/ LastWriterOpens(h)
    PROVE  phases' = phases /\ storedBar' = storedBar /\ request' = request
<1> USE DEF cntVars, dataVars, semVars
<1>1. request' = request /\ cache' = cache
  BY DEF WaitReadTry, ReaderCountIn, FirstReaderLocks, ReaderCountedIn, LetOthersTry, ScanStart,
         ScanNext, ReaderCountOut, LastReaderFrees, ReaderCountedOut, WriterCountIn,
         FirstWriterCloses, WriterCountedIn, WriterLocks, Link, WriterUnlocks, WriterCountOut,
         LastWriterOpens
<1>2. storedBar' = storedBar
  BY <1>1 DEF storedBar
<1>3. TypeOK
  BY DEF DbInv, Inv
<1>4. \A g \in Handlers \ {h} : pc'[g] = pc[g] /\ found'[g] = found[g]
  BY <1>3 DEF WaitReadTry, ReaderCountIn, FirstReaderLocks, ReaderCountedIn, LetOthersTry,
         ScanStart, ScanNext, ReaderCountOut, LastReaderFrees, ReaderCountedOut, WriterCountIn,
         FirstWriterCloses, WriterCountedIn, WriterLocks, Link, WriterUnlocks, WriterCountOut,
         LastWriterOpens, Goto, TypeOK
<1>5. \/ pc[h] \in ReaderLabels \ Looked /\ pc'[h] \in ReaderLabels \ Looked
      \/ pc[h] \in Looked /\ pc'[h] \in Looked /\ found'[h] = found[h]
      \/ pc[h] \in Looked /\ ~found[h] /\ pc'[h] \in Missed
      \/ pc[h] \in Missed /\ pc'[h] \in Missed
      \/ pc[h] \in WriterLabels \ Missed /\ pc'[h] \in WriterLabels \ Missed
  BY <1>3 DEF WaitReadTry, ReaderCountIn, FirstReaderLocks, ReaderCountedIn, LetOthersTry,
         ScanStart, ScanNext, ReaderCountOut, LastReaderFrees, ReaderCountedOut, WriterCountIn,
         FirstWriterCloses, WriterCountedIn, WriterLocks, Link, WriterUnlocks, WriterCountOut,
         LastWriterOpens, Goto, TypeOK, ReaderLabels, WriterLabels, Looked, Missed
<1>6. phaseBar(h)' = phaseBar(h)
  BY <1>5, PhaseOf, PhaseOfNext
<1>7. phases' = [phases EXCEPT ![h] = phaseBar(h)']
  BY <1>4, PhaseMoves
<1> QED
  BY <1>1, <1>2, <1>6, <1>7 DEF phases

LEMMA AskStep ==
    ASSUME DbInv, NEW h \in Handlers, Request(h)
    PROVE  DB!Ask(h)
<1> USE DEF semVars, cntVars, dataVars
<1>1. TypeOK
  BY DEF DbInv, Inv
<1>2. pc[h] = "idle" /\ pc'[h] = "wait_try" /\ cache' = cache
  BY <1>1 DEF Request, Goto, TypeOK
<1>3. phaseBar(h) = "idle" /\ phaseBar(h)' = "asked"
  BY <1>2, PhaseOf, PhaseOfNext DEF ReaderLabels, Looked
<1>4. \A g \in Handlers \ {h} : pc'[g] = pc[g] /\ found'[g] = found[g]
  BY <1>1 DEF Request, Goto, TypeOK
<1>5. phases[h] = "idle" /\ phases' = [phases EXCEPT ![h] = "asked"]
  BY <1>3, <1>4, PhaseMoves DEF phases
<1>6. storedBar' = storedBar
  BY <1>2 DEF storedBar
<1>7. \E r \in Requests : request' = [request EXCEPT ![h] = r]
  BY DEF Request
<1> QED
  BY <1>5, <1>6, <1>7 DEF DB!Ask, phases

\* The lookup happens when the walk ends: a stored node is found, because the
\* list cannot change under the reader.
LEMMA LookupStep ==
    ASSUME DbInv, NEW h \in Handlers, ScanEnd(h)
    PROVE  DB!Lookup(h)
<1> USE DEF semVars, cntVars, dataVars
<1>1. TypeOK /\ LocalsOK
  BY DEF DbInv, Inv
<1>2. /\ pc[h] = "scan" /\ pc'[h] = "count_out" /\ cache' = cache /\ request' = request
      /\ found'[h] = (rest[h] # <<>>)
      /\ rest[h] # <<>> => Head(rest[h]) = request[h][2]
  BY <1>1 DEF ScanEnd, Goto, TypeOK
<1>3. \A g \in Handlers \ {h} : pc'[g] = pc[g] /\ found'[g] = found[g]
  BY <1>1 DEF ScanEnd, Goto, TypeOK
<1>4. phaseBar(h) = "asked"
  BY <1>2, PhaseOf DEF ReaderLabels, Looked
<1>5. phaseBar(h)' = IF found'[h] THEN "answered" ELSE "missed"
  BY <1>2, PhaseOfNext DEF Looked
<1>6. found'[h] <=> Contains(rest[h], request[h][2])
  <2>1. rest[h] \in Seq(Nodes)
    BY <1>1 DEF TypeOK
  <2>2. CASE rest[h] = <<>>
    <3>1. ~Contains(rest[h], request[h][2])
      BY <2>2 DEF Contains
    <3> QED
      BY <1>2, <2>2, <3>1
  <2>3. CASE rest[h] # <<>>
    <3>1. Contains(rest[h], request[h][2])
      BY <1>2, <2>1, <2>3, HeadOrTail
    <3> QED
      BY <1>2, <2>3, <3>1
  <2> QED
    BY <2>2, <2>3
<1>7. request[h] \in storedBar <=> Contains(cache[request[h][1]], request[h][2])
  <2>1. request[h] \in Requests
    BY <1>1 DEF TypeOK
  <2> QED
    BY <2>1 DEF storedBar, Contains
<1>8. found'[h] <=> request[h] \in storedBar
  BY <1>1, <1>2, <1>6, <1>7 DEF LocalsOK
<1>9. phases[h] = "asked" /\ phases' = [phases EXCEPT ![h] = IF request[h] \in storedBar THEN "answered" ELSE "missed"]
  BY <1>3, <1>4, <1>5, <1>8, PhaseMoves DEF phases
<1>10. storedBar' = storedBar
  BY <1>2 DEF storedBar
<1> QED
  BY <1>2, <1>9, <1>10 DEF DB!Lookup, phases

\* The insertion happens when the new node is published: every node that was in
\* the list is behind it.
LEMMA InsertStep ==
    ASSUME DbInv, NEW h \in Handlers, Publish(h)
    PROVE  DB!Insert(h)
<1> USE DEF semVars, cntVars, dataVars
<1> DEFINE a == request[h][1]
           b == request[h][2]
<1>1. TypeOK /\ LocalsOK
  BY DEF DbInv, Inv
<1>2. /\ pc[h] = "publish" /\ pc'[h] = "w_unlock" /\ request' = request
      /\ cache' = [cache EXCEPT ![a] = <<b>> \o cache[a]]
  BY <1>1 DEF Publish, Goto, TypeOK, LocalsOK
<1>3. \A g \in Handlers \ {h} : pc'[g] = pc[g] /\ found'[g] = found[g]
  BY <1>1 DEF Publish, Goto, TypeOK
<1>4. phaseBar(h) = "missed" /\ phaseBar(h)' = "answered"
  BY <1>2, PhaseOf, PhaseOfNext DEF WriterLabels, Missed
<1>5. phases[h] = "missed" /\ phases' = [phases EXCEPT ![h] = "answered"]
  BY <1>3, <1>4, PhaseMoves DEF phases
<1>6. a \in Nodes /\ b \in Nodes /\ request[h] = <<a, b>> /\ request[h] \in Requests
  BY <1>1, RequestsAssumption DEF TypeOK
<1>7. \A r \in Requests : r[1] \in Nodes /\ r = <<r[1], r[2]>>
  BY RequestsAssumption
<1> HIDE DEF a, b
<1>8. \A v : Contains(cache'[a], v) <=> b = v \/ Contains(cache[a], v)
  BY <1>1, <1>2, <1>6, NewHead DEF TypeOK
<1>9. \A i \in Nodes : i # a => cache'[i] = cache[i]
  BY <1>1, <1>2 DEF TypeOK
<1>10. \A r : /\ r \in storedBar <=> r \in Requests /\ Contains(cache[r[1]], r[2])
              /\ r \in storedBar' <=> r \in Requests /\ Contains(cache'[r[1]], r[2])
  BY DEF storedBar, Contains
<1>11. \A r : r \in storedBar' <=> r \in storedBar \/ r = request[h]
  BY <1>6, <1>7, <1>8, <1>9, <1>10
<1>12. storedBar' = storedBar \cup {request[h]}
  BY <1>11
<1> QED
  BY <1>2, <1>5, <1>12 DEF DB!Insert, phases

LEMMA ReplyStep ==
    ASSUME DbInv, NEW h \in Handlers, (ReaderCountedOut(h) /\ found[h]) \/ WriterCountedOut(h)
    PROVE  DB!Reply(h)
<1> USE DEF semVars, cntVars, dataVars
<1>1. TypeOK
  BY DEF DbInv, Inv
<1>2. /\ \/ pc[h] \in Looked /\ found[h]
         \/ pc[h] \in WriterLabels \ Missed
      /\ pc'[h] = "idle" /\ request' = request /\ cache' = cache
  BY <1>1 DEF ReaderCountedOut, WriterCountedOut, Goto, TypeOK, Looked, WriterLabels, Missed
<1>3. \A g \in Handlers \ {h} : pc'[g] = pc[g] /\ found'[g] = found[g]
  BY <1>1 DEF ReaderCountedOut, WriterCountedOut, Goto, TypeOK
<1>4. phaseBar(h) = "answered" /\ phaseBar(h)' = "idle"
  BY <1>2, PhaseOf, PhaseOfNext
<1>5. phases[h] = "answered" /\ phases' = [phases EXCEPT ![h] = "idle"]
  BY <1>3, <1>4, PhaseMoves DEF phases
<1>6. storedBar' = storedBar
  BY <1>2 DEF storedBar
<1> QED
  BY <1>2, <1>5, <1>6 DEF DB!Reply, phases

\* For any threads, graph and requests: lookup and insertion are single instants
\* to the threads that use the database, although a list is walked and changed
\* one node at a time.
THEOREM Atomicity == Spec => AtomicDatabase
<1>1. Init => DB!DbInit
  <2> SUFFICES ASSUME Init PROVE DB!DbInit
    OBVIOUS
  <2>1. storedBar = {}
    BY RequestsAssumption DEF Init, storedBar
  <2>2. \A h \in Handlers : phaseBar(h) = "idle"
    BY PhaseOf DEF Init
  <2>3. request \in [Handlers -> Requests]
    BY DEF Init
  <2> QED
    BY <2>1, <2>2, <2>3 DEF DB!DbInit
<1>2. DbInv /\ [Next]_vars => [DB!DbNext]_DB!dbVars
  <2> SUFFICES ASSUME DbInv, [Next]_vars PROVE DB!DbNext \/ UNCHANGED DB!dbVars
    OBVIOUS
  <2>1. CASE UNCHANGED vars
    BY <2>1 DEF vars, dataVars, storedBar, phaseBar, DB!dbVars
  <2>2. ASSUME NEW h \in Handlers, Request(h) PROVE DB!DbNext
    BY <2>2, AskStep DEF DB!DbNext
  <2>3. ASSUME NEW h \in Handlers, ReadDatabase(h) \/ WriteDatabase(h)
        PROVE  DB!DbNext \/ UNCHANGED DB!dbVars
    <3>1. CASE ScanEnd(h)
      BY <3>1, LookupStep DEF DB!DbNext
    <3>2. CASE Publish(h)
      BY <3>2, InsertStep DEF DB!DbNext
    <3>3. CASE (ReaderCountedOut(h) /\ found[h]) \/ WriterCountedOut(h)
      BY <3>3, ReplyStep DEF DB!DbNext
    <3>4. CASE phases' = phases /\ storedBar' = storedBar /\ request' = request
      BY <3>4 DEF DB!dbVars, phases
    <3> QED
      BY <2>3, <3>1, <3>2, <3>3, <3>4, Unseen DEF ReadDatabase, WriteDatabase
  <2> QED
    BY <2>1, <2>2, <2>3 DEF Next
<1> QED
  BY <1>1, <1>2, DbInvariance, PTL DEF Spec, AtomicDatabase, DB!DbSpec
=============================================================================
