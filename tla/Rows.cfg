CONSTANTS
    a1 = a1
    a2 = a2
    b1 = b1
    b2 = b2
    As = {a1, a2}
    Bs = {b1, b2}
    Chunks <- MCChunks
    COMPLEX_BYTE = 3
    Stale = {"space", "digit"}
SPECIFICATION FairSpec
INVARIANTS
    WholeRows
    RowsBecomeResults
PROPERTIES
    NothingOverwritten

    AllEnd
\* All instances end.
CHECK_DEADLOCK FALSE
