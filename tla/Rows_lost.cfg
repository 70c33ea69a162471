CONSTANTS
    a1 = a1
    a2 = a2
    b1 = b1
    b2 = b2
    As = {a1}
    Bs = {b1}
    Chunks <- ThreeChunks
    COMPLEX_BYTE = 3
    Stale = {"digit"}
SPECIFICATION Spec
INVARIANTS
    EveryRowRead
CHECK_DEADLOCK FALSE
