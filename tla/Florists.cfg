\* Two florists, three requests, every way the flowers and the distances can be.
CONSTANTS
    F = 2
    C = 3
    MaxDistance = 1
SPECIFICATION FairSpec
INVARIANTS
    InOrder
    ClosestDelivers
    NoMissedWork
PROPERTIES
    ProgramEnds
\* The program ends.
CHECK_DEADLOCK FALSE
