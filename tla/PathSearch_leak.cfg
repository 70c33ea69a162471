\* Three nodes, up to two lines and the two that close cycles.
CONSTANTS
    Nodes = {0, 1, 2}
    MaxLines = 2
    Files <- MCFiles
    Requests <- MCRequests
    Items <- MCItems
    NoItem = NoItem
    StartCap = 1
    MaxCap = 32
    PathCap = 3
SPECIFICATION SearchFairSpec
INVARIANTS
    NothingLeaks
\* The search ends.
CHECK_DEADLOCK FALSE
