\* A path of more than three nodes is copied to a queue of three places.
CONSTANTS
    Nodes = {0, 1, 2, 3, 4}
    MaxLines = 4
    Files <- MCFiles
    Requests <- MCRequests
    Items <- MCItems
    NoItem = NoItem
    StartCap = 1
    MaxCap = 32
    PathCap = 3
SPECIFICATION SearchFairSpec
INVARIANTS
    CopyFits
\* The search ends.
CHECK_DEADLOCK FALSE
