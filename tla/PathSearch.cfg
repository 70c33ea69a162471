\* Five nodes, up to four lines and the two that close cycles; paths of three places.
CONSTANTS
    Nodes = {0, 1, 2, 3, 4}
    MaxLines = 4
    Files <- MCFiles
    Requests <- MCRequests
    Items <- MCItems
    NoItem = NoItem
    StartCap = 1
    MaxCap = 32
    PathCap = 3
SPECIFICATION SearchFairSpec
INVARIANTS
    ShortestAnswer
    NearlyShortest
    LeaksKnown
PROPERTIES
    FirstInFirstOut
    SearchEnds
\* The search ends.
CHECK_DEADLOCK FALSE
