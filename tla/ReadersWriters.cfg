\* Two threads, two pairs of the same list, with fairness.
CONSTANTS
    h1 = h1
    h2 = h2
    h3 = h3
    Handlers = {h1, h2}
    Nodes <- MCNodes
    Requests <- OneList
SPECIFICATION FairSpec
INVARIANTS
    MutualExclusion
PROPERTIES
    WriterPriority
    AtomicDatabase
    EveryRequestAnswered
