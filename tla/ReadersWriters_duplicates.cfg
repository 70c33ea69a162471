\* Two threads asking for the same path.
CONSTANTS
    h1 = h1
    h2 = h2
    h3 = h3
    Handlers = {h1, h2}
    Nodes <- MCNodes
    Requests <- OnePair
SPECIFICATION Spec
INVARIANTS
    NoDuplicateEntries
