CONSTANTS
    Inputs <- MCInputs
    Garbage <- MCGarbage
    Rest = 2
    Capacities = {4, 6}
    MaxFaults = 1
SPECIFICATION FairSpec
INVARIANTS
    ProductRight
    CountsReaped
    ProductComes
PROPERTIES
    NobodyIsLeft
    P1Settles
\* P1 ends, or is left in pause.
CHECK_DEADLOCK FALSE
