CONSTANTS
    Inputs <- MCInputs
    Garbage <- MCGarbage
    Rest = 2
    Capacities = {4, 6}
    MaxFaults = 1
SPECIFICATION FairSpec
PROPERTIES
    ProductAnyway
CHECK_DEADLOCK FALSE
