CONSTANTS
    Inputs <- MCInputs
    Garbage <- MCGarbage
    Rest = 2
    Capacities = {4, 6}
    MaxFaults = 1
SPECIFICATION FairSpec
PROPERTIES
    P1Ends
CHECK_DEADLOCK FALSE
