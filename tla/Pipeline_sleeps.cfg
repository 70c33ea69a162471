\* Four lines, no signal from outside.
CONSTANTS
    Lines = 4
    Length <- MCLength
    StatsCapacity = 1
    Outside <- NoSignal
SPECIFICATION FairSpec
PROPERTIES
    P2Ends
CHECK_DEADLOCK FALSE
