\* Four lines, no signal from outside.
CONSTANTS
    Lines = 4
    Length <- MCLength
    StatsCapacity = 1
    Outside <- NoSignal
SPECIFICATION FairSpec
INVARIANTS
    AllLinesReported
CHECK_DEADLOCK FALSE
