\* Four lines, one SIGINT and one SIGTERM for each process.
CONSTANTS
    Lines = 4
    Length <- MCLength
    StatsCapacity = 1
    Outside <- MCOutside
SPECIFICATION FairSpec
INVARIANTS
    FileIsQueue
    ReportsInOrder
    NoLostWakeup
    OnlyOutsideKills
PROPERTIES
    SectionCounted
\* Both processes end, or P2 is left suspended.
CHECK_DEADLOCK FALSE
