\* The same file, and every row of them.
CONSTANTS
    Ingredients = {M, F, W, S}
    Rows = {10}
SPECIFICATION GullacSpec
INVARIANTS
    EveryRowDelivered
\* The program ends.
CHECK_DEADLOCK FALSE
