\* Four ingredients, six chefs, a file of 10 rows.
CONSTANTS
    Ingredients = {M, F, W, S}
    Rows = {10}
SPECIFICATION GullacFairSpec
INVARIANTS
    OneDelivery
    NothingLeft
PROPERTIES
    ChefsLeave
\* The program ends.
CHECK_DEADLOCK FALSE
