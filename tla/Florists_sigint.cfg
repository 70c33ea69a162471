\* The same, with a SIGINT: the resources are freed under the florists.
CONSTANTS
    F = 2
    C = 3
    MaxDistance = 1
SPECIFICATION Spec
INVARIANTS
    ShutsDownGracefully
\* The program ends.
CHECK_DEADLOCK FALSE
