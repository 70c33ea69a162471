\* Four processes.
CONSTANTS
    Procs = {p1, p2, p3, p4}
SPECIFICATION Spec
INVARIANTS
    OneServes
