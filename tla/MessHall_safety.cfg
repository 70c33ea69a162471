\* Three cooks, an undergraduate and a graduate, plates in any order.
CONSTANTS
    c1 = c1
    c2 = c2
    c3 = c3
    u1 = u1
    u2 = u2
    u3 = u3
    g1 = g1
    g2 = g2
    Cooks = {c1, c2, c3}
    Undergraduates = {u1}
    Graduates = {g1}
    L = 1
    S = 3
SPECIFICATION Spec
SYMMETRY Symmetry
INVARIANTS
    TokensHold
    SlotsFound
    PlatesConserved
