\* A growing pool whose resize flag starts with any value.
CONSTANTS
    h1 = h1
    h2 = h2
    h3 = h3
    h4 = h4
    h5 = h5
    c1 = c1
    c2 = c2
    c3 = c3
    Handlers = {h1, h2, h3, h4, h5}
    Clients = {c1, c2, c3}
    MinThread = 4
    MaxThread = 7
SPECIFICATION ServeSpec
SYMMETRY ThreadSymmetry
PROPERTIES
    ReportReachesResizer
