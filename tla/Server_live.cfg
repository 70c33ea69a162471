\* Two handlers, three clients, a SIGINT at any moment, with fairness.
CONSTANTS
    h1 = h1
    h2 = h2
    h3 = h3
    h4 = h4
    h5 = h5
    c1 = c1
    c2 = c2
    c3 = c3
    Handlers = {h1, h2}
    Clients = {c1, c2, c3}
    MinThread = 2
    MaxThread = 3
SPECIFICATION FairSpec
PROPERTIES
    EveryClientAnswered
    GracefulWhenIdle
\* The process may end.
CHECK_DEADLOCK FALSE
