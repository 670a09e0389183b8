CONSTANTS
    a = a
    b = b
    Node = {a, b}
    Dials <- Crossing
    Lives = 1
    DesiredConns = 1
    MaxAttempts = 2
    MaxConns = 1
    MaxInbox = 1
    MaxFailures = 2
SPECIFICATION Spec
INVARIANTS PeersExact CountsExact AgreeWhenQuiet
