CONSTANTS
    a = a
    b = b
    Node = {a, b}
    Dials <- OneWay
    Lives = 2
    DesiredConns = 1
    MaxAttempts = 1
    MaxConns = 2
    MaxInbox = 2
    MaxFailures = 2
SPECIFICATION FairSpec
PROPERTY Meet
