CONSTANTS
    a = a
    b = b
    c = c
    Local = Local
    Daemon = {c}
    Heard <- HeardFrom
    MaxPeers = 3
    MinPeers = 2
    MaxConcurrent = 2
    PerCycle = 5
    MaxAttempts = 2
    MaxAsking = 2
SYMMETRY Alike
SPECIFICATION Spec
INVARIANTS SocketsExact SavedKnown
