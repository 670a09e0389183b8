CONSTANTS
    p = p
    q = q
    Peer = {p, q}
    Pings = 3
SPECIFICATION RFairSpec
INVARIANTS NobodyOrphaned LoopAlive
PROPERTY KeepsPromises
