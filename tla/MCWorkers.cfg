CONSTANTS
    Users = {u1, u2}
    Sockets = {s1, s2}
    MaxAuthorize = 2
    MaxCount = 2
    FlapThreshold = 2
    FlapClear = 1
SPECIFICATION FairSpec
INVARIANTS NeverUndercounts ReaderKnows
PROPERTIES AlertsAlternate ReaderSettles
