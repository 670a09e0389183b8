\* Blocks hold one transaction, shares name two, which take just the limit.
CONSTANTS
    Big = t2
    Txs = {t1, t2}
    Size <- OneIsBig
    MaxSize = 3
    MaxRemote = 1
    Templates <- UpToOne
    MaxFlight = 3
SPECIFICATION MSpec
INVARIANTS WatchedNeverAccused SameMemory ViewSound
