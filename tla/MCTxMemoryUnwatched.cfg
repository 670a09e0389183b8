\* The receiver has another peer, and loses it.
CONSTANTS
    Big = t2
    Txs = {t1, t2}
    Size <- TwoUnits
    MaxSize = 3
    MaxRemote = 1
    Templates <- UpToOne
    MaxFlight = 3
SPECIFICATION MSpec
SYMMETRY Symmetry
INVARIANT NeverAccused
