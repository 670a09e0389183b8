CONSTANTS
    s1 = s1
    s2 = s2
    nobody = nobody
    u1 = u1
    u2 = u2
    poolAddress = poolAddress
    minerAddress = minerAddress
    easy = easy
    good = good
    Sessions = {s1, s2}
    Users = {nobody, u1, u2}
    Nobody = nobody
    Address <- TwoAddresses
    PoolAddress = poolAddress
    Want <- Suffixed
    Solutions = {easy, good}
    Pow <- Levels
    Easiest = 2
    BlockTarget = 1
    Prefixes = 2
    Settings <- AllSettings
    None = None
    MaxTimes = 1
    MaxWork = 2
    MaxPending = 1
    MaxJobs <- TwoAndOne
SPECIFICATION Spec
INVARIANTS NoSharedWork JudgedAsTold NoShareWithheld SharesCredited
