CONSTANTS
    a = a
    b = b
    d = d
    N = 4
    Links <- Forests
    Contents <- Shares
    Address <- Addresses
    Donation = d
    Unit = 2
    REAL_CHAIN_LENGTH = 3
    Desired = {6, 40}
    Subsidies = {1000}
    MaxDests = 2
    MaxLevel = 3
SPECIFICATION Spec
INVARIANTS AnswersExact PayoutsAddUp
