SPECIFICATION RewardsSpec
CONSTANTS
    p1 = p1
    p2 = p2
    Providers = {p1, p2}
    UNIT = 100
    UniBalance = 3
    DECIMAL_PRECISION = 1000
    MAX_MINUTES = 3
    ISSUANCE_FACTOR = 900
    ISSUANCE_MINUTE = 2
    PoolDEFT = 100
    IssuanceDEFT = 500
    Rewards = {100}
    Durations = {3}
    UniAmounts = {1, 2}
    SendAmounts = {40, 300}
    MaxTime = 7
    MaxOps = 5
SYMMETRY ProvidersSymmetry
INVARIANTS
    RewardsInv
    IssuanceNeverReverts
PROPERTIES
    OthersKeepRewards
CHECK_DEADLOCK FALSE
