SPECIFICATION Spec
CONSTANTS
    DECIMAL_PRECISION = 1000
    MAX_MINUTES = 1000
    MINUTE_DECAY_FACTOR = 900
    SECONDS_IN_ONE_MINUTE = 3
    BETA = 2
    BORROWING_FEE_FLOOR = 5
    REDEMPTION_FEE_FLOOR = 5
    MAX_BORROWING_FEE = 50
    SLIPPAGE = 5
    None = None
    s1 = s1
    s2 = s2
    Stakers = {s1, s2}
    STAKING_PRECISION = 1000
    DEFTBalance = 3
    BorrowAmounts = {1999}
    DrawnColl = {1, 100, 1500}
    Supply = 2000
    StakeAmounts = {0, 1, 2}
    MaxTime = 10
    MaxOps = 4
SYMMETRY StakersSymmetry
INVARIANTS
    DecaySound
    QuotesAccepted
    StakingInv
PROPERTIES
    StakersPaid
CHECK_DEADLOCK FALSE
