SPECIFICATION Spec
CONSTANTS
    DECIMAL_PRECISION = 10000
    NICR_PRECISION = 100000
    MCR = 11000
    CCR = 15000
    USDD_GAS_COMPENSATION = 200
    MIN_NET_DEBT = 1800
    PERCENT_DIVISOR = 200
    MAX_UINT = 2147483647
    NoOne = NoOne
    b1 = b1
    b2 = b2
    b3 = b3
    keeper = keeper
    Prices <- TwoPrices
    Borrowers = {b1, b2, b3}
    Keepers = {keeper}
    MaxTx = 5
    BorrowingRates = {50}
    OpenColl = {2000, 5000}
    OpenUSDD = {1800}
    Adjustments <- Empty
    DepositAmounts = {}
    TransferAmounts = {}
    LiquidateCounts = {1}
    Batches <- Empty
    RedemptionRates = {50}
    RedeemAmounts = {}
    IterationLimits = {0}
    EditColl = {0, 2150, 2600, 6000}
    EditDebt = {0, 199, 1999, 2000, 2100, 3000}
SYMMETRY Symmetry
INVARIANTS
    PredictedTrove
    ValidationAgrees
