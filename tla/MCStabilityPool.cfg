SPECIFICATION Spec
CONSTANTS
    Accounts = {a1, a2}
    Zero = Zero
    DECIMAL_PRECISION = 100
    SCALE_FACTOR = 10
    MCR = 110
    DEFTSupplyCap = 1000
    USDDBalance = 1200
    Amounts = {600}
    Debts = {70, 600, 1130, 3000}
    CollRatios = {2}
    Issuances = {0, 1000}
    KickbackRates = {30}
    MaxOffsets = 2
    LowestICRs = {109, 110}
SYMMETRY Symmetry
INVARIANTS
    PoolInv
    GainsNearlyBacked
PROPERTIES
    OthersUntouched
CHECK_DEADLOCK FALSE
