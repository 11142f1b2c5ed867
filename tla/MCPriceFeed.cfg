SPECIFICATION FairSpec
CONSTANTS
    DECIMAL_PRECISION = 100
    TIMEOUT = 0
    MAX_PRICE_DEVIATION_FROM_PREVIOUS_ROUND = 50
    MAX_PRICE_DIFFERENCE_BETWEEN_ORACLES = 5
    TARGET_DIGITS = 2
    TELLOR_DIGITS = 1
    EPOCH = 9
    ChainlinkAnswers <- Answers
    TellorValues = {0, 21}
    Decimals = {1, 2}
INVARIANTS
    FeedInv
PROPERTIES
    PricesAreCurrent
    JumpsAreConfirmed
    TrustIsEarned
    FeedRecovers
