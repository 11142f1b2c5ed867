SPECIFICATION FairSpec
CONSTANTS
    FirstBlocks <- MCFirstBlocks
    MaxInputs = 2
INVARIANTS
    StoreInv
    TroveShownRight
PROPERTIES
    SuccessIsCurrent
    PageSettles
CHECK_DEADLOCK FALSE
