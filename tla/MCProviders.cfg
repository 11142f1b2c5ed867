SPECIFICATION FairSpec
CONSTANTS
    MaxCalls = 2
    MaxHeight = 2
    MaxSockets = 3
    MaxInputs = 4
INVARIANTS
    ListeningInv
    AnswersRight
PROPERTIES
    BlocksReachStore
    RequestsSettle
CHECK_DEADLOCK FALSE
