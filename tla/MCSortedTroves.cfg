SPECIFICATION Spec
CONSTANTS
    Ids = {t1, t2, t3, t4}
    NoId = NoId
    Ratios = {0, 1, 2, 3, 4, 5}
    MaxRatio = 9
    MaxSize = 3
SYMMETRY Symmetry
INVARIANTS
    ListInv
    SearchSucceeds
PROPERTIES
    CallsKeepOrder
    ImplementsTroveList
