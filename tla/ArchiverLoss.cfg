SPECIFICATION ArchiverSpec
CONSTANTS
    Names = {n1}
    Contents = {a, b}
    Types = {knows}
    Runs = {r1, r2}
    MaxRows = 3
    MaxServerWrites = 5
    MaxTime = 1
SYMMETRY RunSymmetry
CHECK_DEADLOCK FALSE
INVARIANT NoDataLoss
