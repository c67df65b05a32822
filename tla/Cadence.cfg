\* One interval is one tick; one item of each sort is enough growth, one item is not.
CONSTANTS
    Agents = {a1, a2}
    Jobs = {j1, j2}
    Sorts = {"entities", "obs"}
    MinGrowth = 2
    Interval = 1
    MaxItems = 1
    MaxFaults = 1
SPECIFICATION Spec
INVARIANTS
    TypeOK
    NoPassIsLost
PROPERTIES
    OnePassPerInterval
    GrowthIsSeen
CHECK_DEADLOCK FALSE
