CONSTANTS
    Domains = {d1, d2}
    Threads = {t1, t2}
    MaxHandles = 4
    MaxFaults = 1
    MaxCalls = 3
SPECIFICATION Spec
INVARIANTS
    TypeOK
    HandlesAreExact
    NoMixingInFirstLife
    SlotsAreOwned
    CompactionKeepsItsIndex
CHECK_DEADLOCK FALSE
