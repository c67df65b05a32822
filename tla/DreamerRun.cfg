\* Two processes at a time on one run, and a third start afterwards.
CONSTANTS
    Procs = {p, q}
    RunIds = {r1}
    MaxStarts = 3
    MaxTogether = 2
SPECIFICATION Spec
INVARIANTS
    TypeOK
    ManifestHasFiles
    OneCreator
    AppliedPlanIsTheRuns
PROPERTIES
    AppliedOnce
    ProcessEnds
CHECK_DEADLOCK FALSE
