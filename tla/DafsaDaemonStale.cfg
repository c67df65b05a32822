CONSTANTS
    Domains = {d1, d2}
    Threads = {t1}
    MaxHandles = 4
    MaxFaults = 1
    MaxCalls = 3
SPECIFICATION Spec
INVARIANT AnswersComeFromTheirIndex
CHECK_DEADLOCK FALSE
