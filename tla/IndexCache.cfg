SPECIFICATION Spec
CONSTANTS
    Threads = {t1, t2}
    MaxOpens = 4
    MaxRuns = 3
SYMMETRY ThreadSymmetry
CHECK_DEADLOCK FALSE
INVARIANTS TypeOK NoUseAfterFree AnswersAreCurrent
PROPERTY LostByOverwritingOnly
