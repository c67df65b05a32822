SPECIFICATION Spec
CONSTANTS
    f1 = f1  f2 = f2  w1 = w1  w2 = w2
    Files <- MCFiles
    Words <- MCWords
    Texts <- MCTexts
    MaxWrites = 3
    MaxFaults = 1
SYMMETRY WordSymmetry
CHECK_DEADLOCK FALSE
INVARIANTS
    TypeOK
    SettledIndexIsExact
    NoMissedChange
PROPERTY FoldKeepsView
VIEW StateWithoutSeq
