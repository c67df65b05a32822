SPECIFICATION Spec
CONSTANTS
    n1 = n1  n2 = n2  a = a  b = b  k1 = k1  k2 = k2  t1 = t1
    Names = {n1, n2}
    Contents = {a, b}
    Types = {t1}
    Kinds = {k1, k2}
    Dreamers = {d1, d2}
    Plans <- MCPlans
    Databases <- MCDatabases
    MaxWrites = 2
    MaxLoads = 2
SYMMETRY Symmetry
CHECK_DEADLOCK FALSE
INVARIANTS TypeOK PlanLosesNothing OwnSelfRelationsStay
PROPERTIES OthersWorkSurvives ImplementsKnowledgeGraph
