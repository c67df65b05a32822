SPECIFICATION Spec
CONSTANTS
    n1 = n1  n2 = n2  a = a  b = b  knows = knows
    Names <- MCNames
    Contents <- MCContents
    Types <- MCTypes
    Servers = {s1, s2}
    Batches <- MCBatches
    MaxCalls = 5
SYMMETRY Symmetry
CHECK_DEADLOCK FALSE
INVARIANTS
    TypeOK
    SeenIsCurrent
    NothingHalfWritten
PROPERTY ImplementsKnowledgeGraph
