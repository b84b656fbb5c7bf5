SPECIFICATION Spec
CONSTANTS
    Task = {t1, t2}
    Node = {n1, n2, n3}
    MAX_ADDR = 3
    LIST_NULL = LIST_NULL
    Wild = Wild
    NoTask = NoTask
    NoNode = NoNode
SYMMETRY MCSymmetry
INVARIANTS EndpointsFound  ListConsistent
