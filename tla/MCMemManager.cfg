SPECIFICATION Spec
CONSTANTS
    t1 = t1
    t2 = t2
    b1 = b1
    b2 = b2
    b3 = b3
    b4 = b4
    q1 = q1
    q2 = q2
    Task = {t1, t2}
    Buffer = {b1, b2, b3, b4}
    Queue = {q1, q2}
    poolInfo <- MCPoolInfo
    Consumers <- MCConsumers
    MAX_HELD = 1
    NoTask = NoTask
    NULL = NULL
INVARIANTS ListsWellFormed BestFit
PROPERTY ImplementsPools
