SPECIFICATION Spec
CONSTANTS
    Jobs = {j1, j2, j3}
    Workers = {w1, w2}
    Concurrency = 2
    Attempts = 3
    Faults = {"crash", "close", "lock", "reply"}
INVARIANTS
    TypeOK
    DispatchedOnce
    Accounted
    WithinConcurrency
PROPERTIES
    ClosingDrains
    Served
