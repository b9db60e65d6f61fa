SPECIFICATION Spec
CONSTANTS
    o1 = o1
    Jobs = {j1, j2}
    Orders = {o1}
    OrderOf <- AllOnO1
    MaxAttempts = 1
    DbMayFail = FALSE
    RedisMayFail = FALSE
    Workers = {w1}
    Concurrency = 2
    Attempts = 3
    Faults = {"crash", "close", "lock", "resend", "refuse"}
    SharedDb = FALSE
INVARIANTS
    RowsAreTrue
PROPERTIES
    AcceptedGetVerdict
