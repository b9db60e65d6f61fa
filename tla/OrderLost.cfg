SPECIFICATION Spec
CONSTANTS
    o1 = o1
    Jobs = {j1}
    Orders = {o1}
    OrderOf <- AllOnO1
    MaxAttempts = 1
    DbMayFail = FALSE
    RedisMayFail = FALSE
    Workers = {w1}
    Concurrency = 1
    Attempts = 3
    Faults = {"crash", "close"}
    SharedDb = TRUE
PROPERTIES
    NoOrdersLost
