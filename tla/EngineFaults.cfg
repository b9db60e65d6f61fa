SPECIFICATION Spec
CONSTANTS
    o1 = o1
    Jobs = {j1}
    Orders = {o1}
    OrderOf <- AllOnO1
    MaxAttempts = 2
    DbMayFail = TRUE
    RedisMayFail = FALSE
    Workers = {w1, w2}
    Concurrency = 1
    Attempts = 3
    Faults = {"crash", "close", "lock", "reply", "refuse"}
    SharedDb = TRUE
INVARIANTS
    OneSwapPerJob
    SwapsLeaveTrace
    CompletedHasVerdict
    RefusedNeverExecutes
PROPERTIES
    StatusMovesForward
