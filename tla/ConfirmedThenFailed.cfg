SPECIFICATION Spec
CONSTANTS
    j1 = j1
    o1 = o1
    Jobs = {j1}
    Orders = {o1}
    OrderOf <- AllOnO1
    MaxAttempts = 3
    DbMayFail = TRUE
    RedisMayFail = TRUE
PROPERTIES
    ConfirmedIsFinal
