SPECIFICATION Spec
CONSTANTS
    j1 = j1
    o1 = o1
    Jobs = {j1}
    Orders = {o1}
    OrderOf <- AllOnO1
    MaxAttempts = 3
    DbMayFail = TRUE
    RedisMayFail = TRUE
INVARIANTS
    TypeOK
    SwapOnce
    ConfirmedIsExecuted
    VerdictMatchesRow
PROPERTIES
    WriteAhead
    ToldAfterSaved
    ReportedVerdictIsFinal
    ProgressGrows
    EveryAwaitCounts
    CallsEnd
