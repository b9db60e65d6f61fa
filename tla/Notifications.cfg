SPECIFICATION Spec
CONSTANTS
    o1 = o1
    j1 = j1
    Jobs = {j1}
    Orders = {o1}
    OrderOf <- TheOne
    MaxAttempts = 2
    DbMayFail = TRUE
    Sockets = {s1}
    RedisMayStop = TRUE
INVARIANTS
    VerdictIsTrue
    NeverAheadOfRow
PROPERTIES
    ShownInOrder
    StreamLosesNoVerdict
    ChannelLosesNoVerdict
    FollowersLearnVerdict
    ListenersLearnVerdict
