SPECIFICATION Spec
CONSTANTS
    Orders = {o1, o2}
    Sockets = {s1, s2}
    RedisMayStop = TRUE
INVARIANTS
    TypeOK
    RegistryMatchesSessions
    NothingLeftBehind
    SubscriberFollowsSocket
PROPERTIES
    HearsOnlyItsOrders
    PathClientsAreServed
    ShutdownEnds
