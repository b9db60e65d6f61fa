SPECIFICATION Spec
CONSTANTS
    Orders = {o1}
    Sockets = {s1}
    RedisMayStop = FALSE
PROPERTIES
    GracefulShutdown
