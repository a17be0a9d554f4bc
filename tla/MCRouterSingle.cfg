SPECIFICATION Spec
CONSTANTS
    Sockets = {s1}
    Relay = relay
    MaxConnections = 1
    RouteBuf = 2
    MaxQuotes = 1
    MaxBatches = 2
PROPERTIES
    SingleBatch
CHECK_DEADLOCK FALSE
