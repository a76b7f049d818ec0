\* A client that reconnects up to three times, a server with room for two connections.
SPECIFICATION Spec
CONSTANTS
    Clients = {c1}
    AutoReconnect = TRUE
    maxConnectTimes = 2
    MaxConnNum = 2
    MaxConns = 4
INVARIANTS
    TypeOK ServedIsRegistered ClosedMeansQuiet
PROPERTIES
    ServerCloseReturns ClosedWhileRunningEnds ClientsGiveUp
CHECK_DEADLOCK FALSE
