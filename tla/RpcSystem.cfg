SPECIFICATION SystemSpec
CONSTANTS
    None = None
    Calls = {k1, k2}
    Handlers = {h1}
    Callers = {c1}
    MaxSeq = 2
    MaxEvents = 1
    ChanCap = 1
    MaxOthers = 1
    MaxConns = 2
    Reqs = {o1, o2}
    MaxServerEvents = 1
    MethodsSound = TRUE
    CallerTimely = TRUE
INVARIANTS
    SuccessMeansExecuted
PROPERTIES ServerIsARemoteNode
CHECK_DEADLOCK FALSE
