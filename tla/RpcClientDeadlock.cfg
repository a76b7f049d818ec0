SPECIFICATION FairSpec
CONSTANTS
    None = None
    Calls = {k1, k2}
    Handlers = {h1}
    Callers = {}
    MaxSeq = 2
    MaxEvents = 1
    ChanCap = 1
    MaxOthers = 1
    MaxConns = 1
    CallerTimely = TRUE
PROPERTIES TimeoutIsHandled
CHECK_DEADLOCK FALSE
