SPECIFICATION FairSpec
CONSTANTS
    None = None
    Calls = {k1, k2}
    Handlers = {h1}
    Callers = {c1}
    MaxSeq = 3
    MaxEvents = 1
    ChanCap = 1
    MaxOthers = 1
    MaxRequests = 3
    MethodsTimely = TRUE
    MethodsSound = TRUE
INVARIANTS
    CompletedOnce NoDoubleFree LocalNoLeak
PROPERTIES EventuallyReturned
CHECK_DEADLOCK FALSE
