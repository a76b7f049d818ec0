\* A reply may come after the timeout of its call.
SPECIFICATION Spec
CONSTANTS
    None = None
    Calls = {k1, k2}
    Handlers = {h1}
    Callers = {c1}
    MaxSeq = 3
    MaxEvents = 1
    ChanCap = 1
    MaxOthers = 1
    MaxRequests = 3
    MethodsTimely = FALSE
    MethodsSound = TRUE
INVARIANTS
    NoDoubleFree
CHECK_DEADLOCK FALSE
