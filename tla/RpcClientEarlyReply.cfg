\* A reply may arrive while callRpc is between WriteMsg and Done().
SPECIFICATION Spec
CONSTANTS
    None = None
    Calls = {k1}
    Handlers = {}
    Callers = {c1}
    MaxSeq = 2
    MaxEvents = 1
    ChanCap = 1
    MaxOthers = 1
    MaxConns = 1
    CallerTimely = FALSE
INVARIANTS
    DoneMeansComplete
CHECK_DEADLOCK FALSE
