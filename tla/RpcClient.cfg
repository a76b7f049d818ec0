SPECIFICATION FairSpec
CONSTANTS
    None = None
    Calls = {k1, k2}
    Handlers = {h1}
    Callers = {c1}
    MaxSeq = 2
    MaxEvents = 1
    ChanCap = 1
    MaxOthers = 1
    MaxConns = 2
    CallerTimely = TRUE
INVARIANTS
    TypeOK PendingGuarded CompletedOnce DoneMeansComplete NoPhantomReply NoDoubleFree NoLeak
PROPERTIES EventuallyReturned
CHECK_DEADLOCK FALSE
