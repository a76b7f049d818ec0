\* A Responder method that panics may have kept its Responder.
SPECIFICATION SystemSpec
CONSTANTS
    None = None
    Calls = {k1, k2}
    Handlers = {h1}
    Callers = {c1}
    MaxSeq = 2
    MaxEvents = 1
    ChanCap = 1
    MaxOthers = 1
    MaxConns = 2
    Reqs = {o1, o2}
    MaxServerEvents = 1
    MethodsSound = FALSE
    CallerTimely = TRUE
INVARIANTS
    AnswerIsOwn
CHECK_DEADLOCK FALSE
