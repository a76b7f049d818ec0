SPECIFICATION Spec
CONSTANTS
    nil = nil
    Users = {u1, u2}
    Buffers = {b1, b2, b3}
    Cap = 2
    minMsgLen = 2
    maxMsgLen = 500000
    Bodies = {503, 1091}
    Incoming = {1, 503, 417784, 500001}
    MaxMsgs = 3
INVARIANTS
    NoPanic OneOwner SliceFits SentInOrder CloseFlushes
PROPERTIES WriterEnds
CHECK_DEADLOCK FALSE
