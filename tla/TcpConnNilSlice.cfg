\* Close finds the channel full while a message is being written or received.
SPECIFICATION Spec
CONSTANTS
    nil = nil
    Users = {u1}
    Buffers = {b1, b2}
    Cap = 1
    minMsgLen = 2
    maxMsgLen = 500000
    Bodies = {503}
    Incoming = {503}
    MaxMsgs = 2
INVARIANTS MakesWhatIsAsked
CHECK_DEADLOCK FALSE
