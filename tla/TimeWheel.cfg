\* Two timers on three wheels. MaxNow leaves the latest timer its latest time.
SPECIFICATION Spec
CONSTANTS
    None = None
    Timers = {t1, t2}
    Wheels = 3
    Interval <- MCInterval
    Scales <- MCScales
    MaxTimeDelay = 2
    Delays <- MCDelays
    Periods = {2}
    MaxTimes = 2
    MaxStart = 3
    MaxNow = 33
INVARIANTS NeverOverdue CalledInTime CalledAsAsked RemovedIsOut
SYMMETRY Symmetry
CHECK_DEADLOCK FALSE
