\* The wheels of TimeWheel.cfg, against the error the code claims.
SPECIFICATION Spec
CONSTANTS
    None = None
    Timers = {t1, t2}
    Wheels = 3
    Interval <- MCInterval
    Scales <- MCScales
    MaxTimeDelay = 2
    Delays <- MCDelays
    Periods = {2}
    MaxTimes = 2
    MaxStart = 3
    MaxNow = 33
INVARIANT WithinMaxTimeDelay
SYMMETRY Symmetry
CHECK_DEADLOCK FALSE
