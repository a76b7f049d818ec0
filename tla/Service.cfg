SPECIFICATION Spec
CONSTANTS
    s1 = s1
    s2 = s2
    g1 = g1
    g2 = g2
    g3 = g3
    Services = {s1, s2}
    Listeners = {s1, s2}
    Workers = {g1, g2, g3}
    Pushers = {x}
    Modules = {m1, m2, m3}
    Root = root
    Host = s1
    Free = free
    Rpc = rpc
    Stale = stale
    Publishers <- MCPublishers
    ServiceOf <- MCServiceOf
    ChanCap <- MCChanCap
    Registered <- MCRegistered
    Limit = 2
    Pushed <- MCPushed
    Budgets <- MCBudgets
INVARIANTS
    ReleasedLast BlockedMeansOvertaken ListenersAgree ReleasedIsGone NoOrphans
PROPERTIES
    StopReturns
CHECK_DEADLOCK FALSE
