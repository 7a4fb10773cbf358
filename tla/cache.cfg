CONSTANTS
    lndbtc = lndbtc
    proxy = proxy
    Services <- OneService
    Listeners <- OneService
    Waiters = {w1}
    MaxVer = 4
    MaxFaults = 1
SPECIFICATION FairSpec
INVARIANTS TypeOK NoLostWakeup SettledFresh
PROPERTIES BackwardOnlyAtStartup ImplementsView Converges WaiterReturns
CHECK_DEADLOCK FALSE
