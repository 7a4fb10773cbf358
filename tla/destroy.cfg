CONSTANTS
    lndbtc = lndbtc
    proxy = proxy
    Services <- OneService
    Listeners <- OneService
    Waiters = {}
    MaxVer = 4
    MaxFaults = 0
SPECIFICATION Spec
PROPERTIES DestroyClears
CHECK_DEADLOCK FALSE
