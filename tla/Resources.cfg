\* The process may end; the numbers of proxies and bridges are bounded.
SPECIFICATION Spec
CONSTANTS
    Basic <- MCBasic
    Endpoint <- MCEndpoint
    Cron <- MCCron
    Worker = {w1, w2}
    MaxMade = 2
CHECK_DEADLOCK FALSE
INVARIANTS
    NothingForgotten
    PoolIsExact
    EntriesAreServed
