\* Three accounted records, an exempt one, channels smaller than the load.
SPECIFICATION FairSpec
CONSTANTS
    r1 = r1
    r2 = r2
    r3 = r3
    r4 = r4
    k1 = k1
    k2 = k2
    admin = admin
    Records <- MCRecords
    Keys <- MCKeys
    KeyOf <- MCKeyOf
    Cost <- MCCost
    QueueCap = 2
    EntryCap = 1
CHECK_DEADLOCK FALSE
INVARIANTS
    QueuesHoldTheQueued
PROPERTIES
    GoroutinesEnd
    QueuedIsSettled
    LedgerSpec
