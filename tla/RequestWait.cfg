SPECIFICATION FairWaitSpec
CONSTANTS
    Nobody = Nobody
    Waiters = {w1, w2, w3}
    TimedWaiters = {w3}
    Completers = {k1, k2}
INVARIANTS
    NoLostWakeup
PROPERTY
    WaitReturns
CHECK_DEADLOCK FALSE
