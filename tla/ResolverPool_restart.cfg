\* One restart and no other fault; two warm connections die at once.
CONSTANTS
    Threads = {t1, t2}
    Conns = {c1, c2, c3, c4}
    NONE = NONE
    PoolSizes = {2}
    MaxRestarts = 1
    Faults = FALSE
SPECIFICATION PoolSpec
INVARIANTS
    RetryGetsFresh
