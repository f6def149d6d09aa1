\* Two handler threads on one slot, where they wait for each other, and on two,
\* through two restarts and any number of refused connects and cancelled
\* statements.  Four connections: two in the pool's hands, two left behind.
\* No symmetry: the run checks liveness.
CONSTANTS
    Threads = {t1, t2}
    Conns = {c1, c2, c3, c4}
    NONE = NONE
    PoolSizes = {1, 2}
    MaxRestarts = 2
    Faults = TRUE
SPECIFICATION PoolFairSpec
INVARIANTS
    ExclusiveUse
    NothingLeaks
    LazyBuild
    DeadCostsOnce
PROPERTIES
    CallsReturn
    ImplementsLease
