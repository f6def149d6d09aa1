\* Three packets or faults on two CPUs around two drains, each followed by a stat
\* line.  A fault is a connection that breaks, an eviction, a tap that crashes or
\* a server that is started again.
CONSTANTS
    Unknown = Unknown
    CPUs = {p1, p2}
    StatEvery = 1
    MaxDrains = 2
    MaxEvents = 3
SPECIFICATION TrafficSpec
INVARIANTS
    ShareAccountsForAll
    NeverOverstated
    LinesWhole
SYMMETRY Symmetry
CHECK_DEADLOCK FALSE
