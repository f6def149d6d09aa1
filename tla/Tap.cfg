\* Volume: two CPUs, three destinations and two elements, so that inserts evict,
\* with and without a race.  Handshake: two flows to one destination on two CPUs,
\* live and in replay; three SYNs and SYN-ACKs are enough to use a port pair again
\* and to repeat either.  Attach: two taps, each restarted by its supervisor, through
\* crashes, failed starts and a stop.
CONSTANTS
    None = None
    f1 = f1
    f2 = f2
    cpu1 = cpu1
    cpu2 = cpu2
    CPUs = {cpu1, cpu2}
    Dsts = {1, 2, 3}
    Elements = {e1, e2}
    MaxPackets = 4
    MaxDrains = 2
    MaxWalk = 4
    Flows = {f1, f2}
    Seqs = {1, 2}
    OnCpu <- SpreadOut
    rl_window_ns = 2
    DL_RTT_MAX_NS = 1
    WORD = 16
    RingSize = 1
    MaxTime = 3
    MaxSyns = 3
    MaxSynAcks = 3
    Taps = {t1, t2}
    MaxCrashes = 3
    MaxStops = 2
SPECIFICATION Spec
INVARIANTS
    VolumeBalances
    SampleOfOneHandshake
    SpacedAlone
    LoneTapIsWhole
PROPERTIES
    Heals
CHECK_DEADLOCK FALSE
