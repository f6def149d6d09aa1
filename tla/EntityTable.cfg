\* Up to three entities (A, B, an address) compete for two places, two
\* addresses for one place in dstToKey.
CONSTANTS
    ip1 = ip1
    ip2 = ip2
    rA = rA
    rB = rB
    rNone = rNone
    rUnknown = rUnknown
    Ips = {ip1, ip2}
    Routes = {rA, rB, rNone, rUnknown}
    Drawable = {rA, rB, rNone}
    KeyOf <- CityKey
    Rtts = {1}
    Volumes = {1}
    MaxEntities = 2
    MaxDst = 1
    WINDOW = 1
    RETAIN = 2
    MaxNow = 3
    MaxLines = 4
SYMMETRY Symmetric
SPECIFICATION TableSpec
INVARIANTS
    VolumeFollowsRoute
PROPERTIES
    OnlyIdleLeave
CHECK_DEADLOCK FALSE
