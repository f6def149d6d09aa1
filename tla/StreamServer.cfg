\* One address whose answers fold it into a city or keep it apart, with two
\* latencies that compete for one place in the cache; three lines and fetches
\* are enough for a promise to be evicted in flight, asked for again, and lost
\* to the failure of the first.
CONSTANTS
    ip1 = ip1
    rA = rA
    rNone = rNone
    c1 = c1
    Unknown = Unknown
    Ips = {ip1}
    Routes = {rA, rNone}
    Drawable = {rA, rNone}
    KeyOf <- CityKey
    Rtts = {1, 3}
    Volumes = {1}
    StatValues = {0}
    Keys <- RoundedKeys
    MaxCache = 1
    MaxFetches = 3
    MaxEntities = 2
    MaxDst = 1
    WINDOW = 0
    RETAIN = 0
    MaxNow = 1
    MaxLines = 3
    Clients = {c1}
    CLIENT_QUEUE = 1
    HIGH_WATER = 1
    MaxFrames = 2
SPECIFICATION ServerFairSpec
INVARIANTS
    SingleFlight
    RouteAnswersRtt
    ClientSeesTable
PROPERTIES
    AnswersStay
    LinesSettle
CHECK_DEADLOCK FALSE
