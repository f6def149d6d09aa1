\* Three trips or seven vertices fill the store; paths of two points or four
\* (a longer one is thinned to four) make either limit bite first.
CONSTANTS
    MAX_TRIPS = 3
    MAX_POINTS_PER_TRIP = 4
    VERTEX_BUDGET = 7
    TRAIL_MS = 1
    Paths = {1, 2, 5}
    Durations = {1, 3}
    MaxNow = 5
    MaxAdds = 4
SPECIFICATION StoreSpec
INVARIANTS
    PackedInCapacity
    PayloadDrawsTrips
    OverstayBounded
CHECK_DEADLOCK FALSE
