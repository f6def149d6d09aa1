\* Two editions whose numbers mean different nodes, two loads, and two
\* losses: of a connection, of a load, or of both.
CONSTANTS
    None = None
    Editions = {1, 2}
    Cables = {"k1", "k2", "k3", "k4"}
    Stations = {"s1", "s2", "s3", "i1", "i2"}
    Cities = {"home", "a", "b"}
    Home = "home"
    LandingsIn <- LandingsOf
    CablesIn <- CablesOf
    Ixps <- OneIxp
    StationsOn <- StationsOf
    LandLinks <- Links
    NearestTo <- NearestFirst
    Snaps <- Nearby
    GcKm <- GcOf
    IxpKm <- IxpOf
    Budgets = {0, 1, 3}
    MaxLoads = 2
    MaxLosses = 2
SPECIFICATION TopologySpec
INVARIANTS
    GraphOfOneEdition
    FreshAnswersRoute
    SubmarineIsNamed
