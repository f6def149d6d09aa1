\* Two layers and two cables, and the routes of MC_Workspace through up to
\* MaxStations stations.
CONSTANTS
    Layers = {"submarine", "landings"}
    Submarine = "submarine"
    Cables = {"c1", "c2"}
    NoCable = "none"
    MaxStations = 3
    Lookups <- MCLookups
    Estimate <- GreatCircle
    NoRoute = NoRoute
    Turn = 8
    Project <- OnScreen
    LabelSize <- Size
    BadgeSize <- Badge
    bounds <- Screen
    Rings = 8
    Gap = 1
    Offset = 2
SPECIFICATION WorkspaceFairSpec
INVARIANTS
    MapFollowsPanel
    LinesJoin
    PlacesAreStops
    LabelsApart
PROPERTIES
    AtlasArrives
