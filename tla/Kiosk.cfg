\* Two source cities and three lookups: a snapshot is shared, superseded and
\* found rejected.
CONSTANTS
    Sources = {a, b}
    MaxLookups = 3
SPECIFICATION KioskFairSpec
INVARIANTS
    WallShowsPanel
PROPERTIES
    SupersededOnlyFallsBack
    LoadingEnds
