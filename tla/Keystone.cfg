\* Two window sizes and three points: two moves make a trapezoid, or drag two
\* handles onto one point.
CONSTANTS
    Windows <- TwoWindows
    Points <- SomePoints
    Nothing = Nothing
    Unreadable = Unreadable
    MaxMoves = 2
SPECIFICATION KeystoneSpec
INVARIANTS
    WallIsStored
    MatrixMapsCorners
