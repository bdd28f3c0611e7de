CONSTANTS
    short = short
    long = long
    Limits = {short, long}
    Malformed = Malformed
SYMMETRY LimitSymmetry
SPECIFICATION PolicySpec
INVARIANTS SavesAreKept OverlayIsPersisted PolicyIsInForce
