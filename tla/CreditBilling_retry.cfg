CONSTANTS
    p1 = p1
    r1 = r1
    r2 = r2
    NoOne = NoOne
    NoIntent = NoIntent
    NoRead = NoRead
    Closed = Closed
    Pages = {p1}
    Sessions = {r1, r2}
    Packs = {1, 2}
    Threshold = 1
    Cost = 1
    OptIns = {TRUE}
    Settings <- MCSettings
    MaxIntents = 2
    MaxKeys = 2

SPECIFICATION Spec

SYMMETRY Symmetry
PROPERTIES
    EveryChargeIsCredited
