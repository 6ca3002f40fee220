CONSTANTS
    r1 = r1
    r2 = r2
    bar = bar
    cafe = cafe
    w1 = w1
    w2 = w2
    NoOne = NoOne
    NoSched = NoSched
    NoWeek = NoWeek
    NoTxn = NoTxn
    Runs = {r1, r2}
    Locs = {bar, cafe}
    Weeks = {w1}
    MaxLocations = 1
    MaxSchedules = 1
    MaxAttempts = 2
    MaxMonth = 2
    MaxRows = 2

SPECIFICATION Spec

SYMMETRY Symmetry
INVARIANTS
    TypeOK
PROPERTIES
    AllowanceKept
    RefusalStands
