CONSTANTS
    r1 = r1
    r2 = r2
    week = week
    bar = bar
    cafe = cafe
    ann = ann
    Open = Open
    NoOne = NoOne
    NoShift = NoShift
    Gone = Gone
    Requests = {r1, r2}
    Schedules = {week}
    Locs = {bar, cafe}
    Employees = {ann}
    Home <- MCHome
    Posted <- MCPosted
    MaxShifts = 2

SPECIFICATION Spec

SYMMETRY Symmetry
INVARIANTS
    TypeOK
PROPERTIES
    ApprovalIsFresh
    OneApprovalAtATime
    LeaverGetsNothing
    NothingSlipsIn
