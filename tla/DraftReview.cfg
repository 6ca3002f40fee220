CONSTANTS
    l1 = l1
    q1 = q1
    q2 = q2
    Nobody = Nobody
    NoList = NoList
    Locs = {l1}
    Requests = {q1, q2}
    MaxRuns = 2
    MaxEdits = 2

SPECIFICATION Spec

SYMMETRY Symmetry

INVARIANTS
    TypeOK
    SavingIsAwaited
PROPERTIES
    EditsAreKept
    ApprovedAsShown
