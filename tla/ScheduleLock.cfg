CONSTANTS
    gen = gen
    mgr1 = mgr1
    ann = ann
    NoRow = NoRow
    NoOne = NoOne
    Requests = {gen, mgr1}
    Generators = {gen}
    NumLocs = 2
    Employees = {ann}
    TTL = 1
    MaxClock = 2
    MaxChunks = 1

SPECIFICATION FairSpec

INVARIANTS
    TypeOK
    ClaimExclusion
    LeavesNothing
    NoWaitCycle
PROPERTIES
    LeaseTable
    WorkRunsOut
    EveryRequestEnds

\* Requests are served once: when all have ended and the clock is at its
\* bound, nothing is left to do.
CHECK_DEADLOCK FALSE
