CONSTANTS
    w1 = w1
    p1 = p1
    p2 = p2
    NoOne = NoOne
    Workers = {w1}
    Requests = {p1, p2}
    NumSessions = 2
    RemindAfter = 0
    Grace = 1
    MaxDay = 1

SPECIFICATION Spec

SYMMETRY Symmetry
INVARIANTS
    TypeOK
    WrittenWithTheDeletion
    ReportedIsSettled
PROPERTIES
    KnownPaymentIsHonoured
    DeletedWhenDue

\* The group is deleted, everything is paid and reported, nobody comes.
CHECK_DEADLOCK FALSE
