CONSTANTS
    w1 = w1
    p1 = p1
    p2 = p2
    NoOne = NoOne
    Workers = {w1}
    Requests = {p1}
    NumSessions = 0
    RemindAfter = 0
    Grace = 1
    MaxDay = 1

SPECIFICATION Spec

INVARIANT
    WarnedBeforeDeletion

\* The group is deleted and nobody comes.
CHECK_DEADLOCK FALSE
