CONSTANTS
    ann = ann
    bob = bob
    s1 = s1
    s2 = s2
    r1 = r1
    r2 = r2
    x1 = x1
    x2 = x2
    NoOne = NoOne
    NoShift = NoShift
    NoScan = NoScan
    NoEntry = NoEntry
    NoFile = NoFile
    Employees = {ann, bob}
    Shifts = {s1, s2}
    Worker <- MCWorker
    Ranges <- MCRanges
    IdOrder <- MCIdOrder
    PayOrder <- MCPayOrder
    Requests = {r1, r2}
    Exports = {x1, x2}
    MaxScans = 2

SPECIFICATION Spec

SYMMETRY Symmetry
INVARIANTS
    TypeOK
    FirstScanKeepsTheNumber
    ReportedRowsExist
    NoHoursSentTwice
    LogAgreesWithStamps
