CONSTANTS
    bar = bar
    cafe = cafe
    ann = ann
    bo = bo
    Nowhere = Nowhere
    Locations = {bar, cafe}
    Employees = {ann, bo}
    Spans <- MCSpans
    DayLength = 6
    Zones <- MCZones
    Staff <- MCStaff
    Windows <- MCWindows
    Template <- MCTemplate
    MaxHours <- MCMaxHours
    MinRest <- MCMinRest
    Apart <- MCApart
    Capped <- MCCapped
    MaxPerWeek <- MCMaxPerWeek
    Refused <- MCRefused
    MaxShifts = 2
    MaxAnswers = 3

SPECIFICATION Spec
CHECK_DEADLOCK FALSE

INVARIANTS
    TypeOK
    NobodyInTwoPlaces
    HoursWithinCap
    FrequencyKept
    ApartKept
PROPERTIES
    RestIsKept
    RunEnds
