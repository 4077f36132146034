CONSTANTS
    HoursPerDay = 4
    HourLength = 2
    Parts = 4
    DefaultStart = 1
    DefaultEnd = 3
    Zones <- MCWest
    CalDAV = CalDAV
    Google = Google
    Events = {"e1", "e2"}
    Times <- MCTimes
    WindowDays = 2
    Configured <- MCConfigured
    None = None
    Horizon = 24
    MaxChanges = 1
SPECIFICATION Spec
INVARIANT LateMeansLate
CHECK_DEADLOCK FALSE
