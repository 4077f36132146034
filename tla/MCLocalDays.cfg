CONSTANTS
    HoursPerDay = 4
    HourLength = 2
    Parts = 4
    DefaultStart = 1
    DefaultEnd = 3
    Zones <- MCZones
    CalDAV = CalDAV
    Google = Google
    Events = {"e1", "e2"}
    Times <- MCTimes
    WindowDays = 2
    Configured <- MCConfigured
    None = None
    Horizon = 24
    MaxChanges = 1
SPECIFICATION Spec
INVARIANTS TodayIsComplete LateErrsOneWay 
CHECK_DEADLOCK FALSE
