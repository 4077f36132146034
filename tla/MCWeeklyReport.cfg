CONSTANTS
    WeekLength = 3
    HoursPerDay = 3
    HourLength = 2
    Default <- MCDefault
    Posted <- MCPosted
    Blank = Blank
    Bad = Bad
    None = None
    Sending = Sending
    Weeks = 4
    MaxStops = 1
    MaxUnsent = 1
    MaxShifts = 1
    MaxForms = 2
SPECIFICATION ReportSpec
INVARIANT QuietWeekReported
PROPERTY NoDoubleSend
CHECK_DEADLOCK FALSE
