CONSTANTS
    Events = {rent, bill}
    Steady = rent
    Accounts = {a1, a2, a3}
    None = None
    Configs = {"no", "on"}
    MaxMishaps = 1
    MaxEdits = 1
    MaxTaps = 1
SPECIFICATION Spec
INVARIANT TypeOK
PROPERTIES SteadyEventsStay CalendarIsKept TokensHeal EventsConverge OrphansGo
CHECK_DEADLOCK FALSE
