CONSTANTS
    alex = alex
    home = home
    k1 = k1
    k2 = k2
    h1 = h1
    d1 = d1
    d2 = d2
    d3 = d3
    trash = trash
    Catalog = {trash}
    Defs = {d1, d2, d3}
    ChoreOf <- MCChoreOf
    ParentAssigned = {}
    Days = {1}
    WeekLength = 1
    Parents = {}
    Nobody = Nobody
    NoDate = NoDate
    Accounts = {h1}
    Kids = {k1, k2}
    NameOf <- MCNameOf
    ChildOf <- MCChildOf
    NoEntry = NoEntry
    Missing = Missing
    MaxEdits = 2
    MaxFailures = 1
SYMMETRY SameAssignments
SPECIFICATION BootSpec
INVARIANTS RecurringXorOneOff FilesFollowed
PROPERTIES StoresOnly HandMadeIsLeftAlone RestartChangesNothing
