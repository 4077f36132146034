CONSTANTS
    a = a
    a2 = a2
    b = b
    u = u
    v = v
    Cals = {home}
    Items = {a, a2, b}
    Uids = {u, v}
    UidOf <- MCUidOf
    Recurring = FALSE
    Job = Job
    Requests = {r1, r2}
    Nothing = Nothing
    MaxEdits = 1
    MaxFailures = 1
SPECIFICATION Spec
INVARIANTS NothingOrphaned BusyEnds
PROPERTIES PruneNeedsAnswer SyncKeepsChoices CacheConverges
