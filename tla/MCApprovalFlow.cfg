CONSTANTS
    child = child
    parent = parent
    trash = trash
    Catalog = {trash}
    Defs = {child, parent}
    ChoreOf <- MCChoreOf
    ParentAssigned = {parent}
    Days = {1, 2, 3}
    WeekLength = 2
    Parents = {mom}
    Nobody = Nobody
    NoDate = NoDate
    Ahead = 1
    WeekAhead = 2
    LinkTTL = 1
    MaxTaps = 2
SPECIFICATION FlowSpec
INVARIANTS FlowTypeOK ColumnsMatchStatus DeletedHasNoOpenWork TileCoversBacklog OneMailPerSubmission
