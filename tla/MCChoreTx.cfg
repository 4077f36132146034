CONSTANTS
    child = child
    parent = parent
    Tx = {t1, t2}
    Defs = {child, parent}
    Deletions = {{child, parent}}
    ParentAssigned = {parent}
    Days = {1, 2}
    Free = Free
    NoRow = NoRow
SPECIFICATION Spec
INVARIANTS TypeOK DraftsFollowRows CascadeMissesNothing ParentChoresSkipApproval
PROPERTIES ImplementsBoard ApprovedIsFinal ApprovalClearsBacklog ApprovalNeedsDecision EveryTransactionEnds
