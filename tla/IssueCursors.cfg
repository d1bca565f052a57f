CONSTANTS
    p1 = p1
    p2 = p2
    c1 = c1
    Resource = {1, 2}
    Issue = {1, 2, 3}
    Comment = {c1}
    Thread = {11, 12}
    ResOf <- MCResOf
    IssueOf <- MCIssueOf
    Start <- MCStart
    Process = {p1, p2}
    Shared = Shared
    PageSize = 1
    MaxTime = 3
    MaxEdits = 1
    MaxOps = 3
SPECIFICATION Spec
INVARIANTS
    NothingSkipped
    NotificationsKept
SYMMETRY ProcessSymmetry
CHECK_DEADLOCK FALSE
