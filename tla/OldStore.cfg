SPECIFICATION Spec
CONSTANTS
    Proc = {p1}
    Columns = 4
    Indexed = 3
    MaxEvents = 1
    MaxStarts = 1
    MaxKills = 0
INVARIANT OldStoreOpens
CHECK_DEADLOCK FALSE
