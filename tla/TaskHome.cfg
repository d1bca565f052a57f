SPECIFICATION FairSpec
CONSTANTS
    Home = {"github", "jira", "slack"}
    Marked = {"github", "jira"}
    CanDrop = {"github"}
    Due = {d1}
    w1 = w1
    w2 = w2
    Server = {w1, w2}
    None = None
    MaxItems = 2
    MaxEdits = 1
    MaxOps <- MCMaxOps
INVARIANTS
    OneItemPerHome
PROPERTIES
    HomeDecides
    FollowsHome
CHECK_DEADLOCK FALSE
