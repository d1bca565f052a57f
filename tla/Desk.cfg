SPECIFICATION DeskSpec
CONSTANTS
    s1 = s1
    s2 = s2
    e1 = e1
    e2 = e2
    e3 = e3
    c1 = c1
    Source = {s1, s2}
    Entity = {e1, e2, e3}
    KindOf <- MCKindOf
    SrcOf <- MCSrcOf
    MaxLog = 3
    MaxForget = 2
    Name = {1, 2, 3}
    Host = {1, 2}
    Catalogs <- MCCatalogs
    Retired = {3}
    SkillRuns = 2
    SkillEdits = 2
    MaxCrashes = 1
    Placed = {"a1"}
    AccountName = {"work"}
    Channel = {c1}
    MaxWizards = 1
    SetupEdits = 2
    JobLists <- MCJobLists
    MaxTokens = 3
    PostAttempts = 3
    Searched = {1, 2, 3, 4}
    Typed = {1, 4}
    WordOrders <- MCWordOrders
    NearOrders <- MCNearOrders
    Limits = {1, 2}
    Overfetch = 1
    RrfK = 60
    SearchChanges = 1
    MaxAsks = 1
    MaxTexts = 3
    BatchSizes = {0, 1, 2}
    Backends = {"ollama", "api"}
    RequestAttempts = 2
    BaseWait = 1
    MaxBackoff = 2
    RetryAfters = {1, 9}
    RequestTimeout = 1
    ScanKinds = {"driveFile", "driveNative", "box", "office", "event", "graphEvent", "gmail", "graphMail", "notion", "note", "web"}
    Pages <- MCPages
    ScanEdits = 2
    MaxPasses = 2
    MaxSwitches = 1
    Sweeps = {"github", "google", "box", "notion", "jira", "new", "suggest", "sync"}
    Seen <- MCSeen
    Listings = {{0}, {11, 3}, {2, 3}}
    SweepChanges = 1
    Opener = {1, 2}
    Columns = 4
    Indexed = 3
    MaxEvents = 2
    MaxStarts = 3
    MaxKills = 1
    ToolCalls = 2
    Tools = {"task.publish", "task.act", "propose.apply publish", "source.forget", "task.create", "draft md", "draft docx"}
    Task = {e1, e2}
    Suffix = {0, 1, 2}
    User = {"u", "me"}
    Conv = {"c", "g"}
    Team = {"T1", "T2"}
    Group = {"g"}
    MembersOf <- MCMembersOf
    SlackPost <- MCPost
    Namer = {1}
    SlackToken = {1, 2}
    TeamOf <- MCTeamOf
    SelfOf <- MCSelfOf
    SelfIds = {}
    Sees <- MCSees
    Reach <- MCReach
    Renamed = {"u"}
    Described = {{2}}
    NameRuns = 2
    MaxRenames = 1
    MaxFaults = 1
    Node = {1, 2, 3, 4}
    Dated = {2, 3, 4}
    Ingested = {2}
    Shapes <- MCShapes
    Linkable <- MCLinkable
    GraphAsks <- MCAsks
    Factor = 2
    DefaultLimit = 3
    GraphChanges = 2
INVARIANTS
    GraphHonest
    ResultsHonest
    SearchComplete
    SlotsAligned
    SkippedIsCurrent
    DriftHonest
    StoreKept
    WritesHonest
PROPERTIES
    SkillsApart
    NamesKept
    KeepsOthers
    CascadeHolds
CHECK_DEADLOCK FALSE
