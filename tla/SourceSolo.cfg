CONSTANTS
    old = old
    new = new
    s1 = s1
    s2 = s2
    p1 = p1
    p2 = p2
    Absent = Absent
    Blank = Blank
    NoExtractor = NoExtractor
    Content = {old, new}
    OldContent = {old}
    Source = {s1, s2}
    Sync = {p1}
    Extractable = {s1}
    Extractor = {x1}
    OneWriter = TRUE
    MaxEdits = 2
    MaxOps = 3
SPECIFICATION Spec
INVARIANTS
    ReplayMatches
    BlankMeansErased
    ForgottenStaysAbsent
PROPERTIES
    ImplementsMemory
