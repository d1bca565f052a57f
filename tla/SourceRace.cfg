CONSTANTS
    old = old
    new = new
    s1 = s1
    s2 = s2
    p1 = p1
    p2 = p2
    Absent = Absent
    Blank = Blank
    NoExtractor = NoExtractor
    Content = {old, new}
    OldContent = {old}
    Source = {s1}
    Sync = {p1, p2}
    Extractable = {}
    Extractor = {}
    OneWriter = FALSE
    MaxEdits = 1
    MaxOps = 3
SPECIFICATION FairSpec
INVARIANTS
    IndexMatches
PROPERTIES
    EventuallyCurrent
