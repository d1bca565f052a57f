SPECIFICATION FairSpec
CONSTANTS
    Source = {s1, s2}
    Content = {c1, c2}
    Model = {m1, m2}
    Job = {j1, j2}
    Absent = Absent
    JobsOverlap = TRUE
    UpkeepOverlaps = FALSE
    Chunk = 1
    MaxEdits = 2
    MaxOps = 2
INVARIANT ReportHonest
PROPERTIES FullRebuildHeals
