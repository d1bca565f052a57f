SPECIFICATION Spec
CONSTANTS
    c1 = c1
    c2 = c2
    p1 = p1
    p2 = p2
    Channel = {c2}
    Tokens = 2
    Pass = {p1, p2}
    Since <- MCSince
    Window = 1
    MaxPosts = 4
    MaxOps = 2
INVARIANTS
    NothingSkipped
    RepliesFollowed
SYMMETRY Symmetry
