SPECIFICATION Spec
CONSTANTS
    a = a  b = b  triageDone = triageDone  triageLater = triageLater
    draft1 = draft1  draft2 = draft2  task = task  item = item  mail = mail
    None = None
    Minted = {a, b}
    Triage = {triageDone, triageLater}
    Drafted = {draft1, draft2}
    Base = {task, item, mail}
    Decision = {}
    Item = {item}
    BaseOf <- MCBaseOf
    Target <- MCTarget
    TaskOf <- MCTaskOf
    p1 = p1  p2 = p2
    Client = {p1, p2}
    MaxList = 2
    MaxOps = 3
INVARIANTS ReplayMatches OwnEntity
PROPERTIES ImplementsVerdicts VerdictsStand
SYMMETRY Servers
