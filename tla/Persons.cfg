CONSTANTS
    slackAnn = slackAnn
    githubAnn = githubAnn
    slackBob = slackBob
    ann = ann
    bob = bob
    pA = pA
    pB = pB
    pC = pC
    pX = pX
    Identity = {slackAnn, githubAnn, slackBob}
    HandleOf <- MCHandleOf
    Home <- MCHome
    Person = {pA, pB, pC, pX}
    Name = {bob}
    Written = {slackAnn, githubAnn, ann, bob}
    Commitment = {c1}
    Server = {w1, w2}
    Unseen = Unseen
    Unnamed = Unnamed
    Nobody = Nobody
    MaxSeen = 3
    MaxOps = 3
SPECIFICATION Spec
INVARIANTS
    CountsMatch
    CommitmentsFollow
PROPERTIES
    OnlyHumansMove
CHECK_DEADLOCK FALSE
