SPECIFICATION PFairSpec
CONSTANTS
    p1 = p1
    c1 = c1
    c2 = c2
    c3 = c3
    None = None
    Payments <- OnePayment
    Calls <- ThreeCalls
    Scores <- SomeScores
    Threshold = 1
INVARIANTS
    PTypeOK
    NotifiedMeansQueued
    QueueHoldsFlagged
PROPERTIES
    FirstFlagStands
    ScoreAnswers
