SPECIFICATION VSpec
CONSTANTS
    k1 = k1
    k2 = k2
    e1 = e1
    j1 = j1
    j2 = j2
    Null = Null
    Cards <- TwoCards
    Emails <- OneEmail
    Amounts <- TwoAmounts
    Times <- SomeTimes
    Ids <- ThreeIds
    Hour = 1
    Day = 2
    Jobs <- TwoJobs
    TestParts = 1
    Parts = 3
    EventTimes <- SomeEvents
SYMMETRY CardSymmetry
INVARIANTS
    VTypeOK
    FramesAgree
    TrainSeesNoTest
    ServingMatchesJoin
    ServedLags
PROPERTIES
    PointInTime
    JoinIsPointInTime
