SPECIFICATION PodSpec
CONSTANTS
    w1 = w1
    w2 = w2
    Workers <- TwoWorkers
    WorkerTimeout = 4
    LivenessEvery = 2
    MaxFails = 2
    MaxBacklog = 3
    MaxScores = 2
    Webhook = TRUE
INVARIANTS
    PodTypeOK
    FailsOnlyWhenAllAreStuck
    StopsTraffic
PROPERTIES
    ComesBack
    Recovers
