SPECIFICATION PodSpec
CONSTANTS
    w1 = w1
    w2 = w2
    Workers <- TwoWorkers
    WorkerTimeout = 6
    LivenessEvery = 2
    MaxFails = 3
    MaxBacklog = 3
    MaxScores = 1
    Webhook = FALSE
INVARIANTS
    BlipNeverRestarts
