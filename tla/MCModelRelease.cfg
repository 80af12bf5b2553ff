SPECIFICATION RSpec
CONSTANTS
    r1 = r1
    r2 = r2
    s1 = s1
    Trainings <- TwoTrainings
    Servers <- OneServer
    Holdouts <- SmallHoldouts
    None = None
    Partial = Partial
INVARIANTS
    RTypeOK
    ServedThresholdIsBest
    MixedPairHasACause
