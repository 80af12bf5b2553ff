SPECIFICATION SSpec
CONSTANTS
    m1 = m1
    m2 = m2
    None = None
    Rows <- FourRows
    Runs <- TwoRuns
    MaxVersions = 2
    MaxRestarts = 1
SYMMETRY RunSymmetry
INVARIANTS
    OnlyTextMisses
    FinishedRunServes
PROPERTIES
    RerunsAgree
    NeverBackOnceSettled
