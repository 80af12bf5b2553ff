SPECIFICATION IngSpec
CONSTANTS
    l1 = l1
    l2 = l2
    q1 = q1
    Loads <- TwoLoads
    Recs <- OneRec
    RowCount = 4
    MaxBlank = 1
    ChunkSize = 2
SYMMETRY LoadSymmetry
INVARIANTS
    EnsuredTableFits
