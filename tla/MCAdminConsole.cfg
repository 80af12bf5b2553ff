SPECIFICATION AdminSpec
CONSTANTS
    t1 = t1
    t2 = t2
    a1 = a1
    a2 = a2
    r1 = r1
    r2 = r2
    f1 = f1
    f2 = f2
    None = None
    Txns <- TwoTxns
    Analysts <- TwoAnalysts
    Requests <- TwoRequests
    Forms <- TwoForms
SYMMETRY AdminSymmetry
INVARIANTS
    AdminTypeOK
    NamedUsersExist
PROPERTIES
    OnlyRacesTakeEntries
