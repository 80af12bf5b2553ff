SPECIFICATION CommandSpec
CONSTANTS
    account = account
    password = password
    Settings <- TwoSettings
    Columns <- AllColumns
    Overrides <- KnownOverrides
    SampleRows = 2
    Files <- SmallFiles
SYMMETRY SettingSymmetry
INVARIANTS
    InferredFromSample
    ConnectionClosed
