SPECIFICATION Spec
CONSTANTS
    Id = {1, 2}
    Version = {1, 2}
    Column = {"a", "b"}
    BaseColumns = {"a"}
    Value = {Null, Empty, X}
    Null = Null
    Empty = Empty
    X = X
    Filters <- TwoFilters
    InitTables <- Versioned
    Defaults <- Vanishing
    NoColumn = NoColumn
    NoCount = NoCount
    PageSize = 1
    MaxSnaps = 3
    MaxWrites = 2
INVARIANTS
    TypeOK
    TargetHolds
    NothingExtra
    ScanExact
    Healed
    SelfCompareEmpty
    PrecheckAccepts
CHECK_DEADLOCK FALSE
