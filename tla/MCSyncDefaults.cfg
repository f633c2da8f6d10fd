SPECIFICATION Spec
CONSTANTS
    Id = {1, 2}
    Version = {1}
    Column = {"a", "b"}
    BaseColumns = {"a"}
    Value = {Null, Empty, X}
    Null = Null
    Empty = Empty
    X = X
    Filters <- OneFilter
    InitTables <- Plain
    Defaults <- Filling
    NoColumn = NoColumn
    NoCount = NoCount
    PageSize = 1
    MaxSnaps = 3
    MaxWrites = 2
INVARIANTS
    TargetHolds
CHECK_DEADLOCK FALSE
