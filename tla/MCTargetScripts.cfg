SPECIFICATION Spec
CONSTANTS
    Id = {1, 2, 3}
    Version = {1, 2}
    Column = {"a"}
    BaseColumns = {"a"}
    Value = {Null, X}
    Null = Null
    Empty = Null
    X = X
    Filters = {}
    Chunks <- TwoAndOne
    Inserts <- InOrder
    Live <- Wanted
    NewColumn = TRUE
    NoTable = NoTable
    InitTargets <- Targets
    MaxRuns = 3
    MaxWrites = 1
INVARIANTS
    TypeOK
    Recoverable
    Effect
CHECK_DEADLOCK FALSE
