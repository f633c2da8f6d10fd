SPECIFICATION Spec
CONSTANTS
    Table = {1, 2}
    Column = {1, 2}
    Index = {1}
    Key = {1}
    Collations = {"ci", "bin"}
    Types <- Decimals
    Defaults <- SomeDefaults
    InitSchema <- OneTable
    Keeps <- Filters
    MaxRounds = 2
    MaxChanges = 2
    MaxReruns = 1
INVARIANTS
    TypeOK
    ColumnsKeepUp
    IndexesKeepUp
    ExtrasReported
    AutoKeepsData
CHECK_DEADLOCK FALSE
