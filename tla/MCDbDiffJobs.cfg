CONSTANTS
    Databases     = {d1}
    Seconds       = {s1}
    LegacySeconds = {}
    MaxSuffix     = 2
    NumTables     = 2
    MaxPages      = 1
    Jobs          = {j1, j2}
    Handlers      = {h1}
    Absent  = Absent
    Partial = Partial
    Old     = Old
    NoJob   = NoJob
    NoKey   = NoKey
SPECIFICATION Spec
SYMMETRY JobSymmetry
INVARIANTS
    TypeOK
    OneWorker
    ListedComplete
    FinishedSurvives
    BaselineSound
    NothingLeftBehind
    AtMostOneLateQuery
PROPERTIES
    ProgressMonotone
    ImplementsAtomicStore
