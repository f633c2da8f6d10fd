CONSTANTS
    Databases     = {d1}
    Seconds       = {s1, s2}
    LegacySeconds = {s0}
    MaxSuffix     = 2
    NumTables     = 1
    MaxPages      = 1
    Jobs          = {j1}
    Handlers      = {h1, h2}
    Absent  = Absent
    Partial = Partial
    Old     = Old
    NoJob   = NoJob
    NoKey   = NoKey
SPECIFICATION Spec
INVARIANTS
    FinishedSurvives
    ListedComplete
PROPERTIES
    JobSettles
