SPECIFICATION Spec
CONSTANTS
    Connection = {"c1", "c2"}
    FirstConnection = "c1"
    Placeholder = Placeholder
    Database = {"d1", "d2"}
    Databases <- Some
    Configured <- First
    NoDb = NoDb
    Dash = Dash
    Condition = {Blank, A}
    Blank = Blank
    NoBoxes = NoBoxes
    Saved = A
    Activity = {1, 2, 3}
    MaxSnaps = 2
    MaxClicks = 2
    MaxFails = 1
INVARIANTS
    TypeOK
    
    ShowsSelection
    SavesBoxes
    KeepsConditions
PROPERTIES
    Unlocks
CHECK_DEADLOCK FALSE
