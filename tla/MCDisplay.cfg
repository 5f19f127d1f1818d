SPECIFICATION DisplaySpec
CONSTANTS
    Tolerance = 2
    SyncGap = 1
    MaxTime = 4
    MaxPics = 2
INVARIANTS
    DisplayTypeOK
    LagIsSurplus
PROPERTIES
    SwitchEarned
    FlagFollows
    HangsAlone
