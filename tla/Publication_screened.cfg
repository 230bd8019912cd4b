SPECIFICATION SceneSpec
CONSTANTS
    Scenes = {"rules"}
    MaxRevision = 1
    Kinds <- TwoKinds
    Versions <- TwoVersions
    FirstVersion <- First
    Budget = 1
    MaxChanges = 1
    BareVerdicts = TRUE
PROPERTY ScreenedWhole
CHECK_DEADLOCK FALSE
