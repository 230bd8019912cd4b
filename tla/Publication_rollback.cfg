SPECIFICATION SceneSpec
CONSTANTS
    Scenes = {"lines"}
    MaxRevision = 2
    Kinds <- OneKind
    Versions <- TwoVersions
    FirstVersion <- First
    Budget = 1
    MaxChanges = 1
    BareVerdicts = FALSE
PROPERTY RollbackEarnsPointer
CHECK_DEADLOCK FALSE
