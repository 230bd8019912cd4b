SPECIFICATION EnginesSpec
CHECK_DEADLOCK FALSE
CONSTANTS
    ExamTopics <- TopicsListed
    Happenings <- Menu
    FirstSteps <- Starts
    MaxLog = 4
    Items = {1, 2, 3}
    Skills = {"s1", "s2", "s3"}
    NoSkill = "none"
    Catalog = {"s1", "s2"}
    Objectives = {"s1"}
    Chunks = {"open", "hidden", "gone"}
    InKB = {"open", "hidden"}
    Hidden = {"hidden"}
    Contents <- OneChunk
    Outlines <- SmallOutlines
    MaxEdits = 1
    MaxOutlines = 2
    Rows <- StaleReview
    EngineNames <- EngineLiterals
    Rights = "no_permission_leak"
    Stores <- SmallStores
    MaxSteps = 2
    Top = 3
    Limit = 2
    PerBlock = 1
    PerMinute = 1
    Teams = {"sales", "support"}
    People <- Staff
    Questions <- SmallQuestions
INVARIANTS
    EachRevisionOnItsOwn
    SupersededWasServed
    PassedCourseIsWhole
    NothingWaitsForEver
    OneRowDecides
    RefusalNamesItsCause
