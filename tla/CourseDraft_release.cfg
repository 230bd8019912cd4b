SPECIFICATION Spec
CONSTANTS
    MaxNode = 2
    Exams <- TheExam
    Outlines <- OnlyThese
    FirstOutline <- TopicAndExam
    Versions <- TwoVersions
    FirstVersion <- First
    Budget = 1
    MaxChanges = 1
    Forked = FALSE
PROPERTY ReleaseFrees
CHECK_DEADLOCK FALSE
