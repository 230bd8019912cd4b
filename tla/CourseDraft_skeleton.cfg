SPECIFICATION Spec
CONSTANTS
    MaxNode = 2
    Exams <- TheExam
    Outlines <- OnlyThese
    FirstOutline <- TopicAndExam
    Versions <- TwoVersions
    FirstVersion <- First
    Budget = 1
    MaxChanges = 0
    Forked = FALSE
INVARIANT SkeletonIsWritten
CHECK_DEADLOCK FALSE
