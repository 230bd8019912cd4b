\* A topic and its exam, one retry, two rule changes.
SPECIFICATION Spec
\* A draft may end: published, discarded, or refused for good.
CHECK_DEADLOCK FALSE
CONSTANTS
    MaxNode = 2
    Exams <- TheExam
    Outlines <- OnlyThese
    FirstOutline <- TopicAndExam
    Versions <- TwoVersions
    FirstVersion <- First
    Budget = 1
    MaxChanges = 2
    Forked = FALSE
INVARIANTS
    TypeOK
    ReviewedWhole
    HeldIsVisible
    CheckedUnderRules
PROPERTIES
    FollowsLine
