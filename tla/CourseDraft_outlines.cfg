\* A fork whose outline grows, drops and brings back a topic.
SPECIFICATION Spec
\* A draft may end: published, discarded, or refused for good.
CHECK_DEADLOCK FALSE
CONSTANTS
    MaxNode = 3
    Exams <- TheExam
    Outlines <- Growing
    FirstOutline <- TopicAndExam
    Versions <- OneVersion
    FirstVersion <- First
    Budget = 0
    MaxChanges = 0
    Forked = TRUE
PROPERTIES
    NoApprovalSurvives
    LoseApprovalTogether
