SPECIFICATION GatewaySpec
CHECK_DEADLOCK FALSE
CONSTANTS
    MaxNode = 2
    Exams = {2}
    Outlines = {}
    FirstOutline <- TopicAndExam
    Versions <- TwoVersions
    FirstVersion = "v1"
    Budget = 1
    MaxChanges = 1
    Forked = FALSE
    RateLimit = 1
    Briefs <- AllBriefs
    Valid = {"good", "barred", "noroom", "late"}
    Permitted = {"good", "invalid", "noroom", "late"}
    MayOutline = {"good", "invalid", "barred", "noroom"}
    Feasible = {"good", "invalid", "barred", "late"}
    Skeletons = {"sound", "unsound"}
    Sound = {"sound"}
    Guardrails <- TwoVersions
    FirstGuardrail = "v1"
    RetryBudget = 1
    MaxRollouts = 1
    Wordings = {"welcome", "correction"}
    Enrolments = {2, 3}
    Screeners <- TwoVersions
    MaxConsents = 3
    MaxMoves = 2
INVARIANT ReleasedDraftKeepsKey
