\* Three revisions and one change: a rollback over a newer revision, and a fork
\* behind both.  Two revisions and two kinds: three changes between two versions each.
SPECIFICATION SceneSpec
\* A course may end: its only draft discarded, or every revision archived.
CHECK_DEADLOCK FALSE
CONSTANTS
    Scenes = {"lines", "rules"}
    MaxRevision = 3
    Kinds <- TwoKinds
    Versions <- TwoVersions
    FirstVersion <- First
    Budget = 1
    MaxChanges = 3
    BareVerdicts = TRUE
INVARIANTS
    TypeOK
    OneOpenDraft
    LiveIsServable
    SupersededWasServed
    NoShadowPublication
    OnAirIsVerified
PROPERTIES
    KeepsPromise
    PointerMovesToVerified
    JudgedWithdrawal
    SettlingDescends
    Settles
