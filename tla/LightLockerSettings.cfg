\* Every setting changes at run time, behind every other event.
SPECIFICATION Spec

CONSTANTS
    MaxMonitors = 1
    LockAfterValues <- MCLockAfterValues
    Settings <- Defaults
    Mutable <- AnySetting
    Starts <- AnyStart
    HasLid = TRUE
    InhibitFails = FALSE
    QueriesFail = TRUE
    MaxOneShots = 1
    MaxNotices = 1
    MaxFds = 3

INVARIANTS
    DeferredLockHasTrigger
    SuspendDelayedWhileUnlocked
    IdleHintTracksScreen

PROPERTIES
    ReleaseOnlyBehindLock
