\* A 1 s timer and a lid that is closed in the meantime.
SPECIFICATION Spec

CONSTANTS
    MaxMonitors = 1
    LockAfterValues <- OneLockAfter
    Settings <- Defaults
    Mutable <- NoSetting
    Starts <- AsAssumed
    HasLid = TRUE
    InhibitFails = FALSE
    QueriesFail = FALSE
    MaxOneShots = 1
    MaxNotices = 1
    MaxFds = 2

INVARIANTS
    NoRequestUnderClosedLid
