\* The same promise on a laptop, with the defaults.
SPECIFICATION FairSpec

CONSTANTS
    MaxMonitors = 1
    LockAfterValues <- OneLockAfter
    Settings <- Defaults
    Mutable <- NoSetting
    Starts <- AsAssumed
    HasLid = TRUE
    InhibitFails = FALSE
    QueriesFail = FALSE
    MaxOneShots = 1
    MaxNotices = 1
    MaxFds = 2

PROPERTIES
    Redirected
