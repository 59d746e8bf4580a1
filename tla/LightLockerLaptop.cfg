\* A laptop with fixed settings: lid, seat, suspend, two monitors.
SPECIFICATION Spec

CONSTANTS
    MaxMonitors = 2
    LockAfterValues <- OneLockAfter
    Settings <- LaptopSettings
    Mutable <- NoSetting
    Starts <- AsAssumed
    HasLid = TRUE
    InhibitFails = FALSE
    QueriesFail = FALSE
    MaxOneShots = 1
    MaxNotices = 2
    MaxFds = 2

INVARIANTS
    TypeOK
    CopiesAgree
    SettledViewsAgree
    RequestOnlyWhenVisible
    NoTimedSwitchUnderClosedLid

PROPERTY
    KeepsPromise
