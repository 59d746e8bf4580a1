\* Without a lid, under logind's protocol for suspending and with the X
\* server's screen saver: nobody is stranded in front of the lock windows, and
\* no suspend that waited finds them missing.
SPECIFICATION SaverFairSpec

CONSTANTS
    MaxMonitors = 1
    LockAfterValues <- OneLockAfter
    Settings <- Defaults
    Mutable <- SuspendSettings
    Starts <- AnyDesktopStart
    HasLid = FALSE
    InhibitFails = TRUE
    QueriesFail = FALSE
    MaxOneShots = 1
    MaxNotices = 1
    MaxFds = 2
    MaxSignals = 3
    SaverStarts <- SaverOff
    MaxEvents = 2

INVARIANTS
    BlankingSettles
    StrandedIsTimed

PROPERTIES
    Redirected
    SleepsBehindLock
