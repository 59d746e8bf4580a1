\* GSManager and its windows under a most general caller.
SPECIFICATION WindowsFairSpec

CONSTANTS
    MaxMonitors = 3
    LockAfterValues <- MCLockAfterValues
    Layouts <- MCLayouts

INVARIANTS
    TypeOK
    TimersJustified
    EveryMonitorCovered
    ScreenCovered

PROPERTIES
    RedirectArmed
    LockArmed
    CoveredInTheEnd
