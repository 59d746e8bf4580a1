\* lock-after-screensaver set to 0 while the lock timer runs.
SPECIFICATION Spec

CONSTANTS
    MaxMonitors = 1
    LockAfterValues <- MCLockAfterValues

PROPERTIES
    ZeroDisablesLock
