\* One light-locker whose bus dies and returns.
SPECIFICATION Spec

CONSTANTS
    l1 = l1
    l2 = l2
    r = r
    Lockers <- OneLocker
    Rivals <- MCRivals
    NoOne = NoOne
    CallsFail = FALSE

INVARIANTS
    ReconnectedListens
