\* Two light-lockers and another screen saver start in any order; buses come and go.
SPECIFICATION FairSpec

CONSTANTS
    l1 = l1
    l2 = l2
    r = r
    Lockers <- MCLockers
    Rivals <- MCRivals
    NoOne = NoOne
    CallsFail = TRUE

INVARIANTS
    TypeOK
    OneScreenSaver
    RetryUntilBack

PROPERTIES
    Reconnects
    FirstNameGivenBack
