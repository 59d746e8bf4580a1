\* A light-locker-command process next to a client that inhibits, uninhibits,
\* guesses cookies, gives up names and leaves.
SPECIFICATION CommandFairSpec

CONSTANTS
    c1 = c1
    c2 = c2
    Clients <- MCClients
    Commands <- MCCommands
    NoOne = NoOne
    CookieSpace = 3
    ReleaseNames = TRUE
    MaxInbox = 2
    MaxCalls = 1

INVARIANTS
    TypeOK
    SuspendedWhileInhibited
    NoStaleInhibitor
    CommandInhibits

PROPERTIES
    OthersUntouched
    InhibitionEnds

\* Everybody may have left.
CHECK_DEADLOCK FALSE
