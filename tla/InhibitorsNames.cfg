\* Clients that also give up a well-known name.
SPECIFICATION Spec

CONSTANTS
    c1 = c1
    c2 = c2
    Clients <- MCClients
    NoOne = NoOne
    CookieSpace = 3
    ReleaseNames = TRUE
    MaxInbox = 2

PROPERTY
    DisconnectedHaveLeft

CHECK_DEADLOCK FALSE
