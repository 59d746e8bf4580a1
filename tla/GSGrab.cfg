\* The grabs of GSManager against two other clients.
SPECIFICATION FairSpec
CONSTANTS
    MaxMonitors = 3
    LockAfterValues <- MCLockAfterValues
    Rivals = {r1, r2}
    Root = Root
    None = None
    Retries = 4
INVARIANTS
    TypeOK
    HeldTogether
    UnlockedIsFree
    RecordTrusted
PROPERTIES
    LostOnlyWithWindow
    ActivationAnswers
    MoveEnds
    ImplementsGSManager
