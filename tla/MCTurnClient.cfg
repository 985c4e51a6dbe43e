SPECIFICATION FairSpec
CONSTANTS
    Ask = Ask
    Refresh = Refresh
    p = p
    Peer = {p}
    MaxNonce = 2
    MaxRepeats = 1
INVARIANTS
    TypeOK
    SettledForCause
    PendingTimed
PROPERTIES
    Settles
CHECK_DEADLOCK FALSE
