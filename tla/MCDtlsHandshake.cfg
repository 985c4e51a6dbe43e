SPECIFICATION FairSpec
CONSTANTS
    Client = client
    Server = server
    ServerStyles <- Styles
    MaxRetransmits = 2
    MaxFaults = 1
    MaxData = 1
    MayClose = {client}
INVARIANTS TypeOK Agreement FailsForCause TimerArmed
PROPERTIES HandshakeEnds Connects CloseHeard
CHECK_DEADLOCK FALSE
