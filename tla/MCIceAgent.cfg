SPECIFICATION FairSpec
CONSTANTS
    Controlling = controlling
    Controlled = controlled
    a1 = a1
    b1 = b1
    b2 = b2
    TransportsOf <- Transports
    Path <- Paths
    ChecksPerRound = 3
    MaxSetRemote = 1
    MaxFaults = 1
    MayClose = {controlled}
INVARIANTS TypeOK SelectionWorks OnePending
PROPERTIES RoundsEnd Connects
CHECK_DEADLOCK FALSE
