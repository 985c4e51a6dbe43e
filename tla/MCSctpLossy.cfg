SPECIFICATION Spec
CONSTANTS
    TSNMod = 8
    SSNMod = 2
    Client = Client
    Server = Server
    Stream = {s1}
    InitialTSN <- MCInitialTSN
    MAX_OOO_CHUNKS = 1
    MaxOffset = 3
    MaxAttempts = 1
    Losable = {}
    Duplicable = {"INIT", "INIT_ACK", "COOKIE_ECHO", "COOKIE_ACK", "DATA", "SACK", "SHUTDOWN", "SHUTDOWN_ACK"}
    Unordered = {FALSE}
    Prompt = FALSE
    MaxFragments = 2
    MaxChunks <- MCMaxChunks
    MayShutdown = {Client}
INVARIANTS
    TypeOK
    DeliveredInOrder
    InductiveInv
    DataAfterInit
    SetupTimed
    SetupAgreement
PROPERTIES
    ImplementsChannel
CHECK_DEADLOCK FALSE
