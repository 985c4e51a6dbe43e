SPECIFICATION FairSpec
CONSTANTS
    TSNMod = 8
    SSNMod = 2
    Client = Client
    Server = Server
    Stream = {s1}
    InitialTSN <- MCInitialTSN
    MAX_OOO_CHUNKS = 2
    MaxOffset = 2
    MaxAttempts = 1
    Losable = {"INIT", "INIT_ACK", "COOKIE_ECHO", "COOKIE_ACK"}
    Duplicable = {}
    Unordered = {FALSE}
    Prompt = TRUE
    MaxFragments = 2
    MaxChunks <- MCMaxChunks
    MayShutdown = {Server}
PROPERTIES
    SetupEnds
    EverythingDelivered
CHECK_DEADLOCK FALSE
