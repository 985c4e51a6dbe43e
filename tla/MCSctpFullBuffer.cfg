SPECIFICATION FairSpec
CONSTANTS
    TSNMod = 8
    SSNMod = 2
    Client = Client
    Server = Server
    Stream = {s1}
    InitialTSN <- MCInitialTSN
    MAX_OOO_CHUNKS = 1
    MaxOffset = 2
    MaxAttempts = 1
    Losable = {}
    Duplicable = {}
    Unordered = {FALSE}
    Prompt = TRUE
    MaxFragments = 2
    MaxChunks <- MCMaxChunks
    MayShutdown = {}
PROPERTY EverythingDelivered
CHECK_DEADLOCK FALSE
