SPECIFICATION Spec
CONSTANTS
    TSNMod = 8
    SSNMod = 2
    Client = Client
    Server = Server
    Stream = {s1}
    InitialTSN <- MCInitialTSN
    MAX_OOO_CHUNKS = 2
    MaxOffset = 2
    MaxAttempts = 1
    Losable = {}
    Duplicable = {"DATA"}
    Unordered = {FALSE}
    Prompt = TRUE
    MaxFragments = 2
    MaxChunks <- MCMaxChunks
    MayShutdown = {}
INVARIANT SackFits
CHECK_DEADLOCK FALSE
