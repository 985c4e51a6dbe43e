SPECIFICATION Spec
CONSTANTS
    Client = Client
    Server = Server
    NoId = NoId
    a = a
    b = b
    n = n
    Channel = {a}
    Opener <- MCOpener
    Negotiated = {}
    ChosenId <- MCChosenId
    MayClose = {}
    Closable = {a}
    MaxMessages <- MCNone
    MaxChannels = 2
INVARIANTS
    CloseLeavesNothing
CHECK_DEADLOCK FALSE
