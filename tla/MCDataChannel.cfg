SPECIFICATION FairSpec
CONSTANTS
    Client = Client
    Server = Server
    NoId = NoId
    a = a
    b = b
    n = n
    Channel = {a, b, n}
    Opener <- MCOpener
    Negotiated = {n}
    ChosenId <- MCChosenId
    MayClose = {Server}
    Closable = {a}
    MaxMessages <- MCMaxMessages
    MaxChannels = 2
INVARIANTS
    TypeOK
    MessagesRouted
    OpenAtBoth
    WiredBothWays
    ClosedIsDropped
PROPERTIES
    ChannelsOpen
CHECK_DEADLOCK FALSE
