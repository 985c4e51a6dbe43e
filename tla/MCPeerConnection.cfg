SPECIFICATION FairSpec
CONSTANTS
    Offerer = Offerer
    Answerer = Answerer
    MayClose = {Offerer, Answerer}
    MaxFailures = 2
INVARIANTS
    TypeOK
    RolesAgree
    StateTellsTruth
PROPERTIES
    Connects
CHECK_DEADLOCK FALSE
