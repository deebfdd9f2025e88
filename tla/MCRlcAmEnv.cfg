SPECIFICATION LinkSpec
CONSTANTS
    WindowSize = 2
    SnModulus = 4
    SnBytes = 2
    NackRange = 255
    SduSize <- TwoOneOne
    Sdus <- MCSdus
    Pdus <- MCPdus
    TxMaxSize = 4
    RxMaxSize = 2
    Grants = {3, 5}
    StatusGrants = {9, 20}
    PollPdu <- Infinity
    PollByte = 2
    MaxRetx = 1
    HarqProcesses = 2
    ReportProcesses = 1
    MayDuplicate = TRUE
    MayDiscard = TRUE
    MayReestablish = TRUE
INVARIANTS
    NoByteLost
    TxAccountsInv
    ListsWellFormed
PROPERTIES
    ImplementsService
CHECK_DEADLOCK FALSE
CONSTRAINT UpToRlf
