SPECIFICATION LinkSpec
CONSTANTS
    WindowSize = 2
    SnModulus = 4
    SnBytes = 2
    NackRange = 255
    SduSize <- FiveSmall
    Sdus <- MCSdus
    Pdus <- MCPdus
    TxMaxSize = 3
    RxMaxSize = 10
    Grants = {3}
    StatusGrants = {3, 6}
    PollPdu = 2
    PollByte <- Infinity
    MaxRetx = 2
    HarqProcesses = 2
    ReportProcesses = 2
    MayDuplicate = FALSE
    MayDiscard = FALSE
    MayReestablish = FALSE
INVARIANTS
    TxNextAckIsSmallestUnacked
    NoByteLost
    ReportsAreHonest
    TxAccountsInv
    ListsWellFormed
PROPERTIES
    ImplementsService
CHECK_DEADLOCK FALSE
