SPECIFICATION LinkSpec
CONSTANTS
    WindowSize = 2
    SnModulus = 4
    SnBytes = 2
    NackRange = 255
    SduSize <- OneThenThree
    Sdus <- MCSdus
    Pdus <- MCPdus
    TxMaxSize = 10
    RxMaxSize = 10
    Grants = {3, 5}
    StatusGrants = {9, 20}
    PollPdu <- Infinity
    PollByte <- Infinity
    MaxRetx = 2
    HarqProcesses = 2
    ReportProcesses = 1
    MayDuplicate = FALSE
    MayDiscard = FALSE
    MayReestablish = FALSE
INVARIANTS
    LinkTypeOK
    NoByteLost
    ReportsAreHonest
    TxAccountsInv
    ListsWellFormed
    NothingGarbled
    ControlWalkAgrees
PROPERTIES
    ImplementsService
CHECK_DEADLOCK FALSE
CONSTRAINT UpToRlf
