SPECIFICATION RxSpec
CONSTANTS
    WindowSize = 3
    SnModulus = 6
    SnBytes = 2
    NackRange = 2
    Sdus = {payload}
    Pdus <- MCPdus
    EvenSize = 3
    OddSize = 1
    RxMaxSize = 5
    StatusGrants = {2, 3, 10, 30}
INVARIANTS
    RxTypeOK
    RxWindowOrdered
    RxEdgesNotDelivered
    RxTriggerNotOvertaken
    RxSizeInv
    HoleIsTimedOrReported
    ReceiverWalksAgree
    StatusWalkAgrees
    ReportIsExact
PROPERTIES
    WindowMovesForward
CHECK_DEADLOCK TRUE
