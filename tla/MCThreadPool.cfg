SPECIFICATION FairPoolSpec
CONSTANTS
    N = 2
    Clients = {main, tx}
    Main = main
    JobsOfMain = 2
    Jobs <- MCJobs
    Poison = poison
    None = none
INVARIANTS
    PoolTypeOK
    NoLostWakeup
    EveryItemIsInOnePlace
    JoinedAfterAllRan
PROPERTIES
    EveryJoinReturns
    AbortReturnsUnlessStranded
CHECK_DEADLOCK FALSE
