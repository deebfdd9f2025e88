SPECIFICATION FairPoolSpec
CONSTANTS
    N = 2
    Clients = {main}
    Main = main
    JobsOfMain = 1
    Jobs <- MCJobs
    Poison = poison
    None = none
PROPERTIES
    AbortReturns
CHECK_DEADLOCK FALSE
