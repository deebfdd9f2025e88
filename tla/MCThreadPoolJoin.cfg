SPECIFICATION MemSpec
CONSTANTS
    N = 2
    Clients = {main}
    Main = main
    Jobs <- MCJobs
    Poison = poison
    None = none
INVARIANTS
    JoinSeesResults
CHECK_DEADLOCK FALSE
