SPECIFICATION FairSpec
CONSTANTS
    NWorkers = 4
    NQueues = 5
    MayThrow = {2, 5, 10}
    None = none
CHECK_DEADLOCK FALSE
INVARIANT JobsKeepTheirClients
INVARIANT CleanExit
PROPERTY SignalEndsProcess
