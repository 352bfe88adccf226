CONSTANTS
    MaxWorkerProcesses = 4
    NumListen = 1
    JobQLen = 1
    MaxEvents = 8
    HelloLen = 2
    Clients = {c1, c2, c3}
    None = None
    MaxLaunches = 2
    IdleTimeout = FALSE
    MayShutDown = TRUE
    Faults = {}
SPECIFICATION FairSpec
CHECK_DEADLOCK FALSE
PROPERTY EveryJobDone
