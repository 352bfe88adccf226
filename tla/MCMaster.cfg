CONSTANTS
    MaxWorkerProcesses = 4
    NumListen = 2
    JobQLen = 2
    MaxEvents = 8
    HelloLen = 1
    Clients = {c1, c2, c3}
    None = None
    MaxLaunches = 2
    IdleTimeout = TRUE
    MayShutDown = TRUE
    Faults = {"accept", "launch", "recv", "crash"}
SPECIFICATION Spec
SYMMETRY Symmetry
CHECK_DEADLOCK FALSE
INVARIANTS WorkConserved FlowControl ParkedAreQueued EventsReachTheirOwner HandlesCounted DeathsAnnounced FreeSlotsReset
PROPERTY DispatchSpec
