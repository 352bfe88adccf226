CONSTANTS
    HelloLen = 2
    MaxJobs = 2
    MaxCalls = 1
    MaxSignals = 1
    ExternalFDs = 1
    Faults = {"database", "connect", "load", "instantiate", "waitset", "context", "entry", "startup", "recvmsg", "guest", "timeout", "sigterm", "master"}
SPECIFICATION FairSpec
CHECK_DEADLOCK FALSE
INVARIANTS CleanBetweenJobs CrashesInTheWindow
PROPERTIES EveryJobEnds NotificationsHandled
