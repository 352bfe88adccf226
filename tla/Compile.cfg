CONSTANTS
    Backdoor = TRUE
    StaleLocals = TRUE
    Caller = 9
    MaxCalls = 4
    MaxDepth = 3
SPECIFICATION Spec
CHECK_DEADLOCK FALSE
INVARIANTS NothingLeft EnvironmentBack 
PROPERTIES CrashesWithoutMap
