CONSTANTS
    Magic <- MCMagic
    IdLen = 2
    Bytes = {0, 1}
    MaxSent = 11
SPECIFICATION HelloSpec
CHECK_DEADLOCK FALSE
INVARIANTS OpenWhileRight IdsAsSent
