CONSTANTS
    NSpace = 4
    Fds = {fd1}
    Interests = {readable, closed}
SPECIFICATION Spec
INVARIANT FreeRingExact
PROPERTIES AddIsWhereAnnounced PoolSpec
