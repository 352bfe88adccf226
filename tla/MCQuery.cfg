CONSTANTS
    PgTypes <- AllPgTypes
    Declared <- MCDeclared
    MaxAlters = 1
SPECIFICATION Spec
CHECK_DEADLOCK FALSE
INVARIANTS OnlyNullsMisread UnwrittenNeverLoaded PlansAreTiled
