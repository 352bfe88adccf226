CONSTANTS
    MaxObjects = 4
    Length = 1
    Kinds = {"portal", "tuptable", "tuple", "datum", "text", "string", "array"}
SPECIFICATION Spec
CHECK_DEADLOCK FALSE
INVARIANTS BodiesReadable ListIsExact SomethingToCollect
